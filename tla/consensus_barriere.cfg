SPECIFICATION FairSpec
CONSTANTS
    Peers = {a, b}
    Outsiders = {c}
    MaxTours = 2
    MaxParasites = 0
    Duplication = TRUE
INVARIANTS
    TypeOK DecompteExact
PROPERTIES
    AppelTermine
CHECK_DEADLOCK FALSE
