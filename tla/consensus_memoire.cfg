SPECIFICATION Spec
CONSTANTS
    Peers = {a, b, c}
    Outsiders = {}
    MaxTours = 1
    MaxParasites = 0
    Duplication = FALSE
INVARIANTS
    TableauSuffit
CHECK_DEADLOCK FALSE
