SPECIFICATION Spec
CONSTANTS
    Peers = {a, b, c, d}
    Outsiders = {}
    MaxTours = 1
    MaxParasites = 1
    Duplication = FALSE
SYMMETRY Symetrie
INVARIANTS
    IInvRonde
PROPERTIES
    EstUneBarriere
CHECK_DEADLOCK FALSE
