SPECIFICATION Spec
CONSTANTS
    Aucun = aucun
    NbJoueurs = 2
    NbTentatives = 1
    Capacite = 1
    MaxParties = 2
    MaxFd = 3
INVARIANTS
    SocketsDesJoueurs
CHECK_DEADLOCK FALSE
