SPECIFICATION FairSpec
CONSTANTS
    Aucun = aucun
    NbJoueurs = 2
    NbTentatives = 1
    Capacite = 2
    MaxParties = 2
    MaxFd = 3
INVARIANTS
    TypeOK ClassementExact MemoireVivante IInv
PROPERTIES
    FinDePartie
CHECK_DEADLOCK FALSE
