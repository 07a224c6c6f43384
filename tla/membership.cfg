SPECIFICATION FairSpec
CONSTANTS
    a = a
    b = b
    n1 = n1
    n2 = n2
    Pairs = {a, b, n1, n2}
    Personne = personne
    IdMax = 4
    Tirages <- Tires
    Groupes <- Reseaux
    Nouveaux = {n1, n2}
    MAX_JOIN_ATTEMPTS = 2
    LIAISON_PORT = 5555
    Debris <- Epaves
    MaxPannes = 1
    MaxAnciens = 2
    MESS_SIZE = 255
    SIG_SIZE = 255
    CLE_SIZE = 60
    MTU = 1200
INVARIANTS
    TypeOK SoiEnTete ListeFidele VuesSinceres SymetrieAuRepos Fratrie
    IInvRelations
PROPERTIES
    EntreToujours
CHECK_DEADLOCK FALSE
