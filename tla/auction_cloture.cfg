SPECIFICATION Spec
CONSTANTS
    p1 = p1
    p2 = p2
    p3 = p3
    Pairs = {p1, p2}
    Ordre <- Deux
    Personne = personne
    Aucune = aucune
    Superviseurs = {p1, p2}
    Quittent = {}
    Bases = {0}
    Prix = {1}
    MaxVentes = 1
    MaxCommandes = 2
    MaxPannes = 0
    Desordre = FALSE
INVARIANTS
    ClotureParSuperviseur
CHECK_DEADLOCK FALSE
