SPECIFICATION Spec
CONSTANTS
    p1 = p1
    p2 = p2
    p3 = p3
    Pairs = {p1, p2, p3}
    Ordre <- Trois
    Personne = personne
    Aucune = aucune
    Superviseurs = {p1}
    Quittent = {p2, p3}
    Bases = {0}
    Prix = {0, 1}
    MaxVentes = 1
    MaxCommandes = 2
    MaxPannes = 0
    Desordre = FALSE
INVARIANTS
    TypeOK Ententes CopieFidele DepartConnu
CHECK_DEADLOCK FALSE
