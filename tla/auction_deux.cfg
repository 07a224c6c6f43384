SPECIFICATION FairSpec
CONSTANTS
    p1 = p1
    p2 = p2
    p3 = p3
    Pairs = {p1, p2}
    Ordre <- Deux
    Personne = personne
    Aucune = aucune
    Superviseurs = {p1, p2}
    Quittent = {p1, p2}
    Bases = {0}
    Prix = {1}
    MaxVentes = 2
    MaxCommandes = 3
    MaxPannes = 1
    Desordre = FALSE
INVARIANTS
    IInv EncheresTraitees UnSeulGagnant
PROPERTIES
     VentesCloses SortieAboutit
CHECK_DEADLOCK FALSE
