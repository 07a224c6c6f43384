SPECIFICATION SpecThreads
CONSTANTS
    Aucun = aucun
    NbJoueurs = 3
    NbTentatives = 2
    Capacite = 2
    MaxEchecs = 1
    Fils = {t1, t2, t3}
    Principal = principal
    Personne = personne
    Tirages = {0, 1}
    Programmes = {"jeu_devin_moi", "test_var_cond", "test_mutex"}
    MaxReveils = 1
INVARIANTS
    IInv IInvCompteur VarFinale
PROPERTIES
    ClasseExactement Retourne Termine
CHECK_DEADLOCK FALSE
