SPECIFICATION Spec
CONSTANTS
    a = a
    b = b
    c = c
    Clients = {a, b, c}
    Personne = personne
    Programmes = {"servPoll"}
    Bavards = {b}
    Partants = {b}
    MaxEnvois <- Envois
    MAX = 2
    MAX_POLL = 3
    SIZE = 3
    Plancher = 1
INVARIANTS
    SupprimerCetteConnexion
CHECK_DEADLOCK FALSE
