SPECIFICATION FairSpec
CONSTANTS
    a = a
    b = b
    c = c
    Clients = {a, b, c}
    Personne = personne
    Programmes = {"serEcho", "servPoll", "poll_recv"}
    Bavards = {b}
    Partants = {b}
    MaxEnvois <- Envois
    MAX = 2
    MAX_POLL = 3
    SIZE = 3
    Plancher = 1
INVARIANTS
    TypeOK IInvFidele EchoPersonnel EchoFidele TableExacte
PROPERTIES
    EchoToujours
CHECK_DEADLOCK FALSE
