----------------------------- MODULE EchoClients -----------------------------
(* The connections of the small TCP servers that watch many clients in one   *)
(* thread (TP10-R/serEcho.c with select, TP10-R/servPoll.c and               *)
(* CM8-R/poll_recv.c with poll), as the kernel and the clients make them.    *)
(* None of the three programs starts another thread: each waits in one call  *)
(* for its listening socket and its clients, then scans what is ready.       *)
(* What a client sends comes in pieces, some of which end a line.            *)
EXTENDS Integers, SequencesExt

CONSTANTS
    Clients,
    Personne,       \* no client: a descriptor that is closed
    Programmes,     \* the servers to look at
    Bavards,        \* the clients that send before they got their echo
    Partants,       \* the clients that may leave
    MaxEnvois,      \* bound on the pieces of each client
    MAX,            \* the entries of the table of serEcho
    MAX_POLL,       \* those of servPoll and poll_recv (MAX and fd_size)
    SIZE            \* the pieces of a buffer, its last byte included

ASSUME EchoAssumption ==
    /\ Programmes \subseteq {"serEcho", "servPoll", "poll_recv"}
    /\ Personne \notin Clients /\ Bavards \subseteq Clients /\ Partants \subseteq Clients
    /\ MaxEnvois \in [Clients -> Nat \ {0}] /\ {MAX, MAX_POLL} \subseteq Nat \ {0, 1} /\ SIZE \in Nat \ {0, 1}

VARIABLES
    programme,  \* the server that runs
    lien,       \* each client's connection
    envoye,     \* the pieces each client sent
    flux,       \* those the server did not read
    echo,       \* those that came back
    attente,    \* the connections accept() did not take
    prises,     \* the client of each descriptor
    etape,      \* where the server is: it waits, scans, or reads a client
    i,          \* the entry being scanned
    buffer      \* what was read of the line

clients == <<lien, envoye, flux, echo, attente>>
serveur == <<prises, etape, i, buffer>>

\* The listening socket is descriptor 0; the smallest free one is taken first.
listener == 0
Fds == 1..(MAX + MAX_POLL)
Premier(S) == CHOOSE x \in S : \A y \in S : x <= y
FdLibre == Premier({f \in Fds : prises[f] = Personne})

InitClients ==
    /\ programme \in Programmes
    /\ lien = [c \in Clients |-> "dehors"]
    /\ envoye = [c \in Clients |-> <<>>] /\ flux = envoye /\ echo = envoye
    /\ attente = <<>> /\ prises = [f \in Fds |-> Personne]
    /\ etape = "attend" /\ i = 0 /\ buffer = <<>>
-----------------------------------------------------------------------------
(* The clients.                                                              *)
AuMilieu(c) == envoye[c] # <<>> /\ ~Last(envoye[c]).fin
ToutRevenu(c) == echo[c] = envoye[c]

Connecte(c) ==
    /\ lien[c] = "dehors"
    /\ lien' = [lien EXCEPT ![c] = "ouvert"] /\ attente' = Append(attente, c)
    /\ UNCHANGED <<envoye, flux, echo>>

\* A line is ended within the bound.  No echo is awaited of poll_recv.
Envoie(c, fin) ==
    LET m == [de |-> c, n |-> Len(envoye[c]) + 1, fin |-> fin] IN
    /\ lien[c] = "ouvert"
    /\ m.n < MaxEnvois[c] \/ (m.n = MaxEnvois[c] /\ fin)
    /\ AuMilieu(c) \/ ToutRevenu(c) \/ c \in Bavards \/ programme = "poll_recv"
    /\ envoye' = [envoye EXCEPT ![c] = Append(@, m)]
    /\ flux' = [flux EXCEPT ![c] = Append(@, m)]
    /\ UNCHANGED <<lien, echo, attente>>

\* A client that leaves what came back unread resets the connection.
Part(c) ==
    /\ c \in Partants /\ lien[c] = "ouvert"
    /\ \E fin \in {"ferme"} \cup (IF echo[c] # <<>> THEN {"coupe"} ELSE {}) :
        lien' = [lien EXCEPT ![c] = fin]
    /\ UNCHANGED <<envoye, flux, echo, attente>>

Agit(c) ==
    /\ Connecte(c) \/ (\E fin \in BOOLEAN : Envoie(c, fin)) \/ Part(c)
    /\ UNCHANGED <<programme, serveur>>
Termine(c) == AuMilieu(c) /\ Envoie(c, TRUE) /\ UNCHANGED <<programme, serveur>>
-----------------------------------------------------------------------------
(* The calls of a server on the descriptor f.                                *)
Lisible(f) == prises[f] # Personne
    /\ (flux[prises[f]] # <<>> \/ lien[prises[f]] # "ouvert")

\* Mutant: the last byte of the buffer, where the string ends, is read into too.
JusquAuBout == SIZE - Len(buffer)

\* recv() into what is left of the buffer.  It blocks when nothing came; a full
\* buffer, a connection that ended and a closed descriptor give no byte.
Place == SIZE - 1 - Len(buffer)
Lu(f) == LET x == flux[prises[f]] IN SubSeq(x, 1, IF Place < Len(x) THEN Place ELSE Len(x))
RienALire(f) == prises[f] # Personne /\ Place > 0 =>
                    flux[prises[f]] = <<>> /\ lien[prises[f]] # "ouvert"
DesOctets(f) == prises[f] # Personne /\ Place > 0 /\ flux[prises[f]] # <<>>
FinDeLigne(b) == \E k \in 1..Len(b) : b[k].fin
Prend(f) == flux' = [flux EXCEPT ![prises[f]] = SubSeq(@, Len(Lu(f)) + 1, Len(@))]

accept == /\ attente # <<>>
          /\ prises' = [prises EXCEPT ![FdLibre] = Head(attente)]
          /\ attente' = Tail(attente)

\* close() of a descriptor: the client sees the end of its connection.
close(f) ==
    /\ prises' = [prises EXCEPT ![f] = Personne]
    /\ lien' = IF prises[f] # Personne THEN [lien EXCEPT ![prises[f]] = "fini"] ELSE lien

\* send(): the first one after the client left is lost and answered by a
\* reset, the next fails, and one more raises SIGPIPE, which ends the server.
Suite == [dehors |-> "dehors", ouvert |-> "ouvert", ferme |-> "coupe",
          coupe |-> "rompu", rompu |-> "rompu", fini |-> "fini"]
send(f, b) ==
    IF prises[f] = Personne THEN UNCHANGED <<lien, echo>>
    ELSE LET client == prises[f] IN
         /\ lien' = [lien EXCEPT ![client] = Suite[@]]
         /\ echo' = [echo EXCEPT ![client] = IF lien[client] = "ouvert" THEN @ \o b ELSE @]
SIGPIPE(f) == prises[f] # Personne /\ lien[prises[f]] = "rompu"
=============================================================================
