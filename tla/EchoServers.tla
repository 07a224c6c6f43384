----------------------------- MODULE EchoServers -----------------------------
(* One of the servers of EchoSelect and EchoPoll and its clients.            *)
EXTENDS EchoSelect, EchoPoll

vars == <<programme, clients, serveur, selection, table>>

Init == InitClients /\ InitSelect /\ InitPoll

Serveur ==
    /\ \/ programme = "serEcho" /\ serEcho /\ UNCHANGED table
       \/ programme = "servPoll" /\ servPoll /\ UNCHANGED selection
       \/ programme = "poll_recv" /\ poll_recv /\ UNCHANGED selection
    /\ UNCHANGED programme

Next ==
    \/ \E c \in Clients : Agit(c) /\ UNCHANGED <<selection, table>>
    \/ Serveur

Spec == Init /\ [][Next]_vars

\* The server runs, and a client that began a line ends it or leaves: without
\* that, recv() of half a line keeps any of the three from all other clients.
FairSpec ==
    /\ Spec /\ WF_vars(Serveur)
    /\ \A c \in Clients : WF_vars(Termine(c) /\ UNCHANGED <<selection, table>>)
-----------------------------------------------------------------------------
\* A connection ended, by its client or by the server.
Depart == \E c \in Clients : lien[c] \notin {"dehors", "ouvert"}
Etapes == {"attend", "scan", "lit", "ecrit", "mort"}

\* The tables keep their type: fd_count stays below the size of the table (that it
\* stays above -Plancher is a bound of the model), and an entry is scanned only
\* inside the table.
TypeOK ==
    /\ programme \in Programmes /\ etape \in Etapes
    /\ i \in 0..(IF programme = "serEcho" THEN MAX ELSE MAX_POLL) /\ (etape \in {"scan", "lit", "ecrit"} => i > 0)
    /\ lien \in [Clients -> DOMAIN Suite]
    /\ prises \in [Fds -> Clients \cup {Personne}]
    /\ client_sockets \in [1..MAX -> Fds \cup {0}]
    /\ \A k \in 1..MAX_POLL : pfds[k].fd \in Fds \cup {0}
    /\ ecriture \subseteq lecture /\ lcpy \subseteq Fds /\ ecpy \subseteq Fds
    /\ fd_count \in (-Plancher)..MAX_POLL /\ Len(buffer) < SIZE

\* No client ever gets a piece another one sent, although entries, descriptors
\* and buffers serve one client after the other, and servPoll's table goes wrong
\* once somebody left.
EchoPersonnel == \A c \in Clients : \A k \in 1..Len(echo[c]) : echo[c][k].de = c

\* What came back is in the order it was sent, each piece once.  It is all that
\* was sent up to there when the client waits for its echo; servPoll, which does
\* not listen to a client while its echo is due, needs no such client, but
\* promises nothing once a connection ended.
EchoFidele ==
    \/ programme = "servPoll" /\ Depart
    \/ \A c \in Clients :
        /\ \A k \in 2..Len(echo[c]) : echo[c][k - 1].n < echo[c][k].n
        /\ (c \notin Bavards \/ programme = "servPoll") => IsPrefix(echo[c], envoye[c])

\* The table of the server holds each open connection once and nothing else.
Entrees == IF programme = "serEcho" THEN {k \in 1..MAX : client_sockets[k] # 0}
           ELSE 2..fd_count
Descripteur(k) == IF programme = "serEcho" THEN client_sockets[k] ELSE pfds[k].fd
Ouverts == {f \in Fds : prises[f] # Personne}
Exacte ==
    /\ \A k, l \in Entrees : Descripteur(k) = Descripteur(l) => k = l
    /\ {Descripteur(k) : k \in Entrees} = Ouverts

\* So it is in serEcho and poll_recv, whatever connections come and go between
\* and during their scans, and in servPoll while all stay.
TableExacte == (programme = "servPoll" => ~Depart) => Exacte

\* A comment of servPoll (lines 116 and 131) says that a connection which ended
\* is taken out of the table: the table is exact then too.
SupprimerCetteConnexion == programme = "servPoll" => Exacte

\* A client that stays connected and was accepted does not wait for ever: its
\* line comes back (poll_recv: is read).  Not for a client that wrote again
\* before its echo to serEcho, which may have lost the line, nor after a
\* departure in the two programs with poll(), where the place of the one that
\* left makes a newcomer be read before it wrote.
EstAccepte(c) == \E f \in Fds : prises[f] = c
EnAttente(c) ==
    /\ lien[c] = "ouvert" /\ EstAccepte(c) /\ ~AuMilieu(c)
    /\ IF programme = "poll_recv" THEN flux[c] # <<>> ELSE echo[c] # envoye[c]
    /\ ~(programme = "serEcho" /\ c \in Bavards)
    /\ etape # "mort" /\ (programme = "serEcho" \/ ~Depart)
EchoToujours == \A c \in Clients : EnAttente(c) ~> ~EnAttente(c)
=============================================================================
