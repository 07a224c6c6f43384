----------------------------- MODULE EchoAccord -----------------------------
(* What the tables and buffers of the servers of EchoServers hold for whom.  *)
EXTENDS EchoServers

\* The pieces of clients, and a sequence of those of the client c.
Pieces == [de : Clients, n : Nat, fin : BOOLEAN]
DeLui(s, c) == \A k \in 1..Len(s) : s[k].de = c
Types ==
    /\ programme \in Programmes /\ etape \in Etapes
    /\ lien \in [Clients -> DOMAIN Suite]
    /\ envoye \in [Clients -> Seq(Pieces)] /\ flux \in [Clients -> Seq(Pieces)]
    /\ echo \in [Clients -> Seq(Pieces)] /\ attente \in Seq(Clients)
    /\ prises \in [Fds -> Clients \cup {Personne}]
    /\ buffer \in Seq(Pieces) /\ Len(buffer) < SIZE

\* Each client gets and is read its own pieces.
Propres == \A c \in Clients : DeLui(flux[c], c) /\ DeLui(echo[c], c)

\* --- serEcho -------------------------------------------------------------------
TypesSelect ==
    /\ client_sockets \in [1..MAX -> Fds \cup {0}]
    /\ donnees \in [1..MAX -> Seq(Pieces)]
    /\ lcpy \subseteq Fds /\ ecpy \subseteq Fds
    /\ i \in 0..MAX /\ (etape \in {"scan", "lit", "ecrit"} => i > 0)

\* An entry in use names an open connection, each once, and what it has to send
\* came from there; so did the buffer while the entry is read.
EntreesSelect ==
    /\ Exacte /\ ecriture \subseteq lecture
    /\ \A k \in 1..MAX : donnees[k] # <<>> =>
            client_sockets[k] # 0 /\ DeLui(donnees[k], prises[client_sockets[k]])
    /\ etape = "scan" => sd # 0
    /\ etape = "lit" => sd # 0 /\ DeLui(buffer, prises[sd])
AccordSelect == TypesSelect /\ EntreesSelect

\* --- the table of pollfd -------------------------------------------------------
Conditions == {"POLLIN", "POLLOUT"}
TypesPoll ==
    /\ pfds \in [1..MAX_POLL ->
                    [fd : Fds \cup {0}, events : SUBSET Conditions, revents : SUBSET Conditions]]
    /\ buff_client \in [1..MAX_POLL -> Seq(Pieces)]
    /\ pfds[1].fd = listener
    /\ i \in 0..MAX_POLL /\ (etape \in {"scan", "lit"} => i > 0)
    /\ etape # "ecrit"

\* --- poll_recv -------------------------------------------------------------------
AccordLecture ==
    /\ TypesPoll /\ Exacte /\ fd_count \in 1..MAX_POLL
    /\ etape \in {"attend", "scan"} /\ buffer = <<>>
    /\ etape = "scan" => i <= fd_count

\* --- servPoll --------------------------------------------------------------------
\* What entry k has to send goes to who sent it.
Sien(k) == pfds[k].fd # 0 /\ DeLui(buff_client[k], prises[pfds[k].fd])
EnBalayage == etape \in {"scan", "lit", "mort"}

\* The entries in use name an open connection, each once.  What one of them is
\* to send comes from there, and so does the copy that the last one left past
\* fd_count when a departure in the same scan moved it.
EntreesPoll ==
    /\ Exacte /\ fd_count \in 1..MAX_POLL
    /\ \A k \in 2..fd_count : "POLLOUT" \in pfds[k].events => Sien(k)
    /\ \A k \in 2..fd_count : pfds[k].events \in {{"POLLIN"}, {"POLLOUT"}}
    /\ pfds[1].events = {"POLLIN"} /\ pfds[1].revents \subseteq {"POLLIN"}
    /\ \A k \in 2..MAX_POLL :
        /\ pfds[k].revents # {} => pfds[k].fd # 0 /\ (k > fd_count => Depart)
        /\ pfds[k].revents # {} /\ "POLLIN" \notin pfds[k].revents /\ buff_client[k] # <<>> =>
            /\ EnBalayage /\ k >= i /\ Sien(k)
            /\ k > fd_count => i > 1 /\ fd_count > 1 /\ pfds[k].fd = pfds[fd_count].fd

\* Past the last entry the scan finds a connection that is closed, and never
\* gets over it.
Condamne ==
    /\ EnBalayage /\ i > 1 /\ i >= fd_count /\ Depart
    /\ "POLLIN" \in pfds[i].revents
    /\ pfds[i].fd # 0 /\ prises[pfds[i].fd] = Personne
    /\ fd_count \in (-Plancher)..MAX_POLL
AccordPoll ==
    /\ TypesPoll
    /\ etape = "lit" => /\ "POLLIN" \in pfds[i].revents /\ pfds[i].fd # 0
                        /\ DeLui(buffer, prises[pfds[i].fd])
    /\ EnBalayage => pfds[i].revents # {}
    /\ EntreesPoll \/ Condamne

\* Whatever comes and goes, an entry of the tables and what is to be sent for it
\* belong to one client; a departure makes servPoll's table wrong only once its
\* scan is past the last entry, which it never leaves again (serEcho.c:137-219,
\* servPoll.c:75-190, poll_recv.c).
IInvEcho ==
    /\ Types /\ Propres
    /\ IF programme = "serEcho" THEN AccordSelect /\ InitPoll ELSE InitSelect
    /\ programme = "poll_recv" => AccordLecture
    /\ programme = "servPoll" => AccordPoll

\* --- what comes back -----------------------------------------------------------
\* Whose connection is whose: a client has one descriptor or waits for accept,
\* and has neither before it comes.
Uniques ==
    /\ \A f, g \in Fds : prises[f] = prises[g] /\ prises[f] # Personne => f = g
    /\ \A j, k \in 1..Len(attente) : attente[j] = attente[k] => j = k
    /\ \A j \in 1..Len(attente) : ~EstAccepte(attente[j]) /\ lien[attente[j]] # "dehors"
    /\ \A c \in Clients : EstAccepte(c) => lien[c] # "dehors"

\* The pieces of a client are numbered as it sends them.
Numerotes(s, n) ==
    /\ \A j, k \in 1..Len(s) : j < k => s[j].n < s[k].n
    /\ \A j \in 1..Len(s) : s[j].n <= n
Ecoute(c) == c \notin Bavards \/ programme = "servPoll"
Fidele(c) ==
    /\ \A j, k \in 1..Len(echo[c]) : j < k => echo[c][j].n < echo[c][k].n
    /\ Ecoute(c) => IsPrefix(echo[c], envoye[c])

\* From the echo back to the client: what entry k is to send, what was read of
\* the line, what was not read.  Of a client that is listened to, nothing else.
Du(k) == IF programme = "serEcho" THEN donnees[k] ELSE buff_client[k]
EnCours(k) == IF etape = "lit" /\ i = k THEN buffer ELSE <<>>
Client(k) == prises[Descripteur(k)]
Chemin(k) == echo[Client(k)] \o (Du(k) \o (EnCours(k) \o flux[Client(k)]))
Suit(c, s) == Numerotes(s, Len(envoye[c])) /\ (Ecoute(c) => s = envoye[c])
Present(c) == lien[c] \in {"dehors", "ouvert"}
Voie(k) == Present(Client(k)) => Suit(Client(k), Chemin(k))
Chemins ==
    /\ \A c \in Clients : Fidele(c) /\ \A j \in 1..Len(envoye[c]) : envoye[c][j].n = j
    /\ \A c \in Clients : Present(c) /\ ~EstAccepte(c) => echo[c] = <<>> /\ flux[c] = envoye[c]
    /\ \A k \in Entrees : Voie(k)

\* serEcho: a client that waits for its echo ends one line at a time, so that
\* nothing of it is left to read when its line is complete.
UneLigne(c) == \A j \in (Len(echo[c]) + 1)..(Len(envoye[c]) - 1) : ~envoye[c][j].fin
Patient(k) ==
    Client(k) \notin Bavards /\ Present(Client(k)) /\ Du(k) # <<>> =>
        flux[Client(k)] = <<>> /\ EnCours(k) = <<>> /\ ~AuMilieu(Client(k))
Patience ==
    /\ \A c \in Clients \ Bavards : Present(c) => UneLigne(c)
    /\ \A k \in Entrees : Patient(k)

\* servPoll, while nobody left: an entry that has something to send is not read.
Alternance ==
    /\ \A k \in 2..MAX_POLL : buff_client[k] # <<>> => k <= fd_count /\ pfds[k].events = {"POLLOUT"}
    /\ EnBalayage => \A k \in i..MAX_POLL : k > 1 => pfds[k].revents \subseteq pfds[k].events

\* Between what a client sent and what it got back the servers lose nothing and
\* reorder nothing of a client that is listened to (serEcho.c:137-219,
\* servPoll.c:75-190), whatever entries and descriptors serve whom.
IInvFidele ==
    /\ IInvEcho
    /\ programme = "poll_recv" => \A c \in Clients : echo[c] = <<>>
    /\ programme = "serEcho" => Uniques /\ Chemins /\ Patience
    /\ programme = "servPoll" /\ ~Depart => Uniques /\ Chemins /\ Alternance
=============================================================================
