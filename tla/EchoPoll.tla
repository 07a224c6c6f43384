------------------------------ MODULE EchoPoll ------------------------------
(* TP10-R/servPoll.c and CM8-R/poll_recv.c: one thread and poll(), with a    *)
(* table of pollfd of which the first fd_count entries are watched.  The     *)
(* first is the listening socket; a client that leaves is taken out of the   *)
(* table while the table is scanned, up to its end by servPoll and up to *)
(* fd_count by poll_recv.  Entry i is entry i - 1 of the programs'.          *)
EXTENDS EchoClients

CONSTANT Plancher   \* fd_count is not followed below -Plancher

ASSUME PlancherAssumption == Plancher \in Nat

VARIABLES
    pfds,       \* the table, its unwatched entries included
    fd_count,
    buff_client \* what servPoll has to send, data_len bytes of it

table == <<pfds, fd_count, buff_client>>

Vide == [fd |-> 0, events |-> {}, revents |-> {}]
InitPoll ==
    /\ pfds = [k \in 1..MAX_POLL |-> IF k = 1 THEN [Vide EXCEPT !.events = {"POLLIN"}] ELSE Vide]
    /\ fd_count = 1 /\ buff_client = [k \in 1..MAX_POLL |-> <<>>]

Pret(f) == (IF f = listener THEN attente # <<>> ELSE Lisible(f))

\* A client is always writable.
Evenements(e) == {x \in e.events : x = "POLLOUT" \/ Pret(e.fd)}

\* The scan goes on with the next entry that has something to do, at k or after.
Passe(k, fin) ==
    LET S == {j \in k..fin : pfds'[j].revents # {}}
    IN  /\ etape' = IF S = {} THEN "attend" ELSE "scan"
        /\ i' = IF S = {} THEN 0 ELSE Premier(S)

\* A timeout of poll() changes nothing.
poll ==
    /\ etape = "attend"
    /\ \E k \in 1..fd_count : Evenements(pfds[k]) # {}
    /\ pfds' = [k \in 1..MAX_POLL |-> IF k > fd_count THEN pfds[k]
                                 ELSE [pfds[k] EXCEPT !.revents = Evenements(pfds[k])]]
    /\ UNCHANGED <<clients, prises, buffer, fd_count, buff_client>>

Lit == etape = "scan" /\ "POLLIN" \in pfds[i].revents
EstListener == pfds[i].fd = listener

APlace == fd_count < MAX_POLL

\* The new entry keeps the revents its place had.
accepte ==
    /\ Lit /\ EstListener
    /\ IF APlace
       THEN /\ accept /\ fd_count' = fd_count + 1
            /\ pfds' = [pfds EXCEPT ![fd_count + 1].fd = FdLibre,
                                    ![fd_count + 1].events = {"POLLIN"}]
       ELSE UNCHANGED <<attente, prises, pfds, fd_count>>
    /\ UNCHANGED <<lien, envoye, flux, echo, buffer, buff_client>>

Compte(n) == IF n > -Plancher THEN n - 1 ELSE n
-----------------------------------------------------------------------------
(* servPoll.                                                                 *)

\* What is after entry i moves by one.
Reorganise ==
    LET de(k) == IF k \in i..(fd_count - 1) THEN k + 1 ELSE k IN
    /\ pfds' = [k \in 1..MAX_POLL |-> pfds[de(k)]]
    /\ buff_client' = [k \in 1..MAX_POLL |-> buff_client[de(k)]]

Attend == poll /\ Passe(1, MAX_POLL)
Accepte == accepte /\ Passe(i + 1, MAX_POLL)

CommenceEcho ==
    /\ Lit /\ ~EstListener
    /\ etape' = "lit" /\ buffer' = <<>>
    /\ UNCHANGED <<clients, prises, i, table>>

\* Mutants: the client is read while its echo is due, or its echo is not due.
EcouteEncore == {"POLLIN", "POLLOUT"}
SansPollout == {"POLLIN"}
ApresLecture == {"POLLOUT"}
ApresEcho == {"POLLIN"}

RecoitEcho ==
    /\ etape = "lit" /\ DesOctets(pfds[i].fd)
    /\ Prend(pfds[i].fd) /\ buffer' = buffer \o Lu(pfds[i].fd)
    /\ IF FinDeLigne(buffer')
       THEN /\ buff_client' = [buff_client EXCEPT ![i] = buffer']
            /\ pfds' = [pfds EXCEPT ![i].events = ApresLecture] /\ Passe(i + 1, MAX_POLL)
       ELSE UNCHANGED <<buff_client, pfds, etape, i>>
    /\ UNCHANGED <<lien, envoye, echo, attente, prises, fd_count>>

\* The entry that takes the place of entry i is looked at next; when i was the
\* last one it is entry i again.
Retire ==
    /\ etape = "lit" /\ RienALire(pfds[i].fd)
    /\ close(pfds[i].fd)
    /\ Reorganise /\ fd_count' = Compte(fd_count) /\ Passe(i, MAX_POLL)
    /\ UNCHANGED <<envoye, flux, echo, attente, buffer>>

AEnvoyer == etape = "scan" /\ "POLLIN" \notin pfds[i].revents
Envoi ==
    /\ AEnvoyer
    /\ IF buff_client[i] = <<>> THEN UNCHANGED <<lien, echo>>
       ELSE ~SIGPIPE(pfds[i].fd) /\ send(pfds[i].fd, buff_client[i])
    /\ buff_client' = [buff_client EXCEPT ![i] = <<>>]
    /\ pfds' = [pfds EXCEPT ![i].events = ApresEcho] /\ Passe(i + 1, MAX_POLL)
    /\ UNCHANGED <<envoye, flux, attente, prises, buffer, fd_count>>
MeurtEnEnvoyant ==
    /\ AEnvoyer /\ buff_client[i] # <<>> /\ SIGPIPE(pfds[i].fd)
    /\ etape' = "mort"
    /\ UNCHANGED <<clients, prises, i, buffer, table>>

servPoll == Attend \/ Accepte \/ CommenceEcho \/ RecoitEcho \/ Retire \/ Envoi
            \/ MeurtEnEnvoyant
-----------------------------------------------------------------------------
(* poll_recv, which reads what came and answers nothing.                     *)
AttendLecture == poll /\ Passe(1, fd_count)
AccepteLecture == accepte /\ Passe(i + 1, fd_count')

RecoitUneFois ==
    /\ Lit /\ ~EstListener /\ DesOctets(pfds[i].fd)
    /\ Prend(pfds[i].fd)
    /\ UNCHANGED table /\ Passe(i + 1, fd_count)
    /\ UNCHANGED <<lien, envoye, echo, attente, prises, buffer>>

\* Mutant: the table is made shorter, and nothing takes the place.
SansRemplacer == pfds
Remplace == [pfds EXCEPT ![i] = pfds[fd_count]]

RetireLecture ==
    /\ Lit /\ ~EstListener /\ RienALire(pfds[i].fd)
    /\ close(pfds[i].fd)
    /\ pfds' = Remplace /\ fd_count' = fd_count - 1 /\ Passe(i + 1, fd_count')
    /\ UNCHANGED <<envoye, flux, echo, attente, buffer, buff_client>>

poll_recv == AttendLecture \/ AccepteLecture \/ RecoitUneFois \/ RetireLecture
=============================================================================
