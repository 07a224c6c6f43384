----------------------------- MODULE EchoSelect -----------------------------
(* TP10-R/serEcho.c: one thread and select().  A ready client is read up to  *)
(* the end of a line, and gets its echo in the first scan in which select()  *)
(* found it writable.  Entry i of the tables is entry i - 1 of the program's.*)
EXTENDS EchoClients

VARIABLES
    client_sockets, \* a descriptor, or 0
    ecriture,       \* the descriptors watched for writing; all are for reading
    lcpy, ecpy,     \* what select() left of the two sets
    donnees         \* data_to_send, data_len bytes of it

selection == <<client_sockets, ecriture, lcpy, ecpy, donnees>>

InitSelect ==
    /\ client_sockets = [k \in 1..MAX |-> 0]
    /\ ecriture = {} /\ lcpy = {} /\ ecpy = {}
    /\ donnees = [k \in 1..MAX |-> <<>>]

lecture == Range(client_sockets) \ {0}
Vides == {k \in 1..MAX : client_sockets[k] = 0}

\* The scan goes on with the next entry that is ready, at k or after.
Avance(k) ==
    LET S == {j \in k..MAX : client_sockets'[j] \in lcpy' \cup ecpy'}
    IN  /\ etape' = IF S = {} THEN "attend" ELSE "scan"
        /\ i' = IF S = {} THEN 0 ELSE Premier(S)

\* A watched socket is always writable: its buffer is never full.  A client
\* that finds no place is closed at once.
select ==
    /\ etape = "attend"
    /\ lcpy' = {f \in lecture : Lisible(f)} /\ ecpy' = ecriture
    /\ attente # <<>> \/ lcpy' # {} \/ ecpy' # {}
    /\ \/ attente = <<>> /\ UNCHANGED <<clients, prises, client_sockets>>
       \/ /\ Vides # {} /\ accept
          /\ client_sockets' = [client_sockets EXCEPT ![Premier(Vides)] = FdLibre]
          /\ UNCHANGED <<lien, envoye, flux, echo>>
       \/ /\ Vides = {} /\ attente # <<>>
          /\ lien' = [lien EXCEPT ![Head(attente)] = "fini"] /\ attente' = Tail(attente)
          /\ UNCHANGED <<envoye, flux, echo, prises, client_sockets>>
    /\ Avance(1)
    /\ UNCHANGED <<buffer, ecriture, donnees>>

sd == client_sockets[i]

\* Mutant: what was read for another client stays in the buffer.
SansMemset == buffer
memset == <<>>

Commence ==
    /\ etape = "scan" /\ sd \in lcpy
    /\ etape' = "lit" /\ buffer' = memset
    /\ UNCHANGED <<clients, prises, i, selection>>

Recoit ==
    /\ etape = "lit" /\ DesOctets(sd)
    /\ Prend(sd) /\ buffer' = buffer \o Lu(sd)
    /\ IF FinDeLigne(buffer')
       THEN /\ donnees' = [donnees EXCEPT ![i] = buffer']
            /\ ecriture' = ecriture \cup {sd} /\ etape' = "ecrit"
       ELSE UNCHANGED <<donnees, ecriture, etape>>
    /\ UNCHANGED <<lien, envoye, echo, attente, prises, i, client_sockets, lcpy, ecpy>>

Deconnecte ==
    /\ etape = "lit" /\ RienALire(sd)
    /\ close(sd)
    /\ client_sockets' = [client_sockets EXCEPT ![i] = 0]
    /\ ecriture' = ecriture \ {sd}
    /\ donnees' = [donnees EXCEPT ![i] = <<>>] /\ etape' = "ecrit"
    /\ UNCHANGED <<envoye, flux, echo, attente, i, buffer, lcpy, ecpy>>

AEcrire == sd \in ecpy /\ donnees[i] # <<>>

\* The second half of the turn of entry i.
Ecrit ==
    /\ etape = "ecrit" \/ (etape = "scan" /\ sd \notin lcpy)
    /\ IF AEcrire
       THEN /\ lien[prises[sd]] \in {"ouvert", "ferme"}
            /\ send(sd, donnees[i])
            /\ donnees' = [donnees EXCEPT ![i] = <<>>] /\ ecriture' = ecriture \ {sd}
       ELSE UNCHANGED <<lien, echo, donnees, ecriture>>
    /\ UNCHANGED <<envoye, flux, attente, prises, buffer, client_sockets, lcpy, ecpy>>
    /\ Avance(i + 1)

\* A send() that fails is repeated, which raises SIGPIPE.
MeurtEnEcrivant ==
    /\ etape = "ecrit" \/ (etape = "scan" /\ sd \notin lcpy)
    /\ AEcrire /\ lien[prises[sd]] \in {"coupe", "rompu"}
    /\ etape' = "mort"
    /\ UNCHANGED <<clients, prises, i, buffer, selection>>

serEcho == select \/ Commence \/ Recoit \/ Deconnecte \/ Ecrit \/ MeurtEnEcrivant
=============================================================================
