----------------------------- MODULE Membership -----------------------------
(* How peers find and join each other (launch/join.c): a newcomer asks the   *)
(* liaison group who is there, tries the peers that answered one after the   *)
(* other, and the first that accepts it, its sponsor, announces it to the    *)
(* peers it knows and hands it its list.  A sponsor serves one connection at *)
(* a time and does nothing else meanwhile; one recv() takes all that a       *)
(* connection delivered so far.  ListeFidele shows that what is read of a    *)
(* buffer is what was written unless the list is broken, so messages travel  *)
(* as they are; LitListeRompue reads the broken ones.                        *)
EXTENDS MessageFormats, FiniteSets

CONSTANTS
    Pairs,              \* the machines; each one's address is itself
    Personne,           \* nobody
    IdMax,              \* the largest identifier
    Tirages,            \* what rand() may give each peer for an identifier
    Groupes,            \* the members there may be already, in order
    Nouveaux,           \* the machines that may start
    MAX_JOIN_ATTEMPTS,
    LIAISON_PORT,
    Debris,             \* what an entry of a broken list may be read as
    MaxPannes,          \* bound on timeouts, refused buffers and broken lists
    MaxAnciens          \* these, and late answers, only in networks of fewer peers

ASSUME MembershipAssumption ==
    /\ Personne \notin Pairs /\ NUL \notin Pairs /\ Nouveaux \subseteq Pairs
    /\ IdMax \in Nat /\ \A p \in Pairs : Tirages[p] \subseteq 1..IdMax
    /\ \A g \in Groupes : g \in Seq(Pairs) /\ IsInjective(g) /\ Len(g) <= IdMax
    /\ MAX_JOIN_ATTEMPTS \in Nat \ {0} /\ MaxPannes \in Nat /\ MaxAnciens \in Nat

\* Identifiers are unsigned and wrap around to 0.
Ids == 0..IdMax

VARIABLES
    etape,      \* where each peer is
    essais,     \* attempt, of join_existing_network
    moi,        \* self_id
    vue,        \* the peers of the list; the first one is the peer itself
    enchere,    \* whether enchere_ip was filled
    candidats,  \* candidates not tried yet
    parrain,    \* the peer at the other end of tcp_sock, kept for the properties
    udp,        \* the datagrams in the liaison socket
    file,       \* the connections waiting on the listening socket
    service,    \* the connection being served
    recu,       \* what each send() of the sponsor left in the connection
    pannes      \* timeouts, refused buffers and broken lists so far

nouveau == <<essais, enchere, candidats, parrain>>
vars == <<etape, essais, moi, vue, enchere, candidats, parrain, udp, file,
          service, recu, pannes>>

\* No peer has a key: the array of the peers is the program's first malloc(), in
\* memory that is still zero, and the other entries come from initialised ones.
Pair(id, ip) == [id |-> id, ip |-> ip, port |-> LIAISON_PORT, cle |-> <<>>]
PairDe(m) == [id |-> m.id, ip |-> m.ip, port |-> m.port, cle |-> m.cle]
RienAServir == [de |-> Personne, vif |-> FALSE, pair |-> Pair(0, NUL), reste |-> {}]

\* The sockets of a peer that started answer, whatever its program does.
Ouvert(p) == etape[p] \notin {"absent", "mort"}
EnChemin == {"cherche", "essaie", "attend50", "attend7"}

\* The bound on what may still go wrong.
Anciens == {p \in Pairs : essais[p] = 0 /\ etape[p] # "absent"}
PetitReseau == Cardinality(Anciens) < MaxAnciens
Tolere(n) == n = 0 \/ (n <= MaxPannes /\ PetitReseau)
Va(p, e) == etape' = [etape EXCEPT ![p] = e]
-----------------------------------------------------------------------------
(* The list of the peers.                                                    *)
Rangs(l, id) == {i \in 1..Len(l) : l[i].id = id}
peer_list_find(l, id) == Rangs(l, id) # {}
Rang(l, id) == PlusPetit(Rangs(l, id))

\* The first peer of a list is never replaced.
peer_list_add(l, pair) ==
    IF ~peer_list_find(l, pair.id) THEN Append(l, pair)
    ELSE IF Rang(l, pair.id) = 1 THEN l
    ELSE [l EXCEPT ![Rang(l, pair.id)] = pair]

\* A peer of which code 6 says something known is replaced, the first one too.
handle_code6_message(l, pair) ==
    IF peer_list_find(l, pair.id)
    THEN [l EXCEPT ![Rang(l, pair.id)] = [@ EXCEPT !.ip = pair.ip, !.port = pair.port]]
    ELSE peer_list_add(l, pair)

\* Mutant: the newcomer keeps no entry of the list but its sponsor's.
ChargeUnSeul(l, msgs) == peer_list_add(l, Pair(msgs[2].id, msgs[2].ip))

\* The entries of a list are added one after the other.
peer_list_load(l, msgs) ==
    LET charge[k \in 0..msgs[1].nb] ==
            IF k = 0 THEN l ELSE peer_list_add(charge[k - 1], PairDe(msgs[k + 1]))
    IN  charge[msgs[1].nb]
-----------------------------------------------------------------------------
\* The members of a group know each other; the others did not start.
Rejoint(g, i) ==
    [k \in 1..Len(g) |-> LET j == IF k = 1 THEN i ELSE IF k <= i THEN k - 1 ELSE k
                        IN  Pair(j, g[j])]
Init ==
    /\ \E g \in Groupes :
        LET rang(p) == {i \in 1..Len(g) : g[i] = p} IN
        /\ etape = [p \in Pairs |-> IF rang(p) = {} THEN "absent" ELSE "boucle"]
        /\ moi = [p \in Pairs |-> IF rang(p) = {} THEN 0 ELSE PlusPetit(rang(p))]
        /\ vue = [p \in Pairs |-> IF rang(p) = {} THEN <<>>
                                  ELSE Rejoint(g, PlusPetit(rang(p)))]
        /\ enchere = [p \in Pairs |-> rang(p) # {}]
    /\ essais = [p \in Pairs |-> 0] /\ candidats = [p \in Pairs |-> <<>>]
    /\ parrain = [p \in Pairs |-> Personne]
    /\ udp = [p \in Pairs |-> {}] /\ file = [p \in Pairs |-> <<>>]
    /\ service = [p \in Pairs |-> RienAServir]
    /\ recu = [p \in Pairs |-> <<>>] /\ pannes = 0

\* A datagram to the group reaches the sockets of the others.
DemandeAuGroupe(p) ==
    udp' = [q \in Pairs |->
                IF q # p /\ Ouvert(q)
                THEN udp[q] \cup {[de |-> p, msg |-> rejoindre_enchere_mess1]}
                ELSE udp[q]]

\* main() up to the first request.
Demarre(p) ==
    /\ p \in Nouveaux /\ etape[p] = "absent"
    /\ \E id \in Tirages[p] :
        /\ moi' = [moi EXCEPT ![p] = id]
        /\ vue' = [vue EXCEPT ![p] = <<Pair(id, p)>>]
    /\ essais' = [essais EXCEPT ![p] = 1]
    /\ DemandeAuGroupe(p) /\ Va(p, "cherche")
    /\ UNCHANGED <<enchere, candidats, parrain, file, service, recu, pannes>>

\* During the second that follows, an answer makes a candidate; any other
\* datagram is read and dropped.
RecoitCandidat(p) ==
    /\ etape[p] = "cherche"
    /\ \E d \in udp[p] :
        /\ udp' = [udp EXCEPT ![p] = @ \ {d}]
        /\ candidats' = [candidats EXCEPT ![p] =
                IF d.msg.code = 4 THEN peer_list_add(@, PairDe(d.msg)) ELSE @]
    /\ UNCHANGED <<etape, essais, moi, vue, enchere, parrain, file, service, recu, pannes>>

\* Whether an answer is missing.
EnRetard(p) ==
    \/ \E d \in udp[p] : d.msg.code = 4
    \/ \E q \in Pairs : etape[q] \notin EnChemin /\ \E d \in udp[q] : d.de = p

\* The second is over, whatever answers are still on their way, or the last
\* candidate refused.
Essaie(p) ==
    \/ etape[p] = "essaie"
    \/ etape[p] = "cherche" /\ (EnRetard(p) => PetitReseau /\ pannes < MaxPannes)

\* The connection is made by the kernel of the candidate, and code 5 is sent,
\* whether or not its program looks; no one listens where the program ended.
Connecte(p) ==
    /\ Essaie(p) /\ candidats[p] # <<>>
    /\ LET s == Head(candidats[p]).ip
           demande == rejoindre_enchere_mess4(moi[p], vue[p][1].ip, vue[p][1].port, <<>>)
       IN  IF Ouvert(s)
           THEN /\ file' = [file EXCEPT ![s] = Append(@,
                               [de |-> p, vif |-> TRUE, msgs |-> Emis(<<demande>>)])]
                /\ parrain' = [parrain EXCEPT ![p] = s] /\ Va(p, "attend50")
           ELSE Va(p, "essaie") /\ UNCHANGED <<file, parrain>>
    /\ candidats' = [candidats EXCEPT ![p] = Tail(@)]
    /\ UNCHANGED <<essais, moi, vue, enchere, udp, service, recu, pannes>>

\* The main loop reads what is left in the liaison socket and drops all but
\* the requests; the answers that came too late are dropped here at once.
EntreDansLaBoucle(p) ==
    /\ Va(p, "boucle")
    /\ udp' = [udp EXCEPT ![p] = {d \in @ : d.msg.code = 3}]
    /\ candidats' = [candidats EXCEPT ![p] = <<>>]

\* Mutant: the attempts are not counted.
SansCompter(p) == [essais EXCEPT ![p] = @]
CompteEssai(p) == [essais EXCEPT ![p] = @ + 1]

\* Nobody accepted it: it asks again, then makes a network of its own.
Redemande(p) ==
    /\ Essaie(p) /\ candidats[p] = <<>> /\ essais[p] < MAX_JOIN_ATTEMPTS
    /\ essais' = CompteEssai(p)
    /\ DemandeAuGroupe(p) /\ Va(p, "cherche")
    /\ UNCHANGED <<moi, vue, enchere, candidats, parrain, file, service, recu, pannes>>
CreeReseau(p) ==
    /\ Essaie(p) /\ candidats[p] = <<>> /\ essais[p] = MAX_JOIN_ATTEMPTS
    /\ enchere' = [enchere EXCEPT ![p] = TRUE] /\ EntreDansLaBoucle(p)
    /\ UNCHANGED <<essais, moi, vue, parrain, file, service, recu, pannes>>
-----------------------------------------------------------------------------
(* The newcomer's side of the connection.                                    *)

\* Whether the other end is still open: the connection waits or is served.
Branche(p) ==
    \E s \in Pairs :
        \/ service[s].de = p /\ service[s].vif
        \/ \E i \in 1..Len(file[s]) : file[s][i].de = p /\ file[s][i].vif

\* close_socket(): what the sponsor still holds has nobody at the other end.
Raccroche(p) ==
    /\ file' = [s \in Pairs |-> [i \in 1..Len(file[s]) |->
                    IF file[s][i].de = p THEN [file[s][i] EXCEPT !.vif = FALSE]
                    ELSE file[s][i]]]
    /\ service' = [s \in Pairs |->
                    IF service[s].de = p THEN [service[s] EXCEPT !.vif = FALSE]
                    ELSE service[s]]
    /\ recu' = [recu EXCEPT ![p] = <<>>]

\* Mutant: code 51 changes self_id only.
ChangeSelfSeul(p, id) == moi' = [moi EXCEPT ![p] = id] /\ UNCHANGED vue
ChangeId(p, id) ==
    /\ moi' = [moi EXCEPT ![p] = id]
    /\ vue' = [vue EXCEPT ![p][1].id = id]

\* One recv() takes all the bytes that came; only the first message is read.
RecoitReponse(p) ==
    /\ etape[p] = "attend50" /\ recu[p] # <<>>
    /\ LET m == recu[p][1][1] IN
       IF m.code = 51 THEN ChangeId(p, m.id) ELSE UNCHANGED <<moi, vue>>
    /\ recu' = [recu EXCEPT ![p] = <<>>] /\ Va(p, "attend7")
    /\ UNCHANGED <<nouveau, udp, file, service, pannes>>

\* The sponsor closed, or the five seconds of JOIN_TIMEOUT are over.
Coupure(p) ==
    /\ recu[p] = <<>>
    /\ \/ ~Branche(p) /\ pannes' = pannes
       \/ Branche(p) /\ Tolere(pannes + 1) /\ pannes' = pannes + 1
    /\ Raccroche(p)
    /\ UNCHANGED <<moi, vue, essais, enchere, parrain>>
SansReponse(p) ==
    etape[p] = "attend50" /\ Va(p, "essaie") /\ Coupure(p) /\ UNCHANGED <<candidats, udp>>

\* It is a member even when no list came.
SansListe(p) == etape[p] = "attend7" /\ Coupure(p) /\ EntreDansLaBoucle(p)
handle_peer_list_sync(p) ==
    /\ etape[p] = "attend7" /\ recu[p] # <<>> /\ ~Rompue(recu[p][1])
    /\ IF recu[p][1][1].code = 7
       THEN /\ vue' = [vue EXCEPT ![p] = peer_list_load(@, recu[p][1])]
            /\ enchere' = [enchere EXCEPT ![p] = TRUE]
       ELSE UNCHANGED <<vue, enchere>>
    /\ Raccroche(p) /\ EntreDansLaBoucle(p)
    /\ UNCHANGED <<essais, moi, parrain, pannes>>

\* The header of a broken list promises more entries than are found in it, and
\* those found are others: what is read in their place is anything, here any of
\* Debris (an address where nobody is, is a machine that never starts).
LitListeRompue(p) ==
    /\ etape[p] = "attend7" /\ recu[p] # <<>> /\ Rompue(recu[p][1])
    /\ \E lus \in [1..recu[p][1][1].nb -> Debris] :
        vue' = [vue EXCEPT ![p] = peer_list_load(@, <<recu[p][1][1]>> \o lus)]
    /\ enchere' = [enchere EXCEPT ![p] = TRUE]
    /\ Raccroche(p) /\ EntreDansLaBoucle(p)
    /\ UNCHANGED <<essais, moi, parrain, pannes>>

\* Or the newcomer dies of reading past the end of the array; nothing is left to
\* be written in its connection.
MeurtDeLaListe(p) ==
    /\ etape[p] = "attend7" /\ recu[p] # <<>> /\ Rompue(recu[p][1])
    /\ Va(p, "mort")
    /\ file' = [file EXCEPT ![p] = <<>>] /\ udp' = [udp EXCEPT ![p] = {}]
    /\ recu' = [recu EXCEPT ![p] = <<>>]
    /\ UNCHANGED <<nouveau, moi, vue, service, pannes>>
-----------------------------------------------------------------------------
(* The main loop of a member.                                                *)

\* Who asks the group gets an answer in its own liaison socket, of use as long
\* as it did not enter the loop.
handle_udp_liaison(p) ==
    /\ etape[p] = "boucle"
    /\ \E d \in udp[p] :
        LET reponse == rejoindre_enchere_mess3(moi[p], vue[p][1].ip, vue[p][1].port) IN
        udp' = [q \in Pairs |->
            (udp[q] \ (IF q = p THEN {d} ELSE {})) \cup
            (IF q = d.de /\ etape[q] \in EnChemin
             THEN {[de |-> p, msg |-> reponse]} ELSE {})]
    /\ UNCHANGED <<etape, nouveau, moi, vue, file, service, recu, pannes>>

\* A known identifier is replaced by the next unknown one.
Suivant(id, k) == IF id + k > IdMax THEN id + k - IdMax - 1 ELSE id + k
Libres(l) == {id \in Ids : ~peer_list_find(l, id)}
NouvelId(l, id) == Suivant(id, PlusPetit({k \in Ids : Suivant(id, k) \in Libres(l)}))

Autre(p, id, q) == q.id # moi[p] /\ q.id # id

\* Mutant: the newcomer is announced to the sponsor's sponsor only.
PremierSeul(p, id) ==
    {k \in 1..Len(vue[p]) : k = 2 /\ Autre(p, id, vue[p][k])}

\* The places of the list whose peers a newcomer is announced to.
APrevenir(p, id) == {k \in 1..Len(vue[p]) : Autre(p, id, vue[p][k])}

\* The identifier a newcomer gets, and the answer to its code 5.  The loop that
\* looks for an unknown one does not end when none is left.  What accepts an
\* identifier was never initialised: struct2buf may refuse it.
Identifiants(p, id) ==
    IF ~peer_list_find(vue[p], id) THEN {id}
    ELSE {NouvelId(vue[p], t) : t \in {t \in Tirages[p] : Libres(vue[p]) # {}}}

Reponses(m, id) ==
    {Emis(<<r>>) : r \in IF id # m.id THEN {identifiant_non_valide(id)}
                         ELSE {[i EXCEPT !.code = 50] : i \in Indefinis}}

\* Nothing is sent of what was refused.
Transmet(c, envoi) ==
    /\ pannes' = IF envoi = Refus \/ Rompue(envoi) THEN pannes + 1 ELSE pannes
    /\ Tolere(pannes')
    /\ recu' = [recu EXCEPT ![c.de] =
                    IF c.vif /\ envoi # Refus THEN Append(@, envoi) ELSE @]

handle_new_peer_connection(p, c, m) ==
    \E id \in Identifiants(p, m.id) :
        /\ \E reponse \in Reponses(m, id) : Transmet(c, reponse)
        /\ service' = [service EXCEPT ![p] =
               [de |-> c.de, vif |-> c.vif, pair |-> [PairDe(m) EXCEPT !.id = id],
                reste |-> APrevenir(p, id)]]
        /\ Va(p, "annonce")

\* accept(), one recv() and the handler of what was read.
handle_incoming_tcp(p) ==
    /\ etape[p] = "boucle" /\ file[p] # <<>>
    /\ file' = [file EXCEPT ![p] = Tail(@)]
    /\ LET recue == Head(file[p])
           m == recue.msgs[1]
       IN  \/ m.code = 5 /\ handle_new_peer_connection(p, recue, m) /\ UNCHANGED vue
           \/ /\ m.code = 6
              /\ vue' = [vue EXCEPT ![p] = handle_code6_message(@, PairDe(m))]
              /\ UNCHANGED <<etape, service, recu, pannes>>
    /\ UNCHANGED <<nouveau, moi, udp>>

\* One turn of broadcast_to_peers; a peer that ended refuses the connection.
broadcast_to_peers(p) ==
    /\ etape[p] = "annonce" /\ service[p].reste # {}
    /\ LET q == vue[p][PlusPetit(service[p].reste)].ip
           n == service[p].pair
           annonce == rejoindre_enchere_mess5(n.id, n.ip, n.port, <<>>)
       IN  file' = IF Ouvert(q)
                   THEN [file EXCEPT ![q] = Append(@,
                               [de |-> p, vif |-> FALSE, msgs |-> Emis(<<annonce>>)])]
                   ELSE file
    /\ service' = [service EXCEPT ![p].reste = @ \ {PlusPetit(@)}]
    /\ UNCHANGED <<etape, nouveau, moi, vue, udp, recu, pannes>>

add_peer_to_list(p, pair) ==
    IF pair.id = moi[p] THEN vue[p] ELSE peer_list_add(vue[p], pair)

Listes(p, l) ==
    {Emis(msgs) : msgs \in {rejoindre_enchere_mess6(e, l, moi[p], NUL) : e \in Indefinis}}

\* The newcomer enters the list, which is sent to it.  The header of the list
\* may be refused like the answer.
send_peer_list(p) ==
    /\ etape[p] = "annonce" /\ service[p].reste = {}
    /\ vue' = [vue EXCEPT ![p] = add_peer_to_list(p, service[p].pair)]
    /\ \E liste \in Listes(p, vue'[p]) : Transmet(service[p], liste)
    /\ Va(p, "dort")
    /\ UNCHANGED <<nouveau, moi, udp, file, service>>

\* The second write to a connection that its client closed raises SIGPIPE,
\* which nothing handles: the sponsor dies, and its sockets with it.
Meurt(p) ==
    /\ etape[p] = "annonce" /\ service[p].reste = {} /\ ~service[p].vif
    /\ Va(p, "mort")
    /\ file' = [file EXCEPT ![p] = <<>>] /\ udp' = [udp EXCEPT ![p] = {}]
    /\ service' = [service EXCEPT ![p] = RienAServir]
    /\ UNCHANGED <<nouveau, moi, vue, recu, pannes>>

\* The end of sleep(1), and the connection is closed.
Reveil(p) ==
    /\ etape[p] = "dort" /\ Va(p, "boucle")
    /\ service' = [service EXCEPT ![p] = RienAServir]
    /\ UNCHANGED <<nouveau, moi, vue, udp, file, recu, pannes>>
-----------------------------------------------------------------------------
Rejoindre(p) ==
    \/ RecoitCandidat(p) \/ Connecte(p) \/ Redemande(p) \/ CreeReseau(p)
    \/ RecoitReponse(p) \/ SansReponse(p) \/ SansListe(p)
    \/ handle_peer_list_sync(p) \/ LitListeRompue(p) \/ MeurtDeLaListe(p)
Tourner(p) ==
    \/ handle_incoming_tcp(p) \/ broadcast_to_peers(p) \/ send_peer_list(p)
    \/ Meurt(p) \/ Reveil(p)

Next == \E p \in Pairs : Demarre(p) \/ Rejoindre(p) \/ handle_udp_liaison(p) \/ Tourner(p)

Spec == Init /\ [][Next]_vars

\* Each program goes on: its waits have an end, by an answer, by the end of the
\* connection or by their timeout, and its loop turns.
Continue(p) == Rejoindre(p) \/ handle_udp_liaison(p) \/ Tourner(p)
FairSpec == Spec /\ \A p \in Pairs : WF_vars(Continue(p))
-----------------------------------------------------------------------------
Etapes == EnChemin \cup {"absent", "boucle", "annonce", "dort", "mort"}
PairsPossibles == [id : Ids, ip : Pairs, port : {LIAISON_PORT}, cle : {<<>>}]

\* What a broken list is read as has the types of a list.
ASSUME DebrisAssumption == Debris \subseteq PairsPossibles /\ Debris # {}

\* Every variable keeps its type; in particular an entry that was not read from
\* a broken list (Debris) never has the empty address of a field nobody set.
TypeOK ==
    /\ etape \in [Pairs -> Etapes]
    /\ essais \in [Pairs -> 0..MAX_JOIN_ATTEMPTS]
    /\ moi \in [Pairs -> Ids] /\ enchere \in [Pairs -> BOOLEAN]
    /\ parrain \in [Pairs -> Pairs \cup {Personne}]
    /\ \A p \in Pairs :
        /\ \A i \in 1..Len(vue[p]) : vue[p][i] \in PairsPossibles
        /\ \A i \in 1..Len(candidats[p]) : candidats[p][i] \in PairsPossibles
        /\ service[p].de \in Pairs \cup {Personne}
        /\ etape[p] \in {"annonce", "dort"} => service[p].pair \in PairsPossibles
    /\ pannes \in 0..MaxPannes

\* The first entry of its list is the peer itself, under its present
\* identifier: join.c, peers.c and udp_message_recv.c all take peers[0] for it.
SoiEnTete ==
    \A p \in Pairs : Ouvert(p) => vue[p] # <<>> /\ vue[p][1].id = moi[p]

\* What a newcomer reads is what its sponsor wrote: the code and the identifier
\* of the answer, although it was never initialised and the list may come with
\* it, and the list entry for entry, although nothing separates its entries,
\* unless the key of its header, never initialised either, ends a line
\* (structs2buf, buf2struct, buf2structs).
ListeFidele ==
    /\ \A p \in Pairs : recu[p] # <<>> =>
        /\ PremierFidele(recu[p])
        /\ etape[p] = "attend7" /\ ~Rompue(recu[p][1]) => Transparent(recu[p])
    /\ \A s \in Pairs :
        LET p == service[s].de
            liste == Last(recu[p])
        IN  etape[s] = "dort" /\ service[s].vif /\ recu[p] # <<>> /\ pannes = 0 =>
                /\ liste[1].code = 7 /\ liste[1].nb = Len(liste) - 1
                /\ vue[s] = [i \in 1..liste[1].nb |-> PairDe(liste[i + 1])]

\* Nobody is being served, and every announcement was read.
Repos ==
    /\ \A p \in Pairs : etape[p] \in {"absent", "boucle", "mort"}
    /\ \A p \in Pairs : file[p] = <<>>
Connait(p, q) == \E i \in 1..Len(vue[p]) : vue[p][i].id = moi[q] /\ vue[p][i].ip = q
Membres == {p \in Pairs : Ouvert(p)}
IdsDistincts == \A p, q \in Membres : moi[p] = moi[q] => p = q

\* When nothing timed out and everybody is at rest, every entry of every list
\* is a peer under the identifier it has now: no identifier that was replaced
\* by code 51 stays behind in anybody's list.
VuesSinceres ==
    Repos /\ pannes = 0 =>
        \A p \in Membres : \A i \in 1..Len(vue[p]) : moi[vue[p][i].ip] = vue[p][i].id

\* Then, if moreover every list was read and no two peers drew one identifier,
\* two peers know each other or neither knows the other, however the joins
\* through several sponsors crossed.
SymetrieAuRepos ==
    Repos /\ pannes = 0 /\ IdsDistincts /\ (\A p \in Membres : enchere[p]) =>
        \A p, q \in Membres : Connait(p, q) => Connait(q, p)

\* And the peers that joined through one sponsor know each other and those it
\* knows from before them.
Fratrie ==
    Repos /\ pannes = 0 /\ IdsDistincts /\ (\A p \in Membres : enchere[p]) =>
        \A p, q \in Membres :
            parrain[p] # Personne /\ parrain[q] \in {parrain[p], Personne}
                /\ Connait(parrain[p], q) => Connait(p, q)

\* Every peer that starts enters the main loop in the end, as a member or in a
\* network of its own, whatever answers, lists and sponsors are lost.
EntreToujours ==
    []<>(\A p \in Pairs : etape[p] \notin EnChemin)
=============================================================================
