------------------------------ MODULE Auction ------------------------------
(* The main loop of every peer of the auction: the commands of its user, the *)
(* messages of the auction group, the two timers of a sale and the calls of  *)
(* consensus() that bids, closures and departures go through.  The datagrams *)
(* can be delayed and lost, and overtake one another when Desordre is TRUE;  *)
(* peers can leave and die.                                                  *)
EXTENDS ConsensusFrames, PeerLists, Sales, SequencesExt

CONSTANTS
    Pairs,          \* the ids of the peers
    Personne,       \* the id 0: no bidder, no supervisor
    Aucune,         \* the null pointer msg_copy starts with
    Ordre,          \* the order in which the peers joined
    Superviseurs,   \* the peers whose user starts sales
    Quittent,       \* the peers whose user may type exit
    Bases, Prix,    \* the prices users type for a sale and for a bid
    MaxVentes,      \* bound on the sales of each supervisor
    MaxCommandes,   \* bound on the commands that users type
    MaxPannes,      \* bound on the kills from outside and the datagrams lost
    Desordre        \* whether a datagram can overtake one of the same sender

ASSUME PairsAssumption ==
    /\ IsFiniteSet(Pairs) /\ Personne \notin Pairs
    /\ Ordre \in Seq(Pairs) /\ Pairs = {Ordre[i] : i \in 1..Len(Ordre)}
    /\ Len(Ordre) = Cardinality(Pairs)
    /\ Superviseurs \subseteq Pairs /\ Quittent \subseteq Pairs
ASSUME PrixAssumption == Bases \cup Prix \subseteq Nat /\ Desordre \in BOOLEAN
ASSUME BornesAssumption == {MaxVentes, MaxCommandes, MaxPannes} \subseteq Nat
\* Up to four peers this is what the code does; past three answers a certificate
\* reads unset memory, which Consensus models.  No proof cites this assumption.
ASSUME QuatrePairs == Cardinality(Pairs) <= 4

VARIABLES
    pc,         \* where each peer is
    ventes,     \* sales_list, the sales each peer knows
    vente,      \* -1, 2 when a sale of the peer runs, 3 when it was alerted
    due,        \* whether the timer that vente stands for has run out
    copie,      \* msg_copy, the last bid that was read
    liste,      \* the peer list of each peer
    frames,     \* the activations of consensus() of each peer
    suite,      \* what the peer does when consensus() returns
    net,        \* the datagrams on their way, for each sender and receiver
    infos,      \* the peers to which purely informative datagrams were sent
    commandes,  \* the number of commands typed
    pannes,     \* the number of peers killed from outside
    pertes,     \* the number of datagrams lost
    perdus,     \* the peers a consensus gave up (history)
    annonces    \* the closures announced (history)

vars == <<pc, ventes, vente, due, copie, liste, frames, suite, net, infos,
          commandes, pannes, pertes, perdus, annonces>>
boucle == <<ventes, vente, due, copie, liste, suite>>
histoire == <<commandes, pannes, pertes, annonces>>

Numeros == Superviseurs \X (1..MaxVentes)
Corps == [code : {8, 9, 10}, id : Pairs, numv : Numeros, prix : Bases \cup Prix]
Depart(p) == [code |-> 13, id |-> p]
Disparition(p, ids) == [code |-> 18, id |-> p, ids |-> ids]
Rien == [but |-> "rien", rang |-> 0]
Vivants == {p \in Pairs : pc[p] \notin {"parti", "sorti", "plante"}}
ListeDe(p) ==
    LET rang == Premier({i \in 1..Len(Ordre) : Ordre[i] = p})
    IN  [slots |-> <<p>> \o RemoveAt(Ordre, rang), count |-> Len(Ordre)]

Init ==
    /\ pc = [p \in Pairs |-> "boucle"]
    /\ ventes = [p \in Pairs |-> <<>>]
    /\ vente = [p \in Pairs |-> -1]
    /\ due = [p \in Pairs |-> FALSE]
    /\ copie = [p \in Pairs |-> Aucune]
    /\ liste = [p \in Pairs |-> ListeDe(p)]
    /\ frames = [p \in Pairs |-> <<>>]
    /\ suite = [p \in Pairs |-> Rien]
    /\ net = [c \in Pairs \X Pairs |-> <<>>] /\ infos = {}
    /\ commandes = 0 /\ pannes = 0 /\ pertes = 0 /\ perdus = {} /\ annonces = {}
-----------------------------------------------------------------------------
\* The datagrams on their way when q has sent m to the peers of D.
Envoye(n, q, D, m) ==
    [c \in Pairs \X Pairs |-> IF c[1] = q /\ c[2] \in D THEN Append(n[c], m) ELSE n[c]]

\* Mutant: a multicast comes back to its sender.
DiffuseBoucle(p, m) == Envoye(net, p, Vivants, m)

\* Loopback is off: a multicast goes to the other peers.
Diffuse(p, m) == Envoye(net, p, Vivants \ {p}, m)
Informe(p) == infos' = infos \cup (Vivants \ {p})

Prochains(c) == IF Desordre THEN DOMAIN c ELSE DOMAIN c \cap {1}

\* The datagrams p can read next: m is the k-th one on its way from src.
Lisibles(p) ==
    {[src |-> r[1], k |-> r[2], m |-> net[<<r[1], p>>][r[2]]] :
        r \in UNION {{q} \X Prochains(net[<<q, p>>]) : q \in Pairs}}
Lu(p, d) == [net EXCEPT ![<<d.src, p>>] = RemoveAt(@, d.k)]

\* The datagram is read and acknowledged to its sender.  (The acknowledgement
\* carries the message, which nobody compares: see Consensus.)
LuEtAccuse(p, d) == Envoye(Lu(p, d), p, {d.src} \cap Vivants, [code |-> 1])

\* The id in the first slot of the list, which me points to.
Moi(p) == liste[p].slots[1]

\* The rest of an iteration has nothing to do while no sale runs.
Apres(v, etape) == IF v = -1 THEN "boucle" ELSE etape

\* An iteration of the loop reads a command, then a datagram, then looks at
\* the timers and at the last bid.
PeutLire(p) == pc[p] \in {"boucle", "lu"}
PeutEcrire(p) == pc[p] \in {"boucle", "lu", "ecrit"}

\* --- the commands of the user ---------------------------------------------
\* sale_start: the number is the supervisor's id and its count of sales.
Ventes(p) == {i \in DOMAIN ventes[p] : ventes[p][i].numv[1] = p}
Derniere(p) == <<p, Cardinality(Ventes(p))>>

Tape(p) == pc[p] = "boucle" /\ commandes < MaxCommandes /\ commandes' = commandes + 1

sale_start(p, prix) ==
    /\ Tape(p) /\ p \in Superviseurs
    /\ Cardinality(Ventes(p)) < MaxVentes
    /\ LET numv == <<p, Cardinality(Ventes(p)) + 1>> IN
       IF peer_list_find(liste[p], p)
       THEN /\ ventes' = [ventes EXCEPT ![p] = Append(@, sale_init(numv, prix, p, Personne))]
            /\ net' = Diffuse(p, [code |-> 8, id |-> p, numv |-> numv, prix |-> prix])
            /\ vente' = [vente EXCEPT ![p] = 2]
            /\ due' = [due EXCEPT ![p] = FALSE]
            /\ pc' = [pc EXCEPT ![p] = "lu"]
       ELSE \* super is null
            /\ pc' = [pc EXCEPT ![p] = "plante"]
            /\ UNCHANGED <<ventes, net, vente, due>>
    /\ UNCHANGED <<copie, liste, frames, suite, infos, perdus, pannes, pertes, annonces>>

\* encherir, unless the sale is the last one of the peer in the first slot;
\* only self's slot holds a meaningful number.
encherir(p, numv, prix) ==
    /\ Tape(p)
    /\ ~(Moi(p) = p /\ Ventes(p) # {} /\ numv = Derniere(p))
    /\ LET i == find_sale(numv, ventes[p]) IN i # 0 /\ ventes[p][i].active
    /\ net' = Diffuse(p, [code |-> 9, id |-> p, numv |-> numv, prix |-> prix])
    /\ pc' = [pc EXCEPT ![p] = Apres(vente[p], "lu")]
    /\ UNCHANGED <<boucle, frames, infos, pannes, pertes, perdus, annonces>>

\* --- consensus() ------------------------------------------------------------
\* A call over n peers sends m unless n = 1; with no array to allocate (n < 1)
\* it then fails.  Either way its loop has nothing to wait for.
Envoi(p, m, n) == IF n = 1 THEN net ELSE Diffuse(p, m)

\* The main loop calls consensus(m) and goes on with s when it returns.
consensus(p, m, s) ==
    /\ pc' = [pc EXCEPT ![p] = "attente"]
    /\ frames' = [frames EXCEPT ![p] = <<consensus_frame(m, liste[p].count)>>]
    /\ suite' = [suite EXCEPT ![p] = s]
    /\ net' = Envoi(p, m, liste[p].count)

\* exit: the departure is put to consensus, and the program ends whatever the
\* outcome.
quitter_enchere(p) ==
    /\ Tape(p) /\ p \in Quittent
    /\ consensus(p, Depart(p), [but |-> "depart", rang |-> 0])
    /\ UNCHANGED <<ventes, vente, due, copie, liste, infos, perdus, pannes, pertes, annonces>>

Profondeur(p) == Len(frames[p])
Sommet(p) == frames[p][Profondeur(p)]
Autres(p) == Ids(liste[p]) \ {p}
Attend(p) == pc[p] = "attente" /\ ~Complet(Sommet(p))

\* What is read in a round is counted when it is a new acknowledgement, refused
\* when it is a bid (code 14), and starts the reminders when it is anything else.
RecoitAck(p, d) ==
    /\ Attend(p) /\ d \in Lisibles(p)
    /\ d.m.code = 1 /\ Acceptable(Sommet(p), d.src)
    /\ frames' = [frames EXCEPT ![p][Profondeur(p)] = Compte(@, d.src)]
    /\ net' = Lu(p, d)
    /\ UNCHANGED <<pc, boucle, infos, perdus, histoire>>

RefuseEnchere(p, d) ==
    /\ Attend(p) /\ d \in Lisibles(p)
    /\ d.m.code = 9
    /\ net' = Lu(p, d)
    /\ Informe(p)
    /\ UNCHANGED <<pc, boucle, frames, perdus, histoire>>

EntreSectionG(p) ==
    LET attendus == doit_rep(Sommet(p), Autres(p)) IN
    IF Debordement(Sommet(p), Autres(p))
    THEN \E e \in {"relance", "plante"} : pc' = [pc EXCEPT ![p] = e]
    ELSE pc' = [pc EXCEPT ![p] = IF attendus = {} THEN "attente" ELSE "relance"]

RecoitAutre(p, d) ==
    /\ Attend(p) /\ d \in Lisibles(p)
    /\ d.m.code \notin {1, 9} \/ (d.m.code = 1 /\ ~Acceptable(Sommet(p), d.src))
    /\ net' = Lu(p, d)
    /\ EntreSectionG(p)
    /\ UNCHANGED <<boucle, frames, infos, perdus, histoire>>

\* Five seconds without a datagram, or an informative one.
Expire(p) ==
    /\ Attend(p)
    /\ EntreSectionG(p)
    /\ UNCHANGED <<boucle, frames, net, infos, perdus, histoire>>

\* Whatever answers a reminder is read through a null pointer.
RelanceRepondue(p) ==
    /\ pc[p] = "relance"
    /\ Lisibles(p) # {} \/ p \in infos
    /\ pc' = [pc EXCEPT ![p] = "plante"]
    /\ UNCHANGED <<boucle, frames, net, infos, perdus, histoire>>

\* No answer: the silent peers are announced, in the order of the list, by a
\* nested round; it never succeeds with more than 0, so the list is unchanged.
disparition_peer_lambda(p) ==
    /\ pc[p] = "relance"
    /\ LET ids == SelectSeq(Occupes(liste[p]),
                            LAMBDA q : q # p /\ pas_encore_rep(Sommet(p), q))
           f == [Sommet(p) EXCEPT !.disparus = doit_rep(Sommet(p), Autres(p))]
           m == Disparition(p, ids)
           n == f.totalPeer - Len(ids)
       IN  /\ frames' = [frames EXCEPT ![p] =
                            Append([@ EXCEPT ![Profondeur(p)] = f], consensus_frame(m, n))]
           /\ net' = Envoi(p, m, n)
           /\ perdus' = perdus \cup f.disparus
    /\ pc' = [pc EXCEPT ![p] = "attente"]
    /\ UNCHANGED <<boucle, infos, histoire>>

\* --- what the main loop does when consensus() returns r ---------------------
\* Mutant: the supervisor forgets to record the bid that went through.
ApresEnchereOubliee(p, r) ==
    pc' = [pc EXCEPT ![p] = "boucle"] /\ UNCHANGED <<ventes, vente, due>>

\* A bid is recorded once it went through; a failure ends the program.
ApresEnchere(p, r) ==
    IF r < 0
    THEN pc' = [pc EXCEPT ![p] = "sorti"] /\ UNCHANGED <<ventes, vente, due>>
    ELSE /\ ventes' = [ventes EXCEPT ![p][suite[p].rang] =
                            sale_update(@, copie[p].prix, copie[p].id)]
         /\ pc' = [pc EXCEPT ![p] = "boucle"]
         /\ UNCHANGED <<vente, due>>

\* A sale is closed whether its closure went through or not.
ApresCloture(p) ==
    /\ ventes' = [ventes EXCEPT ![p][suite[p].rang] = sale_close(@)]
    /\ vente' = [vente EXCEPT ![p] = -1]
    /\ due' = [due EXCEPT ![p] = FALSE]
    /\ pc' = [pc EXCEPT ![p] = "boucle"]

ApresDepart(p) == pc' = [pc EXCEPT ![p] = "parti"] /\ UNCHANGED <<ventes, vente, due>>

\* The round is complete: its certificate is sent and the call returns.
Termine(p) ==
    /\ pc[p] = "attente" /\ Complet(Sommet(p))
    /\ IF Sommet(p).totalPeer > 1 THEN Informe(p) ELSE UNCHANGED infos
    /\ IF Profondeur(p) > 1
       THEN /\ frames' = [frames EXCEPT ![p] =
                            [i \in 1..(Len(@) - 1) |->
                                IF i = Len(@) - 1 THEN CompteDisparus(@[i]) ELSE @[i]]]
            /\ UNCHANGED <<pc, ventes, vente, due, suite>>
       ELSE /\ frames' = [frames EXCEPT ![p] = <<>>]
            /\ suite' = [suite EXCEPT ![p] = Rien]
            /\ \/ suite[p].but = "enchere"
                  /\ ApresEnchere(p, IF Sommet(p).totalPeer < 1 THEN -1 ELSE 0)
               \/ suite[p].but = "cloture" /\ ApresCloture(p)
               \/ suite[p].but = "depart" /\ ApresDepart(p)
    /\ UNCHANGED <<copie, liste, net, perdus, histoire>>
-----------------------------------------------------------------------------
\* --- the datagrams the main loop reads ---------------------------------------
\* The rest of the iteration runs with the value v of vente.
Lit(p, d, v) ==
    /\ PeutLire(p) /\ d \in Lisibles(p)
    /\ pc' = [pc EXCEPT ![p] = Apres(v, "ecrit")]

handle_sale_init(p, d) ==
    /\ d.m.code = 8
    /\ Lit(p, d, vente[p])
    /\ ventes' = [ventes EXCEPT ![p] =
                    Append(@, sale_init(d.m.numv, d.m.prix, d.m.id, Personne))]
    /\ net' = Lu(p, d)
    /\ UNCHANGED <<vente, due, copie, liste, frames, suite, infos, perdus, histoire>>

\* The supervisor of the sale at index i: that of an unknown sale is read before
\* the start of the array.
SuperviseurLu(l, i) == IF i = 0 THEN Pairs \cup {Personne} ELSE {l[i].sup}

\* Mutant: the delay of the sale is not started again.
ReveilSansDelai(p, s) ==
    vente' = [vente EXCEPT ![p] = IF s = p THEN 2 ELSE @] /\ UNCHANGED due

\* A bid on a sale of p, or on one taken for it, wakes its timer up.
Reveil(p, s) ==
    /\ vente' = [vente EXCEPT ![p] = IF s = p THEN 2 ELSE @]
    /\ due' = [due EXCEPT ![p] = @ /\ s # p]

\* A bid is kept as the last one whoever supervises its sale.  The first sale a
\* peer hears of this way has no supervisor.
handle_bid(p, d) ==
    /\ d.m.code = 9
    /\ ventes' = IF ventes[p] # <<>> THEN ventes
                 ELSE [ventes EXCEPT ![p] =
                        <<sale_init(d.m.numv, d.m.prix, Personne, Personne)>>]
    /\ \E s \in SuperviseurLu(ventes'[p], find_sale(d.m.numv, ventes'[p])) : Reveil(p, s)
    /\ Lit(p, d, vente'[p])
    /\ copie' = [copie EXCEPT ![p] = d.m]
    /\ net' = Lu(p, d)
    /\ UNCHANGED <<liste, frames, suite, infos, perdus, histoire>>

\* A bid the supervisor put to consensus: ignored when the sale is unknown,
\* recorded otherwise, and acknowledged unless the peer in the first slot
\* supervises the sale.
handle_new_bid(p, d) ==
    /\ d.m.code = 10
    /\ Lit(p, d, vente[p])
    /\ LET i == find_sale(d.m.numv, ventes[p]) IN
       IF i = 0
       THEN ventes' = ventes /\ net' = Lu(p, d)
       ELSE /\ ventes' = [ventes EXCEPT ![p][i] = sale_update(@, d.m.prix, d.m.id)]
            /\ net' = IF Moi(p) # ventes[p][i].sup THEN LuEtAccuse(p, d) ELSE Lu(p, d)
    /\ UNCHANGED <<vente, due, copie, liste, frames, suite, infos, perdus, histoire>>

\* A closure is acknowledged unless the peer in the first slot supervises the
\* sale.
handle_closure(p, d) ==
    /\ d.m.code = 12
    /\ Lit(p, d, vente[p])
    /\ LET i == find_sale(d.m.numv, ventes[p]) IN
       /\ ventes' = IF i = 0 THEN ventes
                    ELSE [ventes EXCEPT ![p][i] = sale_close(@)]
       /\ \E s \in SuperviseurLu(ventes[p], i) :
            net' = IF Moi(p) # s THEN LuEtAccuse(p, d) ELSE Lu(p, d)
    /\ UNCHANGED <<vente, due, copie, liste, frames, suite, infos, perdus, histoire>>

\* The first sale of the peer that leaves is closed; its departure is
\* acknowledged when it was in the list.
handle_peer_departure(p, d) ==
    /\ d.m.code = 13
    /\ Lit(p, d, vente[p])
    /\ LET i == is_superv(d.m.id, ventes[p]) IN
       ventes' = IF i = 0 THEN ventes ELSE [ventes EXCEPT ![p][i] = sale_close(@)]
    /\ liste' = [liste EXCEPT ![p] = peer_list_remove(@, d.m.id)]
    /\ net' = IF peer_list_find(liste[p], d.m.id) /\ liste'[p].slots[1] # d.m.id
              THEN LuEtAccuse(p, d) ELSE Lu(p, d)
    /\ UNCHANGED <<vente, due, copie, frames, suite, infos, perdus, histoire>>

\* Every peer announced leaves the list, the reader itself when it is one.
handle_disparition(p, d) ==
    /\ d.m.code = 18
    /\ Lit(p, d, vente[p])
    /\ liste' = [liste EXCEPT ![p] =
            LET l[k \in 0..Len(d.m.ids)] ==
                    IF k = 0 THEN @ ELSE peer_list_remove(l[k - 1], d.m.ids[k])
            IN  l[Len(d.m.ids)]]
    /\ net' = LuEtAccuse(p, d)
    /\ UNCHANGED <<ventes, vente, due, copie, frames, suite, infos, perdus, histoire>>

\* An acknowledgement that comes too late is read and forgotten.
OublieAck(p, d) ==
    /\ d.m.code = 1
    /\ Lit(p, d, vente[p])
    /\ net' = Lu(p, d)
    /\ UNCHANGED <<boucle, frames, infos, perdus, histoire>>

\* --- the end of an iteration --------------------------------------------------
\* Forty seconds without a bid: the closure is announced.
alerte_fin_enchere(p) ==
    /\ PeutEcrire(p) /\ vente[p] = 2 /\ due[p]
    /\ IF copie[p] # Aucune /\ find_sale(copie[p].numv, ventes[p]) = 0
       THEN UNCHANGED <<due, infos>>
       ELSE Informe(p) /\ due' = [due EXCEPT ![p] = FALSE]
    /\ vente' = [vente EXCEPT ![p] = 3]
    /\ pc' = [pc EXCEPT ![p] = "boucle"]
    /\ UNCHANGED <<ventes, copie, liste, frames, suite, net, perdus, histoire>>

\* The sale to close: the one of the last bid if it is active, or else the
\* first active one, whoever supervises it.
ACloturer(p) ==
    LET i == IF copie[p] = Aucune THEN 0 ELSE find_sale(copie[p].numv, ventes[p])
    IN  IF i # 0 /\ ventes[p][i].active THEN i ELSE PremiereActive(ventes[p])

Cloture(p, i) ==
    LET v == ventes[p][i]
    IN  [code |-> 12, id |-> IF v.tete # Personne THEN v.tete ELSE v.sup,
         numv |-> v.numv, prix |-> v.prix]

\* Thirty more seconds: the winner is put to consensus, then the sale closed.
finalisation_enchere(p) ==
    /\ PeutEcrire(p) /\ vente[p] = 3 /\ due[p]
    /\ LET i == ACloturer(p) IN
       IF i = 0
       THEN /\ vente' = [vente EXCEPT ![p] = -1]
            /\ due' = [due EXCEPT ![p] = FALSE]
            /\ pc' = [pc EXCEPT ![p] = "boucle"]
            /\ UNCHANGED <<frames, suite, net, annonces>>
       ELSE /\ consensus(p, Cloture(p, i), [but |-> "cloture", rang |-> i])
            /\ annonces' = annonces \cup
                    {[auteur |-> p, numv |-> ventes[p][i].numv, gagnant |-> Cloture(p, i).id]}
            /\ UNCHANGED <<vente, due>>
    /\ UNCHANGED <<ventes, copie, liste, infos, commandes, pannes, pertes, perdus>>

\* The last bid is refused when it is too low (code 15), put to consensus when
\* it is not; a bid on an unknown sale ends the program.
Acceptee(v, m) == m.prix > v.prix

verifier_enchere(p) ==
    /\ PeutEcrire(p) /\ vente[p] = 2 /\ ~due[p] /\ copie[p] # Aucune
    /\ LET i == find_sale(copie[p].numv, ventes[p])
           mienne == i # 0 /\ ventes[p][i].sup = Moi(p) /\ copie[p].code = 9
       IN  \/ /\ i = 0
              /\ pc' = [pc EXCEPT ![p] = "sorti"]
              /\ UNCHANGED <<copie, frames, suite, net, infos>>
           \/ /\ i # 0 /\ ~mienne
              /\ pc' = [pc EXCEPT ![p] = "boucle"]
              /\ UNCHANGED <<copie, frames, suite, net, infos>>
           \/ /\ mienne /\ ~Acceptee(ventes[p][i], copie[p])
              /\ pc' = [pc EXCEPT ![p] = "boucle"]
              /\ Informe(p)
              /\ UNCHANGED <<copie, frames, suite, net>>
           \/ /\ mienne /\ Acceptee(ventes[p][i], copie[p])
              /\ copie' = [copie EXCEPT ![p].code = 10]
              /\ consensus(p, copie'[p], [but |-> "enchere", rang |-> i])
              /\ UNCHANGED infos
    /\ UNCHANGED <<ventes, vente, due, liste, perdus, histoire>>

\* No timer has run out and there is no bid to look at.
RienAFaire(p) ==
    /\ pc[p] \in {"lu", "ecrit"}
    /\ ~due[p] /\ (vente[p] = 3 \/ copie[p] = Aucune)
    /\ pc' = [pc EXCEPT ![p] = "boucle"]
    /\ UNCHANGED <<boucle, frames, net, infos, perdus, histoire>>

\* The time a sale waits runs out while the loop turns.
Temps(p) ==
    /\ pc[p] = "boucle" /\ vente[p] # -1 /\ ~due[p]
    /\ due' = [due EXCEPT ![p] = TRUE]
    /\ UNCHANGED <<pc, ventes, vente, copie, liste, frames, suite, net, infos, perdus, histoire>>

Panne(p) ==
    /\ p \in Vivants /\ pannes + pertes < MaxPannes
    /\ pannes' = pannes + 1
    /\ pc' = [pc EXCEPT ![p] = "plante"]
    /\ UNCHANGED <<boucle, frames, net, infos, commandes, pertes, perdus, annonces>>
Perte(p, d) ==
    /\ d \in Lisibles(p) /\ pannes + pertes < MaxPannes
    /\ pertes' = pertes + 1
    /\ net' = Lu(p, d)
    /\ UNCHANGED <<pc, boucle, frames, infos, commandes, pannes, perdus, annonces>>
-----------------------------------------------------------------------------
Commande(p) ==
    \/ \E prix \in Bases : sale_start(p, prix)
    \/ \E numv \in Numeros, prix \in Prix : encherir(p, numv, prix)
    \/ quitter_enchere(p)
Lecture(p) == \E d \in Lisibles(p) :
    \/ handle_sale_init(p, d) \/ handle_bid(p, d) \/ handle_new_bid(p, d)
    \/ handle_closure(p, d) \/ handle_peer_departure(p, d)
    \/ handle_disparition(p, d) \/ OublieAck(p, d)
Ecriture(p) ==
    alerte_fin_enchere(p) \/ finalisation_enchere(p) \/ verifier_enchere(p) \/ RienAFaire(p)
Attente(p) ==
    (\E d \in Lisibles(p) : RecoitAck(p, d) \/ RefuseEnchere(p, d) \/ RecoitAutre(p, d)) \/ Expire(p)
Relance(p) == RelanceRepondue(p) \/ disparition_peer_lambda(p)

Next == \E p \in Pairs :
    \/ Commande(p) \/ Lecture(p) \/ Ecriture(p) \/ Temps(p)
    \/ Attente(p) \/ Relance(p) \/ Termine(p)
    \/ Panne(p) \/ \E d \in Lisibles(p) : Perte(p, d)

Spec == Init /\ [][Next]_vars

\* The program of a living peer goes on: select always finds the socket writable,
\* a datagram that is there is read, time passes, and a round waits five seconds
\* at most.
Continue(p) ==
    \/ Lecture(p) \/ Ecriture(p) \/ Temps(p)
    \/ Attente(p) \/ Relance(p) \/ Termine(p)
FairSpec == Spec /\ \A p \in Pairs : WF_vars(Continue(p))
-----------------------------------------------------------------------------
Sorties == {"parti", "sorti", "plante"}
Fiches == [numv : Numeros, prix : Bases \cup Prix, sup : Pairs \cup {Personne},
           tete : Pairs \cup {Personne}, active : BOOLEAN]

TypeOK ==
    /\ pc \in [Pairs -> {"boucle", "lu", "ecrit", "attente", "relance"} \cup Sorties]
    /\ ventes \in [Pairs -> Seq(Fiches)]
    /\ vente \in [Pairs -> {-1, 2, 3}]
    /\ due \in [Pairs -> BOOLEAN]
    /\ \A p \in Pairs : copie[p] \in Corps \cup {Aucune} /\ (due[p] => vente[p] # -1)
    /\ \A p \in Pairs : liste[p].count \in 0..Len(Ordre) /\ Ids(liste[p]) \subseteq Pairs
    /\ \A p \in Pairs : (frames[p] = <<>>) = (suite[p] = Rien)
    /\ \A p \in Pairs : pc[p] \in {"attente", "relance"} => frames[p] # <<>>
    /\ DOMAIN net = Pairs \X Pairs /\ \A p \in Pairs : net[<<p, p>>] = <<>>
    /\ infos \subseteq Pairs /\ perdus \subseteq Pairs
    /\ commandes \in 0..MaxCommandes /\ pannes \in 0..MaxPannes /\ pertes \in 0..MaxPannes

HorsConsensus(p) == pc[p] \in {"boucle", "lu", "ecrit"}

\* --- what the proofs need ---------------------------------------------------
Messages ==
    [code : {1}] \cup Corps \cup [code : {13}, id : Pairs]
    \cup [code : {12}, id : Pairs \cup {Personne}, numv : Numeros, prix : Bases \cup Prix]
Activations ==
    [m : Messages, totalPeer : Int, ids : SUBSET Pairs, total : Nat, disparus : SUBSET Pairs]
EnRonde(p) == pc[p] \in {"attente", "relance"}
Types ==
    /\ pc \in [Pairs -> {"boucle", "lu", "ecrit", "attente", "relance"} \cup Sorties]
    /\ ventes \in [Pairs -> Seq(Fiches)] /\ vente \in [Pairs -> {-1, 2, 3}]
    /\ due \in [Pairs -> BOOLEAN] /\ copie \in [Pairs -> Corps \cup {Aucune}]
    /\ liste \in [Pairs -> [slots : Seq(Pairs), count : Nat]]
    /\ frames \in [Pairs -> Seq(Activations)]
    /\ suite \in [Pairs -> [but : {"rien", "enchere", "cloture", "depart"}, rang : Nat]]

\* A sale and a bid that went through come from the supervisor whom the number
\* of the sale names, a departure from the peer that leaves.
DeLuiMeme(q, m) ==
    /\ m.code \in {8, 10} => m.numv[1] = q
    /\ m.code \in {8, 13} => m.id = q
ReseauSur(n) ==
    /\ n \in [Pairs \X Pairs -> Seq(Messages)]
    /\ \A q, p \in Pairs : \A k \in 1..Len(n[<<q, p>>]) : q # p /\ DeLuiMeme(q, n[<<q, p>>][k])

\* Each peer is the first of its list, and a sale has the supervisor its number
\* names, or none.
EnTete(p) ==
    liste[p].count <= Len(liste[p].slots) /\ liste[p].slots # <<>> /\ Moi(p) = p
VenteSure(v) == v.sup \in {Personne, v.numv[1]}
VentesSures(p) == \A i \in 1..Len(ventes[p]) : VenteSure(ventes[p][i])

\* A peer in a round has one activation, and reminds somebody when it reminds.
\* The round is about a sale of its list, and about a bid above its price.
RondeSure(p) ==
    /\ EnRonde(p) => Len(frames[p]) = 1
    /\ pc[p] = "relance" => doit_rep(Sommet(p), Autres(p)) # {}
SujetSur(p) == EnRonde(p) =>
    /\ suite[p].but \in {"enchere", "cloture"} => suite[p].rang \in 1..Len(ventes[p])
    /\ suite[p].but = "enchere" =>
            copie[p] \in Corps /\ ventes[p][suite[p].rang].prix < copie[p].prix

\* The last bid on a sale of p is not above its price, unless the iteration that
\* read it is about to look at it.
Decidee(p) ==
    LET i == find_sale(copie[p].numv, ventes[p]) IN
    copie[p] # Aucune /\ i # 0 /\ ventes[p][i].sup = Moi(p) /\ copie[p].code = 9 =>
        copie[p].prix <= ventes[p][i].prix
ADecider(p) == pc[p] \in {"lu", "ecrit"} /\ vente[p] = 2 /\ ~due[p]
DecisionPrise(p) == pc[p] \in Sorties \/ ADecider(p) \/ Decidee(p)

PairSur(p) ==
    /\ EnTete(p) /\ VentesSures(p) /\ RondeSure(p) /\ SujetSur(p) /\ DecisionPrise(p)
Coherence ==
    /\ Types /\ ReseauSur(net)
    /\ \A p \in Pairs : PairSur(p)

\* The invariant of the proofs, as long as no round gave a peer up.
IInv == perdus = {} => Coherence

\* As long as no round gave a peer up, a supervisor that is not in a round and
\* every peer that knows its sale and is not leaving agree on the price, the
\* leader and the state of the sale (sale_process.c:178-231, 260-317;
\* consensus.c:143).
CopieFidele ==
    perdus = {} =>
        \A s, q \in Vivants : (HorsConsensus(s) /\ suite[q].but # "depart") =>
            \A i \in DOMAIN ventes[s] :
                LET v == ventes[s][i]
                    j == find_sale(v.numv, ventes[q])
                IN  (v.sup = s /\ j # 0 /\ ventes[q][j].sup = s) => ventes[q][j] = v

\* A supervisor that waits in its loop while a sale runs has decided on the last
\* bid it read: none is lost between handle_bid and verifier_enchere
\* (main.c:142-191).
EncheresTraitees ==
    \A p \in Pairs : (pc[p] = "boucle" /\ copie[p] # Aucune) =>
        LET i == find_sale(copie[p].numv, ventes[p]) IN
        (i # 0 /\ ventes[p][i].sup = Moi(p) /\ copie[p].code = 9) =>
            copie[p].prix <= ventes[p][i].prix

\* A supervisor never announces a sale of its own with two different winners,
\* although bids cross its closure and change the closed sale.  Another peer can
\* announce the sale too, with another winner: see ClotureParSuperviseur
\* (sale_process.c:178-231, 260-317).
UnSeulGagnant ==
    \A a, b \in annonces :
        a.auteur = a.numv[1] /\ b.auteur = b.numv[1] /\ a.numv = b.numv =>
            a.gagnant = b.gagnant

PrixGarde(avant, apres) == apres.prix >= avant.prix /\ (apres.active => avant.active)


\* While no round gave a peer up, a peer that left through exit is in the list of
\* no peer that stays (main.c:119-131, udp_message_recv.c:232-254).
DepartConnu ==
    perdus = {} => \A p \in Pairs, q \in Vivants :
        (pc[p] = "parti" /\ suite[q].but # "depart") => p \notin Ids(liste[q])

\* The sales that are open for p.
Ouvertes(p) == {i \in DOMAIN ventes[p] : ventes[p][i].active}

\* Once users stop bidding, the timer of a living peer stops in the end, and it
\* closes a sale that is open for the peer when there is one: a sale that is
\* alone is closed.  No more is promised: one timer stands for all the sales of
\* a peer and stops with the first closure, so the others may stay open
\* (main.c:171-184, sale_process.c:260-317).
VentesCloses ==
    /\ [][\A p \in Vivants :
            vente[p] # -1 /\ vente'[p] = -1 /\ Ouvertes(p) # {} => Ouvertes(p)' # Ouvertes(p)]_vars
    /\ []<>(\A p \in Vivants : vente[p] = -1)

\* A command to leave always ends in the end of the program, also when several
\* peers leave at once, each in a round that swallows the departure of the others
\* (main.c:119-131).
SortieAboutit == []<>(\A p \in Vivants : suite[p].but # "depart")

\* The closure of a sale is announced by its supervisor: messages.h:205 says that
\* the message is sent by the supervisor of the sale.
ClotureParSuperviseur == \A a \in annonces : a.auteur = a.numv[1]
=============================================================================
