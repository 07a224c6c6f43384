--------------------------- MODULE AuctionAccord ---------------------------
(* What the peers of an auction owe each other while no round gave one of    *)
(* them up: who may still answer whom, what the lists hold, and how a sale   *)
(* of one peer relates to the copies of the others.                          *)
EXTENDS Auction

\* The messages that a round puts to the others, and their acknowledgement.
Demandes == {10, 12, 13}
Accuse == {1}
Aucun(s, S) == \A k \in 1..Len(s) : s[k].code \notin S
AuPlusUn(s, S) ==
    \A k, l \in 1..Len(s) : s[k].code \in S /\ s[l].code \in S => k = l

\* A peer that is neither gone nor about to go.
Actif(q) == q \in Vivants /\ suite[q].but # "depart"

\* --- the rounds ---------------------------------------------------------------
\* A list names itself and everybody who is not leaving, each once.
ListeExacte(p) ==
    /\ \A i, j \in 1..liste[p].count : liste[p].slots[i] = liste[p].slots[j] => i = j
    /\ liste[p].count > 0
    /\ \A q \in Pairs : Actif(q) => q \in Ids(liste[p])

\* A round waits for the peers of the list and counts each once.
RondeExacte(p) ==
    /\ HorsConsensus(p) => suite[p].but = "rien"
    /\ EnRonde(p) =>
        LET f == Sommet(p)
            v == ventes[p][suite[p].rang]
        IN  /\ f.totalPeer = liste[p].count
            /\ f.ids \subseteq Autres(p) /\ f.total = Cardinality(f.ids)
            /\ suite[p].but # "rien" /\ f.m.code \in Demandes
            /\ suite[p].but = "depart" <=> f.m.code = 13
            /\ suite[p].but = "enchere" => f.m = copie[p] /\ f.m.code = 10
            /\ suite[p].but = "cloture" => f.m.code = 12
            /\ suite[p].but # "depart" => v.numv = f.m.numv
            /\ suite[p].but = "enchere" => v.sup = p
            /\ suite[p].but = "cloture" =>
                    \E a \in annonces : a.auteur = p /\ a.numv = v.numv

\* An answer on its way to p is one that its round still waits for.
RetourExact(p, q) == p \in Vivants /\ ~Aucun(net[<<q, p>>], Accuse) =>
    EnRonde(p) /\ q \in Autres(p) \ Sommet(p).ids /\ AuPlusUn(net[<<q, p>>], Accuse)

\* A question on its way to q is that of the round of p, and has no answer yet.
AllerExact(p, q) == Actif(q) =>
    /\ AuPlusUn(net[<<p, q>>], Demandes)
    /\ p \in Vivants => \A k \in 1..Len(net[<<p, q>>]) :
            net[<<p, q>>][k].code \in Demandes =>
                /\ EnRonde(p) /\ net[<<p, q>>][k] = Sommet(p).m
                /\ q \notin Sommet(p).ids /\ Aucun(net[<<q, p>>], Accuse)

\* Who answered a departure forgot the peer that leaves.
Repondu(p, q) == q \in Sommet(p).ids \/ ~Aucun(net[<<q, p>>], Accuse)
DepartExact(p, q) ==
    /\ Actif(p) => Aucun(net[<<p, q>>], {13})
    /\ EnRonde(p) /\ suite[p].but = "depart" /\ Repondu(p, q) => p \notin Ids(liste[q])
    /\ pc[p] = "parti" /\ Actif(q) => p \notin Ids(liste[q])

Rondes ==
    /\ \A p \in Pairs : ListeExacte(p) /\ RondeExacte(p)
    /\ \A p, q \in Pairs : p # q => RetourExact(p, q) /\ AllerExact(p, q) /\ DepartExact(p, q)

\* --- the numbers of the sales -------------------------------------------------
Connu(n) == n[2] <= Cardinality(Ventes(n[1]))

\* Everybody speaks of sales that were started; a supervisor has each of its
\* own once, and supervises it.
Numerotation ==
    /\ \A p \in Pairs : \A i \in 1..Len(ventes[p]) :
        LET v == ventes[p][i] IN
        /\ Connu(v.numv) /\ (v.numv[1] = p => v.sup = p)
        /\ \A j \in 1..Len(ventes[p]) : v.numv[1] = p /\ ventes[p][j].numv = v.numv => i = j
    /\ \A p, q \in Pairs : \A k \in 1..Len(net[<<p, q>>]) :
        LET m == net[<<p, q>>][k] IN
        /\ m.code \in {8, 9, 10, 12} => Connu(m.numv)
        /\ m.code = 12 => \E a \in annonces : a.auteur = p /\ a.numv = m.numv

\* --- the winner ---------------------------------------------------------------
\* What a supervisor announced of its own sale is closed, or about to be.
Annoncee(s, n) ==
    \/ pc[s] \in Sorties
    \/ \E j \in 1..Len(ventes[s]) : ventes[s][j].numv = n /\ ~ventes[s][j].active
    \/ EnRonde(s) /\ suite[s].but = "cloture" /\ ventes[s][suite[s].rang].numv = n
AnnoncesSures ==
    /\ \A a \in annonces : a.auteur \in Pairs /\ Annoncee(a.auteur, a.numv)
    /\ \A a, b \in annonces :
        a.auteur = a.numv[1] /\ b.auteur = b.numv[1] /\ a.numv = b.numv => a.gagnant = b.gagnant

\* --- the prices ---------------------------------------------------------------
\* The price that the others may have heard of for the sale j of s.
PrixConnu(s, j) ==
    IF EnRonde(s) /\ suite[s].but = "enchere" /\ suite[s].rang = j
    THEN copie[s].prix ELSE ventes[s][j].prix

\* A price that q has, or is about to have, for the sale n of s: s knows a price
\* as high, and a bid that q is about to hear of is not below.
Tenu(s, q, n, prix) ==
    /\ s \in Vivants => \E j \in 1..Len(ventes[s]) :
            ventes[s][j].numv = n /\ prix <= PrixConnu(s, j)
    /\ Actif(q) => \A k \in 1..Len(net[<<s, q>>]) :
            LET m == net[<<s, q>>][k] IN m.code = 10 /\ m.numv = n => prix <= m.prix
PrixSuivis == \A s, q \in Pairs : s # q =>
    /\ \A i \in 1..Len(ventes[q]) :
        LET v == ventes[q][i] IN v.sup = s => Tenu(s, q, v.numv, v.prix)
    /\ \A l \in 1..Len(net[<<s, q>>]) :
        LET m == net[<<s, q>>][l] IN m.code = 8 => Tenu(s, q, m.numv, m.prix)

\* --- the copies ---------------------------------------------------------------
\* What the round of s makes of the sale it is about.
Effet(s, v) ==
    IF suite[s].but = "enchere" THEN sale_update(v, copie[s].prix, copie[s].id)
    ELSE sale_close(v)

\* The copy that q has of the sale i of s is that of s, or what the round of s
\* is making of it: this one for sure when q answered.
CopieExacte(s, q) ==
    \A i \in 1..Len(ventes[s]) :
        LET v == ventes[s][i]
            j == find_sale(v.numv, ventes[q])
            enCours == EnRonde(s) /\ suite[s].rang = i
        IN  v.sup = s /\ j # 0 /\ ventes[q][j].sup = s =>
                \/ ventes[q][j] = v /\ ~(enCours /\ Repondu(s, q))
                \/ enCours /\ ventes[q][j] = Effet(s, v)

\* The start of a sale is read before what follows, and nothing happened to the
\* sale as long as it is not.
DebutExact(s, q) ==
    /\ EnRonde(s) /\ Repondu(s, q) => Aucun(net[<<s, q>>], {8})
    /\ \A k \in 1..Len(net[<<s, q>>]) :
        LET m == net[<<s, q>>][k] IN
        m.code = 8 =>
            /\ \E i \in 1..Len(ventes[s]) :
                    ventes[s][i] = sale_init(m.numv, m.prix, s, Personne)
            /\ \A l \in 1..(k - 1) : net[<<s, q>>][l].code \notin Demandes

Copies ==
    ~Desordre /\ ClotureParSuperviseur =>
        \A s, q \in Pairs : s # q /\ Actif(s) /\ Actif(q) => CopieExacte(s, q) /\ DebutExact(s, q)

Accord == Rondes /\ Numerotation /\ AnnoncesSures

\* While nobody was given up: a round only hears the acknowledgements of the
\* peers it still waits for, each once; whoever answered a departure dropped the
\* peer that leaves; and a supervisor announces one winner of its sale, which is
\* closed or about to be (consensus.c:149-299, udp_message_recv.c:148-254,
\* sale_process.c:260-317).
IInvAccord == perdus = {} => Accord

\* While nobody was given up, the price a peer has for a sale, or reads in the
\* start of one, is at most the price its supervisor knows, and at most that of
\* any bid of the supervisor that it has yet to read (sale_process.c:178-231,
\* udp_message_recv.c:140-199).
IInvPrix == perdus = {} => PrixSuivis

\* When datagrams keep their order, nobody was given up and only supervisors
\* close their sales, the copy that a peer has of a sale is its supervisor's,
\* or what the supervisor's round is about to make of it: this one for sure once
\* the peer has answered (sale_process.c:178-317, udp_message_recv.c:140-230).
IInvCopies == perdus = {} => Copies

\* What the peers of an auction owe each other: the three invariants of the
\* proofs together (udp_message_recv.c:140-254, sale_process.c:178-317).
Ententes == IInvAccord /\ IInvPrix /\ IInvCopies
=============================================================================
