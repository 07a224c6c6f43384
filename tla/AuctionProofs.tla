--------------------------- MODULE AuctionProofs ---------------------------
(* Proofs about Auction, for any number of peers, sales and prices, with     *)
(* datagrams that are lost and overtake one another and peers that die: the  *)
(* decisions and the prices of a supervisor, as long as no round gave a peer *)
(* up.  No proof needs QuatrePairs, but past four peers they are about the   *)
(* model only, as the certificates of the code are then undefined.           *)
EXTENDS Auction, SequenceTheorems, FiniteSetTheorems, WellFoundedInduction, TLAPS

\* A set of ranks has a smallest one.
Inferieur == {xy \in Nat \X Nat : xy[1] < xy[2]}
LEMMA BonOrdre == IsWellFoundedOn(Inferieur, Nat)
<1>1. Inferieur = OpToRel(<, Nat)
  BY Zenon DEF Inferieur, OpToRel
<1>. QED BY <1>1, NatLessThanWellFounded, Zenon

LEMMA Minimum ==
  ASSUME NEW S, S \subseteq Nat, S # {}
  PROVE  Premier(S) \in S /\ \A j \in S : Premier(S) <= j
<1>1. PICK x \in S : \A y \in S : ~(<<y, x>> \in Inferieur)
  BY BonOrdre, WFMin, Zenon
<1>2. \A y \in S : x <= y
  <2>. SUFFICES ASSUME NEW y \in S PROVE x <= y
    OBVIOUS
  <2>1. <<y, x>> \notin Inferieur
    BY <1>1
  <2>2. y < x => <<y, x>> \in Inferieur
    BY DEF Inferieur
  <2>. QED BY <2>1, <2>2
<1>. QED BY <1>2 DEF Premier

\* find_sale gives the first sale of that number, or 0.
LEMMA Trouvee ==
  ASSUME NEW l \in Seq(Fiches), NEW n
  PROVE  /\ find_sale(n, l) \in 0..Len(l)
         /\ find_sale(n, l) # 0 =>
                l[find_sale(n, l)].numv = n /\ \A j \in 1..(find_sale(n, l) - 1) : l[j].numv # n
         /\ find_sale(n, l) = 0 => \A j \in 1..Len(l) : l[j].numv # n
<1>. DEFINE S == {i \in DOMAIN l : l[i].numv = n}
<1>1. DOMAIN l = 1..Len(l) /\ Len(l) \in Nat
  BY LenProperties
<1>2. find_sale(n, l) = PremierRang(S)
  BY DEF find_sale
<1>3. CASE S = {}
  BY <1>1, <1>2, <1>3 DEF PremierRang
<1>4. CASE S # {}
  <2>1. PremierRang(S) = Premier(S)
    BY <1>4 DEF PremierRang, Premier
  <2>2. S \subseteq Nat
    BY <1>1
  <2>3. Premier(S) \in S /\ \A j \in S : Premier(S) <= j
    BY <1>4, <2>2, Minimum, Zenon
  <2>. DEFINE x == find_sale(n, l)
  <2>4. x \in S /\ \A j \in S : x <= j
    BY <1>2, <2>1, <2>3
  <2>5. x \in 1..Len(l) /\ l[x].numv = n
    BY <1>1, <2>4
  <2>6. \A j \in 1..(x - 1) : j \in 1..Len(l) /\ ~(x <= j)
    BY <1>1, <2>5
  <2>7. \A j \in 1..(x - 1) : l[j].numv # n
    BY <1>1, <2>4, <2>6
  <2>. QED BY <1>1, <2>5, <2>7
<1>. QED BY <1>3, <1>4

\* A new sale is found when no sale had its number.
LEMMA TrouveeApresAjout ==
  ASSUME NEW l \in Seq(Fiches), NEW v \in Fiches, NEW n
  PROVE  LET i == find_sale(n, Append(l, v)) IN
         IF find_sale(n, l) # 0 THEN i = find_sale(n, l)
         ELSE i # 0 => i = Len(l) + 1
<1>. DEFINE k == Append(l, v)
<1>1. k \in Seq(Fiches) /\ Len(k) = Len(l) + 1 /\ \A i \in 1..Len(l) : k[i] = l[i]
  BY AppendProperties
<1>2. Len(l) \in Nat
  BY LenProperties
<1>3. /\ find_sale(n, k) \in 0..Len(k)
      /\ find_sale(n, k) # 0 =>
             k[find_sale(n, k)].numv = n /\ \A j \in 1..(find_sale(n, k) - 1) : k[j].numv # n
      /\ find_sale(n, k) = 0 => \A j \in 1..Len(k) : k[j].numv # n
  BY <1>1, Trouvee
<1>4. /\ find_sale(n, l) \in 0..Len(l)
      /\ find_sale(n, l) # 0 =>
             l[find_sale(n, l)].numv = n /\ \A j \in 1..(find_sale(n, l) - 1) : l[j].numv # n
      /\ find_sale(n, l) = 0 => \A j \in 1..Len(l) : l[j].numv # n
  BY Trouvee
<1>. HIDE DEF k
<1>. DEFINE x == find_sale(n, l)
            y == find_sale(n, k)
<1>5. CASE x # 0
  <2>1. k[x].numv = n /\ \A j \in 1..(x - 1) : k[j].numv # n
    BY <1>1, <1>2, <1>4, <1>5
  <2>2. y # 0
    BY <1>1, <1>2, <1>3, <1>4, <1>5, <2>1
  <2>3. ~(y < x) /\ ~(x < y)
    BY <1>1, <1>2, <1>3, <1>4, <1>5, <2>1, <2>2
  <2>. QED BY <1>3, <1>4, <1>5, <2>3 DEF k
<1>6. CASE x = 0
  <2>1. \A j \in 1..Len(l) : k[j].numv # n
    BY <1>1, <1>4, <1>6
  <2>. QED BY <1>1, <1>2, <1>3, <1>6, <2>1 DEF k
<1>. QED BY <1>5, <1>6

\* A change that keeps the numbers of the sales changes no search.
LEMMA TrouveeApresChangement ==
  ASSUME NEW l \in Seq(Fiches), NEW k \in Seq(Fiches), NEW n, Len(k) = Len(l),
         \A i \in 1..Len(l) : k[i].numv = l[i].numv
  PROVE  find_sale(n, k) = find_sale(n, l)
<1>1. DOMAIN l = 1..Len(l) /\ DOMAIN k = 1..Len(l)
  BY LenProperties
<1>2. {i \in DOMAIN k : k[i].numv = n} = {i \in DOMAIN l : l[i].numv = n}
  BY <1>1
<1>. QED BY <1>2 DEF find_sale
-----------------------------------------------------------------------------
(* The network.                                                              *)

\* What is left of a sequence without one element was in it.
LEMMA Retrait ==
  ASSUME NEW S, NEW s \in Seq(S), NEW k \in 1..Len(s)
  PROVE  /\ RemoveAt(s, k) \in Seq(S)
         /\ \A j \in 1..Len(RemoveAt(s, k)) : \E i \in 1..Len(s) : RemoveAt(s, k)[j] = s[i]
<1>. DEFINE u == SubSeq(s, 1, k - 1)
            v == SubSeq(s, k + 1, Len(s))
<1>1. Len(s) \in Nat /\ \A i \in 1..Len(s) : s[i] \in S
  BY LenProperties, ElementOfSeq
<1>2. u \in Seq(S) /\ Len(u) = k - 1 /\ \A i \in 1..(k - 1) : u[i] = s[i]
  BY <1>1, SubSeqProperties
<1>3. v \in Seq(S) /\ Len(v) = Len(s) - k /\ \A i \in 1..(Len(s) - k) : v[i] = s[k + i]
  BY <1>1, SubSeqProperties
<1>. HIDE DEF u, v
<1>4. /\ u \o v \in Seq(S) /\ Len(u \o v) = Len(u) + Len(v)
      /\ \A i \in 1..(Len(u) + Len(v)) :
            (u \o v)[i] = IF i <= Len(u) THEN u[i] ELSE v[i - Len(u)]
  BY <1>2, <1>3, ConcatProperties
<1>5. \A j \in 1..Len(u \o v) : \E i \in 1..Len(s) : (u \o v)[j] = s[i]
  <2>. SUFFICES ASSUME NEW j \in 1..Len(u \o v) PROVE \E i \in 1..Len(s) : (u \o v)[j] = s[i]
    OBVIOUS
  <2>1. CASE j <= k - 1
    <3>1. (u \o v)[j] = s[j] /\ j \in 1..Len(s)
      BY <1>1, <1>2, <1>3, <1>4, <2>1
    <3>. QED BY <3>1
  <2>2. CASE ~(j <= k - 1)
    <3>1. (u \o v)[j] = v[j - (k - 1)] /\ j - (k - 1) \in 1..(Len(s) - k)
      BY <1>1, <1>2, <1>3, <1>4, <2>2
    <3>2. (u \o v)[j] = s[k + (j - (k - 1))] /\ k + (j - (k - 1)) \in 1..Len(s)
      BY <1>1, <1>3, <3>1
    <3>. QED BY <3>2
  <2>. QED BY <2>1, <2>2
<1>6. RemoveAt(s, k) = u \o v
  BY DEF RemoveAt, u, v
<1>. QED BY <1>4, <1>5, <1>6

\* What p can read was sent to it by another peer.
LEMMA LisibleDe ==
  ASSUME NEW p \in Pairs, NEW d \in Lisibles(p), ReseauSur(net)
  PROVE  /\ d.src \in Pairs /\ d.src # p /\ d.m \in Messages /\ DeLuiMeme(d.src, d.m)
         /\ d.k \in 1..Len(net[<<d.src, p>>])
<1>. DEFINE D(q) == {q} \X Prochains(net[<<q, p>>])
<1>a. PICK r \in UNION {D(q) : q \in Pairs} :
        d = [src |-> r[1], k |-> r[2], m |-> net[<<r[1], p>>][r[2]]]
  BY DEF Lisibles
<1>b. PICK q \in Pairs : r \in D(q)
  BY <1>a
<1>. DEFINE k == r[2]
<1>1. d = [src |-> q, k |-> k, m |-> net[<<q, p>>][k]] /\ k \in Prochains(net[<<q, p>>])
  BY <1>a, <1>b
<1>. HIDE DEF k
<1>2. net[<<q, p>>] \in Seq(Messages)
  BY DEF ReseauSur
<1>3. k \in 1..Len(net[<<q, p>>])
  BY <1>1, <1>2, LenProperties DEF Prochains
<1>4. net[<<q, p>>][k] \in Messages
  BY <1>2, <1>3, ElementOfSeq
<1>5. q # p /\ DeLuiMeme(q, net[<<q, p>>][k])
  BY <1>3 DEF ReseauSur
<1>. QED BY <1>1, <1>3, <1>4, <1>5

\* Reading a datagram adds none.
LEMMA LuSur ==
  ASSUME NEW p \in Pairs, NEW d \in Lisibles(p), ReseauSur(net)
  PROVE  ReseauSur(Lu(p, d))
<1>. DEFINE c == <<d.src, p>>
            s == net[c]
<1>1. d.src \in Pairs /\ d.src # p /\ d.k \in 1..Len(s) /\ c \in Pairs \X Pairs
  BY LisibleDe
<1>2. s \in Seq(Messages)
  BY <1>1 DEF ReseauSur
<1>3. /\ RemoveAt(s, d.k) \in Seq(Messages)
      /\ \A j \in 1..Len(RemoveAt(s, d.k)) : \E i \in 1..Len(s) : RemoveAt(s, d.k)[j] = s[i]
  <2>. DEFINE k == d.k
  <2>1. s \in Seq(Messages) /\ k \in 1..Len(s)
    BY <1>1, <1>2
  <2>. HIDE DEF s, k
  <2>2. /\ RemoveAt(s, k) \in Seq(Messages)
        /\ \A j \in 1..Len(RemoveAt(s, k)) : \E i \in 1..Len(s) : RemoveAt(s, k)[j] = s[i]
    BY <2>1, Retrait
  <2>. QED BY <2>2 DEF k
<1>4. Lu(p, d) = [net EXCEPT ![c] = RemoveAt(s, d.k)]
  BY DEF Lu
<1>5. Lu(p, d) \in [Pairs \X Pairs -> Seq(Messages)]
  BY <1>3, <1>4 DEF ReseauSur
<1>6. ASSUME NEW q \in Pairs, NEW r \in Pairs, NEW k \in 1..Len(Lu(p, d)[<<q, r>>])
      PROVE  q # r /\ DeLuiMeme(q, Lu(p, d)[<<q, r>>][k])
  <2>1. CASE <<q, r>> = c
    <3>1. Lu(p, d)[<<q, r>>] = RemoveAt(s, d.k) /\ q = d.src /\ r = p
      BY <1>1, <1>4, <2>1 DEF ReseauSur
    <3>2. PICK i \in 1..Len(s) : Lu(p, d)[<<q, r>>][k] = s[i]
      BY <1>3, <3>1
    <3>3. DeLuiMeme(d.src, s[i])
      BY <1>1 DEF ReseauSur
    <3>. QED BY <1>1, <3>1, <3>2, <3>3
  <2>2. CASE <<q, r>> # c
    <3>1. Lu(p, d)[<<q, r>>] = net[<<q, r>>]
      BY <1>4, <2>2 DEF ReseauSur
    <3>. QED BY <3>1 DEF ReseauSur
  <2>. QED BY <2>1, <2>2
<1>. QED BY <1>5, <1>6 DEF ReseauSur

\* A datagram that says who it comes from can be added.
LEMMA AjoutSur ==
  ASSUME NEW n, ReseauSur(n), NEW q \in Pairs, NEW m \in Messages, DeLuiMeme(q, m),
         NEW D, q \notin D
  PROVE  ReseauSur(Envoye(n, q, D, m))
<1>. DEFINE a == Envoye(n, q, D, m)
<1>0. a = [c \in Pairs \X Pairs |-> IF c[1] = q /\ c[2] \in D THEN Append(n[c], m) ELSE n[c]]
  BY DEF Envoye
<1>. HIDE DEF a
<1>1. \A c \in Pairs \X Pairs : n[c] \in Seq(Messages)
  BY DEF ReseauSur
<1>2. a \in [Pairs \X Pairs -> Seq(Messages)]
  BY <1>0, <1>1, AppendProperties
<1>3. ASSUME NEW u \in Pairs, NEW r \in Pairs, NEW k \in 1..Len(a[<<u, r>>])
      PROVE  u # r /\ DeLuiMeme(u, a[<<u, r>>][k])
  <2>1. CASE u = q /\ r \in D
    <3>1. a[<<u, r>>] = Append(n[<<u, r>>], m)
      BY <1>0, <2>1
    <3>2. /\ Len(a[<<u, r>>]) = Len(n[<<u, r>>]) + 1 /\ Len(n[<<u, r>>]) \in Nat
          /\ \A i \in 1..Len(n[<<u, r>>]) : a[<<u, r>>][i] = n[<<u, r>>][i]
          /\ a[<<u, r>>][Len(n[<<u, r>>]) + 1] = m
      BY <1>1, <3>1, AppendProperties, LenProperties
    <3>3. CASE k = Len(n[<<u, r>>]) + 1
      BY <2>1, <3>2, <3>3
    <3>4. CASE k # Len(n[<<u, r>>]) + 1
      <4>1. k \in 1..Len(n[<<u, r>>])
        BY <3>2, <3>4
      <4>. QED BY <3>2, <4>1 DEF ReseauSur
    <3>. QED BY <3>3, <3>4
  <2>2. CASE ~(u = q /\ r \in D)
    <3>1. a[<<u, r>>] = n[<<u, r>>]
      BY <1>0, <2>2
    <3>. QED BY <3>1 DEF ReseauSur
  <2>. QED BY <2>1, <2>2
<1>. QED BY <1>2, <1>3 DEF ReseauSur, a

LEMMA DiffuseSur ==
  ASSUME ReseauSur(net), NEW q \in Pairs, NEW m \in Messages, DeLuiMeme(q, m)
  PROVE  ReseauSur(Diffuse(q, m))
BY AjoutSur DEF Diffuse

LEMMA AccuseSur ==
  ASSUME NEW p \in Pairs, NEW d \in Lisibles(p), ReseauSur(net)
  PROVE  ReseauSur(LuEtAccuse(p, d))
<1>1. ReseauSur(Lu(p, d)) /\ d.src # p
  BY LuSur, LisibleDe
<1>2. [code |-> 1] \in Messages /\ DeLuiMeme(p, [code |-> 1])
  BY DEF Messages, DeLuiMeme
<1>. QED BY <1>1, <1>2, AjoutSur DEF LuEtAccuse
-----------------------------------------------------------------------------
(* A step of a peer.                                                         *)

\* What a step does not change keeps its place in the invariant.
LEMMA Reste ==
  ASSUME NEW q \in Pairs, PairSur(q),
         pc'[q] = pc[q], ventes'[q] = ventes[q], vente'[q] = vente[q], due'[q] = due[q],
         copie'[q] = copie[q], liste'[q] = liste[q], frames'[q] = frames[q],
         suite'[q] = suite[q]
  PROVE  PairSur(q)'
<1>1. EnTete(q)' /\ VentesSures(q)'
  BY DEF PairSur, EnTete, VentesSures, Moi
<1>2. RondeSure(q)' /\ SujetSur(q)'
  BY DEF PairSur, RondeSure, SujetSur, EnRonde, Sommet, Profondeur, Autres
<1>3. DecisionPrise(q)'
  BY DEF PairSur, DecisionPrise, ADecider, Decidee, Moi
<1>. QED BY <1>1, <1>2, <1>3 DEF PairSur

LEMMA Ensemble ==
  ASSUME Coherence, NEW p \in Pairs, Types', ReseauSur(net)', PairSur(p)',
         \A q \in Pairs \ {p} :
            /\ pc'[q] = pc[q] /\ ventes'[q] = ventes[q] /\ vente'[q] = vente[q]
            /\ due'[q] = due[q] /\ copie'[q] = copie[q] /\ liste'[q] = liste[q]
            /\ frames'[q] = frames[q] /\ suite'[q] = suite[q]
  PROVE  Coherence'
<1>1. \A q \in Pairs : PairSur(q)'
  <2>. SUFFICES ASSUME NEW q \in Pairs, q # p PROVE PairSur(q)'
    OBVIOUS
  <2>1. PairSur(q)
    BY DEF Coherence
  <2>. QED BY <2>1, Reste
<1>. QED BY <1>1 DEF Coherence

\* A peer in its loop that is not about to look at a bid has decided on it.
LEMMA Decide ==
  ASSUME Coherence, NEW p \in Pairs, pc[p] \notin Sorties, ~ADecider(p)
  PROVE  Decidee(p)
BY DEF Coherence, PairSur, DecisionPrise

\* A call of consensus from the loop.
LEMMA ConsensusSur ==
  ASSUME Coherence, NEW p \in Pairs, NEW m \in Messages, DeLuiMeme(p, m),
         NEW s \in [but : {"rien", "enchere", "cloture", "depart"}, rang : Nat],
         consensus(p, m, s)
  PROVE  /\ pc' = [pc EXCEPT ![p] = "attente"] /\ suite' = [suite EXCEPT ![p] = s]
         /\ pc' \in [Pairs -> {"boucle", "lu", "ecrit", "attente", "relance"} \cup Sorties]
         /\ suite' \in [Pairs -> [but : {"rien", "enchere", "cloture", "depart"}, rang : Nat]]
         /\ frames' \in [Pairs -> Seq(Activations)] /\ Len(frames'[p]) = 1
         /\ \A q \in Pairs \ {p} : frames'[q] = frames[q]
         /\ ReseauSur(net)'
<1>. DEFINE f == consensus_frame(m, liste[p].count)
<1>1. f \in Activations
  BY DEF Coherence, Types, Activations, consensus_frame
<1>2. <<f>> \in Seq(Activations) /\ Len(<<f>>) = 1
  BY <1>1
<1>. HIDE DEF f
<1>3. frames' = [frames EXCEPT ![p] = <<f>>]
  BY DEF consensus, f
<1>4. ReseauSur(net)'
  BY DiffuseSur DEF Coherence, consensus, Envoi
<1>. QED BY <1>2, <1>3, <1>4 DEF Coherence, Types, consensus

LEMMA AppelSur ==
  ASSUME Coherence, NEW p \in Pairs, NEW m \in Messages, DeLuiMeme(p, m),
         NEW s \in [but : {"rien", "enchere", "cloture", "depart"}, rang : Nat],
         consensus(p, m, s), UNCHANGED <<ventes, vente, due, liste>>,
         NEW c \in Corps \cup {Aucune}, copie' = [copie EXCEPT ![p] = c], Decidee(p)',
         s.but \in {"enchere", "cloture"} => s.rang \in 1..Len(ventes[p]),
         s.but = "enchere" => c \in Corps /\ ventes[p][s.rang].prix < c.prix
  PROVE  Coherence'
<1>1. /\ pc' = [pc EXCEPT ![p] = "attente"] /\ suite' = [suite EXCEPT ![p] = s]
      /\ pc' \in [Pairs -> {"boucle", "lu", "ecrit", "attente", "relance"} \cup Sorties]
      /\ suite' \in [Pairs -> [but : {"rien", "enchere", "cloture", "depart"}, rang : Nat]]
      /\ frames' \in [Pairs -> Seq(Activations)] /\ Len(frames'[p]) = 1
      /\ \A q \in Pairs \ {p} : frames'[q] = frames[q]
      /\ ReseauSur(net)'
  BY ConsensusSur
<1>2. Types' /\ pc'[p] = "attente" /\ suite'[p] = s /\ copie'[p] = c
  BY <1>1 DEF Coherence, Types
<1>3. EnTete(p)' /\ VentesSures(p)'
  BY DEF Coherence, PairSur, EnTete, VentesSures, Moi
<1>4. SujetSur(p)'
  BY <1>2 DEF SujetSur
<1>5. PairSur(p)'
  BY <1>1, <1>2, <1>3, <1>4 DEF PairSur, RondeSure, DecisionPrise
<1>. QED BY <1>1, <1>2, <1>5, Ensemble DEF Coherence, Types
-----------------------------------------------------------------------------
(* The commands of the user.                                                 *)
LEMMA IntervalleFini ==
  ASSUME NEW n \in Nat
  PROVE  IsFiniteSet(1..n)
<1>1. 1 \in Int /\ n \in Int
  OBVIOUS
<1>. QED BY <1>1, FS_Interval, Zenon

LEMMA sale_startSur ==
  ASSUME Coherence, NEW p \in Pairs, NEW prix \in Bases, sale_start(p, prix)
  PROVE  Coherence'
<1>. DEFINE n == Cardinality(Ventes(p)) + 1
            v == sale_init(<<p, n>>, prix, p, Personne)
<1>1. UNCHANGED <<copie, liste, frames, suite>> /\ pc[p] = "boucle" /\ p \in Superviseurs
  BY DEF sale_start, Tape
<1>2. ventes[p] \in Seq(Fiches)
  BY DEF Coherence, Types
<1>3. n \in 1..MaxVentes
  <2>1. DOMAIN ventes[p] = 1..Len(ventes[p]) /\ Len(ventes[p]) \in Nat
    BY <1>2, LenProperties
  <2>2. IsFiniteSet(1..Len(ventes[p]))
    BY <2>1, IntervalleFini
  <2>3. Ventes(p) \subseteq 1..Len(ventes[p])
    BY <2>1 DEF Ventes
  <2>4. Cardinality(Ventes(p)) \in Nat
    BY <2>2, <2>3, FS_Subset, FS_CardinalityType
  <2>. QED BY <2>4, BornesAssumption DEF sale_start
<1>4. v \in Fiches /\ VenteSure(v) /\ v.numv = <<p, n>>
  BY <1>1, <1>3, PairsAssumption DEF sale_init, Fiches, Numeros, VenteSure
<1>5. /\ Append(ventes[p], v) \in Seq(Fiches)
      /\ \A i \in 1..Len(Append(ventes[p], v)) :
            Append(ventes[p], v)[i] = v \/ (i \in 1..Len(ventes[p]) /\ Append(ventes[p], v)[i] = ventes[p][i])
  BY <1>2, <1>4, AppendProperties, LenProperties
<1>6. [code |-> 8, id |-> p, numv |-> <<p, n>>, prix |-> prix] \in Messages
      /\ DeLuiMeme(p, [code |-> 8, id |-> p, numv |-> <<p, n>>, prix |-> prix])
  BY <1>1, <1>3 DEF Messages, Corps, Numeros, DeLuiMeme
<1>. HIDE DEF n, v
<1>7. CASE peer_list_find(liste[p], p)
  <2>1. /\ ventes' = [ventes EXCEPT ![p] = Append(@, v)] /\ vente' = [vente EXCEPT ![p] = 2]
        /\ due' = [due EXCEPT ![p] = FALSE] /\ pc' = [pc EXCEPT ![p] = "lu"]
        /\ net' = Diffuse(p, [code |-> 8, id |-> p, numv |-> <<p, n>>, prix |-> prix])
    BY <1>7 DEF sale_start, n, v
  <2>2. Types'
    BY <1>1, <1>5, <2>1 DEF Coherence, Types
  <2>3. ReseauSur(net)'
    BY <1>6, <2>1, DiffuseSur DEF Coherence
  <2>4. ventes'[p] = Append(ventes[p], v) /\ vente'[p] = 2 /\ ~due'[p] /\ pc'[p] = "lu"
    BY <2>1 DEF Coherence, Types
  <2>5. PairSur(p)'
    <3>1. EnTete(p)'
      BY <1>1 DEF Coherence, PairSur, EnTete, Moi
    <3>2. VentesSures(p)'
      BY <1>4, <1>5, <2>4 DEF Coherence, PairSur, VentesSures
    <3>. QED BY <2>4, <3>1, <3>2
             DEF PairSur, RondeSure, SujetSur, EnRonde, DecisionPrise, ADecider
  <2>. QED BY <1>1, <2>1, <2>2, <2>3, <2>5, Ensemble DEF Coherence, Types
<1>8. CASE ~peer_list_find(liste[p], p)
  <2>1. pc' = [pc EXCEPT ![p] = "plante"] /\ UNCHANGED <<ventes, net, vente, due>>
    BY <1>8 DEF sale_start
  <2>2. Types' /\ ReseauSur(net)'
    BY <1>1, <2>1 DEF Coherence, Types, Sorties
  <2>3. pc'[p] = "plante"
    BY <2>1 DEF Coherence, Types
  <2>4. EnTete(p)' /\ VentesSures(p)'
    BY <1>1, <2>1 DEF Coherence, PairSur, EnTete, VentesSures, Moi
  <2>5. PairSur(p)'
    BY <2>3, <2>4 DEF PairSur, RondeSure, SujetSur, EnRonde, DecisionPrise, Sorties
  <2>. QED BY <1>1, <2>1, <2>2, <2>5, Ensemble DEF Coherence, Types
<1>. QED BY <1>7, <1>8

LEMMA encherirSur ==
  ASSUME Coherence, NEW p \in Pairs, NEW numv \in Numeros, NEW prix \in Prix,
         encherir(p, numv, prix)
  PROVE  Coherence'
<1>. DEFINE m == [code |-> 9, id |-> p, numv |-> numv, prix |-> prix]
            e == Apres(vente[p], "lu")
<1>1. /\ pc[p] = "boucle" /\ pc' = [pc EXCEPT ![p] = e] /\ net' = Diffuse(p, m)
      /\ UNCHANGED <<ventes, vente, due, copie, liste, suite, frames>>
  BY DEF encherir, Tape, boucle
<1>2. m \in Messages /\ DeLuiMeme(p, m)
  BY DEF Messages, Corps, DeLuiMeme
<1>3. e \in {"boucle", "lu"}
  BY DEF Apres
<1>. HIDE DEF m, e
<1>4. Types' /\ pc'[p] = e
  BY <1>1, <1>3 DEF Coherence, Types
<1>5. ReseauSur(net)'
  BY <1>1, <1>2, DiffuseSur DEF Coherence
<1>6. PairSur(p)'
  <2>1. EnTete(p)' /\ VentesSures(p)'
    BY <1>1 DEF Coherence, PairSur, EnTete, VentesSures, Moi
  <2>2. Decidee(p)
    BY <1>1, Decide DEF ADecider, Sorties
  <2>3. Decidee(p)'
    BY <1>1, <2>2 DEF Decidee, Moi
  <2>. QED BY <1>3, <1>4, <2>1, <2>3
           DEF PairSur, RondeSure, SujetSur, EnRonde, DecisionPrise
<1>. QED BY <1>1, <1>4, <1>5, <1>6, Ensemble DEF Coherence, Types

LEMMA quitter_enchereSur ==
  ASSUME Coherence, NEW p \in Pairs, quitter_enchere(p)
  PROVE  Coherence'
<1>. DEFINE s == [but |-> "depart", rang |-> 0]
<1>1. /\ pc[p] = "boucle" /\ consensus(p, Depart(p), s)
      /\ UNCHANGED <<ventes, vente, due, copie, liste>>
  BY DEF quitter_enchere, Tape
<1>2. Depart(p) \in Messages /\ DeLuiMeme(p, Depart(p))
  BY DEF Messages, Depart, DeLuiMeme
<1>3. Decidee(p)
  BY <1>1, Decide DEF ADecider, Sorties
<1>4. Decidee(p)'
  BY <1>1, <1>3 DEF Decidee, Moi
<1>5. copie' = [copie EXCEPT ![p] = copie[p]] /\ copie[p] \in Corps \cup {Aucune}
  BY <1>1 DEF Coherence, Types
<1>6. s \in [but : {"rien", "enchere", "cloture", "depart"}, rang : Nat] /\ s.but = "depart"
  OBVIOUS
<1>. HIDE DEF s
<1>. QED BY <1>1, <1>2, <1>4, <1>5, <1>6, AppelSur
-----------------------------------------------------------------------------
(* A round.                                                                  *)

\* Nothing but the network, the place of a peer in a round and the history.
LEMMA DansLaRonde ==
  ASSUME Coherence, NEW p \in Pairs, EnRonde(p), NEW e \in {"attente", "relance", "plante"},
         e = "relance" => doit_rep(Sommet(p), Autres(p)) # {},
         pc' = [pc EXCEPT ![p] = e], ReseauSur(net)',
         UNCHANGED <<ventes, vente, due, copie, liste, frames, suite>>
  PROVE  Coherence'
<1>1. Types' /\ pc'[p] = e
  BY DEF Coherence, Types, Sorties
<1>2. EnTete(p)' /\ VentesSures(p)'
  BY DEF Coherence, PairSur, EnTete, VentesSures, Moi
<1>3. RondeSure(p)' /\ SujetSur(p)'
  BY <1>1 DEF Coherence, PairSur, RondeSure, SujetSur, EnRonde, Sommet, Profondeur, Autres
<1>4. Decidee(p)
  BY Decide DEF EnRonde, ADecider, Sorties
<1>5. DecisionPrise(p)'
  BY <1>4 DEF Decidee, DecisionPrise, Moi
<1>. QED BY <1>1, <1>2, <1>3, <1>5, Ensemble DEF Coherence, PairSur, Types

LEMMA RecoitAckSur ==
  ASSUME Coherence, NEW p \in Pairs, NEW d \in Lisibles(p), RecoitAck(p, d)
  PROVE  Coherence'
<1>. DEFINE f == frames[p][1]
            g == Compte(f, d.src)
<1>1. pc[p] = "attente" /\ Len(frames[p]) = 1 /\ frames[p] \in Seq(Activations)
  BY DEF RecoitAck, Attend, Coherence, PairSur, RondeSure, EnRonde, Types
<1>2. f \in Activations
  BY <1>1, ElementOfSeq
<1>3. frames' = [frames EXCEPT ![p] = [frames[p] EXCEPT ![1] = g]]
  BY <1>1 DEF RecoitAck, Profondeur
<1>4. g \in Activations
  <2>1. d.src \in Pairs
    BY LisibleDe DEF Coherence
  <2>. HIDE DEF f
  <2>2. g = [f EXCEPT !.ids = f.ids \cup {d.src}, !.total = f.total + 1]
    BY DEF Compte
  <2>3. f.ids \cup {d.src} \in SUBSET Pairs /\ f.total + 1 \in Nat
    BY <1>2, <2>1 DEF Activations
  <2>. QED BY <1>2, <2>2, <2>3 DEF Activations
<1>. HIDE DEF f, g
<1>5. [frames[p] EXCEPT ![1] = g] \in Seq(Activations) /\ Len([frames[p] EXCEPT ![1] = g]) = 1
  BY <1>1, <1>4, ExceptSeq
<1>6. /\ frames' \in [Pairs -> Seq(Activations)] /\ Len(frames'[p]) = 1
      /\ \A q \in Pairs \ {p} : frames'[q] = frames[q]
  BY <1>3, <1>5 DEF Coherence, Types
<1>7. net' = Lu(p, d) /\ UNCHANGED <<pc, ventes, vente, due, copie, liste, suite>>
  BY DEF RecoitAck, boucle
<1>8. Types' /\ ReseauSur(net)'
  BY <1>6, <1>7, LuSur DEF Coherence, Types
<1>9. PairSur(p)'
  <2>1. EnTete(p)' /\ VentesSures(p)'
    BY <1>7 DEF Coherence, PairSur, EnTete, VentesSures, Moi
  <2>2. RondeSure(p)' /\ SujetSur(p)'
    BY <1>1, <1>6, <1>7 DEF Coherence, PairSur, RondeSure, SujetSur, EnRonde
  <2>3. Decidee(p)
    BY <1>1, Decide DEF ADecider, Sorties
  <2>4. DecisionPrise(p)'
    BY <1>7, <2>3 DEF Decidee, DecisionPrise, Moi
  <2>. QED BY <2>1, <2>2, <2>4 DEF PairSur
<1>. QED BY <1>6, <1>7, <1>8, <1>9, Ensemble

LEMMA RefuseEnchereSur ==
  ASSUME Coherence, NEW p \in Pairs, NEW d \in Lisibles(p), RefuseEnchere(p, d)
  PROVE  Coherence'
<1>1. /\ pc[p] = "attente" /\ net' = Lu(p, d)
      /\ UNCHANGED <<pc, ventes, vente, due, copie, liste, frames, suite>>
  BY DEF RefuseEnchere, Attend, boucle
<1>2. ReseauSur(net)'
  BY <1>1, LuSur DEF Coherence
<1>3. pc' = [pc EXCEPT ![p] = "attente"]
  BY <1>1 DEF Coherence, Types
<1>. QED BY <1>1, <1>2, <1>3, DansLaRonde DEF EnRonde

\* A reminder is sent when somebody did not answer: a round that is not over
\* waits for at least one other peer, and it overflows only with more.
LEMMA EntreSectionGSur ==
  ASSUME Coherence, NEW p \in Pairs, Attend(p), EntreSectionG(p), ReseauSur(net)',
         UNCHANGED <<ventes, vente, due, copie, liste, frames, suite>>
  PROVE  Coherence'
<1>1. pc[p] = "attente" /\ Len(frames[p]) = 1 /\ frames[p] \in Seq(Activations)
  BY DEF Attend, Coherence, PairSur, RondeSure, EnRonde, Types
<1>2. Sommet(p) \in Activations
  BY <1>1, ElementOfSeq DEF Sommet, Profondeur
<1>3. Sommet(p).totalPeer > 1 /\ Sommet(p).totalPeer \in Int
  BY <1>2 DEF Attend, Complet, Activations
<1>4. Debordement(Sommet(p), Autres(p)) => doit_rep(Sommet(p), Autres(p)) # {}
  BY <1>3, FS_EmptySet DEF Debordement
<1>5. \E e \in {"attente", "relance", "plante"} :
        /\ pc' = [pc EXCEPT ![p] = e]
        /\ e = "relance" => doit_rep(Sommet(p), Autres(p)) # {}
  BY <1>4 DEF EntreSectionG
<1>. QED BY <1>1, <1>5, DansLaRonde DEF EnRonde

LEMMA RelanceSur ==
  ASSUME Coherence, NEW p \in Pairs, RelanceRepondue(p)
  PROVE  Coherence'
<1>1. /\ pc[p] = "relance" /\ pc' = [pc EXCEPT ![p] = "plante"]
      /\ UNCHANGED <<ventes, vente, due, copie, liste, frames, suite, net>>
  BY DEF RelanceRepondue, boucle
<1>2. ReseauSur(net)'
  BY <1>1 DEF Coherence
<1>. QED BY <1>1, <1>2, DansLaRonde DEF EnRonde

\* A reminder without an answer gives somebody up.
LEMMA disparitionPerd ==
  ASSUME Coherence, NEW p \in Pairs, disparition_peer_lambda(p)
  PROVE  perdus' # {}
<1>. DEFINE D == doit_rep(Sommet(p), Autres(p))
<1>1. /\ pc[p] = "relance" /\ D # {}
      /\ Len(frames[p]) = 1 /\ frames[p] \in Seq(Activations)
  BY DEF disparition_peer_lambda, Coherence, PairSur, RondeSure, EnRonde, Types
<1>2. Sommet(p) \in Activations
  BY <1>1, ElementOfSeq DEF Sommet, Profondeur
<1>. HIDE DEF D
<1>3. [Sommet(p) EXCEPT !.disparus = D].disparus = D
  BY <1>2 DEF Activations
<1>4. perdus' = perdus \cup D
  BY <1>3 DEF disparition_peer_lambda, D
<1>. QED BY <1>1, <1>4

\* A search after the price or the state of the sale at i changed.
LEMMA Change ==
  ASSUME NEW l \in Seq(Fiches), NEW i \in 1..Len(l), NEW v \in Fiches,
         v.numv = l[i].numv, v.sup = l[i].sup
  PROVE  LET k == [l EXCEPT ![i] = v] IN
         /\ k \in Seq(Fiches) /\ Len(k) = Len(l)
         /\ \A j \in 1..Len(l) : k[j] = IF j = i THEN v ELSE l[j]
         /\ (\A j \in 1..Len(l) : VenteSure(l[j])) => \A j \in 1..Len(k) : VenteSure(k[j])
         /\ \A n : find_sale(n, k) = find_sale(n, l)
<1>. DEFINE k == [l EXCEPT ![i] = v]
<1>1. /\ k \in Seq(Fiches) /\ Len(k) = Len(l)
      /\ \A j \in 1..Len(l) : k[j] = IF j = i THEN v ELSE l[j]
  BY ExceptSeq
<1>. HIDE DEF k
<1>2. \A j \in 1..Len(l) : k[j].numv = l[j].numv /\ k[j].sup = l[j].sup
  BY <1>1
<1>3. (\A j \in 1..Len(l) : VenteSure(l[j])) => \A j \in 1..Len(k) : VenteSure(k[j])
  BY <1>1, <1>2 DEF VenteSure
<1>4. \A n : find_sale(n, k) = find_sale(n, l)
  BY <1>1, <1>2, TrouveeApresChangement
<1>. QED BY <1>1, <1>3, <1>4 DEF k

\* The sale a search finds is in the list.
LEMMA RangTrouve ==
  ASSUME NEW l \in Seq(Fiches), NEW n, find_sale(n, l) # 0
  PROVE  find_sale(n, l) \in 1..Len(l) /\ l[find_sale(n, l)] \in Fiches
<1>1. find_sale(n, l) \in 0..Len(l) /\ Len(l) \in Nat
  BY Trouvee, LenProperties
<1>2. find_sale(n, l) \in 1..Len(l)
  BY <1>1
<1>. QED BY <1>2, ElementOfSeq

\* What is recorded of a bid, and a closure, keep the type of the sale.
LEMMA FicheMiseAJour ==
  ASSUME NEW v \in Fiches
  PROVE  /\ sale_close(v) \in Fiches /\ sale_close(v).numv = v.numv
         /\ sale_close(v).sup = v.sup /\ sale_close(v).prix = v.prix
         /\ ~sale_close(v).active
         /\ \A m \in Corps :
                /\ sale_update(v, m.prix, m.id) \in Fiches
                /\ sale_update(v, m.prix, m.id).numv = v.numv
                /\ sale_update(v, m.prix, m.id).sup = v.sup
                /\ sale_update(v, m.prix, m.id).prix = m.prix
                /\ sale_update(v, m.prix, m.id).active = v.active
<1>1. sale_close(v) \in Fiches /\ sale_close(v).numv = v.numv
      /\ sale_close(v).sup = v.sup /\ sale_close(v).prix = v.prix /\ ~sale_close(v).active
  BY DEF sale_close, Fiches
<1>2. ASSUME NEW m \in Corps
      PROVE  /\ sale_update(v, m.prix, m.id) \in Fiches
             /\ sale_update(v, m.prix, m.id).numv = v.numv
             /\ sale_update(v, m.prix, m.id).sup = v.sup
             /\ sale_update(v, m.prix, m.id).prix = m.prix
             /\ sale_update(v, m.prix, m.id).active = v.active
  <2>1. m.prix \in Bases \cup Prix /\ m.id \in Pairs
    BY DEF Corps
  <2>. QED BY <2>1 DEF sale_update, Fiches
<1>. QED BY <1>1, <1>2

\* A round that returns records the bid it was about, closes its sale or ends
\* the program.
LEMMA TermineSur ==
  ASSUME Coherence, NEW p \in Pairs, Termine(p)
  PROVE  Coherence'
<1>. DEFINE l == ventes[p]
            r == suite[p].rang
            c == copie[p]
<1>1. pc[p] = "attente" /\ Len(frames[p]) = 1
  BY DEF Termine, Coherence, PairSur, RondeSure, EnRonde
<1>2. /\ frames' = [frames EXCEPT ![p] = <<>>] /\ suite' = [suite EXCEPT ![p] = Rien]
      /\ UNCHANGED <<copie, liste, net>>
  BY <1>1 DEF Termine, Profondeur
<1>3. l \in Seq(Fiches)
  BY DEF Coherence, Types
<1>4. Decidee(p) /\ SujetSur(p) /\ VentesSures(p) /\ EnTete(p)
  BY <1>1, Decide DEF ADecider, Sorties, Coherence, PairSur
<1>5. PICK e \in {"boucle", "sorti", "parti"}, k \in Seq(Fiches), w \in {vente[p], -1}, b \in {due[p], FALSE} :
        /\ pc' = [pc EXCEPT ![p] = e] /\ ventes' = [ventes EXCEPT ![p] = k]
        /\ vente' = [vente EXCEPT ![p] = w] /\ due' = [due EXCEPT ![p] = b]
        /\ \A i \in 1..Len(k) : VenteSure(k[i])
        /\ \A n : find_sale(n, k) = find_sale(n, l)
        /\ Len(k) = Len(l)
        /\ \A i \in 1..Len(l) : k[i].sup = l[i].sup
        /\ \A i \in 1..Len(l) : k[i].prix = l[i].prix \/ (i = r /\ k[i].prix = c.prix)
  <2>1. CASE UNCHANGED <<ventes, vente, due>> /\ pc' = [pc EXCEPT ![p] = "sorti"]
    <3>. WITNESS "sorti" \in {"boucle", "sorti", "parti"}, l \in Seq(Fiches),
               vente[p] \in {vente[p], -1}, due[p] \in {due[p], FALSE}
    <3>. QED BY <1>4, <2>1 DEF VentesSures, Coherence, Types
  <2>2. CASE UNCHANGED <<ventes, vente, due>> /\ pc' = [pc EXCEPT ![p] = "parti"]
    <3>. WITNESS "parti" \in {"boucle", "sorti", "parti"}, l \in Seq(Fiches),
               vente[p] \in {vente[p], -1}, due[p] \in {due[p], FALSE}
    <3>. QED BY <1>4, <2>2 DEF VentesSures, Coherence, Types
  <2>3. CASE /\ suite[p].but = "enchere"
             /\ ventes' = [ventes EXCEPT ![p][r] = sale_update(@, c.prix, c.id)]
             /\ pc' = [pc EXCEPT ![p] = "boucle"] /\ UNCHANGED <<vente, due>>
    <3>1. r \in 1..Len(l) /\ c \in Corps
      BY <1>1, <1>4, <2>3 DEF SujetSur, EnRonde
    <3>2. l[r] \in Fiches
      BY <1>3, <3>1, ElementOfSeq
    <3>. DEFINE v == sale_update(l[r], c.prix, c.id)
                k == [l EXCEPT ![r] = v]
    <3>3. v \in Fiches /\ v.numv = l[r].numv /\ v.sup = l[r].sup /\ v.prix = c.prix
      BY <3>1, <3>2, FicheMiseAJour
    <3>4. ventes' = [ventes EXCEPT ![p] = k]
      BY <2>3
    <3>. HIDE DEF v
    <3>5. /\ k \in Seq(Fiches) /\ Len(k) = Len(l)
          /\ \A j \in 1..Len(l) : k[j] = IF j = r THEN v ELSE l[j]
          /\ \A j \in 1..Len(k) : VenteSure(k[j])
          /\ \A n : find_sale(n, k) = find_sale(n, l)
      <4>1. \A j \in 1..Len(l) : VenteSure(l[j])
        BY <1>4 DEF VentesSures
      <4>. HIDE DEF l, r
      <4>2. /\ k \in Seq(Fiches) /\ Len(k) = Len(l)
            /\ \A j \in 1..Len(l) : k[j] = IF j = r THEN v ELSE l[j]
            /\ (\A j \in 1..Len(l) : VenteSure(l[j])) => \A j \in 1..Len(k) : VenteSure(k[j])
            /\ \A n : find_sale(n, k) = find_sale(n, l)
        BY <1>3, <3>1, <3>3, Change
      <4>. QED BY <4>1, <4>2
    <3>. HIDE DEF k
    <3>6. vente' = [vente EXCEPT ![p] = vente[p]] /\ due' = [due EXCEPT ![p] = due[p]]
      BY <2>3 DEF Coherence, Types
    <3>. k \in Seq(Fiches)
      BY <3>5
    <3>. WITNESS "boucle" \in {"boucle", "sorti", "parti"}, k \in Seq(Fiches),
               vente[p] \in {vente[p], -1}, due[p] \in {due[p], FALSE}
    <3>. QED BY <2>3, <3>3, <3>4, <3>5, <3>6
  <2>4. CASE suite[p].but = "cloture" /\ ApresCloture(p)
    <3>1. r \in 1..Len(l)
      BY <1>1, <1>4, <2>4 DEF SujetSur, EnRonde
    <3>2. l[r] \in Fiches
      BY <1>3, <3>1, ElementOfSeq
    <3>. DEFINE v == sale_close(l[r])
                k == [l EXCEPT ![r] = v]
    <3>3. v \in Fiches /\ v.numv = l[r].numv /\ v.sup = l[r].sup /\ v.prix = l[r].prix
      BY <3>2, FicheMiseAJour
    <3>4. ventes' = [ventes EXCEPT ![p] = k]
      BY <2>4 DEF ApresCloture
    <3>. HIDE DEF v
    <3>5. /\ k \in Seq(Fiches) /\ Len(k) = Len(l)
          /\ \A j \in 1..Len(l) : k[j] = IF j = r THEN v ELSE l[j]
          /\ \A j \in 1..Len(k) : VenteSure(k[j])
          /\ \A n : find_sale(n, k) = find_sale(n, l)
      <4>1. \A j \in 1..Len(l) : VenteSure(l[j])
        BY <1>4 DEF VentesSures
      <4>. HIDE DEF l, r
      <4>2. /\ k \in Seq(Fiches) /\ Len(k) = Len(l)
            /\ \A j \in 1..Len(l) : k[j] = IF j = r THEN v ELSE l[j]
            /\ (\A j \in 1..Len(l) : VenteSure(l[j])) => \A j \in 1..Len(k) : VenteSure(k[j])
            /\ \A n : find_sale(n, k) = find_sale(n, l)
        BY <1>3, <3>1, <3>3, Change
      <4>. QED BY <4>1, <4>2
    <3>. HIDE DEF k
    <3>. k \in Seq(Fiches)
      BY <3>5
    <3>. WITNESS "boucle" \in {"boucle", "sorti", "parti"}, k \in Seq(Fiches),
               -1 \in {vente[p], -1}, FALSE \in {due[p], FALSE}
    <3>. QED BY <2>4, <3>3, <3>4, <3>5 DEF ApresCloture
  <2>5. CASE suite[p].but = "enchere" /\ ApresEnchere(p, IF Sommet(p).totalPeer < 1 THEN -1 ELSE 0)
    BY <2>1, <2>3, <2>5 DEF ApresEnchere
  <2>6. CASE suite[p].but = "depart" /\ ApresDepart(p)
    BY <2>2, <2>6 DEF ApresDepart
  <2>7. \/ suite[p].but = "enchere" /\ ApresEnchere(p, IF Sommet(p).totalPeer < 1 THEN -1 ELSE 0)
        \/ suite[p].but = "cloture" /\ ApresCloture(p)
        \/ suite[p].but = "depart" /\ ApresDepart(p)
    BY <1>1 DEF Termine, Profondeur
  <2>. QED BY <2>4, <2>5, <2>6, <2>7
<1>. HIDE DEF l, r, c
<1>6. Types' /\ ReseauSur(net)'
  <2>1. pc' \in [Pairs -> {"boucle", "lu", "ecrit", "attente", "relance"} \cup Sorties]
        /\ ventes' \in [Pairs -> Seq(Fiches)] /\ vente' \in [Pairs -> {-1, 2, 3}]
        /\ due' \in [Pairs -> BOOLEAN]
    BY <1>5 DEF Coherence, Types, Sorties
  <2>2. frames' \in [Pairs -> Seq(Activations)]
        /\ suite' \in [Pairs -> [but : {"rien", "enchere", "cloture", "depart"}, rang : Nat]]
    BY <1>2 DEF Coherence, Types, Rien
  <2>. QED BY <1>2, <2>1, <2>2 DEF Coherence, Types
<1>7. pc'[p] = e /\ ventes'[p] = k /\ copie'[p] = c
  BY <1>2, <1>5 DEF Coherence, Types, c
<1>8. PairSur(p)'
  <2>1. EnTete(p)' /\ VentesSures(p)'
    BY <1>2, <1>4, <1>5, <1>7 DEF EnTete, VentesSures, Moi
  <2>2. RondeSure(p)' /\ SujetSur(p)'
    BY <1>5, <1>7 DEF RondeSure, SujetSur, EnRonde
  <2>3. ASSUME c # Aucune, find_sale(c.numv, l) # 0, l[find_sale(c.numv, l)].sup = Moi(p), c.code = 9
        PROVE  c.prix <= k[find_sale(c.numv, l)].prix
    <3>. DEFINE i == find_sale(c.numv, l)
    <3>1. i \in 1..Len(l) /\ l[i] \in Fiches
      BY <1>3, <2>3, RangTrouve DEF l
    <3>2. c.prix <= l[i].prix
      BY <1>4, <2>3 DEF Decidee, l, c
    <3>3. c.prix \in Nat
      BY <2>3, PrixAssumption DEF Coherence, Types, Corps, c
    <3>. HIDE DEF i
    <3>4. k[i].prix = l[i].prix \/ k[i].prix = c.prix
      BY <1>5, <3>1
    <3>. QED BY <3>2, <3>3, <3>4 DEF i
  <2>4. Decidee(p)'
    <3>1. Moi(p)' = Moi(p)
      BY <1>2 DEF Moi
    <3>2. find_sale(c.numv, k) = find_sale(c.numv, l)
      BY <1>5
    <3>3. find_sale(c.numv, l) # 0 =>
            k[find_sale(c.numv, l)].sup = l[find_sale(c.numv, l)].sup
      BY <1>3, <1>5, RangTrouve DEF l
    <3>. QED BY <1>7, <2>3, <3>1, <3>2, <3>3 DEF Decidee
  <2>. QED BY <2>1, <2>2, <2>4 DEF PairSur, DecisionPrise
<1>. QED BY <1>2, <1>5, <1>6, <1>8, Ensemble DEF Coherence, Types
-----------------------------------------------------------------------------
(* The loop.                                                                 *)

\* A step of the loop that keeps the peer out of consensus().
LEMMA DansLaBoucle ==
  ASSUME Coherence, NEW p \in Pairs,
         NEW e \in {"boucle", "lu", "ecrit", "sorti"}, pc' = [pc EXCEPT ![p] = e],
         NEW k \in Seq(Fiches), ventes' = [ventes EXCEPT ![p] = k],
         \A i \in 1..Len(k) : VenteSure(k[i]),
         NEW w \in {-1, 2, 3}, vente' = [vente EXCEPT ![p] = w],
         NEW b \in BOOLEAN, due' = [due EXCEPT ![p] = b],
         NEW c \in Corps \cup {Aucune}, copie' = [copie EXCEPT ![p] = c],
         NEW g \in [slots : Seq(Pairs), count : Nat], liste' = [liste EXCEPT ![p] = g],
         UNCHANGED <<frames, suite>>, EnTete(p)', DecisionPrise(p)', ReseauSur(net)'
  PROVE  Coherence'
<1>1. Types'
  BY DEF Coherence, Types, Sorties
<1>2. pc'[p] = e /\ ventes'[p] = k
  BY DEF Coherence, Types
<1>3. PairSur(p)'
  BY <1>2 DEF PairSur, VentesSures, RondeSure, SujetSur, EnRonde
<1>. QED BY <1>1, <1>3, Ensemble DEF Coherence, Types

\* The iteration that reads a datagram goes on to the last bid when a sale runs.
LEMMA ApresLecture ==
  ASSUME Coherence, NEW p \in Pairs, NEW d, Lit(p, d, vente[p]), UNCHANGED <<vente, due>>,
         Decidee(p) => Decidee(p)'
  PROVE  /\ DecisionPrise(p)'
         /\ \E e \in {"boucle", "ecrit"} : pc' = [pc EXCEPT ![p] = e]
<1>1. pc' = [pc EXCEPT ![p] = Apres(vente[p], "ecrit")] /\ pc[p] \in {"boucle", "lu", "ecrit"}
  BY DEF Lit, PeutLire
<1>2. pc'[p] = Apres(vente[p], "ecrit")
  BY <1>1 DEF Coherence, Types
<1>3. ADecider(p) => ADecider(p)'
  BY <1>2 DEF ADecider, Apres
<1>4. ADecider(p) \/ Decidee(p)
  BY <1>1, Decide DEF Sorties
<1>. QED BY <1>1, <1>3, <1>4 DEF DecisionPrise, Apres

\* A datagram whose sales keep their numbers and supervisors, and the prices of
\* the sales of the reader.
LEMMA LectureSure ==
  ASSUME Coherence, NEW p \in Pairs, NEW d, Lit(p, d, vente[p]),
         NEW k \in Seq(Fiches), ventes' = [ventes EXCEPT ![p] = k],
         \A i \in 1..Len(k) : VenteSure(k[i]),
         \A n : find_sale(n, k) = find_sale(n, ventes[p]),
         \A i \in 1..Len(ventes[p]) :
            /\ k[i].sup = ventes[p][i].sup
            /\ k[i].prix = ventes[p][i].prix \/ k[i].sup # p,
         NEW g \in [slots : Seq(Pairs), count : Nat], liste' = [liste EXCEPT ![p] = g],
         UNCHANGED <<vente, due, copie, frames, suite>>, EnTete(p)', ReseauSur(net)'
  PROVE  Coherence'
<1>1. EnTete(p) /\ Moi(p) = p /\ Moi(p)' = p
  BY DEF Coherence, PairSur, EnTete
<1>2. ventes'[p] = k /\ copie'[p] = copie[p] /\ ventes[p] \in Seq(Fiches)
  BY DEF Coherence, Types
<1>3. Decidee(p) => Decidee(p)'
  <2>. DEFINE i == find_sale(copie[p].numv, ventes[p])
  <2>1. find_sale(copie[p].numv, k) = i
    OBVIOUS
  <2>2. i # 0 => i \in 1..Len(ventes[p])
    BY <1>2, RangTrouve
  <2>3. i # 0 /\ k[i].sup = p => ventes[p][i].sup = p /\ k[i].prix = ventes[p][i].prix
    BY <2>2
  <2>. HIDE DEF i
  <2>. QED BY <1>1, <1>2, <2>1, <2>3 DEF Decidee, i
<1>4. DecisionPrise(p)' /\ \E e \in {"boucle", "ecrit"} : pc' = [pc EXCEPT ![p] = e]
  BY <1>3, ApresLecture
<1>5. PICK e \in {"boucle", "ecrit"} : pc' = [pc EXCEPT ![p] = e]
  BY <1>4
<1>6. /\ vente' = [vente EXCEPT ![p] = vente[p]] /\ vente[p] \in {-1, 2, 3}
      /\ due' = [due EXCEPT ![p] = due[p]] /\ due[p] \in BOOLEAN
      /\ copie' = [copie EXCEPT ![p] = copie[p]] /\ copie[p] \in Corps \cup {Aucune}
  BY DEF Coherence, Types
<1>. QED BY <1>4, <1>5, <1>6, DansLaBoucle

\* The list and the sales as they were.
LEMMA Inchangees ==
  ASSUME Coherence, NEW p \in Pairs
  PROVE  /\ ventes = [ventes EXCEPT ![p] = ventes[p]] /\ ventes[p] \in Seq(Fiches)
         /\ liste = [liste EXCEPT ![p] = liste[p]]
         /\ liste[p] \in [slots : Seq(Pairs), count : Nat]
         /\ UNCHANGED liste => EnTete(p)'
         /\ \A i \in 1..Len(ventes[p]) : VenteSure(ventes[p][i])
         /\ Moi(p) = p
BY DEF Coherence, Types, PairSur, EnTete, Moi, VentesSures

LEMMA OublieAckSur ==
  ASSUME Coherence, NEW p \in Pairs, NEW d \in Lisibles(p), OublieAck(p, d)
  PROVE  Coherence'
<1>1. /\ Lit(p, d, vente[p]) /\ net' = Lu(p, d)
      /\ UNCHANGED <<ventes, vente, due, copie, liste, frames, suite>>
  BY DEF OublieAck, boucle
<1>2. ReseauSur(net)'
  BY <1>1, LuSur DEF Coherence
<1>. QED BY <1>1, <1>2, Inchangees, LectureSure

LEMMA handle_new_bidSur ==
  ASSUME Coherence, NEW p \in Pairs, NEW d \in Lisibles(p), handle_new_bid(p, d)
  PROVE  Coherence'
<1>. DEFINE l == ventes[p]
            i == find_sale(d.m.numv, l)
            v == sale_update(l[i], d.m.prix, d.m.id)
            k == [l EXCEPT ![i] = v]
<1>1. Lit(p, d, vente[p]) /\ UNCHANGED <<vente, due, copie, liste, frames, suite>>
  BY DEF handle_new_bid
<1>2. d.m \in Messages /\ d.m.code = 10 /\ d.src \in Pairs /\ d.src # p /\ d.m.numv[1] = d.src
  BY LisibleDe DEF handle_new_bid, DeLuiMeme, Coherence
<1>3. d.m \in Corps
  BY <1>2 DEF Messages
<1>4. ReseauSur(net)'
  <2>1. ReseauSur(Lu(p, d)) /\ ReseauSur(LuEtAccuse(p, d))
    BY LuSur, AccuseSur DEF Coherence
  <2>. QED BY <2>1 DEF handle_new_bid
<1>5. CASE i = 0
  <2>1. ventes' = ventes
    BY <1>5 DEF handle_new_bid
  <2>. QED BY <1>1, <1>4, <2>1, Inchangees, LectureSure
<1>6. CASE i # 0
  <2>1. l \in Seq(Fiches) /\ \A j \in 1..Len(l) : VenteSure(l[j])
    BY Inchangees
  <2>2. i \in 1..Len(l) /\ l[i] \in Fiches /\ l[i].numv = d.m.numv
    BY <1>6, <2>1, RangTrouve, Trouvee
  <2>3. l[i].sup # p
    BY <1>2, <2>1, <2>2, PairsAssumption DEF VenteSure
  <2>4. v \in Fiches /\ v.numv = l[i].numv /\ v.sup = l[i].sup
    BY <1>3, <2>2, FicheMiseAJour
  <2>5. ventes' = [ventes EXCEPT ![p] = k]
    BY <1>6 DEF handle_new_bid
  <2>. HIDE DEF v, l, i
  <2>6. /\ k \in Seq(Fiches) /\ Len(k) = Len(l)
        /\ \A j \in 1..Len(l) : k[j] = IF j = i THEN v ELSE l[j]
        /\ \A j \in 1..Len(k) : VenteSure(k[j])
        /\ \A n : find_sale(n, k) = find_sale(n, l)
    BY <2>1, <2>2, <2>4, Change
  <2>. HIDE DEF k
  <2>7. \A j \in 1..Len(l) : /\ k[j].sup = l[j].sup
                             /\ k[j].prix = l[j].prix \/ k[j].sup # p
    BY <2>3, <2>4, <2>6
  <2>. QED BY <1>1, <1>4, <2>5, <2>6, <2>7, Inchangees, LectureSure DEF l
<1>. QED BY <1>5, <1>6

\* A closure keeps what a sale is about.
LEMMA FermetureSure ==
  ASSUME Coherence, NEW p \in Pairs, NEW i \in 1..Len(ventes[p])
  PROVE  LET k == [ventes[p] EXCEPT ![i] = sale_close(@)] IN
         /\ k \in Seq(Fiches) /\ \A j \in 1..Len(k) : VenteSure(k[j])
         /\ \A n : find_sale(n, k) = find_sale(n, ventes[p])
         /\ \A j \in 1..Len(ventes[p]) :
                k[j].sup = ventes[p][j].sup /\ k[j].prix = ventes[p][j].prix
<1>. DEFINE l == ventes[p]
            v == sale_close(l[i])
            k == [l EXCEPT ![i] = v]
<1>1. l \in Seq(Fiches) /\ \A j \in 1..Len(l) : VenteSure(l[j])
  BY Inchangees
<1>. HIDE DEF l
<1>2. l[i] \in Fiches /\ i \in 1..Len(l)
  BY <1>1, ElementOfSeq DEF l
<1>3. v \in Fiches /\ v.numv = l[i].numv /\ v.sup = l[i].sup /\ v.prix = l[i].prix
  BY <1>2, FicheMiseAJour
<1>. HIDE DEF v
<1>4. /\ k \in Seq(Fiches) /\ Len(k) = Len(l)
      /\ \A j \in 1..Len(l) : k[j] = IF j = i THEN v ELSE l[j]
      /\ \A j \in 1..Len(k) : VenteSure(k[j])
      /\ \A n : find_sale(n, k) = find_sale(n, l)
  BY <1>1, <1>2, <1>3, Change
<1>. HIDE DEF k
<1>5. \A j \in 1..Len(l) : k[j].sup = l[j].sup /\ k[j].prix = l[j].prix
  BY <1>3, <1>4
<1>6. k = [ventes[p] EXCEPT ![i] = sale_close(@)]
  BY DEF k, v, l
<1>. QED BY <1>4, <1>5, <1>6 DEF l

LEMMA handle_closureSur ==
  ASSUME Coherence, NEW p \in Pairs, NEW d \in Lisibles(p), handle_closure(p, d)
  PROVE  Coherence'
<1>. DEFINE i == find_sale(d.m.numv, ventes[p])
<1>1. Lit(p, d, vente[p]) /\ UNCHANGED <<vente, due, copie, liste, frames, suite>>
  BY DEF handle_closure
<1>2. ReseauSur(net)'
  <2>1. ReseauSur(Lu(p, d)) /\ ReseauSur(LuEtAccuse(p, d))
    BY LuSur, AccuseSur DEF Coherence
  <2>. QED BY <2>1 DEF handle_closure
<1>3. CASE i = 0
  <2>1. ventes' = ventes
    BY <1>3 DEF handle_closure
  <2>. QED BY <1>1, <1>2, <2>1, Inchangees, LectureSure
<1>4. CASE i # 0
  <2>1. i \in 1..Len(ventes[p])
    BY <1>4, Inchangees, RangTrouve
  <2>. DEFINE k == [ventes[p] EXCEPT ![i] = sale_close(@)]
  <2>2. ventes' = [ventes EXCEPT ![p] = k]
    BY <1>4 DEF handle_closure
  <2>. HIDE DEF i
  <2>3. /\ k \in Seq(Fiches) /\ \A j \in 1..Len(k) : VenteSure(k[j])
        /\ \A n : find_sale(n, k) = find_sale(n, ventes[p])
        /\ \A j \in 1..Len(ventes[p]) :
                k[j].sup = ventes[p][j].sup /\ k[j].prix = ventes[p][j].prix
    BY <2>1, FermetureSure
  <2>. HIDE DEF k
  <2>. QED BY <1>1, <1>2, <2>2, <2>3, Inchangees, LectureSure
<1>. QED BY <1>3, <1>4

\* The peer that leaves is not the first of the list, which stays where it is.
LEMMA DepartDeListe ==
  ASSUME NEW g \in [slots : Seq(Pairs), count : Nat], NEW id \in Pairs,
         g.count <= Len(g.slots), g.slots # <<>>, g.slots[1] # id
  PROVE  LET h == peer_list_remove(g, id) IN
         /\ h \in [slots : Seq(Pairs), count : Nat]
         /\ h.count <= Len(h.slots) /\ h.slots # <<>> /\ h.slots[1] = g.slots[1]
<1>. DEFINE h == peer_list_remove(g, id)
            R == Rangs(g, id)
            i == Premier(R)
            s == g.slots
            t == [s EXCEPT ![i] = s[g.count]]
<1>1. CASE ~peer_list_find(g, id)
  BY <1>1 DEF peer_list_remove
<1>2. CASE peer_list_find(g, id)
  <2>1. R # {} /\ R \subseteq 1..g.count /\ 1 \notin R /\ \A j \in R : s[j] = id
    BY <1>2 DEF peer_list_find, Rangs
  <2>2. R \subseteq Nat
    BY <2>1
  <2>3. i \in R
    BY <2>1, <2>2, Minimum, Zenon
  <2>4. i \in 1..g.count /\ i # 1
    BY <2>1, <2>3
  <2>5. Len(s) \in Nat /\ s \in Seq(Pairs)
    BY LenProperties
  <2>6. g.count \in 1..Len(s) /\ i \in 1..Len(s) /\ 1 \in 1..Len(s)
    BY <2>4, <2>5
  <2>7. s[g.count] \in Pairs
    BY <2>5, <2>6, ElementOfSeq
  <2>8. h = [slots |-> t, count |-> g.count - 1]
    BY <1>2 DEF peer_list_remove
  <2>. HIDE DEF i, s, h, R
  <2>9. t \in Seq(Pairs) /\ Len(t) = Len(s) /\ t[1] = s[1]
    BY <2>4, <2>5, <2>6, <2>7, ExceptSeq
  <2>. HIDE DEF t
  <2>10. t # <<>>
    BY <2>6, <2>9
  <2>11. h.slots = t /\ h.count = g.count - 1 /\ g.count - 1 \in Nat /\ g.count - 1 <= Len(s)
    BY <2>6, <2>8
  <2>. QED BY <2>8, <2>9, <2>10, <2>11 DEF h, s
<1>. QED BY <1>1, <1>2

\* is_superv gives a sale of the list that the peer supervises, or 0.
LEMMA RangSuperviseur ==
  ASSUME NEW l \in Seq(Fiches), NEW id, is_superv(id, l) # 0
  PROVE  is_superv(id, l) \in 1..Len(l) /\ l[is_superv(id, l)].sup = id
<1>. DEFINE S == {i \in DOMAIN l : l[i].sup = id}
<1>1. DOMAIN l = 1..Len(l) /\ S \subseteq Nat /\ S \subseteq 1..Len(l)
  BY LenProperties
<1>2. S # {} /\ is_superv(id, l) = Premier(S)
  BY DEF is_superv, PremierRang, Premier
<1>3. Premier(S) \in S
  BY <1>1, <1>2, Minimum, Zenon
<1>. QED BY <1>1, <1>2, <1>3

LEMMA handle_peer_departureSur ==
  ASSUME Coherence, NEW p \in Pairs, NEW d \in Lisibles(p), handle_peer_departure(p, d)
  PROVE  Coherence'
<1>. DEFINE i == is_superv(d.m.id, ventes[p])
            g == liste[p]
            h == peer_list_remove(g, d.m.id)
<1>1. /\ Lit(p, d, vente[p]) /\ UNCHANGED <<vente, due, copie, frames, suite>>
      /\ liste' = [liste EXCEPT ![p] = h]
  BY DEF handle_peer_departure
<1>2. d.m.code = 13 /\ d.src \in Pairs /\ d.src # p /\ d.m.id = d.src
  BY LisibleDe DEF handle_peer_departure, DeLuiMeme, Coherence
<1>3. ReseauSur(net)'
  <2>1. ReseauSur(Lu(p, d)) /\ ReseauSur(LuEtAccuse(p, d))
    BY LuSur, AccuseSur DEF Coherence
  <2>. QED BY <2>1 DEF handle_peer_departure
<1>4. /\ h \in [slots : Seq(Pairs), count : Nat]
      /\ h.count <= Len(h.slots) /\ h.slots # <<>> /\ h.slots[1] = p
  <2>1. /\ g \in [slots : Seq(Pairs), count : Nat]
        /\ g.count <= Len(g.slots) /\ g.slots # <<>> /\ g.slots[1] = p
    BY DEF Coherence, Types, PairSur, EnTete, Moi
  <2>2. d.m.id \in Pairs /\ g.slots[1] # d.m.id
    BY <1>2, <2>1
  <2>. HIDE DEF g
  <2>. QED BY <2>1, <2>2, DepartDeListe
<1>. HIDE DEF h
<1>5. EnTete(p)'
  <2>1. liste'[p] = h
    BY <1>1 DEF Coherence, Types
  <2>. QED BY <1>4, <2>1 DEF EnTete, Moi
<1>6. CASE i = 0
  <2>1. ventes' = ventes
    BY <1>6 DEF handle_peer_departure
  <2>. QED BY <1>1, <1>3, <1>4, <1>5, <2>1, Inchangees, LectureSure
<1>7. CASE i # 0
  <2>1. i \in 1..Len(ventes[p])
    BY <1>7, Inchangees, RangSuperviseur
  <2>. DEFINE k == [ventes[p] EXCEPT ![i] = sale_close(@)]
  <2>2. ventes' = [ventes EXCEPT ![p] = k]
    BY <1>7 DEF handle_peer_departure
  <2>. HIDE DEF i
  <2>3. /\ k \in Seq(Fiches) /\ \A j \in 1..Len(k) : VenteSure(k[j])
        /\ \A n : find_sale(n, k) = find_sale(n, ventes[p])
        /\ \A j \in 1..Len(ventes[p]) :
                k[j].sup = ventes[p][j].sup /\ k[j].prix = ventes[p][j].prix
    BY <2>1, FermetureSure
  <2>. HIDE DEF k
  <2>. QED BY <1>1, <1>3, <1>4, <1>5, <2>2, <2>3, LectureSure
<1>. QED BY <1>6, <1>7

\* No round announced anybody.
LEMMA handle_disparitionJamais ==
  ASSUME Coherence, NEW p \in Pairs, NEW d \in Lisibles(p), handle_disparition(p, d)
  PROVE  FALSE
<1>1. d.m \in Messages /\ d.m.code = 18
  BY LisibleDe DEF handle_disparition, Coherence
<1>. QED BY <1>1 DEF Messages, Corps

\* The sale another peer starts is not found by the number of a bid on one of
\* the reader's own.
LEMMA handle_sale_initSur ==
  ASSUME Coherence, NEW p \in Pairs, NEW d \in Lisibles(p), handle_sale_init(p, d)
  PROVE  Coherence'
<1>. DEFINE l == ventes[p]
            v == sale_init(d.m.numv, d.m.prix, d.m.id, Personne)
            k == Append(l, v)
<1>1. /\ Lit(p, d, vente[p]) /\ UNCHANGED <<vente, due, copie, liste, frames, suite>>
      /\ ventes' = [ventes EXCEPT ![p] = k] /\ net' = Lu(p, d)
  BY DEF handle_sale_init
<1>2. /\ d.m \in Messages /\ d.m.code = 8 /\ d.src \in Pairs /\ d.src # p
      /\ d.m.numv[1] = d.src /\ d.m.id = d.src
  BY LisibleDe DEF handle_sale_init, DeLuiMeme, Coherence
<1>3. d.m \in Corps
  BY <1>2 DEF Messages
<1>4. v \in Fiches /\ VenteSure(v) /\ v.sup # p
  BY <1>2, <1>3 DEF sale_init, Fiches, VenteSure, Corps
<1>5. ReseauSur(net)'
  BY <1>1, LuSur DEF Coherence
<1>6. l \in Seq(Fiches) /\ (\A j \in 1..Len(l) : VenteSure(l[j])) /\ Moi(p) = p
  BY Inchangees
<1>. HIDE DEF v, l
<1>7. /\ k \in Seq(Fiches) /\ Len(k) = Len(l) + 1 /\ Len(l) \in Nat
      /\ \A j \in 1..Len(l) : k[j] = l[j]
      /\ k[Len(l) + 1] = v
  BY <1>4, <1>6, AppendProperties, LenProperties
<1>8. \A j \in 1..Len(k) : VenteSure(k[j])
  <2>1. \A j \in 1..Len(k) : j \in 1..Len(l) \/ j = Len(l) + 1
    BY <1>7
  <2>. QED BY <1>4, <1>6, <1>7, <2>1
<1>9. Decidee(p) => Decidee(p)'
  <2>. DEFINE n == copie[p].numv
              i == find_sale(n, l)
              j == find_sale(n, k)
  <2>1. IF i # 0 THEN j = i ELSE j # 0 => j = Len(l) + 1
    BY <1>4, <1>6, TrouveeApresAjout
  <2>2. i # 0 => i \in 1..Len(l)
    BY <1>6, RangTrouve
  <2>3. ventes'[p] = k /\ copie'[p] = copie[p] /\ Moi(p)' = Moi(p)
    BY <1>1 DEF Coherence, Types, Moi
  <2>4. (i # 0 => k[j] = l[i]) /\ (i = 0 => j = 0 \/ k[j] = v)
    BY <1>7, <2>1, <2>2
  <2>5. i # 0 => j # 0 /\ j = i
    BY <2>1
  <2>. HIDE DEF i, j, k
  <2>6. CASE i # 0
    BY <2>3, <2>4, <2>5, <2>6 DEF Decidee, i, j, l
  <2>7. CASE i = 0
    BY <1>4, <1>6, <2>3, <2>4, <2>7 DEF Decidee, i, j, l
  <2>. QED BY <2>6, <2>7
<1>. HIDE DEF k
<1>10. DecisionPrise(p)' /\ \E e \in {"boucle", "ecrit"} : pc' = [pc EXCEPT ![p] = e]
  BY <1>1, <1>9, ApresLecture
<1>11. PICK e \in {"boucle", "ecrit"} : pc' = [pc EXCEPT ![p] = e]
  BY <1>10
<1>12. /\ vente' = [vente EXCEPT ![p] = vente[p]] /\ vente[p] \in {-1, 2, 3}
       /\ due' = [due EXCEPT ![p] = due[p]] /\ due[p] \in BOOLEAN
       /\ copie' = [copie EXCEPT ![p] = copie[p]] /\ copie[p] \in Corps \cup {Aucune}
       /\ liste' = [liste EXCEPT ![p] = liste[p]] /\ liste[p] \in [slots : Seq(Pairs), count : Nat]
       /\ EnTete(p)'
  BY <1>1, Inchangees DEF Coherence, Types
<1>. QED BY <1>1, <1>5, <1>7, <1>8, <1>10, <1>11, <1>12, DansLaBoucle

\* A bid on a sale of the reader restarts its delay, and is looked at in the same
\* iteration.
LEMMA handle_bidSur ==
  ASSUME Coherence, NEW p \in Pairs, NEW d \in Lisibles(p), handle_bid(p, d)
  PROVE  Coherence'
<1>. DEFINE v == sale_init(d.m.numv, d.m.prix, Personne, Personne)
            k == IF ventes[p] # <<>> THEN ventes[p] ELSE <<v>>
            i == find_sale(d.m.numv, k)
<1>1. /\ copie' = [copie EXCEPT ![p] = d.m] /\ net' = Lu(p, d)
      /\ UNCHANGED <<liste, frames, suite>>
      /\ pc' = [pc EXCEPT ![p] = Apres(vente'[p], "ecrit")]
  BY DEF handle_bid, Lit
<1>2. d.m \in Messages /\ d.m.code = 9
  BY LisibleDe DEF handle_bid, Coherence
<1>3. d.m \in Corps
  BY <1>2 DEF Messages
<1>4. ReseauSur(net)'
  BY <1>1, LuSur DEF Coherence
<1>5. v \in Fiches /\ VenteSure(v)
  BY <1>3 DEF sale_init, Fiches, VenteSure, Corps
<1>6. ventes' = [ventes EXCEPT ![p] = k] /\ ventes'[p] = k
  <2>1. CASE ventes[p] # <<>>
    BY <2>1 DEF handle_bid, Coherence, Types
  <2>2. CASE ventes[p] = <<>>
    BY <2>2 DEF handle_bid, Coherence, Types
  <2>. QED BY <2>1, <2>2
<1>. HIDE DEF v
<1>7. k \in Seq(Fiches) /\ \A j \in 1..Len(k) : VenteSure(k[j])
  <2>1. CASE ventes[p] # <<>>
    BY <2>1, Inchangees
  <2>2. CASE ventes[p] = <<>>
    BY <1>5, <2>2
  <2>. QED BY <2>1, <2>2
<1>. HIDE DEF k
<1>8. PICK s \in SuperviseurLu(k, i) : Reveil(p, s)
  BY <1>6 DEF handle_bid
<1>. DEFINE w == IF s = p THEN 2 ELSE vente[p]
            b == due[p] /\ s # p
<1>9. /\ vente' = [vente EXCEPT ![p] = w] /\ vente'[p] = w /\ w \in {-1, 2, 3}
      /\ due' = [due EXCEPT ![p] = b] /\ due'[p] = b /\ b \in BOOLEAN
  BY <1>8 DEF Reveil, Coherence, Types
<1>10. i # 0 => s = k[i].sup
  BY <1>8 DEF SuperviseurLu
<1>. DEFINE e == Apres(w, "ecrit")
<1>11. pc' = [pc EXCEPT ![p] = e] /\ pc'[p] = e /\ e \in {"boucle", "ecrit"}
  BY <1>1, <1>9 DEF Apres, Coherence, Types
<1>12. EnTete(p)' /\ Moi(p)' = p /\ copie'[p] = d.m
  BY <1>1, Inchangees DEF EnTete, Coherence, PairSur, Moi, Types
<1>13. DecisionPrise(p)'
  <2>1. CASE s = p
    <3>1. w = 2 /\ ~b /\ e = "ecrit"
      BY <2>1 DEF Apres
    <3>2. vente'[p] = 2 /\ ~due'[p] /\ pc'[p] = "ecrit"
      BY <1>9, <1>11, <3>1
    <3>. QED BY <3>2 DEF ADecider, DecisionPrise
  <2>2. CASE s # p
    BY <1>6, <1>10, <1>12, <2>2 DEF Decidee, DecisionPrise, i
  <2>. QED BY <2>1, <2>2
<1>. HIDE DEF w, b, e
<1>14. liste' = [liste EXCEPT ![p] = liste[p]] /\ liste[p] \in [slots : Seq(Pairs), count : Nat]
  BY <1>1, Inchangees
<1>. QED BY <1>1, <1>3, <1>4, <1>6, <1>7, <1>9, <1>11, <1>12, <1>13, <1>14, DansLaBoucle

LEMMA RecoitAutreSur ==
  ASSUME Coherence, NEW p \in Pairs, NEW d \in Lisibles(p), RecoitAutre(p, d)
  PROVE  Coherence'
<1>1. /\ Attend(p) /\ EntreSectionG(p) /\ net' = Lu(p, d)
      /\ UNCHANGED <<ventes, vente, due, copie, liste, frames, suite>>
  BY DEF RecoitAutre, boucle
<1>2. ReseauSur(net)'
  BY <1>1, LuSur DEF Coherence
<1>. QED BY <1>1, <1>2, EntreSectionGSur

LEMMA ExpireSur ==
  ASSUME Coherence, NEW p \in Pairs, Expire(p)
  PROVE  Coherence'
<1>1. /\ Attend(p) /\ EntreSectionG(p)
      /\ UNCHANGED <<net, ventes, vente, due, copie, liste, frames, suite>>
  BY DEF Expire, boucle
<1>2. ReseauSur(net)'
  BY <1>1 DEF Coherence
<1>. QED BY <1>1, <1>2, EntreSectionGSur
-----------------------------------------------------------------------------
(* The end of an iteration.                                                  *)

\* A step that changes neither the sales, nor the last bid, nor the list.
LEMMA SansVente ==
  ASSUME Coherence, NEW p \in Pairs,
         NEW e \in {"boucle", "lu", "ecrit", "sorti"}, pc' = [pc EXCEPT ![p] = e],
         NEW w \in {-1, 2, 3}, vente' = [vente EXCEPT ![p] = w],
         NEW b \in BOOLEAN, due' = [due EXCEPT ![p] = b],
         UNCHANGED <<ventes, copie, liste, frames, suite, net>>,
         e = "sorti" \/ Decidee(p)
  PROVE  Coherence'
<1>1. ventes' = [ventes EXCEPT ![p] = ventes[p]] /\ ventes[p] \in Seq(Fiches)
      /\ \A i \in 1..Len(ventes[p]) : VenteSure(ventes[p][i])
  BY Inchangees
<1>2. copie' = [copie EXCEPT ![p] = copie[p]] /\ copie[p] \in Corps \cup {Aucune}
  BY DEF Coherence, Types
<1>3. liste' = [liste EXCEPT ![p] = liste[p]] /\ EnTete(p)'
      /\ liste[p] \in [slots : Seq(Pairs), count : Nat]
  BY Inchangees
<1>4. pc'[p] = e
  BY DEF Coherence, Types
<1>5. DecisionPrise(p)'
  <2>1. Decidee(p)' = Decidee(p)
    BY DEF Decidee, Moi
  <2>. QED BY <1>4, <2>1 DEF DecisionPrise, Sorties
<1>6. ReseauSur(net)'
  BY DEF Coherence
<1>. QED BY <1>1, <1>2, <1>3, <1>5, <1>6, DansLaBoucle

LEMMA alerte_fin_enchereSur ==
  ASSUME Coherence, NEW p \in Pairs, alerte_fin_enchere(p)
  PROVE  Coherence'
<1>1. PeutEcrire(p) /\ due[p]
  BY DEF alerte_fin_enchere
<1>2. /\ pc' = [pc EXCEPT ![p] = "boucle"] /\ vente' = [vente EXCEPT ![p] = 3]
      /\ UNCHANGED <<ventes, copie, liste, frames, suite, net>>
  BY DEF alerte_fin_enchere
<1>3. due' = [due EXCEPT ![p] = due[p]] \/ due' = [due EXCEPT ![p] = FALSE]
  BY DEF alerte_fin_enchere, Coherence, Types
<1>4. Decidee(p)
  BY <1>1, Decide DEF PeutEcrire, ADecider, Sorties
<1>5. due[p] \in BOOLEAN
  BY DEF Coherence, Types
<1>. QED BY <1>2, <1>3, <1>4, <1>5, SansVente

LEMMA RienAFaireSur ==
  ASSUME Coherence, NEW p \in Pairs, RienAFaire(p)
  PROVE  Coherence'
<1>1. /\ pc[p] \in {"lu", "ecrit"} /\ pc' = [pc EXCEPT ![p] = "boucle"]
      /\ vente[p] = 3 \/ copie[p] = Aucune
      /\ UNCHANGED <<ventes, vente, due, copie, liste, frames, suite, net>>
  BY DEF RienAFaire, boucle
<1>2. Decidee(p)
  BY <1>1, Decide DEF ADecider, Sorties, Decidee
<1>3. /\ vente' = [vente EXCEPT ![p] = vente[p]] /\ vente[p] \in {-1, 2, 3}
      /\ due' = [due EXCEPT ![p] = due[p]] /\ due[p] \in BOOLEAN
  BY <1>1 DEF Coherence, Types
<1>. QED BY <1>1, <1>2, <1>3, SansVente

LEMMA TempsSur ==
  ASSUME Coherence, NEW p \in Pairs, Temps(p)
  PROVE  Coherence'
<1>1. /\ pc[p] = "boucle" /\ due' = [due EXCEPT ![p] = TRUE]
      /\ UNCHANGED <<pc, ventes, vente, copie, liste, frames, suite, net>>
  BY DEF Temps
<1>2. Decidee(p)
  BY <1>1, Decide DEF ADecider, Sorties
<1>3. /\ vente' = [vente EXCEPT ![p] = vente[p]] /\ vente[p] \in {-1, 2, 3}
      /\ pc' = [pc EXCEPT ![p] = "boucle"]
  BY <1>1 DEF Coherence, Types
<1>. QED BY <1>1, <1>2, <1>3, SansVente

LEMMA RangActive ==
  ASSUME NEW l \in Seq(Fiches), PremiereActive(l) # 0
  PROVE  PremiereActive(l) \in 1..Len(l) /\ l[PremiereActive(l)] \in Fiches
<1>. DEFINE S == {i \in DOMAIN l : l[i].active}
<1>1. DOMAIN l = 1..Len(l) /\ S \subseteq Nat /\ S \subseteq 1..Len(l)
  BY LenProperties
<1>2. S # {} /\ PremiereActive(l) = Premier(S)
  BY DEF PremiereActive, PremierRang, Premier
<1>3. Premier(S) \in S
  BY <1>1, <1>2, Minimum, Zenon
<1>4. PremiereActive(l) \in 1..Len(l)
  BY <1>1, <1>2, <1>3
<1>. QED BY <1>4, ElementOfSeq

LEMMA finalisation_enchereSur ==
  ASSUME Coherence, NEW p \in Pairs, finalisation_enchere(p)
  PROVE  Coherence'
<1>. DEFINE l == ventes[p]
            i == ACloturer(p)
<1>1. PeutEcrire(p) /\ due[p] /\ UNCHANGED <<ventes, copie, liste>>
  BY DEF finalisation_enchere
<1>2. Decidee(p)
  BY <1>1, Decide DEF PeutEcrire, ADecider, Sorties
<1>3. CASE i = 0
  <2>1. /\ vente' = [vente EXCEPT ![p] = -1] /\ due' = [due EXCEPT ![p] = FALSE]
        /\ pc' = [pc EXCEPT ![p] = "boucle"] /\ UNCHANGED <<frames, suite, net>>
    BY <1>3 DEF finalisation_enchere
  <2>. QED BY <1>1, <1>2, <2>1, SansVente
<1>4. CASE i # 0
  <2>. DEFINE s == [but |-> "cloture", rang |-> i]
  <2>1. consensus(p, Cloture(p, i), s) /\ UNCHANGED <<vente, due>>
    BY <1>4 DEF finalisation_enchere
  <2>2. l \in Seq(Fiches)
    BY Inchangees
  <2>3. i \in 1..Len(l) /\ l[i] \in Fiches
    BY <1>4, <2>2, RangTrouve, RangActive DEF ACloturer
  <2>4. Cloture(p, i) \in Messages /\ DeLuiMeme(p, Cloture(p, i))
    BY <2>3 DEF Cloture, Messages, Fiches, DeLuiMeme
  <2>5. Decidee(p)'
    BY <1>1, <1>2 DEF Decidee, Moi
  <2>6. copie' = [copie EXCEPT ![p] = copie[p]] /\ copie[p] \in Corps \cup {Aucune}
    BY <1>1 DEF Coherence, Types
  <2>7. i \in Nat
    BY <2>2, <2>3, LenProperties
  <2>. HIDE DEF i
  <2>8. /\ s \in [but : {"rien", "enchere", "cloture", "depart"}, rang : Nat]
        /\ s.but = "cloture" /\ s.rang = i
    BY <2>7
  <2>. HIDE DEF s
  <2>. QED BY <1>1, <2>1, <2>3, <2>4, <2>5, <2>6, <2>8, AppelSur
<1>. QED BY <1>3, <1>4

\* The last bid is refused when it is not above the price, or put to consensus.
LEMMA verifier_enchereSur ==
  ASSUME Coherence, NEW p \in Pairs, verifier_enchere(p)
  PROVE  Coherence'
<1>. DEFINE l == ventes[p]
            c == copie[p]
            i == find_sale(c.numv, l)
            mienne == i # 0 /\ l[i].sup = Moi(p) /\ c.code = 9
<1>1. PeutEcrire(p) /\ c # Aucune /\ UNCHANGED <<ventes, vente, due, liste>>
  BY DEF verifier_enchere
<1>2. c \in Corps /\ c.prix \in Nat /\ l \in Seq(Fiches)
  BY <1>1, PrixAssumption DEF Coherence, Types, Corps
<1>3. ASSUME NEW e \in {"boucle", "sorti"}, pc' = [pc EXCEPT ![p] = e],
             UNCHANGED <<copie, frames, suite, net>>, e = "sorti" \/ Decidee(p)
      PROVE  Coherence'
  <2>1. /\ vente' = [vente EXCEPT ![p] = vente[p]] /\ vente[p] \in {-1, 2, 3}
        /\ due' = [due EXCEPT ![p] = due[p]] /\ due[p] \in BOOLEAN
    BY <1>1 DEF Coherence, Types
  <2>. QED BY <1>1, <1>3, <2>1, SansVente
<1>4. CASE i = 0 /\ pc' = [pc EXCEPT ![p] = "sorti"] /\ UNCHANGED <<copie, frames, suite, net>>
  BY <1>3, <1>4
<1>5. CASE ~mienne /\ pc' = [pc EXCEPT ![p] = "boucle"] /\ UNCHANGED <<copie, frames, suite, net>>
  <2>1. Decidee(p)
    BY <1>5 DEF Decidee
  <2>. QED BY <1>3, <1>5, <2>1
<1>6. CASE /\ mienne /\ ~Acceptee(l[i], c) /\ pc' = [pc EXCEPT ![p] = "boucle"]
           /\ UNCHANGED <<copie, frames, suite, net>>
  <2>1. l[i].prix \in Nat
    BY <1>2, <1>6, RangTrouve, PrixAssumption DEF Fiches
  <2>2. Decidee(p)
    BY <1>2, <1>6, <2>1 DEF Decidee, Acceptee
  <2>. QED BY <1>3, <1>6, <2>2
<1>7. CASE /\ mienne /\ Acceptee(l[i], c) /\ copie' = [copie EXCEPT ![p].code = 10]
           /\ consensus(p, copie'[p], [but |-> "enchere", rang |-> i])
  <2>. DEFINE b == [c EXCEPT !.code = 10]
              s == [but |-> "enchere", rang |-> i]
  <2>1. i \in 1..Len(l) /\ l[i] \in Fiches /\ l[i].numv = c.numv
    BY <1>2, <1>7, RangTrouve, Trouvee
  <2>2. b \in Corps /\ b.code = 10 /\ b.numv = c.numv /\ b.prix = c.prix
    BY <1>2 DEF Corps
  <2>3. copie' = [copie EXCEPT ![p] = b] /\ copie'[p] = b
    BY <1>7 DEF Coherence, Types
  <2>. HIDE DEF b, c
  <2>4. b.numv[1] = p
    <3>1. l[i].sup = p /\ VenteSure(l[i])
      BY <1>7, <2>1, Inchangees
    <3>. QED BY <2>1, <2>2, <3>1, PairsAssumption DEF VenteSure
  <2>5. b \in Messages /\ DeLuiMeme(p, b)
    BY <2>2, <2>4 DEF Messages, DeLuiMeme
  <2>6. Decidee(p)'
    BY <2>2, <2>3 DEF Decidee
  <2>7. i \in Nat /\ l[i].prix \in Nat /\ c.prix \in Nat
    BY <1>2, <2>1, LenProperties, PrixAssumption DEF Fiches
  <2>8. l[i].prix < b.prix
    BY <1>7, <2>2, <2>7 DEF Acceptee
  <2>. HIDE DEF i
  <2>9. s \in [but : {"rien", "enchere", "cloture", "depart"}, rang : Nat]
    BY <2>7
  <2>. QED BY <1>1, <1>7, <2>1, <2>2, <2>3, <2>5, <2>6, <2>8, <2>9, AppelSur
<1>. QED BY <1>4, <1>5, <1>6, <1>7 DEF verifier_enchere

\* A peer killed from outside, and a datagram lost.
LEMMA PanneSur ==
  ASSUME Coherence, NEW p \in Pairs, Panne(p)
  PROVE  Coherence'
<1>1. /\ pc' = [pc EXCEPT ![p] = "plante"]
      /\ UNCHANGED <<ventes, vente, due, copie, liste, frames, suite, net>>
  BY DEF Panne, boucle
<1>2. Types' /\ ReseauSur(net)' /\ pc'[p] = "plante"
  BY <1>1 DEF Coherence, Types, Sorties
<1>3. EnTete(p)' /\ VentesSures(p)'
  BY <1>1 DEF Coherence, PairSur, EnTete, VentesSures, Moi
<1>4. PairSur(p)'
  BY <1>2, <1>3 DEF PairSur, RondeSure, SujetSur, EnRonde, DecisionPrise, Sorties
<1>. QED BY <1>1, <1>2, <1>4, Ensemble DEF Coherence, Types

LEMMA PerteSur ==
  ASSUME Coherence, NEW p \in Pairs, NEW d \in Lisibles(p), Perte(p, d)
  PROVE  Coherence'
<1>1. /\ net' = Lu(p, d)
      /\ UNCHANGED <<pc, ventes, vente, due, copie, liste, frames, suite>>
  BY DEF Perte, boucle
<1>2. Types' /\ ReseauSur(net)'
  BY <1>1, LuSur DEF Coherence, Types
<1>3. PairSur(p)'
  BY <1>1, Reste DEF Coherence
<1>. QED BY <1>1, <1>2, <1>3, Ensemble
-----------------------------------------------------------------------------
(* The invariant.                                                            *)

\* A peer is the first of the list it starts with.
LEMMA ListeInitiale ==
  ASSUME NEW p \in Pairs
  PROVE  /\ ListeDe(p) \in [slots : Seq(Pairs), count : Nat]
         /\ ListeDe(p).count <= Len(ListeDe(p).slots)
         /\ ListeDe(p).slots # <<>> /\ ListeDe(p).slots[1] = p
<1>. DEFINE S == {i \in 1..Len(Ordre) : Ordre[i] = p}
            r == Premier(S)
            u == SubSeq(Ordre, 1, r - 1)
            v == SubSeq(Ordre, r + 1, Len(Ordre))
            s == <<p>> \o RemoveAt(Ordre, r)
<1>1. Ordre \in Seq(Pairs) /\ Len(Ordre) \in Nat
  BY PairsAssumption, LenProperties
<1>2. S # {} /\ S \subseteq Nat
  <2>1. p \in {Ordre[i] : i \in 1..Len(Ordre)}
    BY PairsAssumption, Zenon
  <2>2. PICK i \in 1..Len(Ordre) : Ordre[i] = p
    BY <2>1
  <2>. QED BY <1>1, <2>2
<1>3. r \in S
  BY <1>2, Minimum, Zenon
<1>4. r \in 1..Len(Ordre)
  BY <1>3
<1>5. ListeDe(p) = [slots |-> s, count |-> Len(Ordre)]
  BY DEF ListeDe
<1>. HIDE DEF r
<1>6. u \in Seq(Pairs) /\ Len(u) = r - 1 /\ v \in Seq(Pairs) /\ Len(v) = Len(Ordre) - r
  BY <1>1, <1>4, SubSeqProperties, ElementOfSeq
<1>7. RemoveAt(Ordre, r) = u \o v
  BY DEF RemoveAt
<1>. HIDE DEF u, v
<1>8. u \o v \in Seq(Pairs) /\ Len(u \o v) = Len(Ordre) - 1
  <2>1. u \o v \in Seq(Pairs) /\ Len(u \o v) = Len(u) + Len(v)
    BY <1>6, ConcatProperties
  <2>. QED BY <1>1, <1>4, <1>6, <2>1
<1>9. s \in Seq(Pairs) /\ Len(s) = Len(Ordre) /\ s[1] = p
  BY <1>1, <1>4, <1>7, <1>8, ConcatProperties
<1>. HIDE DEF s
<1>10. s # <<>>
  BY <1>1, <1>4, <1>9
<1>. QED BY <1>1, <1>5, <1>9, <1>10

LEMMA InitSur ==
  ASSUME Init
  PROVE  Coherence
<1>1. Types
  <2>1. liste \in [Pairs -> [slots : Seq(Pairs), count : Nat]]
    BY ListeInitiale DEF Init
  <2>2. /\ pc \in [Pairs -> {"boucle", "lu", "ecrit", "attente", "relance"} \cup Sorties]
        /\ vente \in [Pairs -> {-1, 2, 3}] /\ due \in [Pairs -> BOOLEAN]
        /\ copie \in [Pairs -> Corps \cup {Aucune}]
    BY DEF Init
  <2>3. ventes \in [Pairs -> Seq(Fiches)] /\ frames \in [Pairs -> Seq(Activations)]
    BY DEF Init
  <2>4. suite \in [Pairs -> [but : {"rien", "enchere", "cloture", "depart"}, rang : Nat]]
    BY DEF Init, Rien
  <2>. QED BY <2>1, <2>2, <2>3, <2>4 DEF Types
<1>2. ReseauSur(net)
  BY DEF Init, ReseauSur
<1>3. ASSUME NEW p \in Pairs PROVE PairSur(p)
  <2>1. pc[p] = "boucle" /\ ventes[p] = <<>> /\ copie[p] = Aucune /\ liste[p] = ListeDe(p)
    BY <1>3 DEF Init
  <2>2. EnTete(p)
    BY <2>1, ListeInitiale DEF EnTete, Moi
  <2>3. VentesSures(p)
    BY <2>1 DEF VentesSures
  <2>. QED BY <2>1, <2>2, <2>3 DEF PairSur, RondeSure, SujetSur, EnRonde, DecisionPrise, Decidee
<1>. QED BY <1>1, <1>2, <1>3 DEF Coherence

\* A step of p, whichever it is.
LEMMA EtapeSure ==
  ASSUME Coherence, Next, perdus' = {}
  PROVE  Coherence'
<1>. PICK p \in Pairs :
        \/ Commande(p) \/ Lecture(p) \/ Ecriture(p) \/ Temps(p)
        \/ Attente(p) \/ Relance(p) \/ Termine(p)
        \/ Panne(p) \/ \E d \in Lisibles(p) : Perte(p, d)
  BY DEF Next
<1>1. CASE Commande(p)
  BY <1>1, sale_startSur, encherirSur, quitter_enchereSur DEF Commande
<1>2. CASE Lecture(p)
  BY <1>2, handle_sale_initSur, handle_bidSur, handle_new_bidSur, handle_closureSur,
     handle_peer_departureSur, handle_disparitionJamais, OublieAckSur DEF Lecture
<1>3. CASE Ecriture(p)
  BY <1>3, alerte_fin_enchereSur, finalisation_enchereSur, verifier_enchereSur,
     RienAFaireSur DEF Ecriture
<1>4. CASE Attente(p)
  BY <1>4, RecoitAckSur, RefuseEnchereSur, RecoitAutreSur, ExpireSur DEF Attente
<1>5. CASE Relance(p)
  BY <1>5, RelanceSur, disparitionPerd DEF Relance
<1>6. CASE Temps(p) \/ Termine(p) \/ Panne(p) \/ \E d \in Lisibles(p) : Perte(p, d)
  BY <1>6, TempsSur, TermineSur, PanneSur, PerteSur
<1>. QED BY <1>1, <1>2, <1>3, <1>4, <1>5, <1>6

\* A peer that was given up stays given up.
LEMMA PerdusRestent ==
  ASSUME Next
  PROVE  perdus \subseteq perdus'
<1>. PICK p \in Pairs :
        \/ Commande(p) \/ Lecture(p) \/ Ecriture(p) \/ Temps(p)
        \/ Attente(p) \/ Relance(p) \/ Termine(p)
        \/ Panne(p) \/ \E d \in Lisibles(p) : Perte(p, d)
  BY DEF Next
<1>1. CASE Commande(p)
  BY <1>1 DEF Commande, sale_start, encherir, quitter_enchere
<1>2. CASE Lecture(p)
  BY <1>2 DEF Lecture, handle_sale_init, handle_bid, handle_new_bid, handle_closure,
     handle_peer_departure, handle_disparition, OublieAck
<1>3. CASE Ecriture(p)
  BY <1>3 DEF Ecriture, alerte_fin_enchere, finalisation_enchere, verifier_enchere, RienAFaire
<1>4. CASE Attente(p)
  BY <1>4 DEF Attente, RecoitAck, RefuseEnchere, RecoitAutre, Expire
<1>5. CASE Relance(p)
  BY <1>5 DEF Relance, RelanceRepondue, disparition_peer_lambda
<1>6. CASE Temps(p) \/ Termine(p) \/ Panne(p) \/ \E d \in Lisibles(p) : Perte(p, d)
  BY <1>6 DEF Temps, Termine, Panne, Perte
<1>. QED BY <1>1, <1>2, <1>3, <1>4, <1>5, <1>6

\* The lists, the network, the rounds and the decisions of every peer stay
\* consistent as long as no round gave a peer up, whatever is lost, reordered or
\* killed (main.c:94-195, udp_message_recv.c:77-254, consensus.c:143).
THEOREM ToujoursIInv == Spec => []IInv
<1>1. Init => IInv
  BY InitSur DEF IInv
<1>2. IInv /\ [Next]_vars => IInv'
  <2>1. ASSUME IInv, Next PROVE IInv'
    BY <2>1, EtapeSure, PerdusRestent DEF IInv
  <2>2. ASSUME IInv, UNCHANGED vars PROVE IInv'
    <3>1. ASSUME Coherence PROVE Coherence'
      <4>1. Types' /\ ReseauSur(net)'
        BY <2>2, <3>1 DEF Coherence, Types, vars
      <4>2. ASSUME NEW p \in Pairs PROVE PairSur(p)'
        BY <2>2, <3>1, Reste DEF Coherence, vars
      <4>. QED BY <4>1, <4>2 DEF Coherence
    <3>. QED BY <2>2, <3>1 DEF IInv, vars
  <2>. QED BY <2>1, <2>2
<1>. QED BY <1>1, <1>2, PTL DEF Spec

-----------------------------------------------------------------------------
(* The types that no decision rests on.                                      *)
Bornes ==
    /\ infos \subseteq Pairs
    /\ commandes \in 0..MaxCommandes /\ pannes \in 0..MaxPannes /\ pertes \in 0..MaxPannes
PairBorne(p) ==
    /\ due[p] => vente[p] # -1
    /\ liste[p].count <= Len(Ordre)
    /\ (frames[p] = <<>>) = (suite[p] = Rien)
Annexe == Bornes /\ \A p \in Pairs : PairBorne(p)

\* A step of p bounds what it does not change.
LEMMA AnnexeReste ==
  ASSUME Coherence, Annexe, NEW p \in Pairs, Bornes',
         NEW w \in {-1, 2, 3}, vente' = [vente EXCEPT ![p] = w],
         NEW b \in BOOLEAN, due' = [due EXCEPT ![p] = b], b => w # -1,
         NEW g \in [slots : Seq(Pairs), count : Nat], liste' = [liste EXCEPT ![p] = g],
         g.count <= liste[p].count,
         \A q \in Pairs \ {p} : frames'[q] = frames[q] /\ suite'[q] = suite[q],
         (frames'[p] = <<>>) = (suite'[p] = Rien)
  PROVE  Annexe'
<1>1. ASSUME NEW q \in Pairs PROVE PairBorne(q)'
  <2>1. PairBorne(q)
    BY DEF Annexe
  <2>2. CASE q = p
    <3>1. vente'[p] = w /\ due'[p] = b /\ liste'[p] = g
      BY DEF Coherence, Types
    <3>2. g.count <= Len(Ordre)
      <4>1. Len(Ordre) \in Nat /\ g.count \in Nat /\ liste[p].count \in Nat
        BY PairsAssumption, LenProperties DEF Coherence, Types
      <4>. QED BY <2>1, <2>2, <4>1 DEF PairBorne
    <3>. QED BY <2>2, <3>1, <3>2 DEF PairBorne
  <2>3. CASE q # p
    BY <2>1, <2>3 DEF PairBorne, Coherence, Types
  <2>. QED BY <2>2, <2>3
<1>. QED BY <1>1 DEF Annexe

LEMMA AnnexeSimple ==
  ASSUME Coherence, Annexe, NEW p \in Pairs, Bornes', UNCHANGED <<liste, frames, suite>>,
         NEW w \in {-1, 2, 3}, vente' = [vente EXCEPT ![p] = w],
         NEW b \in BOOLEAN, due' = [due EXCEPT ![p] = b], b => w # -1
  PROVE  Annexe'
<1>1. liste' = [liste EXCEPT ![p] = liste[p]] /\ liste[p] \in [slots : Seq(Pairs), count : Nat]
  BY Inchangees
<1>2. liste[p].count <= liste[p].count
  BY <1>1
<1>3. (frames'[p] = <<>>) = (suite'[p] = Rien)
  BY DEF Annexe, PairBorne
<1>. QED BY <1>1, <1>2, <1>3, AnnexeReste

LEMMA AnnexeIdentique ==
  ASSUME Coherence, Annexe, Bornes', UNCHANGED <<vente, due, liste, frames, suite>>
  PROVE  Annexe'
BY DEF Annexe, PairBorne

LEMMA AnnexeAppel ==
  ASSUME Coherence, Annexe, NEW p \in Pairs, NEW m, NEW s, s # Rien, consensus(p, m, s),
         Bornes', UNCHANGED <<vente, due, liste>>
  PROVE  Annexe'
<1>1. /\ vente' = [vente EXCEPT ![p] = vente[p]] /\ vente[p] \in {-1, 2, 3}
      /\ due' = [due EXCEPT ![p] = due[p]] /\ due[p] \in BOOLEAN
      /\ due[p] => vente[p] # -1
  BY DEF Coherence, Types, Annexe, PairBorne
<1>2. liste' = [liste EXCEPT ![p] = liste[p]] /\ liste[p] \in [slots : Seq(Pairs), count : Nat]
      /\ liste[p].count <= liste[p].count
  BY Inchangees
<1>3. /\ \A q \in Pairs \ {p} : frames'[q] = frames[q] /\ suite'[q] = suite[q]
      /\ frames'[p] # <<>> /\ suite'[p] # Rien
  BY DEF consensus, Coherence, Types
<1>. QED BY <1>1, <1>2, <1>3, AnnexeReste

LEMMA AnnexeCommande ==
  ASSUME Coherence, Annexe, NEW p \in Pairs, Commande(p)
  PROVE  Annexe'
<1>1. ASSUME Tape(p), UNCHANGED <<infos, pannes, pertes>> PROVE Bornes'
  BY <1>1, BornesAssumption DEF Tape, Annexe, Bornes
<1>2. ASSUME NEW prix \in Bases, sale_start(p, prix) PROVE Annexe'
  <2>1. Bornes' /\ UNCHANGED <<liste, frames, suite>>
    BY <1>1, <1>2 DEF sale_start
  <2>2. CASE UNCHANGED <<vente, due>>
    BY <2>1, <2>2, AnnexeIdentique
  <2>3. CASE vente' = [vente EXCEPT ![p] = 2] /\ due' = [due EXCEPT ![p] = FALSE]
    BY <2>1, <2>3, AnnexeSimple
  <2>. QED BY <1>2, <2>2, <2>3 DEF sale_start
<1>3. ASSUME NEW numv \in Numeros, NEW prix \in Prix, encherir(p, numv, prix) PROVE Annexe'
  <2>1. Bornes' /\ UNCHANGED <<vente, due, liste, frames, suite>>
    BY <1>1, <1>3 DEF encherir, boucle
  <2>. QED BY <2>1, AnnexeIdentique
<1>4. ASSUME quitter_enchere(p) PROVE Annexe'
  <2>1. Bornes' /\ UNCHANGED <<vente, due, liste>>
    BY <1>1, <1>4 DEF quitter_enchere
  <2>. DEFINE s == [but |-> "depart", rang |-> 0]
  <2>2. consensus(p, Depart(p), s) /\ s # Rien
    BY <1>4 DEF quitter_enchere, Rien
  <2>. HIDE DEF s
  <2>. QED BY <2>1, <2>2, AnnexeAppel
<1>. QED BY <1>2, <1>3, <1>4 DEF Commande

LEMMA AnnexeLecture ==
  ASSUME Coherence, Annexe, NEW p \in Pairs, Lecture(p)
  PROVE  Annexe'
<1>. PICK d \in Lisibles(p) :
        \/ handle_sale_init(p, d) \/ handle_bid(p, d) \/ handle_new_bid(p, d)
        \/ handle_closure(p, d) \/ handle_peer_departure(p, d)
        \/ handle_disparition(p, d) \/ OublieAck(p, d)
  BY DEF Lecture
<1>1. Bornes' /\ UNCHANGED <<frames, suite>>
  BY DEF handle_sale_init, handle_bid, handle_new_bid, handle_closure, handle_peer_departure,
     handle_disparition, OublieAck, boucle, histoire, Annexe, Bornes
<1>2. CASE UNCHANGED <<vente, due, liste>>
  BY <1>1, <1>2, AnnexeIdentique
<1>3. CASE handle_bid(p, d)
  <2>1. PICK s : Reveil(p, s)
    BY <1>3 DEF handle_bid
  <2>. DEFINE w == IF s = p THEN 2 ELSE vente[p]
              b == due[p] /\ s # p
  <2>2. /\ vente' = [vente EXCEPT ![p] = w] /\ w \in {-1, 2, 3}
        /\ due' = [due EXCEPT ![p] = b] /\ b \in BOOLEAN
    BY <2>1 DEF Reveil, Coherence, Types
  <2>3. b => w # -1
    BY DEF Annexe, PairBorne
  <2>4. UNCHANGED liste
    BY <1>3 DEF handle_bid
  <2>. HIDE DEF w, b
  <2>. QED BY <1>1, <2>2, <2>3, <2>4, AnnexeSimple
<1>4. CASE handle_peer_departure(p, d)
  <2>. DEFINE g == peer_list_remove(liste[p], d.m.id)
  <2>1. UNCHANGED <<vente, due>> /\ liste' = [liste EXCEPT ![p] = g]
    BY <1>4 DEF handle_peer_departure
  <2>2. Coherence'
    BY <1>4, handle_peer_departureSur
  <2>3. g \in [slots : Seq(Pairs), count : Nat]
    <3>1. liste'[p] = g
      BY <2>1 DEF Coherence, Types
    <3>. QED BY <2>2, <3>1 DEF Coherence, Types
  <2>4. g.count <= liste[p].count
    <3>1. liste[p].count \in Nat
      BY DEF Coherence, Types
    <3>2. g = liste[p] \/ g.count = liste[p].count - 1
      BY DEF peer_list_remove
    <3>. QED BY <3>1, <3>2
  <2>5. /\ vente' = [vente EXCEPT ![p] = vente[p]] /\ vente[p] \in {-1, 2, 3}
        /\ due' = [due EXCEPT ![p] = due[p]] /\ due[p] \in BOOLEAN
        /\ due[p] => vente[p] # -1
    BY <2>1 DEF Coherence, Types, Annexe, PairBorne
  <2>6. /\ \A q \in Pairs \ {p} : frames'[q] = frames[q] /\ suite'[q] = suite[q]
        /\ (frames'[p] = <<>>) = (suite'[p] = Rien)
    BY <1>1 DEF Annexe, PairBorne
  <2>. HIDE DEF g
  <2>. QED BY <1>1, <2>1, <2>3, <2>4, <2>5, <2>6, AnnexeReste
<1>5. CASE handle_disparition(p, d)
  BY <1>5, handle_disparitionJamais
<1>. QED BY <1>2, <1>3, <1>4, <1>5
         DEF handle_sale_init, handle_new_bid, handle_closure, OublieAck, boucle

LEMMA AnnexeEcriture ==
  ASSUME Coherence, Annexe, NEW p \in Pairs, Ecriture(p)
  PROVE  Annexe'
<1>1. Bornes' /\ UNCHANGED liste
  BY DEF Ecriture, alerte_fin_enchere, finalisation_enchere, verifier_enchere, RienAFaire,
     Informe, Vivants, boucle, histoire, Annexe, Bornes
<1>2. CASE UNCHANGED <<vente, due, frames, suite>>
  BY <1>1, <1>2, AnnexeIdentique
<1>3. CASE alerte_fin_enchere(p)
  <2>1. PICK b \in BOOLEAN : due' = [due EXCEPT ![p] = b]
    BY <1>3 DEF alerte_fin_enchere, Coherence, Types
  <2>2. vente' = [vente EXCEPT ![p] = 3] /\ UNCHANGED <<frames, suite>>
    BY <1>3 DEF alerte_fin_enchere
  <2>3. b => 3 # -1
    OBVIOUS
  <2>. QED BY <1>1, <2>1, <2>2, <2>3, AnnexeSimple
<1>4. CASE finalisation_enchere(p)
  <2>. DEFINE s == [but |-> "cloture", rang |-> ACloturer(p)]
  <2>1. s # Rien
    BY DEF Rien
  <2>2. \/ /\ vente' = [vente EXCEPT ![p] = -1] /\ due' = [due EXCEPT ![p] = FALSE]
           /\ UNCHANGED <<frames, suite>>
        \/ consensus(p, Cloture(p, ACloturer(p)), s) /\ UNCHANGED <<vente, due>>
    BY <1>4 DEF finalisation_enchere
  <2>. HIDE DEF s
  <2>. QED BY <1>1, <2>1, <2>2, AnnexeSimple, AnnexeAppel
<1>5. CASE verifier_enchere(p)
  <2>. DEFINE s == [but |-> "enchere", rang |-> find_sale(copie[p].numv, ventes[p])]
  <2>1. s # Rien
    BY DEF Rien
  <2>2. /\ UNCHANGED <<vente, due>>
        /\ UNCHANGED <<frames, suite>> \/ consensus(p, copie'[p], s)
    BY <1>5 DEF verifier_enchere
  <2>. HIDE DEF s
  <2>. QED BY <1>1, <1>2, <2>1, <2>2, AnnexeAppel
<1>. QED BY <1>2, <1>3, <1>4, <1>5 DEF Ecriture, RienAFaire, boucle

LEMMA AnnexeAttente ==
  ASSUME Coherence, Annexe, NEW p \in Pairs, Attente(p)
  PROVE  Annexe'
<1>1. Bornes' /\ UNCHANGED <<vente, due, liste, suite>>
  BY DEF Attente, RecoitAck, RefuseEnchere, RecoitAutre, Expire,
     Informe, Vivants, boucle, histoire, Annexe, Bornes
<1>2. CASE UNCHANGED frames
  BY <1>1, <1>2, AnnexeIdentique
<1>3. CASE \E d \in Lisibles(p) : RecoitAck(p, d)
  <2>1. Coherence' /\ pc[p] = "attente" /\ UNCHANGED pc
    BY <1>3, RecoitAckSur DEF RecoitAck, Attend
  <2>2. Len(frames[p]) = 1 /\ Len(frames'[p]) = 1
    BY <2>1 DEF Coherence, PairSur, RondeSure, EnRonde
  <2>3. (frames'[p] = <<>>) = (suite'[p] = Rien)
    BY <1>1, <2>2 DEF Annexe, PairBorne
  <2>4. \A q \in Pairs \ {p} : frames'[q] = frames[q] /\ suite'[q] = suite[q]
    BY <1>1, <1>3 DEF RecoitAck, Coherence, Types
  <2>5. /\ vente' = [vente EXCEPT ![p] = vente[p]] /\ vente[p] \in {-1, 2, 3}
        /\ due' = [due EXCEPT ![p] = due[p]] /\ due[p] \in BOOLEAN
        /\ due[p] => vente[p] # -1
    BY <1>1 DEF Coherence, Types, Annexe, PairBorne
  <2>6. liste' = [liste EXCEPT ![p] = liste[p]] /\ liste[p] \in [slots : Seq(Pairs), count : Nat]
        /\ liste[p].count <= liste[p].count
    BY <1>1, Inchangees
  <2>. QED BY <1>1, <2>3, <2>4, <2>5, <2>6, AnnexeReste
<1>. QED BY <1>2, <1>3 DEF Attente, RefuseEnchere, RecoitAutre, Expire

LEMMA AnnexeTermine ==
  ASSUME Coherence, Annexe, NEW p \in Pairs, Termine(p)
  PROVE  Annexe'
<1>1. Bornes' /\ UNCHANGED liste
  BY DEF Termine, Informe, Vivants, histoire, Annexe, Bornes
<1>2. Len(frames[p]) = 1
  BY DEF Termine, Coherence, PairSur, RondeSure, EnRonde
<1>3. /\ frames' = [frames EXCEPT ![p] = <<>>] /\ suite' = [suite EXCEPT ![p] = Rien]
      /\ \/ UNCHANGED <<vente, due>>
         \/ vente' = [vente EXCEPT ![p] = -1] /\ due' = [due EXCEPT ![p] = FALSE]
  BY <1>2 DEF Termine, Profondeur, ApresEnchere, ApresCloture, ApresDepart
<1>4. PICK w \in {-1, 2, 3}, b \in BOOLEAN :
        /\ vente' = [vente EXCEPT ![p] = w] /\ due' = [due EXCEPT ![p] = b] /\ (b => w # -1)
  <2>1. /\ vente = [vente EXCEPT ![p] = vente[p]] /\ vente[p] \in {-1, 2, 3}
        /\ due = [due EXCEPT ![p] = due[p]] /\ due[p] \in BOOLEAN
        /\ due[p] => vente[p] # -1
    BY DEF Coherence, Types, Annexe, PairBorne
  <2>2. CASE UNCHANGED <<vente, due>>
    BY <2>1, <2>2
  <2>3. CASE vente' = [vente EXCEPT ![p] = -1] /\ due' = [due EXCEPT ![p] = FALSE]
    BY <2>3
  <2>. QED BY <1>3, <2>2, <2>3
<1>5. /\ \A q \in Pairs \ {p} : frames'[q] = frames[q] /\ suite'[q] = suite[q]
      /\ (frames'[p] = <<>>) = (suite'[p] = Rien)
  BY <1>3 DEF Coherence, Types
<1>6. liste' = [liste EXCEPT ![p] = liste[p]] /\ liste[p] \in [slots : Seq(Pairs), count : Nat]
      /\ liste[p].count <= liste[p].count
  BY <1>1, Inchangees
<1>. QED BY <1>1, <1>4, <1>5, <1>6, AnnexeReste

\* The types of TypeOK follow from both parts.
LEMMA TypesSuffisent ==
  ASSUME Coherence, Annexe, perdus = {}
  PROVE  TypeOK
<1>1. ASSUME NEW p \in Pairs
      PROVE  /\ copie[p] \in Corps \cup {Aucune} /\ (due[p] => vente[p] # -1)
             /\ liste[p].count \in 0..Len(Ordre) /\ Ids(liste[p]) \subseteq Pairs
             /\ (frames[p] = <<>>) = (suite[p] = Rien)
             /\ pc[p] \in {"attente", "relance"} => frames[p] # <<>>
             /\ net[<<p, p>>] = <<>>
  <2>1. PairBorne(p) /\ PairSur(p)
    BY DEF Annexe, Coherence
  <2>2. liste[p] \in [slots : Seq(Pairs), count : Nat] /\ liste[p].count <= Len(liste[p].slots)
    BY <2>1 DEF Coherence, Types, PairSur, EnTete
  <2>3. liste[p].count \in 0..Len(Ordre)
    BY <2>1, <2>2, PairsAssumption, LenProperties DEF PairBorne
  <2>4. Ids(liste[p]) \subseteq Pairs
    <3>1. \A i \in 1..liste[p].count : liste[p].slots[i] \in Pairs
      BY <2>2, LenProperties, ElementOfSeq
    <3>. QED BY <3>1 DEF Ids
  <2>5. pc[p] \in {"attente", "relance"} => frames[p] # <<>>
    <3>1. pc[p] \in {"attente", "relance"} => Len(frames[p]) = 1
      BY <2>1 DEF PairSur, RondeSure, EnRonde
    <3>2. Len(<<>>) = 0
      OBVIOUS
    <3>. QED BY <3>1, <3>2
  <2>6. net[<<p, p>>] = <<>>
    <3>1. net[<<p, p>>] \in Seq(Messages)
      BY DEF Coherence, ReseauSur
    <3>2. \A k \in 1..Len(net[<<p, p>>]) : FALSE
      BY DEF Coherence, ReseauSur
    <3>3. Len(net[<<p, p>>]) \in Nat
      BY <3>1, LenProperties
    <3>4. Len(net[<<p, p>>]) = 0
      BY <3>2, <3>3
    <3>. QED BY <3>1, <3>4, EmptySeq
  <2>. QED BY <2>1, <2>3, <2>4, <2>5, <2>6 DEF PairBorne, Coherence, Types
<1>2. DOMAIN net = Pairs \X Pairs
  BY DEF Coherence, ReseauSur
<1>. QED BY <1>1, <1>2 DEF TypeOK, Coherence, Types, Annexe, Bornes

\* As long as no round gave a peer up, every variable of every peer keeps its
\* type (main.c:58-75, headers/sales.h, headers/peers.h).
THEOREM TypesSansAbandon == Spec => [](perdus = {} => TypeOK)
<1>. DEFINE I == perdus = {} => Annexe
<1>1. Init => I
  <2>. SUFFICES ASSUME Init PROVE Annexe
    OBVIOUS
  <2>1. Bornes
    BY BornesAssumption DEF Init, Bornes
  <2>2. ASSUME NEW p \in Pairs PROVE PairBorne(p)
    <3>1. liste[p].count = Len(Ordre) /\ ~due[p] /\ frames[p] = <<>> /\ suite[p] = Rien
      BY <2>2 DEF Init, ListeDe
    <3>2. Len(Ordre) \in Nat
      BY PairsAssumption, LenProperties
    <3>. QED BY <3>1, <3>2 DEF PairBorne
  <2>. QED BY <2>1, <2>2 DEF Annexe
<1>2. I /\ IInv /\ [Next]_vars => I'
  <2>1. ASSUME Coherence, Annexe, Next, perdus' = {} PROVE Annexe'
    <3>. PICK p \in Pairs :
            \/ Commande(p) \/ Lecture(p) \/ Ecriture(p) \/ Temps(p)
            \/ Attente(p) \/ Relance(p) \/ Termine(p)
            \/ Panne(p) \/ \E d \in Lisibles(p) : Perte(p, d)
      BY <2>1 DEF Next
    <3>1. CASE Temps(p)
      <4>1. /\ due' = [due EXCEPT ![p] = TRUE] /\ vente' = [vente EXCEPT ![p] = vente[p]]
            /\ vente[p] \in {-1, 2, 3} /\ vente[p] # -1 /\ UNCHANGED <<liste, frames, suite>>
        BY <2>1, <3>1 DEF Temps, Coherence, Types
      <4>2. Bornes'
        BY <2>1, <3>1 DEF Temps, histoire, Annexe, Bornes
      <4>. QED BY <2>1, <4>1, <4>2, AnnexeSimple
    <3>2. CASE RelanceRepondue(p) \/ Panne(p) \/ \E d \in Lisibles(p) : Perte(p, d)
      <4>1. UNCHANGED <<vente, due, liste, frames, suite>>
        BY <3>2 DEF RelanceRepondue, Panne, Perte, boucle
      <4>2. Bornes'
        BY <2>1, <3>2, BornesAssumption
           DEF RelanceRepondue, Panne, Perte, boucle, histoire, Annexe, Bornes
      <4>. QED BY <2>1, <4>1, <4>2, AnnexeIdentique
    <3>3. CASE disparition_peer_lambda(p)
      BY <2>1, <3>3, disparitionPerd
    <3>. QED BY <2>1, <3>1, <3>2, <3>3, AnnexeCommande, AnnexeLecture, AnnexeEcriture,
             AnnexeAttente, AnnexeTermine DEF Relance
  <2>2. ASSUME Annexe, UNCHANGED vars PROVE Annexe'
    BY <2>2 DEF Annexe, Bornes, PairBorne, vars
  <2>3. ASSUME I, IInv, Next PROVE I'
    BY <2>1, <2>3, PerdusRestent DEF IInv
  <2>4. ASSUME I, UNCHANGED vars PROVE I'
    BY <2>2, <2>4 DEF vars
  <2>. QED BY <2>3, <2>4
<1>3. I /\ IInv => (perdus = {} => TypeOK)
  BY TypesSuffisent DEF IInv
<1>. QED BY <1>1, <1>2, <1>3, ToujoursIInv, PTL DEF Spec

-----------------------------------------------------------------------------
\* As long as no round gave a peer up, a supervisor that waits in its loop has
\* decided on the last bid it read (main.c:142-191).
THEOREM EncheresSansAbandon == Spec => [](perdus = {} => EncheresTraitees)
<1>1. IInv => (perdus = {} => EncheresTraitees)
  <2>. SUFFICES ASSUME Coherence PROVE EncheresTraitees
    BY DEF IInv
  <2>. SUFFICES ASSUME NEW p \in Pairs, pc[p] = "boucle", copie[p] # Aucune,
                       find_sale(copie[p].numv, ventes[p]) # 0,
                       ventes[p][find_sale(copie[p].numv, ventes[p])].sup = Moi(p),
                       copie[p].code = 9
                PROVE  copie[p].prix <= ventes[p][find_sale(copie[p].numv, ventes[p])].prix
    BY DEF EncheresTraitees
  <2>1. Decidee(p)
    BY Decide DEF ADecider, Sorties
  <2>. QED BY <2>1 DEF Decidee
<1>. QED BY <1>1, ToujoursIInv, PTL
-----------------------------------------------------------------------------
(* The prices of a supervisor.                                               *)
PrixPropres(p) == \A i \in DOMAIN ventes[p] :
    ventes[p][i].sup = p => PrixGarde(ventes[p][i], ventes'[p][i])

LEMMA PrixEntiers ==
  ASSUME Coherence, NEW p \in Pairs
  PROVE  \A i \in 1..Len(ventes[p]) : ventes[p][i].prix \in Nat
<1>. SUFFICES ASSUME NEW i \in 1..Len(ventes[p]) PROVE ventes[p][i].prix \in Nat
  OBVIOUS
<1>1. ventes[p][i] \in Fiches
  BY Inchangees, ElementOfSeq
<1>. QED BY <1>1, PrixAssumption DEF Fiches

\* Sales that stay, and sales added at the end.
LEMMA PrixInchanges ==
  ASSUME Coherence, NEW p \in Pairs,
         \A i \in 1..Len(ventes[p]) : ventes'[p][i] = ventes[p][i]
  PROVE  PrixPropres(p)
<1>1. ventes[p] \in Seq(Fiches) /\ DOMAIN ventes[p] = 1..Len(ventes[p])
  BY Inchangees, LenProperties
<1>2. \A i \in 1..Len(ventes[p]) : ventes[p][i].prix \in Nat
  BY PrixEntiers
<1>. QED BY <1>1, <1>2 DEF PrixPropres, PrixGarde

\* One sale that changes.
LEMMA PrixChange ==
  ASSUME Coherence, NEW p \in Pairs, NEW i \in 1..Len(ventes[p]), NEW v,
         ventes'[p] = [ventes[p] EXCEPT ![i] = v],
         ventes[p][i].sup = p => PrixGarde(ventes[p][i], v)
  PROVE  PrixPropres(p)
<1>1. ventes[p] \in Seq(Fiches) /\ DOMAIN ventes[p] = 1..Len(ventes[p])
  BY Inchangees, LenProperties
<1>2. \A j \in 1..Len(ventes[p]) : ventes[p][j].prix \in Nat
  BY PrixEntiers
<1>3. \A j \in 1..Len(ventes[p]) : ventes'[p][j] = IF j = i THEN v ELSE ventes[p][j]
  BY <1>1
<1>. QED BY <1>1, <1>2, <1>3 DEF PrixPropres, PrixGarde

\* A sale that is closed.
LEMMA PrixFerme ==
  ASSUME Coherence, NEW p \in Pairs, NEW i \in 1..Len(ventes[p]),
         ventes' = [ventes EXCEPT ![p][i] = sale_close(@)]
  PROVE  PrixPropres(p)
<1>. DEFINE v == sale_close(ventes[p][i])
<1>1. ventes'[p] = [ventes[p] EXCEPT ![i] = v]
  BY DEF Coherence, Types
<1>2. ventes[p][i] \in Fiches
  BY Inchangees, ElementOfSeq
<1>3. v.prix = ventes[p][i].prix /\ ~v.active /\ ventes[p][i].prix \in Nat
  BY <1>2, FicheMiseAJour, PrixAssumption DEF Fiches
<1>. HIDE DEF v
<1>. QED BY <1>1, <1>3, PrixChange DEF PrixGarde

LEMMA PrixLecture ==
  ASSUME Coherence, NEW p \in Pairs, Lecture(p)
  PROVE  PrixPropres(p)
<1>. PICK d \in Lisibles(p) :
        \/ handle_sale_init(p, d) \/ handle_bid(p, d) \/ handle_new_bid(p, d)
        \/ handle_closure(p, d) \/ handle_peer_departure(p, d)
        \/ handle_disparition(p, d) \/ OublieAck(p, d)
  BY DEF Lecture
<1>. DEFINE l == ventes[p]
<1>0. l \in Seq(Fiches) /\ ventes \in [Pairs -> Seq(Fiches)]
  BY Inchangees DEF Coherence, Types
<1>1. CASE handle_sale_init(p, d)
  <2>1. PICK v : ventes'[p] = Append(l, v)
    BY <1>0, <1>1 DEF handle_sale_init
  <2>2. \A i \in 1..Len(l) : ventes'[p][i] = l[i]
    BY <1>0, <2>1, LenProperties
  <2>. QED BY <2>2, PrixInchanges
<1>2. CASE handle_bid(p, d)
  <2>1. CASE l # <<>>
    BY <1>2, <2>1, PrixInchanges DEF handle_bid
  <2>2. CASE l = <<>>
    BY <2>2, PrixInchanges
  <2>. QED BY <2>1, <2>2
<1>3. CASE handle_new_bid(p, d)
  <2>. DEFINE i == find_sale(d.m.numv, l)
              v == sale_update(l[i], d.m.prix, d.m.id)
  <2>1. CASE i = 0
    BY <1>3, <2>1, PrixInchanges DEF handle_new_bid
  <2>2. CASE i # 0
    <3>1. i \in 1..Len(l) /\ l[i].numv = d.m.numv
      BY <1>0, <2>2, RangTrouve, Trouvee
    <3>2. d.m.numv[1] # p
      BY <1>3, LisibleDe DEF handle_new_bid, DeLuiMeme, Coherence
    <3>3. l[i].sup # p
      <4>1. VenteSure(l[i])
        BY <3>1, Inchangees
      <4>. QED BY <3>1, <3>2, <4>1, PairsAssumption DEF VenteSure
    <3>4. ventes'[p] = [l EXCEPT ![i] = v]
      BY <1>0, <1>3, <2>2 DEF handle_new_bid
    <3>. HIDE DEF i, v
    <3>. QED BY <3>1, <3>3, <3>4, PrixChange
  <2>. QED BY <2>1, <2>2
<1>4. CASE handle_closure(p, d)
  <2>. DEFINE i == find_sale(d.m.numv, l)
  <2>1. CASE i = 0
    BY <1>4, <2>1, PrixInchanges DEF handle_closure
  <2>2. CASE i # 0
    <3>1. i \in 1..Len(l)
      BY <1>0, <2>2, RangTrouve
    <3>2. ventes' = [ventes EXCEPT ![p][i] = sale_close(@)]
      BY <1>4, <2>2 DEF handle_closure
    <3>. HIDE DEF i
    <3>. QED BY <3>1, <3>2, PrixFerme
  <2>. QED BY <2>1, <2>2
<1>5. CASE handle_peer_departure(p, d)
  <2>. DEFINE i == is_superv(d.m.id, l)
  <2>1. CASE i = 0
    BY <1>5, <2>1, PrixInchanges DEF handle_peer_departure
  <2>2. CASE i # 0
    <3>1. i \in 1..Len(l)
      BY <1>0, <2>2, RangSuperviseur
    <3>2. ventes' = [ventes EXCEPT ![p][i] = sale_close(@)]
      BY <1>5, <2>2 DEF handle_peer_departure
    <3>. HIDE DEF i
    <3>. QED BY <3>1, <3>2, PrixFerme
  <2>. QED BY <2>1, <2>2
<1>6. CASE handle_disparition(p, d) \/ OublieAck(p, d)
  BY <1>6, PrixInchanges DEF handle_disparition, OublieAck, boucle
<1>. QED BY <1>1, <1>2, <1>3, <1>4, <1>5, <1>6

\* The bid a round was about is above the price of its sale.
LEMMA PrixTermine ==
  ASSUME Coherence, NEW p \in Pairs, Termine(p)
  PROVE  PrixPropres(p)
<1>. DEFINE l == ventes[p]
            r == suite[p].rang
            c == copie[p]
<1>1. pc[p] = "attente" /\ Len(frames[p]) = 1 /\ SujetSur(p)
  BY DEF Termine, Coherence, PairSur, RondeSure, EnRonde
<1>2. \/ ventes' = ventes
      \/ /\ suite[p].but = "enchere"
         /\ ventes' = [ventes EXCEPT ![p][r] = sale_update(@, c.prix, c.id)]
      \/ /\ suite[p].but = "cloture" /\ ventes' = [ventes EXCEPT ![p][r] = sale_close(@)]
  <2>1. \/ suite[p].but = "enchere" /\ ApresEnchere(p, IF Sommet(p).totalPeer < 1 THEN -1 ELSE 0)
        \/ suite[p].but = "cloture" /\ ApresCloture(p)
        \/ suite[p].but = "depart" /\ ApresDepart(p)
    BY <1>1 DEF Termine, Profondeur
  <2>. QED BY <2>1 DEF ApresEnchere, ApresCloture, ApresDepart
<1>3. CASE ventes' = ventes
  BY <1>3, PrixInchanges
<1>4. CASE /\ suite[p].but = "enchere"
           /\ ventes' = [ventes EXCEPT ![p][r] = sale_update(@, c.prix, c.id)]
  <2>. DEFINE v == sale_update(l[r], c.prix, c.id)
  <2>1. r \in 1..Len(l) /\ c \in Corps /\ l[r].prix < c.prix
    BY <1>1, <1>4 DEF SujetSur, EnRonde
  <2>2. l[r] \in Fiches
    BY <2>1, Inchangees, ElementOfSeq
  <2>3. v.prix = c.prix /\ v.active = l[r].active
    BY <2>1, <2>2, FicheMiseAJour
  <2>4. c.prix \in Nat /\ l[r].prix \in Nat
    BY <2>1, <2>2, PrixAssumption DEF Corps, Fiches
  <2>5. ventes'[p] = [l EXCEPT ![r] = v]
    BY <1>4 DEF Coherence, Types
  <2>. HIDE DEF v
  <2>6. PrixGarde(l[r], v)
    BY <2>1, <2>3, <2>4 DEF PrixGarde
  <2>. QED BY <2>1, <2>5, <2>6, PrixChange
<1>5. CASE suite[p].but = "cloture" /\ ventes' = [ventes EXCEPT ![p][r] = sale_close(@)]
  <2>1. r \in 1..Len(l)
    BY <1>1, <1>5 DEF SujetSur, EnRonde
  <2>. QED BY <1>5, <2>1, PrixFerme
<1>. QED BY <1>2, <1>3, <1>4, <1>5

\* No step lowers the price of a sale of the supervisor, nor opens it again.
LEMMA PrixPropresEtape ==
  ASSUME Coherence, Next, NEW q \in Pairs
  PROVE  PrixPropres(q)
<1>. PICK p \in Pairs :
      \/ Commande(p) \/ Lecture(p) \/ Ecriture(p) \/ Temps(p)
      \/ Attente(p) \/ Relance(p) \/ Termine(p)
      \/ Panne(p) \/ \E d \in Lisibles(p) : Perte(p, d)
  BY DEF Next
<1>0. ventes \in [Pairs -> Seq(Fiches)]
  BY DEF Coherence, Types
<1>1. CASE q # p
  <2>1. ventes'[q] = ventes[q]
    <3>1. CASE Commande(p)
      BY <1>0, <1>1, <3>1 DEF Commande, sale_start, encherir, quitter_enchere, boucle
    <3>2. CASE Lecture(p)
      BY <1>0, <1>1, <3>2 DEF Lecture, handle_sale_init, handle_bid, handle_new_bid,
         handle_closure, handle_peer_departure, handle_disparition, OublieAck, boucle
    <3>3. CASE Ecriture(p) \/ Temps(p) \/ Attente(p) \/ Relance(p)
      BY <3>3 DEF Ecriture, alerte_fin_enchere, finalisation_enchere, verifier_enchere,
         RienAFaire, Temps, Attente, RecoitAck, RefuseEnchere, RecoitAutre, Expire,
         Relance, RelanceRepondue, disparition_peer_lambda, boucle
    <3>4. CASE Termine(p)
      BY <1>0, <1>1, <3>4 DEF Termine, ApresEnchere, ApresCloture, ApresDepart
    <3>5. CASE Panne(p) \/ \E d \in Lisibles(p) : Perte(p, d)
      BY <3>5 DEF Panne, Perte, boucle
    <3>. QED BY <3>1, <3>2, <3>3, <3>4, <3>5
  <2>. QED BY <2>1, PrixInchanges
<1>2. CASE q = p
  <2>1. CASE Commande(p)
    <3>1. ventes'[p] = ventes[p] \/ \E v : ventes'[p] = Append(ventes[p], v)
      BY <1>0, <2>1 DEF Commande, sale_start, encherir, quitter_enchere, boucle
    <3>2. ventes[p] \in Seq(Fiches)
      BY <1>0
    <3>3. \A i \in 1..Len(ventes[p]) : ventes'[p][i] = ventes[p][i]
      BY <3>1, <3>2, LenProperties
    <3>. QED BY <1>2, <3>3, PrixInchanges
  <2>2. CASE Ecriture(p) \/ Temps(p) \/ Attente(p) \/ Relance(p)
    BY <1>2, <2>2, PrixInchanges DEF Ecriture, alerte_fin_enchere, finalisation_enchere,
       verifier_enchere, RienAFaire, Temps, Attente, RecoitAck, RefuseEnchere, RecoitAutre,
       Expire, Relance, RelanceRepondue, disparition_peer_lambda, boucle
  <2>3. CASE Panne(p) \/ \E d \in Lisibles(p) : Perte(p, d)
    BY <1>2, <2>3, PrixInchanges DEF Panne, Perte, boucle
  <2>. QED BY <1>2, <2>1, <2>2, <2>3, PrixLecture, PrixTermine
<1>. QED BY <1>1, <1>2

\* As long as no round gave a peer up, no step lowers the price of a sale in the
\* list of its supervisor, nor opens the sale again, whatever datagram it reads
\* and whatever round ends (sale_process.c:178-231, udp_message_recv.c:176-254).
THEOREM PrixDuSuperviseur ==
  Spec => [][perdus = {} => \A p \in Pairs : PrixPropres(p)]_vars
<1>1. IInv /\ [Next]_vars => [perdus = {} => \A p \in Pairs : PrixPropres(p)]_vars
  BY PrixPropresEtape DEF IInv
<1>. QED BY <1>1, ToujoursIInv, PTL DEF Spec
=============================================================================
