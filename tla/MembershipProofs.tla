-------------------------- MODULE MembershipProofs --------------------------
(* What the peers of a group know of each other, proved for any number of    *)
(* peers, of sponsors and of joins that cross.                               *)
EXTENDS MembershipAccord, SequenceTheorems, FiniteSetTheorems, WellFoundedInduction, TLAPS

\* --- helpers -------------------------------------------------------------------
PlusPetitQue == {ab \in Nat \X Nat : ab[1] < ab[2]}

\* A set of numbers has a smallest one.
LEMMA PremierDe ==
  ASSUME NEW S, S \subseteq Nat, S # {}
  PROVE  PlusPetit(S) \in S /\ \A y \in S : PlusPetit(S) <= y
<1>1. PlusPetitQue = OpToRel(<, Nat)
  BY Zenon DEF PlusPetitQue, OpToRel
<1>2. IsWellFoundedOn(PlusPetitQue, Nat)
  BY <1>1, NatLessThanWellFounded, Zenon
<1>3. PICK x \in S : \A y \in S : ~(<<y, x>> \in PlusPetitQue)
  BY <1>2, WFMin, Zenon
<1>4. ASSUME NEW y \in S PROVE x <= y
  <2>1. y < x => <<y, x>> \in PlusPetitQue
    BY DEF PlusPetitQue
  <2>. QED BY <1>3, <2>1
<1>. QED BY <1>4 DEF PlusPetit

LEMMA Constantes ==
  /\ Personne \notin Pairs /\ NUL \notin Pairs /\ NUL = 0 /\ Nouveaux \subseteq Pairs
  /\ IdMax \in Nat /\ MAX_JOIN_ATTEMPTS \in Nat /\ MAX_JOIN_ATTEMPTS > 0
  /\ MaxPannes \in Nat /\ MESS_SIZE \in Nat /\ MESS_SIZE > 0
  /\ SIG_SIZE \in Nat /\ SIG_SIZE > 0 /\ CLE_SIZE \in Nat /\ CLE_SIZE > 0
  /\ MTU \in Nat /\ MTU >= 35
  /\ \A p \in Pairs : Tirages[p] \subseteq 1..IdMax
BY MembershipAssumption, TaillesAssumption DEF NUL

\* The list after k entries is in P[k] when each addition leads there: the list
\* before each entry exists, because there is no first entry before which it does
\* not.
LEMMA ChargementSuivi ==
  ASSUME NEW P, NEW l, l \in P[0], NEW msgs, msgs[1].nb \in Nat,
         \A k \in 1..msgs[1].nb : \A x \in P[k - 1] : peer_list_add(x, PairDe(msgs[k + 1])) \in P[k]
  PROVE  peer_list_load(l, msgs) \in P[msgs[1].nb]
<1> DEFINE n == msgs[1].nb
    Ajouter(x, k) == peer_list_add(x, PairDe(msgs[k + 1]))
    Calcul(g) == g = [k \in 0..n |-> IF k = 0 THEN l ELSE Ajouter(g[k - 1], k)]
    charge == CHOOSE g : Calcul(g)
    Suite(m, g) == /\ g[0] = l /\ \A k \in 1..m : g[k] = Ajouter(g[k - 1], k)
                   /\ \A k \in 0..m : g[k] \in P[k]
    Atteints == {m \in 0..n : \E g : Suite(m, g)}
<1>1. n \in Nat /\ \A k \in 1..n : \A x \in P[k - 1] : Ajouter(x, k) \in P[k]
  OBVIOUS
<1>2. peer_list_load(l, msgs) = charge[n]
  BY DEF peer_list_load
<1> HIDE DEF n, Ajouter
<1>3. 0 \in Atteints
  <2> DEFINE g == [k \in 0..0 |-> l]
  <2>1. g[0] = l /\ \A k \in 0..0 : g[k] \in P[k]
    OBVIOUS
  <2>2. \A k \in 1..0 : g[k] = Ajouter(g[k - 1], k)
    OBVIOUS
  <2>3. 0 \in 0..n
    BY <1>1
  <2> HIDE DEF g
  <2>. QED BY <2>1, <2>2, <2>3
<1>4. ASSUME NEW m \in 0..n, m \in Atteints, m < n PROVE m + 1 \in Atteints
  <2>1. PICK g : Suite(m, g)
    BY <1>4
  <2>2. m \in Nat /\ m + 1 \in 1..n /\ m + 1 \in 0..n /\ m \in 0..m /\ m + 1 - 1 = m
    BY <1>1, <1>4
  <2> DEFINE h == [k \in 0..(m + 1) |-> IF k = m + 1 THEN Ajouter(g[m], m + 1) ELSE g[k]]
  <2>3. Ajouter(g[m], m + 1) \in P[m + 1]
    <3>1. g[m] \in P[m]
      BY <2>1, <2>2
    <3>. QED BY <1>1, <2>2, <3>1
  <2>4. h[0] = l /\ h[m + 1] = Ajouter(g[m], m + 1) /\ \A k \in 0..m : h[k] = g[k]
    BY <2>1, <2>2
  <2> HIDE DEF h
  <2>5. ASSUME NEW k \in 1..(m + 1) PROVE h[k] = Ajouter(h[k - 1], k)
    <3>1. CASE k = m + 1
      <4>1. k - 1 = m
        BY <2>2, <3>1
      <4>2. h[k - 1] = g[m]
        BY <2>2, <2>4, <4>1
      <4>. QED BY <2>4, <3>1, <4>2
    <3>2. CASE k # m + 1
      <4>1. k \in 1..m /\ k \in 0..m /\ k - 1 \in 0..m
        BY <2>2, <3>2
      <4>2. g[k] = Ajouter(g[k - 1], k)
        BY <2>1, <4>1
      <4>. QED BY <2>4, <4>1, <4>2
    <3>. QED BY <3>1, <3>2
  <2>6. ASSUME NEW k \in 0..(m + 1) PROVE h[k] \in P[k]
    <3>1. CASE k = m + 1
      BY <2>3, <2>4, <3>1
    <3>2. CASE k # m + 1
      <4>1. k \in 0..m
        BY <2>2, <3>2
      <4>. QED BY <2>1, <2>4, <4>1
    <3>. QED BY <3>1, <3>2
  <2>7. Suite(m + 1, h)
    BY <2>4, <2>5, <2>6
  <2>. QED BY <2>2, <2>7
<1>5. n \in Atteints
  <2> DEFINE Manquants == (0..n) \ Atteints
      d == PlusPetit(Manquants)
  <2>1. SUFFICES ASSUME Manquants # {} PROVE FALSE
    <3>1. n \in 0..n
      BY <1>1
    <3>. QED BY <3>1
  <2> HIDE DEF Atteints
  <2>2. Manquants \subseteq Nat
    BY <1>1
  <2>3. d \in Manquants /\ \A y \in Manquants : d <= y
    BY <2>1, <2>2, PremierDe
  <2> HIDE DEF d
  <2>4. d \in 0..n /\ d # 0
    BY <1>3, <2>3
  <2>5. d - 1 \in 0..n /\ d - 1 < n /\ d - 1 < d
    BY <1>1, <2>4
  <2>6. d - 1 \in Atteints
    <3>1. d - 1 \notin Manquants
      BY <2>3, <2>4, <2>5
    <3>. QED BY <2>5, <3>1
  <2>7. d - 1 + 1 \in Atteints
    BY <1>4, <2>5, <2>6
  <2>8. d - 1 + 1 = d
    BY <2>4
  <2>. QED BY <2>3, <2>7, <2>8
<1>6. \E g : Calcul(g)
  <2>1. PICK g : Suite(n, g)
    BY <1>5
  <2> DEFINE h == [k \in 0..n |-> g[k]]
  <2>2. \A k \in 0..n : h[k] = g[k]
    OBVIOUS
  <2>3. ASSUME NEW k \in 0..n PROVE h[k] = IF k = 0 THEN l ELSE Ajouter(h[k - 1], k)
    <3>1. k # 0 => k \in 1..n /\ k - 1 \in 0..n
      BY <1>1
    <3> HIDE DEF h
    <3>. QED BY <2>1, <2>2, <3>1
  <2>4. h = [k \in 0..n |-> IF k = 0 THEN l ELSE Ajouter(h[k - 1], k)]
    <3>1. h = [k \in 0..n |-> h[k]]
      OBVIOUS
    <3> HIDE DEF h
    <3>. QED BY <2>3, <3>1
  <2> HIDE DEF h
  <2>. QED BY <2>4
<1>7. Calcul(charge)
  BY <1>6
<1> HIDE DEF charge
<1>8. ASSUME NEW k \in 0..n PROVE charge[k] = IF k = 0 THEN l ELSE Ajouter(charge[k - 1], k)
  BY <1>7
<1>9. \A k \in 0..n : charge[k] \in P[k]
  <2> DEFINE Faux == {k \in 0..n : charge[k] \notin P[k]}
      d == PlusPetit(Faux)
  <2>1. SUFFICES ASSUME Faux # {} PROVE FALSE
    OBVIOUS
  <2>2. Faux \subseteq Nat
    BY <1>1
  <2>3. d \in Faux /\ \A y \in Faux : d <= y
    BY <2>1, <2>2, PremierDe
  <2> HIDE DEF d
  <2>4. d # 0
    BY <1>1, <1>8, <2>3
  <2>5. d \in 1..n /\ d - 1 \in 0..n /\ d - 1 < d
    BY <1>1, <2>3, <2>4
  <2>6. charge[d - 1] \in P[d - 1]
    BY <2>3, <2>5
  <2>7. charge[d] = Ajouter(charge[d - 1], d)
    BY <1>8, <2>3, <2>4
  <2>. QED BY <1>1, <2>3, <2>5, <2>6, <2>7
<1>10. n \in 0..n
  BY <1>1
<1>. QED BY <1>2, <1>9, <1>10 DEF n

\* What every addition keeps, the whole loading keeps.
LEMMA Chargement ==
  ASSUME NEW P, NEW l \in P, NEW msgs, msgs[1].nb \in Nat,
         \A x \in P : \A k \in 1..msgs[1].nb : peer_list_add(x, PairDe(msgs[k + 1])) \in P
  PROVE  peer_list_load(l, msgs) \in P
<1> DEFINE n == msgs[1].nb
    Q == [k \in 0..n |-> P]
<1>1. n \in Nat /\ \A k \in 0..n : Q[k] = P
  OBVIOUS
<1>2. 0 \in 0..n /\ n \in 0..n /\ \A k \in 1..n : k \in 0..n /\ k - 1 \in 0..n
  BY <1>1
<1>3. l \in Q[0]
  BY <1>1, <1>2
<1>4. \A k \in 1..n : \A x \in Q[k - 1] : peer_list_add(x, PairDe(msgs[k + 1])) \in Q[k]
  BY <1>1, <1>2
<1> HIDE DEF Q
<1>5. peer_list_load(l, msgs) \in Q[n]
  BY <1>1, <1>3, <1>4, ChargementSuivi
<1>. QED BY <1>1, <1>2, <1>5

\* --- lists of peers ------------------------------------------------------------
LEMMA RangDe ==
  ASSUME NEW l, l \in Seq(PairsPossibles), NEW id, peer_list_find(l, id)
  PROVE  Rang(l, id) \in 1..Len(l) /\ l[Rang(l, id)].id = id
<1>1. Rangs(l, id) \subseteq Nat /\ Rangs(l, id) # {}
  BY DEF Rangs, peer_list_find
<1>2. Rang(l, id) \in Rangs(l, id)
  BY <1>1, PremierDe DEF Rang
<1>. QED BY <1>2 DEF Rangs

\* An entry that is added goes at the end or takes the place of another; the
\* first one stays.
LEMMA Ajout ==
  ASSUME NEW l, l \in Seq(PairsPossibles), NEW pair, pair \in PairsPossibles, NEW r,
         r = peer_list_add(l, pair)
  PROVE  /\ r \in Seq(PairsPossibles) /\ r # <<>> /\ (l # <<>> => r[1] = l[1])
         /\ \A k \in 1..Len(r) : r[k] = pair \/ (k \in 1..Len(l) /\ r[k] = l[k])
<1>1. CASE ~peer_list_find(l, pair.id)
  <2>1. r = Append(l, pair)
    BY <1>1 DEF peer_list_add
  <2>. QED BY <2>1
<1>2. CASE peer_list_find(l, pair.id)
  <2> DEFINE i == Rang(l, pair.id)
  <2>1. i \in 1..Len(l)
    BY <1>2, RangDe
  <2>2. r = l \/ (i # 1 /\ r = [l EXCEPT ![i] = pair])
    BY <1>2 DEF peer_list_add
  <2> HIDE DEF i
  <2>3. CASE r = l
    BY <2>1, <2>3
  <2>4. CASE i # 1 /\ r = [l EXCEPT ![i] = pair]
    <3>1. r \in Seq(PairsPossibles) /\ Len(r) = Len(l)
      BY <2>1, <2>4
    <3>2. \A k \in 1..Len(l) : r[k] = IF k = i THEN pair ELSE l[k]
      BY <2>1, <2>4
    <3>. QED BY <2>1, <2>4, <3>1, <3>2
  <2>. QED BY <2>2, <2>3, <2>4
<1>. QED BY <1>1, <1>2

\* What is at a rank of the new list: one of the old one's entries or the new pair.
Reste(r, k, pair, l) == r[k] = pair \/ (k \in 1..Len(l) /\ r[k] = l[k])

LEMMA Remplacement ==
  ASSUME NEW l, l \in Seq(PairsPossibles), NEW pair, pair \in PairsPossibles, NEW r,
         r = handle_code6_message(l, pair)
  PROVE  /\ r \in Seq(PairsPossibles) /\ r # <<>> /\ (l # <<>> => r[1].id = l[1].id)
         /\ \A k \in 1..Len(r) : Reste(r, k, pair, l)
<1>1. CASE ~peer_list_find(l, pair.id)
  <2> DEFINE y == peer_list_add(l, pair)
  <2>1. r = y
    BY <1>1 DEF handle_code6_message
  <2>2. /\ y \in Seq(PairsPossibles) /\ y # <<>> /\ (l # <<>> => y[1] = l[1])
        /\ \A k \in 1..Len(y) : y[k] = pair \/ (k \in 1..Len(l) /\ y[k] = l[k])
    BY Ajout
  <2> HIDE DEF y
  <2>3. l # <<>> => r[1].id = l[1].id
    BY <2>1, <2>2
  <2>. QED BY <2>1, <2>2, <2>3 DEF Reste
<1>2. CASE peer_list_find(l, pair.id)
  <2> DEFINE i == Rang(l, pair.id)
      e == [l[i] EXCEPT !.ip = pair.ip, !.port = pair.port]
  <2>1. i \in 1..Len(l) /\ l[i].id = pair.id
    BY <1>2, RangDe
  <2>2. r = [l EXCEPT ![i] = e]
    BY <1>2 DEF handle_code6_message
  <2> HIDE DEF i
  <2>3. l[i] \in PairsPossibles
    BY <2>1
  <2>4. e = pair
    BY <2>1, <2>3 DEF PairsPossibles
  <2> HIDE DEF e
  <2>6. r \in Seq(PairsPossibles) /\ Len(r) = Len(l)
    BY <2>1, <2>2, <2>4
  <2>7. \A k \in 1..Len(l) : r[k] = IF k = i THEN pair ELSE l[k]
    BY <2>1, <2>2, <2>4
  <2>. QED BY <2>1, <2>6, <2>7 DEF Reste
<1>. QED BY <1>1, <1>2

\* A list as it was sent, and where an entry may come from when it is loaded.
Entiere(msgs) == /\ msgs[1].nb \in Nat /\ Len(msgs) = msgs[1].nb + 1
                 /\ \A j \in 2..Len(msgs) : Nomme(msgs[j])
Vient(e, l, msgs) == \/ \E i \in 1..Len(l) : e = l[i]
                     \/ \E j \in 2..Len(msgs) : e = PairDe(msgs[j])

\* A loaded list has the first entry it had, and every other comes from the
\* list itself or from a message.
LEMMA ListeChargee ==
  ASSUME NEW l, l \in Seq(PairsPossibles), l # <<>>, NEW msgs, Entiere(msgs),
         NEW r, r = peer_list_load(l, msgs)
  PROVE  /\ r \in Seq(PairsPossibles) /\ r # <<>> /\ r[1] = l[1]
         /\ \A k \in 1..Len(r) : Vient(r[k], l, msgs)
<1> DEFINE P == {x \in Seq(PairsPossibles) :
                  x # <<>> /\ x[1] = l[1] /\ \A k \in 1..Len(x) : Vient(x[k], l, msgs)}
<1>0. /\ msgs[1].nb \in Nat /\ Len(msgs) = msgs[1].nb + 1
      /\ \A j \in 2..Len(msgs) : Nomme(msgs[j])
  BY DEF Entiere
<1>1. l \in P
  BY DEF Vient
<1>2. ASSUME NEW x \in P, NEW k \in 1..msgs[1].nb
      PROVE  peer_list_add(x, PairDe(msgs[k + 1])) \in P
  <2> DEFINE q == PairDe(msgs[k + 1])
      y == peer_list_add(x, q)
  <2>1. k + 1 \in 2..Len(msgs)
    <3>1. PICK n \in Nat : n = msgs[1].nb
      BY <1>0
    <3>2. Len(msgs) = n + 1 /\ k \in 1..n
      BY <1>0, <3>1
    <3>3. k + 1 \in 2..(n + 1)
      BY <3>2
    <3>. QED BY <3>2, <3>3
  <2>2. q \in PairsPossibles
    BY <1>0, <2>1 DEF Nomme
  <2>3. Vient(q, l, msgs)
    BY <2>1 DEF Vient
  <2> HIDE DEF q
  <2>4. x \in Seq(PairsPossibles) /\ x # <<>> /\ x[1] = l[1] /\ \A i \in 1..Len(x) : Vient(x[i], l, msgs)
    OBVIOUS
  <2>5. /\ y \in Seq(PairsPossibles) /\ y # <<>> /\ y[1] = x[1]
        /\ \A i \in 1..Len(y) : y[i] = q \/ (i \in 1..Len(x) /\ y[i] = x[i])
    BY <2>2, <2>4, Ajout
  <2>6. \A i \in 1..Len(y) : Vient(y[i], l, msgs)
    BY <2>3, <2>4, <2>5
  <2> HIDE DEF y
  <2>7. y \in P
    BY <2>4, <2>5, <2>6
  <2>. QED BY <2>7 DEF y, q
<1> HIDE DEF P
<1>3. peer_list_load(l, msgs) \in P
  BY <1>0, <1>1, <1>2, Chargement
<1>. QED BY <1>3 DEF P

\* --- messages ------------------------------------------------------------------
LEMMA UnMessage ==
  ASSUME NEW m, Longueur(m) \in Int
  PROVE  Longueurs(<<m>>) = Longueur(m)
<1> DEFINE s == <<m>>
    Calcul(g) == g = [T \in SUBSET {1} |-> IF T = {} THEN 2
                         ELSE g[T \ {Max(T)}] + Longueur(s[Max(T)]) - 2]
    iter == CHOOSE g : Calcul(g)
<1>1. DOMAIN <<m>> = {1} /\ s[1] = m
  OBVIOUS
<1>2. Longueurs(<<m>>) = iter[{1}]
  BY <1>1 DEF Longueurs, FoldLeft, MapThenFoldSet
<1>3. Max({1}) = 1
  BY DEF Max
<1>4. SUBSET {1} = {{}, {1}} /\ {1} \ {1} = {}
  OBVIOUS
<1>5. \E g : Calcul(g)
  <2> DEFINE g == [T \in SUBSET {1} |-> IF T = {} THEN 2 ELSE 2 + Longueur(m) - 2]
  <2>1. g[{}] = 2 /\ g[{1}] = 2 + Longueur(m) - 2
    OBVIOUS
  <2>2. ASSUME NEW T \in SUBSET {1}
        PROVE  g[T] = IF T = {} THEN 2 ELSE g[T \ {Max(T)}] + Longueur(s[Max(T)]) - 2
    <3>1. CASE T = {}
      BY <2>1, <3>1
    <3>2. CASE T = {1}
      <4>1. T \ {Max(T)} = {} /\ s[Max(T)] = m
        BY <1>1, <1>3, <3>2
      <4> HIDE DEF g
      <4>. QED BY <2>1, <3>2, <4>1
    <3>. QED BY <1>4, <3>1, <3>2
  <2>3. Calcul(g)
    BY <2>2
  <2>. QED BY <2>3
<1>6. Calcul(iter)
  BY <1>5
<1> HIDE DEF iter
<1>7. iter[{}] = 2
  BY <1>6
<1>8. iter[{1}] = iter[{1} \ {1}] + Longueur(s[1]) - 2
  BY <1>3, <1>6
<1>9. iter[{1}] = 2 + Longueur(m) - 2
  BY <1>1, <1>4, <1>7, <1>8
<1>. QED BY <1>2, <1>9

LEMMA MessageVide ==
  /\ initialize_message \in Messages
  /\ initialize_message.lmess = 0 /\ initialize_message.lsig = 0
  /\ initialize_message.cle = <<>> /\ initialize_message.port = 0
<1>1. <<>> \in Seq(Nat) /\ 0 \in Ids /\ NUL = 0
  BY Constantes DEF Ids, NUL
<1>. QED BY <1>1 DEF initialize_message, Messages

\* A buffer has room for a message without text.
LEMMA UneLettre ==
  ASSUME NEW m, m.lmess = 0, m.lsig = 0, m.cle = <<>>
  PROVE  Emis(<<m>>) = <<m>>
<1>1. Longueur(m) = 35
  <2>1. Len(m.cle) = 0
    OBVIOUS
  <2>. QED BY <2>1 DEF Longueur
<1>2. Longueurs(<<m>>) = 35
  BY <1>1, UnMessage
<1>3. Valide(m)
  BY Constantes DEF Valide
<1>4. Tient(<<m>>)
  BY <1>2, <1>3, Constantes DEF Tient
<1>. QED BY <1>4 DEF Emis

\* What is written of a peer is what is read of it.
LEMMA Suffixe ==
  ASSUME NEW id, id \in Ids, NEW ip, ip \in Pairs \cup {NUL}, NEW m,
         m = suffixe_info(id, ip, LIAISON_PORT, <<>>)
  PROVE  /\ m \in Messages /\ m.lmess = 0 /\ m.lsig = 0
         /\ m.id = id /\ m.ip = ip /\ m.port = LIAISON_PORT /\ m.cle = <<>>
<1>1. AuPlus(0, CLE_SIZE - 1) = 0
  BY Constantes DEF AuPlus
<1>2. SubSeq(<<>>, 1, AuPlus(Len(<<>>), CLE_SIZE - 1)) = <<>>
  BY <1>1
<1>3. m = [initialize_message EXCEPT !.id = id, !.ip = ip, !.port = LIAISON_PORT, !.cle = <<>>]
  BY <1>2 DEF suffixe_info
<1>. QED BY <1>3, MessageVide DEF Messages

LEMMA Rencontre ==
  ASSUME NEW id, id \in Ids, NEW ip, ip \in Pairs
  PROVE  /\ rejoindre_enchere_mess1 \in Messages /\ rejoindre_enchere_mess1.code = 3
         /\ rejoindre_enchere_mess3(id, ip, LIAISON_PORT) \in Messages
         /\ rejoindre_enchere_mess3(id, ip, LIAISON_PORT).code = 4
         /\ PairDe(rejoindre_enchere_mess3(id, ip, LIAISON_PORT)) = Pair(id, ip)
<1>1. rejoindre_enchere_mess1 \in Messages /\ rejoindre_enchere_mess1.code = 3
  BY MessageVide DEF rejoindre_enchere_mess1, Messages
<1> DEFINE m == rejoindre_enchere_mess3(id, ip, LIAISON_PORT)
<1>2. m = [initialize_message EXCEPT !.code = 4, !.id = id, !.ip = ip, !.port = LIAISON_PORT]
  BY DEF rejoindre_enchere_mess3
<1> HIDE DEF m
<1>3. m \in Messages /\ m.code = 4 /\ m.id = id /\ m.ip = ip /\ m.port = LIAISON_PORT /\ m.cle = <<>>
  BY <1>2, MessageVide DEF Messages
<1>4. PairDe(m) = Pair(id, ip)
  BY <1>3 DEF PairDe, Pair
<1>. QED BY <1>1, <1>3, <1>4 DEF m

LEMMA PairPossible ==
  ASSUME NEW id, id \in Ids, NEW ip, ip \in Pairs
  PROVE  Pair(id, ip) \in PairsPossibles
BY DEF Pair, PairsPossibles

\* A request or an announcement is one message, which fits in its buffer.
LEMMA Presentation ==
  ASSUME NEW id, id \in Ids, NEW ip, ip \in Pairs, NEW k, k \in {5, 6}, NEW m,
         m = [suffixe_info(id, ip, LIAISON_PORT, <<>>) EXCEPT !.code = k]
  PROVE  /\ Emis(<<m>>) = <<m>> /\ m \in Messages /\ m.code = k
         /\ PairDe(m) = Pair(id, ip) /\ Nomme(m)
<1> DEFINE s == suffixe_info(id, ip, LIAISON_PORT, <<>>)
<1>1. /\ s \in Messages /\ s.lmess = 0 /\ s.lsig = 0
      /\ s.id = id /\ s.ip = ip /\ s.port = LIAISON_PORT /\ s.cle = <<>>
  BY Suffixe
<1>2. m = [s EXCEPT !.code = k]
  OBVIOUS
<1> HIDE DEF s
<1>3. /\ m \in Messages /\ m.lmess = 0 /\ m.lsig = 0 /\ m.code = k
      /\ m.id = id /\ m.ip = ip /\ m.port = LIAISON_PORT /\ m.cle = <<>>
  <2>1. k \in Nat
    OBVIOUS
  <2>2. m \in Messages
    BY <1>1, <1>2, <2>1 DEF Messages
  <2>3. /\ m.lmess = s.lmess /\ m.lsig = s.lsig /\ m.code = k /\ m.id = s.id
        /\ m.ip = s.ip /\ m.port = s.port /\ m.cle = s.cle
    BY <1>1, <1>2 DEF Messages
  <2>. QED BY <1>1, <2>2, <2>3
<1>4. PairDe(m) = Pair(id, ip)
  BY <1>3 DEF PairDe, Pair
<1>5. Nomme(m)
  BY <1>4, PairPossible DEF Nomme
<1>. QED BY <1>3, <1>4, <1>5, UneLettre

LEMMA IndefinisTypes ==
  ASSUME NEW i, i \in Indefinis
  PROVE  i \in Messages
<1>1. <<LF>> \in Seq(Nat) /\ <<CR, LF, LF>> \in Seq(Nat)
  BY DEF LF, CR
<1> DEFINE v == initialize_message
<1>2. \/ i = [v EXCEPT !.lmess = 1, !.mess = <<LF>>, !.cle = <<LF>>]
      \/ i = [v EXCEPT !.lmess = MESS_SIZE]
      \/ i = [v EXCEPT !.cle = <<CR, LF, LF>>]
  BY DEF Indefinis
<1>3. v \in Messages
  BY MessageVide
<1> HIDE DEF v
<1>4. CASE i = [v EXCEPT !.lmess = 1, !.mess = <<LF>>, !.cle = <<LF>>]
  BY <1>1, <1>3, <1>4 DEF Messages
<1>5. CASE i = [v EXCEPT !.lmess = MESS_SIZE]
  <2>1. MESS_SIZE \in Nat
    BY Constantes
  <2>. QED BY <1>3, <1>5, <2>1 DEF Messages
<1>6. CASE i = [v EXCEPT !.cle = <<CR, LF, LF>>]
  BY <1>1, <1>3, <1>6 DEF Messages
<1>. QED BY <1>2, <1>4, <1>5, <1>6

\* The answer to a request, when it leaves at all, is one message, which gives
\* the identifier that the sponsor chose.
LEMMA ReponseEcrite ==
  ASSUME NEW m, NEW id, id \in Ids, NEW envoi, envoi \in Reponses(m, id), envoi # Refus
  PROVE  /\ envoi \in Seq(Messages) /\ Len(envoi) = 1
         /\ IF id = m.id THEN envoi[1].code = 50
                         ELSE envoi[1].code = 51 /\ envoi[1].id = id
<1>1. CASE id # m.id
  <2>1. envoi = <<identifiant_non_valide(id)>>
    BY <1>1 DEF Reponses, Emis, Refus
  <2>2. identifiant_non_valide(id) \in Messages /\ identifiant_non_valide(id).code = 51
            /\ identifiant_non_valide(id).id = id
    BY MessageVide DEF identifiant_non_valide, Messages
  <2>. QED BY <1>1, <2>1, <2>2
<1>2. CASE id = m.id
  <2>1. PICK i \in Indefinis : envoi = Emis(<<[i EXCEPT !.code = 50]>>)
    BY <1>2 DEF Reponses
  <2> DEFINE r == [i EXCEPT !.code = 50]
  <2>2. envoi = <<r>>
    BY <2>1 DEF Emis, Refus
  <2>3. i \in Messages
    BY IndefinisTypes
  <2>4. r \in Messages /\ r.code = 50
    BY <2>3 DEF Messages
  <2> HIDE DEF r
  <2>. QED BY <1>2, <2>2, <2>4
<1>. QED BY <1>1, <1>2

\* A list, when it leaves at all, has a header and one message for each entry.
LEMMA ListeEcrite ==
  ASSUME NEW p, moi[p] \in Ids, NEW l, l \in Seq(PairsPossibles),
         NEW envoi, envoi \in Listes(p, l), envoi # Refus
  PROVE  /\ envoi \in Seq(Messages) /\ Len(envoi) = Len(l) + 1
         /\ envoi[1].code = 7 /\ envoi[1].nb = Len(l)
         /\ \A j \in 2..Len(envoi) : PairDe(envoi[j]) = l[j - 1]
<1>1. PICK i \in Indefinis : envoi = Emis(rejoindre_enchere_mess6(i, l, moi[p], NUL))
  BY DEF Listes
<1> DEFINE e == [i EXCEPT !.code = 7, !.id = moi[p], !.ip = NUL, !.nb = Len(l)]
    suite == [k \in 1..Len(l) |-> suffixe_info(l[k].id, l[k].ip, l[k].port, l[k].cle)]
<1>2. envoi = <<e>> \o suite
  BY <1>1 DEF Emis, Refus, rejoindre_enchere_mess6
<1>3. i \in Messages
  BY IndefinisTypes
<1>4. e \in Messages /\ e.code = 7 /\ e.nb = Len(l)
  <2>1. Len(l) \in Nat /\ 7 \in Nat /\ NUL \in Pairs \cup {NUL}
    OBVIOUS
  <2> DEFINE n == Len(l)
      d == moi[p]
  <2>2. n \in Nat /\ d \in Ids
    BY <2>1
  <2>3. e = [i EXCEPT !.code = 7, !.id = d, !.ip = NUL, !.nb = n]
    OBVIOUS
  <2> HIDE DEF n, d, e
  <2>4. e \in Messages
    BY <1>3, <2>1, <2>2, <2>3 DEF Messages
  <2>5. e.code = 7 /\ e.nb = n
    BY <1>3, <2>3 DEF Messages
  <2>. QED BY <2>4, <2>5 DEF n
<1>5. ASSUME NEW k \in 1..Len(l)
      PROVE  suite[k] \in Messages /\ PairDe(suite[k]) = l[k]
  <2> DEFINE m == suffixe_info(l[k].id, l[k].ip, LIAISON_PORT, <<>>)
  <2>1. l[k] \in PairsPossibles
    OBVIOUS
  <2>2. l[k].id \in Ids /\ l[k].ip \in Pairs /\ l[k].port = LIAISON_PORT /\ l[k].cle = <<>>
    BY <2>1 DEF PairsPossibles
  <2>3. /\ m \in Messages /\ m.id = l[k].id /\ m.ip = l[k].ip
        /\ m.port = LIAISON_PORT /\ m.cle = <<>>
    BY <2>2, Suffixe
  <2>4. suite[k] = m
    BY <2>2
  <2> HIDE DEF m, suite
  <2>5. PairDe(m) = l[k]
    BY <2>1, <2>3 DEF PairDe, PairsPossibles
  <2>. QED BY <2>3, <2>4, <2>5
<1>6. suite \in Seq(Messages) /\ Len(suite) = Len(l)
  <2>1. \A k \in 1..Len(l) : suite[k] \in Messages
    BY <1>5
  <2>2. DOMAIN suite = 1..Len(l) /\ Len(l) \in Nat
    OBVIOUS
  <2>. QED BY <2>1, <2>2
<1> HIDE DEF e, suite
<1>7. envoi \in Seq(Messages) /\ Len(envoi) = Len(l) + 1 /\ envoi[1] = e
  BY <1>2, <1>4, <1>6
<1>8. \A j \in 2..Len(envoi) : envoi[j] = suite[j - 1]
  BY <1>2, <1>4, <1>6
<1>9. \A j \in 2..Len(envoi) : j - 1 \in 1..Len(l)
  BY <1>7
<1>. QED BY <1>4, <1>5, <1>7, <1>8, <1>9

LEMMA IdentifiantPossible ==
  ASSUME NEW p \in Pairs, NEW t, t \in Ids, NEW id, id \in Identifiants(p, t)
  PROVE  id \in Ids
<1>1. CASE ~peer_list_find(vue[p], t)
  BY <1>1 DEF Identifiants
<1>2. CASE peer_list_find(vue[p], t)
  <2>1. PICK u \in Tirages[p] : Libres(vue[p]) # {} /\ id = NouvelId(vue[p], u)
    BY <1>2 DEF Identifiants
  <2>2. u \in Nat /\ u >= 1 /\ u <= IdMax /\ IdMax \in Nat
    <3>1. Tirages[p] \subseteq 1..IdMax /\ IdMax \in Nat
      BY Constantes
    <3>. QED BY <2>1, <3>1
  <2> DEFINE S == {k \in Ids : Suivant(u, k) \in Libres(vue[p])}
  <2>3. S # {}
    <3>1. PICK x : x \in Libres(vue[p])
      BY <2>1
    <3>2. x \in Ids /\ x \in 0..IdMax
      BY <3>1 DEF Libres, Ids
    <3> DEFINE k == IF x >= u THEN x - u ELSE x - u + IdMax + 1
    <3>3. k \in Ids /\ Suivant(u, k) = x
      BY <2>2, <3>2 DEF Ids, Suivant
    <3>. QED BY <3>1, <3>3
  <2>4. S \subseteq Nat
    BY DEF Ids
  <2>5. PlusPetit(S) \in S
    BY <2>3, <2>4, PremierDe
  <2>6. Suivant(u, PlusPetit(S)) \in Libres(vue[p])
    BY <2>5
  <2>. QED BY <2>1, <2>6 DEF NouvelId, Libres
<1>. QED BY <1>1, <1>2

\* --- types -----------------------------------------------------------------------
LEMMA DuPair ==
  ASSUME Types, SoiEnTete, NEW p \in Pairs
  PROVE  /\ etape[p] \in Etapes /\ moi[p] \in Ids /\ enchere[p] \in BOOLEAN
         /\ vue[p] \in Seq(PairsPossibles) /\ candidats[p] \in Seq(PairsPossibles)
         /\ udp[p] \subseteq Datagrammes /\ file[p] \in Seq(Connexions)
         /\ service[p] \in Services /\ recu[p] \in Seq(Envois)
         /\ pannes \in Nat /\ pannes <= MaxPannes
         /\ Ouvert(p) => /\ vue[p] # <<>> /\ vue[p][1] \in PairsPossibles
                         /\ vue[p][1].id = moi[p] /\ vue[p][1].ip \in Pairs
                         /\ vue[p][1].port = LIAISON_PORT
<1>1. /\ etape[p] \in Etapes /\ moi[p] \in Ids /\ enchere[p] \in BOOLEAN
      /\ vue[p] \in Seq(PairsPossibles) /\ candidats[p] \in Seq(PairsPossibles)
      /\ udp[p] \subseteq Datagrammes /\ file[p] \in Seq(Connexions)
      /\ service[p] \in Services /\ recu[p] \in Seq(Envois)
  BY DEF Types
<1>2. pannes \in Nat /\ pannes <= MaxPannes
  <2>1. pannes \in 0..MaxPannes /\ MaxPannes \in Nat
    BY Constantes DEF Types
  <2>. QED BY <2>1
<1>3. ASSUME Ouvert(p)
      PROVE  /\ vue[p] # <<>> /\ vue[p][1] \in PairsPossibles /\ vue[p][1].id = moi[p]
             /\ vue[p][1].ip \in Pairs /\ vue[p][1].port = LIAISON_PORT
  <2>1. vue[p] # <<>> /\ vue[p][1].id = moi[p]
    BY <1>3 DEF SoiEnTete
  <2>2. vue[p][1] \in PairsPossibles
    BY <1>1, <2>1
  <2>. QED BY <2>1, <2>2 DEF PairsPossibles
<1>. QED BY <1>1, <1>2, <1>3

\* The lists of the other peers do not change.
LEMMA SoiApres ==
  ASSUME SoiEnTete, NEW p \in Pairs,
         \A q \in Pairs : q # p => /\ Ouvert(q)' => Ouvert(q)
                                   /\ vue'[q] = vue[q] /\ moi'[q] = moi[q],
         \A q \in Pairs : q = p /\ Ouvert(q)' => vue'[q] # <<>> /\ vue'[q][1].id = moi'[q]
  PROVE  SoiEnTete'
BY DEF SoiEnTete

LEMMA ServiceApres ==
  ASSUME TypesDuService, NEW p \in Pairs,
         \A q \in Pairs : q # p =>
            /\ etape'[q] = etape[q] /\ Len(vue'[q]) = Len(vue[q])
            /\ service'[q].de = service[q].de /\ service'[q].pair = service[q].pair
            /\ service'[q].reste = service[q].reste,
         etape'[p] \in {"annonce", "dort"} =>
            service'[p].de \in Pairs /\ service'[p].pair \in PairsPossibles,
         etape'[p] = "annonce" => service'[p].reste \subseteq 1..Len(vue'[p])
  PROVE  TypesDuService'
BY DEF TypesDuService

LEMMA DemandeAuGroupeTypes ==
  ASSUME Types, SoiEnTete, NEW p \in Pairs, DemandeAuGroupe(p)
  PROVE  udp' \in [Pairs -> SUBSET Datagrammes]
<1> DEFINE d == [de |-> p, msg |-> rejoindre_enchere_mess1]
<1>1. d \in Datagrammes
  <2>1. PICK id \in Ids : TRUE
    BY DuPair
  <2>2. rejoindre_enchere_mess1 \in Messages /\ rejoindre_enchere_mess1.code = 3
    BY <2>1, Rencontre
  <2>. QED BY <2>2 DEF Datagrammes
<1>2. udp' = [q \in Pairs |-> IF q # p /\ Ouvert(q) THEN udp[q] \cup {d} ELSE udp[q]]
  BY DEF DemandeAuGroupe
<1> HIDE DEF d
<1>3. ASSUME NEW q \in Pairs PROVE udp'[q] \subseteq Datagrammes
  BY <1>1, <1>2, DuPair
<1>. QED BY <1>2, <1>3

LEMMA DemarreTypes ==
  ASSUME Types, TypesDuService, SoiEnTete, NEW p \in Pairs, Demarre(p)
  PROVE  Types' /\ TypesDuService' /\ SoiEnTete'
<1>1. PICK id \in Tirages[p] :
          /\ moi' = [moi EXCEPT ![p] = id] /\ vue' = [vue EXCEPT ![p] = <<Pair(id, p)>>]
  BY DEF Demarre
<1>2. id \in Ids
  <2>1. Tirages[p] \subseteq 1..IdMax /\ IdMax \in Nat
    BY Constantes
  <2>. QED BY <1>1, <2>1 DEF Ids
<1>3. Pair(id, p) \in PairsPossibles /\ Pair(id, p).id = id
  BY <1>2, PairPossible DEF Pair
<1>4. essais' \in [Pairs -> 0..MAX_JOIN_ATTEMPTS]
  <2>1. 1 \in 0..MAX_JOIN_ATTEMPTS
    BY Constantes
  <2>. QED BY <2>1 DEF Demarre, Types
<1>5. moi' \in [Pairs -> Ids] /\ vue' \in [Pairs -> Seq(PairsPossibles)]
  BY <1>1, <1>2, <1>3 DEF Types
<1>6. udp' \in [Pairs -> SUBSET Datagrammes]
  BY DemandeAuGroupeTypes DEF Demarre
<1>7. etape' = [etape EXCEPT ![p] = "cherche"] /\ etape \in [Pairs -> Etapes]
  BY DEF Demarre, Va, Types
<1>8. etape' \in [Pairs -> Etapes] /\ etape'[p] = "cherche"
      /\ \A q \in Pairs : q # p => etape'[q] = etape[q]
  BY <1>7 DEF Etapes, EnChemin
<1>9. Types'
  BY <1>4, <1>5, <1>6, <1>8 DEF Types, Demarre
<1>10. /\ vue'[p] = <<Pair(id, p)>> /\ moi'[p] = id
       /\ \A q \in Pairs : q # p => vue'[q] = vue[q] /\ moi'[q] = moi[q]
  BY <1>1 DEF Types
<1>11. SoiEnTete'
  <2>1. \A q \in Pairs : q # p => (Ouvert(q)' => Ouvert(q))
    BY <1>8 DEF Ouvert
  <2>2. \A q \in Pairs : q = p => vue'[q] # <<>> /\ vue'[q][1].id = moi'[q]
    BY <1>3, <1>10
  <2>. QED BY <1>10, <2>1, <2>2, SoiApres
<1>12. TypesDuService'
  <2>1. service' = service
    BY DEF Demarre
  <2>. QED BY <1>8, <1>10, <2>1, ServiceApres
<1>. QED BY <1>9, <1>11, <1>12

LEMMA RecoitCandidatTypes ==
  ASSUME Types, TypesDuService, SoiEnTete, NEW p \in Pairs, RecoitCandidat(p)
  PROVE  Types' /\ TypesDuService' /\ SoiEnTete'
<1>1. PICK d \in udp[p] :
        /\ udp' = [udp EXCEPT ![p] = @ \ {d}]
        /\ candidats' = [candidats EXCEPT ![p] =
                IF d.msg.code = 4 THEN peer_list_add(@, PairDe(d.msg)) ELSE @]
  BY DEF RecoitCandidat
<1>2. d.msg.code = 4 => PairDe(d.msg) \in PairsPossibles
  <2>1. d \in Datagrammes
    BY <1>1, DuPair
  <2>. QED BY <2>1 DEF Datagrammes, Nomme
<1>3. d.msg.code = 4 => peer_list_add(candidats[p], PairDe(d.msg)) \in Seq(PairsPossibles)
  BY <1>2, DuPair, Ajout
<1>4. candidats' \in [Pairs -> Seq(PairsPossibles)]
  BY <1>1, <1>3 DEF Types
<1>5. udp' \in [Pairs -> SUBSET Datagrammes]
  BY <1>1 DEF Types
<1>6. /\ UNCHANGED <<etape, essais, moi, vue, enchere, parrain, file, service, recu, pannes>>
  BY DEF RecoitCandidat
<1>7. Types'
  BY <1>4, <1>5, <1>6 DEF Types
<1>8. SoiEnTete' /\ TypesDuService'
  BY <1>6 DEF SoiEnTete, TypesDuService, Ouvert
<1>. QED BY <1>7, <1>8

LEMMA ConnecteTypes ==
  ASSUME Types, TypesDuService, SoiEnTete, NEW p \in Pairs, Connecte(p)
  PROVE  Types' /\ TypesDuService' /\ SoiEnTete'
<1> DEFINE s == Head(candidats[p]).ip
    demande == rejoindre_enchere_mess4(moi[p], vue[p][1].ip, vue[p][1].port, <<>>)
    c == [de |-> p, vif |-> TRUE, msgs |-> Emis(<<demande>>)]
<1>1. /\ etape[p] \in {"cherche", "essaie"} /\ candidats[p] # <<>>
      /\ candidats' = [candidats EXCEPT ![p] = Tail(@)]
      /\ UNCHANGED <<essais, moi, vue, enchere, udp, service, recu, pannes>>
  BY DEF Connecte, Essaie
<1>2. \/ /\ file' = [file EXCEPT ![s] = Append(@, c)]
         /\ parrain' = [parrain EXCEPT ![p] = s] /\ Va(p, "attend50")
      \/ Va(p, "essaie") /\ UNCHANGED <<file, parrain>>
  BY DEF Connecte
<1>3. Ouvert(p) /\ etape[p] \notin {"absent", "mort", "annonce", "dort"}
  BY <1>1 DEF Ouvert
<1>4. s \in Pairs
  <2>1. candidats[p][1] \in PairsPossibles
    BY <1>1, DuPair
  <2>. QED BY <1>1, <2>1 DEF PairsPossibles
<1>5. c \in Connexions
  <2>1. /\ moi[p] \in Ids /\ vue[p][1].ip \in Pairs /\ vue[p][1].port = LIAISON_PORT
    BY <1>3, DuPair
  <2>2. /\ Emis(<<demande>>) = <<demande>> /\ demande \in Messages /\ demande.code = 5
        /\ Nomme(demande)
    <3>1. demande = [suffixe_info(moi[p], vue[p][1].ip, LIAISON_PORT, <<>>) EXCEPT !.code = 5]
      BY <2>1 DEF rejoindre_enchere_mess4
    <3> HIDE DEF demande
    <3>. QED BY <2>1, <3>1, Presentation
  <2> HIDE DEF demande
  <2>3. c.msgs = <<demande>> /\ c.msgs[1] = demande /\ Len(c.msgs) = 1
    BY <2>2
  <2>4. c \in [de : Pairs, vif : BOOLEAN, msgs : Seq(Messages)]
    <3>1. <<demande>> \in Seq(Messages) /\ TRUE \in BOOLEAN
      BY <2>2
    <3>2. c = [de |-> p, vif |-> TRUE, msgs |-> <<demande>>]
      BY <2>2
    <3>. QED BY <3>1, <3>2
  <2>. QED BY <2>2, <2>3, <2>4 DEF Connexions, Demande
<1> HIDE DEF s, c
<1>6. file' \in [Pairs -> Seq(Connexions)] /\ parrain' \in [Pairs -> Pairs \cup {Personne}]
  <2>1. CASE UNCHANGED <<file, parrain>>
    BY <2>1 DEF Types
  <2>2. CASE file' = [file EXCEPT ![s] = Append(@, c)] /\ parrain' = [parrain EXCEPT ![p] = s]
    <3>1. Append(file[s], c) \in Seq(Connexions)
      BY <1>4, <1>5, DuPair
    <3>. QED BY <1>4, <2>2, <3>1 DEF Types
  <2>. QED BY <1>2, <2>1, <2>2
<1>7. candidats' \in [Pairs -> Seq(PairsPossibles)]
  <2>1. Tail(candidats[p]) \in Seq(PairsPossibles)
    BY <1>1, DuPair
  <2>. QED BY <1>1, <2>1 DEF Types
<1>8. /\ etape' \in [Pairs -> Etapes] /\ etape'[p] \in {"attend50", "essaie"}
      /\ \A q \in Pairs : q # p => etape'[q] = etape[q]
  <2>1. etape \in [Pairs -> Etapes]
    BY DEF Types
  <2>2. "attend50" \in Etapes /\ "essaie" \in Etapes
    BY DEF Etapes, EnChemin
  <2>. QED BY <1>2, <2>1, <2>2 DEF Va
<1>9. Types'
  BY <1>1, <1>6, <1>7, <1>8 DEF Types
<1>10. SoiEnTete'
  <2>1. \A q \in Pairs : Ouvert(q)' => Ouvert(q)
    BY <1>3, <1>8 DEF Ouvert
  <2>. QED BY <1>1, <2>1 DEF SoiEnTete
<1>11. TypesDuService'
  BY <1>1, <1>8, ServiceApres
<1>. QED BY <1>9, <1>10, <1>11

\* From a peer that stays open nothing is lost when its list stays.
LEMMA MemesListes ==
  ASSUME SoiEnTete, NEW p \in Pairs, Ouvert(p), UNCHANGED <<moi, vue>>,
         \A q \in Pairs : q # p => etape'[q] = etape[q]
  PROVE  SoiEnTete'
BY DEF SoiEnTete, Ouvert

LEMMA RedemandeTypes ==
  ASSUME Types, TypesDuService, SoiEnTete, NEW p \in Pairs, Redemande(p)
  PROVE  Types' /\ TypesDuService' /\ SoiEnTete'
<1>1. /\ etape[p] \in {"cherche", "essaie"} /\ essais[p] < MAX_JOIN_ATTEMPTS
      /\ essais' = [essais EXCEPT ![p] = @ + 1] /\ etape' = [etape EXCEPT ![p] = "cherche"]
      /\ UNCHANGED <<moi, vue, enchere, candidats, parrain, file, service, recu, pannes>>
  BY DEF Redemande, Essaie, Va, CompteEssai
<1>2. essais' \in [Pairs -> 0..MAX_JOIN_ATTEMPTS]
  <2>1. essais[p] \in 0..MAX_JOIN_ATTEMPTS /\ MAX_JOIN_ATTEMPTS \in Nat
    BY Constantes DEF Types
  <2>2. essais[p] + 1 \in 0..MAX_JOIN_ATTEMPTS
    BY <1>1, <2>1
  <2>. QED BY <1>1, <2>2 DEF Types
<1>3. udp' \in [Pairs -> SUBSET Datagrammes]
  BY DemandeAuGroupeTypes DEF Redemande
<1>4. /\ etape' \in [Pairs -> Etapes] /\ etape'[p] = "cherche"
      /\ \A q \in Pairs : q # p => etape'[q] = etape[q]
  BY <1>1 DEF Types, Etapes, EnChemin
<1>5. Types'
  BY <1>1, <1>2, <1>3, <1>4 DEF Types
<1>6. SoiEnTete'
  <2>1. Ouvert(p)
    BY <1>1 DEF Ouvert
  <2>. QED BY <1>1, <1>4, <2>1, MemesListes
<1>7. TypesDuService'
  BY <1>1, <1>4, ServiceApres
<1>. QED BY <1>5, <1>6, <1>7

LEMMA EntreTypes ==
  ASSUME Types, NEW p \in Pairs, EntreDansLaBoucle(p)
  PROVE  /\ etape' \in [Pairs -> Etapes] /\ etape'[p] = "boucle"
         /\ \A q \in Pairs : q # p => etape'[q] = etape[q]
         /\ udp' \in [Pairs -> SUBSET Datagrammes]
         /\ candidats' \in [Pairs -> Seq(PairsPossibles)]
<1>1. /\ etape' = [etape EXCEPT ![p] = "boucle"]
      /\ udp' = [udp EXCEPT ![p] = {d \in @ : d.msg.code = 3}]
      /\ candidats' = [candidats EXCEPT ![p] = <<>>]
  BY DEF EntreDansLaBoucle, Va
<1>2. udp' \in [Pairs -> SUBSET Datagrammes]
  <2>1. {d \in udp[p] : d.msg.code = 3} \in SUBSET Datagrammes
    BY DEF Types
  <2>. QED BY <1>1, <2>1 DEF Types
<1>3. candidats' \in [Pairs -> Seq(PairsPossibles)]
  BY <1>1 DEF Types
<1>. QED BY <1>1, <1>2, <1>3 DEF Types, Etapes

LEMMA CreeReseauTypes ==
  ASSUME Types, TypesDuService, SoiEnTete, NEW p \in Pairs, CreeReseau(p)
  PROVE  Types' /\ TypesDuService' /\ SoiEnTete'
<1>1. /\ etape[p] \in {"cherche", "essaie"} /\ enchere' = [enchere EXCEPT ![p] = TRUE]
      /\ UNCHANGED <<essais, moi, vue, parrain, file, service, recu, pannes>>
  BY DEF CreeReseau, Essaie
<1>2. /\ etape' \in [Pairs -> Etapes] /\ etape'[p] = "boucle"
      /\ \A q \in Pairs : q # p => etape'[q] = etape[q]
      /\ udp' \in [Pairs -> SUBSET Datagrammes]
      /\ candidats' \in [Pairs -> Seq(PairsPossibles)]
  BY EntreTypes DEF CreeReseau
<1>3. Types'
  BY <1>1, <1>2 DEF Types
<1>4. SoiEnTete'
  <2>1. Ouvert(p)
    BY <1>1 DEF Ouvert
  <2>. QED BY <1>1, <1>2, <2>1, MemesListes
<1>5. TypesDuService'
  BY <1>1, <1>2, ServiceApres
<1>. QED BY <1>3, <1>4, <1>5

LEMMA EnvoiLu ==
  ASSUME Types, SoiEnTete, NEW p \in Pairs, recu[p] # <<>>
  PROVE  /\ recu[p][1] \in Envois /\ recu[p][1] \in Seq(Messages) /\ recu[p][1] # <<>>
         /\ recu[p][1][1] \in Messages /\ recu[p][1][1].id \in Ids
         /\ recu[p][1][1].code \in {7, 50, 51} /\ recu[p][1][1].nb \in Nat
<1>1. recu[p][1] \in Envois
  BY DuPair
<1>2. recu[p][1] \in Seq(Messages) /\ recu[p][1] # <<>> /\ recu[p][1][1].code \in {7, 50, 51}
  BY <1>1 DEF Envois, EstListe, EstReponse
<1>3. recu[p][1][1] \in Messages
  BY <1>2
<1>. QED BY <1>1, <1>2, <1>3 DEF Messages

LEMMA RecoitReponseTypes ==
  ASSUME Types, TypesDuService, SoiEnTete, NEW p \in Pairs, RecoitReponse(p)
  PROVE  Types' /\ TypesDuService' /\ SoiEnTete'
<1> DEFINE m == recu[p][1][1]
<1>1. /\ etape[p] = "attend50" /\ recu[p] # <<>>
      /\ IF m.code = 51 THEN ChangeId(p, m.id) ELSE UNCHANGED <<moi, vue>>
      /\ recu' = [recu EXCEPT ![p] = <<>>] /\ etape' = [etape EXCEPT ![p] = "attend7"]
      /\ UNCHANGED <<nouveau, udp, file, service, pannes>>
  BY DEF RecoitReponse, Va
<1>2. m.id \in Ids
  BY <1>1, EnvoiLu
<1> HIDE DEF m
<1>3. Ouvert(p) /\ vue[p] # <<>> /\ vue[p] \in Seq(PairsPossibles) /\ vue[p][1].id = moi[p]
  BY <1>1, DuPair DEF Ouvert
<1>4. /\ moi' \in [Pairs -> Ids] /\ vue' \in [Pairs -> Seq(PairsPossibles)]
      /\ vue'[p] # <<>> /\ vue'[p][1].id = moi'[p]
      /\ \A q \in Pairs : q # p => moi'[q] = moi[q] /\ vue'[q] = vue[q]
  <2>1. CASE m.code # 51
    BY <1>1, <1>3, <2>1 DEF Types
  <2>2. CASE m.code = 51
    <3> DEFINE e == [vue[p][1] EXCEPT !.id = m.id]
        l == [vue[p] EXCEPT ![1] = e]
    <3>1. moi' = [moi EXCEPT ![p] = m.id] /\ vue' = [vue EXCEPT ![p] = l]
      BY <1>1, <2>2 DEF ChangeId
    <3>2. vue[p][1] \in PairsPossibles
      BY <1>3
    <3>3. e \in PairsPossibles /\ e.id = m.id
      BY <1>2, <3>2 DEF PairsPossibles
    <3> HIDE DEF e
    <3>4. l \in Seq(PairsPossibles) /\ l # <<>> /\ l[1] = e
      BY <1>3, <3>3
    <3> HIDE DEF l
    <3>. QED BY <1>2, <3>1, <3>3, <3>4 DEF Types
  <2>. QED BY <2>1, <2>2
<1>5. recu' \in [Pairs -> Seq(Envois)]
  BY <1>1 DEF Types
<1>6. /\ etape' \in [Pairs -> Etapes] /\ etape'[p] = "attend7"
      /\ \A q \in Pairs : q # p => etape'[q] = etape[q]
  BY <1>1 DEF Types, Etapes, EnChemin
<1>7. Types'
  BY <1>1, <1>4, <1>5, <1>6 DEF Types, nouveau
<1>8. SoiEnTete'
  <2>1. \A q \in Pairs : q # p => (Ouvert(q)' => Ouvert(q))
    BY <1>6 DEF Ouvert
  <2>. QED BY <1>4, <2>1, SoiApres
<1>9. TypesDuService'
  BY <1>1, <1>4, <1>6, ServiceApres
<1>. QED BY <1>7, <1>8, <1>9

\* Who hangs up is at the other end of nothing; the rest stays as it was.
LEMMA RaccrocheTypes ==
  ASSUME Types, SoiEnTete, NEW p \in Pairs, Raccroche(p)
  PROVE  /\ file' \in [Pairs -> Seq(Connexions)] /\ service' \in [Pairs -> Services]
         /\ recu' \in [Pairs -> Seq(Envois)] /\ recu'[p] = <<>>
         /\ \A q \in Pairs : q # p => recu'[q] = recu[q]
         /\ \A q \in Pairs : /\ service'[q].de = service[q].de
                             /\ service'[q].pair = service[q].pair
                             /\ service'[q].reste = service[q].reste
                             /\ service[q].de # p => service'[q] = service[q]
         /\ \A s \in Pairs : Len(file'[s]) = Len(file[s])
         /\ \A s \in Pairs : \A k \in 1..Len(file[s]) :
                /\ file'[s][k].de = file[s][k].de /\ file'[s][k].msgs = file[s][k].msgs
                /\ file[s][k].de # p \/ ~file[s][k].vif => file'[s][k] = file[s][k]
<1> DEFINE coupe(c) == IF c.de = p THEN [c EXCEPT !.vif = FALSE] ELSE c
    queue(s) == [i \in 1..Len(file[s]) |-> coupe(file[s][i])]
<1>1. /\ file' = [s \in Pairs |-> queue(s)]
      /\ service' = [s \in Pairs |-> coupe(service[s])]
      /\ recu' = [recu EXCEPT ![p] = <<>>]
  BY DEF Raccroche
<1>2. ASSUME NEW c \in Connexions
      PROVE  /\ coupe(c) \in Connexions /\ coupe(c).de = c.de /\ coupe(c).msgs = c.msgs
             /\ (c.de # p \/ ~c.vif => coupe(c) = c)
  <2>1. c \in [de : Pairs, vif : BOOLEAN, msgs : Seq(Messages)]
    BY DEF Connexions
  <2>2. /\ coupe(c) \in [de : Pairs, vif : BOOLEAN, msgs : Seq(Messages)]
        /\ coupe(c).de = c.de /\ coupe(c).msgs = c.msgs /\ (~c.vif => ~coupe(c).vif)
    BY <2>1
  <2>3. c.de # p \/ ~c.vif => coupe(c) = c
    BY <2>1
  <2> HIDE DEF coupe
  <2>4. coupe(c) \in Connexions
    BY <2>2 DEF Connexions, Demande, Annonce
  <2>. QED BY <2>2, <2>3, <2>4
<1>3. ASSUME NEW q \in Pairs
      PROVE  /\ coupe(service[q]) \in Services /\ coupe(service[q]).de = service[q].de
             /\ coupe(service[q]).pair = service[q].pair
             /\ coupe(service[q]).reste = service[q].reste
             /\ (service[q].de # p => coupe(service[q]) = service[q])
  <2>1. service[q] \in Services
    BY DuPair
  <2>. QED BY <2>1 DEF Services
<1>4. ASSUME NEW s \in Pairs
      PROVE  /\ queue(s) \in Seq(Connexions) /\ Len(queue(s)) = Len(file[s])
             /\ \A k \in 1..Len(file[s]) : queue(s)[k] = coupe(file[s][k])
  <2>1. file[s] \in Seq(Connexions)
    BY DuPair
  <2>2. \A k \in 1..Len(file[s]) : file[s][k] \in Connexions
    BY <2>1
  <2>3. \A k \in 1..Len(file[s]) : coupe(file[s][k]) \in Connexions
    BY <1>2, <2>2
  <2> HIDE DEF coupe
  <2>4. queue(s) \in [1..Len(file[s]) -> Connexions] /\ Len(file[s]) \in Nat
    BY <2>1, <2>3
  <2>. QED BY <2>4
<1> HIDE DEF coupe, queue
<1>5. file' \in [Pairs -> Seq(Connexions)]
  BY <1>1, <1>4
<1>6. service' \in [Pairs -> Services]
  BY <1>1, <1>3
<1>7. recu' \in [Pairs -> Seq(Envois)] /\ recu'[p] = <<>>
      /\ \A q \in Pairs : q # p => recu'[q] = recu[q]
  BY <1>1 DEF Types
<1>8. \A q \in Pairs : /\ service'[q].de = service[q].de
                       /\ service'[q].pair = service[q].pair
                       /\ service'[q].reste = service[q].reste
                       /\ service[q].de # p => service'[q] = service[q]
  BY <1>1, <1>3
<1>9. \A s \in Pairs : /\ Len(file'[s]) = Len(file[s])
                       /\ \A k \in 1..Len(file[s]) : file'[s][k] = coupe(file[s][k])
  BY <1>1, <1>4
<1>10. ASSUME NEW s \in Pairs, NEW k \in 1..Len(file[s])
       PROVE  /\ file'[s][k].de = file[s][k].de /\ file'[s][k].msgs = file[s][k].msgs
              /\ file[s][k].de # p \/ ~file[s][k].vif => file'[s][k] = file[s][k]
  <2>1. file[s][k] \in Connexions
    BY DuPair
  <2>. QED BY <1>2, <1>9, <2>1
<1>. QED BY <1>5, <1>6, <1>7, <1>8, <1>9, <1>10

LEMMA CoupureTypes ==
  ASSUME Types, SoiEnTete, NEW p \in Pairs, Coupure(p)
  PROVE  /\ file' \in [Pairs -> Seq(Connexions)] /\ service' \in [Pairs -> Services]
         /\ recu' \in [Pairs -> Seq(Envois)] /\ pannes' \in 0..MaxPannes
         /\ \A q \in Pairs : /\ service'[q].de = service[q].de
                             /\ service'[q].pair = service[q].pair
                             /\ service'[q].reste = service[q].reste
         /\ UNCHANGED <<moi, vue, essais, enchere, parrain>>
<1>1. Raccroche(p) /\ UNCHANGED <<moi, vue, essais, enchere, parrain>>
      /\ (pannes' = pannes \/ (pannes' = pannes + 1 /\ Tolere(pannes + 1)))
  BY DEF Coupure
<1>2. pannes' \in 0..MaxPannes
  <2>1. pannes \in Nat /\ pannes <= MaxPannes /\ MaxPannes \in Nat
    BY DuPair, Constantes
  <2>. QED BY <1>1, <2>1 DEF Tolere
<1>. QED BY <1>1, <1>2, RaccrocheTypes

LEMMA SansReponseTypes ==
  ASSUME Types, TypesDuService, SoiEnTete, NEW p \in Pairs, SansReponse(p)
  PROVE  Types' /\ TypesDuService' /\ SoiEnTete'
<1>1. /\ etape[p] = "attend50" /\ etape' = [etape EXCEPT ![p] = "essaie"]
      /\ UNCHANGED <<candidats, udp>>
  BY DEF SansReponse, Va
<1>2. /\ file' \in [Pairs -> Seq(Connexions)] /\ service' \in [Pairs -> Services]
      /\ recu' \in [Pairs -> Seq(Envois)] /\ pannes' \in 0..MaxPannes
      /\ \A q \in Pairs : /\ service'[q].de = service[q].de
                          /\ service'[q].pair = service[q].pair
                          /\ service'[q].reste = service[q].reste
      /\ UNCHANGED <<moi, vue, essais, enchere, parrain>>
  BY CoupureTypes DEF SansReponse
<1>3. /\ etape' \in [Pairs -> Etapes] /\ etape'[p] = "essaie"
      /\ \A q \in Pairs : q # p => etape'[q] = etape[q]
  BY <1>1 DEF Types, Etapes, EnChemin
<1>4. Types'
  BY <1>1, <1>2, <1>3 DEF Types
<1>5. SoiEnTete'
  <2>1. Ouvert(p)
    BY <1>1 DEF Ouvert
  <2>. QED BY <1>2, <1>3, <2>1, MemesListes
<1>6. TypesDuService'
  BY <1>2, <1>3, ServiceApres
<1>. QED BY <1>4, <1>5, <1>6

LEMMA SansListeTypes ==
  ASSUME Types, TypesDuService, SoiEnTete, NEW p \in Pairs, SansListe(p)
  PROVE  Types' /\ TypesDuService' /\ SoiEnTete'
<1>1. etape[p] = "attend7"
  BY DEF SansListe
<1>2. /\ file' \in [Pairs -> Seq(Connexions)] /\ service' \in [Pairs -> Services]
      /\ recu' \in [Pairs -> Seq(Envois)] /\ pannes' \in 0..MaxPannes
      /\ \A q \in Pairs : /\ service'[q].de = service[q].de
                          /\ service'[q].pair = service[q].pair
                          /\ service'[q].reste = service[q].reste
      /\ UNCHANGED <<moi, vue, essais, enchere, parrain>>
  BY CoupureTypes DEF SansListe
<1>3. /\ etape' \in [Pairs -> Etapes] /\ etape'[p] = "boucle"
      /\ \A q \in Pairs : q # p => etape'[q] = etape[q]
      /\ udp' \in [Pairs -> SUBSET Datagrammes]
      /\ candidats' \in [Pairs -> Seq(PairsPossibles)]
  BY EntreTypes DEF SansListe
<1>4. Types'
  BY <1>2, <1>3 DEF Types
<1>5. SoiEnTete'
  <2>1. Ouvert(p)
    BY <1>1 DEF Ouvert
  <2>. QED BY <1>2, <1>3, <2>1, MemesListes
<1>6. TypesDuService'
  BY <1>2, <1>3, ServiceApres
<1>. QED BY <1>4, <1>5, <1>6

\* The list that a newcomer keeps: its own entry, then what it had or was sent.
LEMMA ListeLue ==
  ASSUME Types, SoiEnTete, NEW p \in Pairs, Ouvert(p), recu[p] # <<>>,
         recu[p][1][1].code = 7, NEW r, r = peer_list_load(vue[p], recu[p][1])
  PROVE  /\ r \in Seq(PairsPossibles) /\ r # <<>> /\ r[1] = vue[p][1]
         /\ \A k \in 1..Len(r) : Vient(r[k], vue[p], recu[p][1])
<1>1. Entiere(recu[p][1])
  BY EnvoiLu DEF Entiere, Envois, EstListe
<1>2. vue[p] \in Seq(PairsPossibles) /\ vue[p] # <<>>
  BY DuPair
<1>. QED BY <1>1, <1>2, ListeChargee

\* What is read in the place of the entries of a broken list has their types.
LEMMA ListeRompueLue ==
  ASSUME Types, SoiEnTete, NEW p \in Pairs, Ouvert(p), recu[p] # <<>>,
         NEW lus, lus \in [1..recu[p][1][1].nb -> Debris],
         NEW r, r = peer_list_load(vue[p], <<recu[p][1][1]>> \o lus)
  PROVE  r \in Seq(PairsPossibles) /\ r # <<>> /\ r[1] = vue[p][1]
<1> DEFINE h == recu[p][1][1]
    msgs == <<h>> \o lus
<1>1. h.nb \in Nat
  BY EnvoiLu
<1>2. lus \in Seq(Debris) /\ Len(lus) = h.nb /\ \A i \in 1..Len(lus) : lus[i] \in Debris
  BY <1>1
<1> HIDE DEF h
<1>3. msgs[1] = h /\ Len(msgs) = h.nb + 1 /\ \A j \in 2..Len(msgs) : msgs[j] = lus[j - 1]
  BY <1>1, <1>2
<1>4. ASSUME NEW j \in 2..Len(msgs) PROVE Nomme(msgs[j])
  <2>1. j - 1 \in 1..Len(lus)
    BY <1>1, <1>2, <1>3
  <2>2. lus[j - 1] \in Debris
    BY <1>2, <2>1
  <2>3. msgs[j] \in PairsPossibles
    BY <1>3, <2>2, DebrisAssumption
  <2> HIDE DEF msgs
  <2>. QED BY <2>3 DEF Nomme, PairDe, PairsPossibles
<1>5. Entiere(msgs)
  BY <1>1, <1>3, <1>4 DEF Entiere
<1>6. vue[p] \in Seq(PairsPossibles) /\ vue[p] # <<>>
  BY DuPair
<1>7. r = peer_list_load(vue[p], msgs)
  BY DEF h
<1> HIDE DEF msgs
<1>. QED BY <1>5, <1>6, <1>7, ListeChargee

\* A newcomer becomes a member with the list it had, or another one that begins
\* with the same entry.
LEMMA MembreTypes ==
  ASSUME Types, TypesDuService, SoiEnTete, NEW p \in Pairs, etape[p] = "attend7",
         Raccroche(p), EntreDansLaBoucle(p), UNCHANGED <<essais, moi, parrain, pannes>>,
         \/ UNCHANGED <<vue, enchere>>
         \/ /\ enchere' = [enchere EXCEPT ![p] = TRUE]
            /\ \E r \in Seq(PairsPossibles) :
                 vue' = [vue EXCEPT ![p] = r] /\ r # <<>> /\ r[1] = vue[p][1]
  PROVE  Types' /\ TypesDuService' /\ SoiEnTete'
<1>2. Ouvert(p)
  BY DEF Ouvert
<1>3. /\ etape' \in [Pairs -> Etapes] /\ etape'[p] = "boucle"
      /\ \A q \in Pairs : q # p => etape'[q] = etape[q]
      /\ udp' \in [Pairs -> SUBSET Datagrammes]
      /\ candidats' \in [Pairs -> Seq(PairsPossibles)]
  BY EntreTypes
<1>4. /\ file' \in [Pairs -> Seq(Connexions)] /\ service' \in [Pairs -> Services]
      /\ recu' \in [Pairs -> Seq(Envois)]
      /\ \A q \in Pairs : /\ service'[q].de = service[q].de
                          /\ service'[q].pair = service[q].pair
                          /\ service'[q].reste = service[q].reste
  BY RaccrocheTypes
<1>5. vue[p] \in Seq(PairsPossibles) /\ vue[p] # <<>> /\ vue[p][1].id = moi[p]
  BY <1>2, DuPair
<1>6. /\ vue' \in [Pairs -> Seq(PairsPossibles)] /\ enchere' \in [Pairs -> BOOLEAN]
      /\ vue'[p] # <<>> /\ vue'[p][1].id = moi[p]
      /\ \A q \in Pairs : q # p => vue'[q] = vue[q]
  <2>1. CASE UNCHANGED <<vue, enchere>>
    BY <1>5, <2>1 DEF Types
  <2>2. CASE ~UNCHANGED <<vue, enchere>>
    <3>1. enchere' = [enchere EXCEPT ![p] = TRUE]
      BY <2>2
    <3>2. PICK r \in Seq(PairsPossibles) :
            vue' = [vue EXCEPT ![p] = r] /\ r # <<>> /\ r[1] = vue[p][1]
      BY <2>2
    <3>. QED BY <1>5, <3>1, <3>2 DEF Types
  <2>. QED BY <2>1, <2>2
<1>7. Types'
  BY <1>3, <1>4, <1>6 DEF Types
<1>8. SoiEnTete'
  <2>1. \A q \in Pairs : q # p => (Ouvert(q)' => Ouvert(q))
    BY <1>3 DEF Ouvert
  <2>2. moi'[p] = moi[p] /\ \A q \in Pairs : moi'[q] = moi[q]
    OBVIOUS
  <2>. QED BY <1>6, <2>1, <2>2, SoiApres
<1>9. TypesDuService'
  BY <1>3, <1>4, <1>6, ServiceApres
<1>. QED BY <1>7, <1>8, <1>9

LEMMA ListeTypes ==
  ASSUME Types, TypesDuService, SoiEnTete, NEW p \in Pairs, handle_peer_list_sync(p)
  PROVE  Types' /\ TypesDuService' /\ SoiEnTete'
<1> DEFINE r == peer_list_load(vue[p], recu[p][1])
<1>1. /\ etape[p] = "attend7" /\ recu[p] # <<>> /\ Raccroche(p) /\ EntreDansLaBoucle(p)
      /\ UNCHANGED <<essais, moi, parrain, pannes>>
      /\ \/ /\ recu[p][1][1].code = 7 /\ vue' = [vue EXCEPT ![p] = r]
            /\ enchere' = [enchere EXCEPT ![p] = TRUE]
         \/ UNCHANGED <<vue, enchere>>
  BY DEF handle_peer_list_sync
<1>2. Ouvert(p)
  BY <1>1 DEF Ouvert
<1>3. recu[p][1][1].code = 7 => r \in Seq(PairsPossibles) /\ r # <<>> /\ r[1] = vue[p][1]
  BY <1>1, <1>2, ListeLue
<1> HIDE DEF r
<1>. QED BY <1>1, <1>3, MembreTypes

LEMMA ListeRompueTypes ==
  ASSUME Types, TypesDuService, SoiEnTete, NEW p \in Pairs, LitListeRompue(p)
  PROVE  Types' /\ TypesDuService' /\ SoiEnTete'
<1>1. /\ etape[p] = "attend7" /\ recu[p] # <<>> /\ Raccroche(p) /\ EntreDansLaBoucle(p)
      /\ UNCHANGED <<essais, moi, parrain, pannes>>
      /\ enchere' = [enchere EXCEPT ![p] = TRUE]
  BY DEF LitListeRompue
<1>2. PICK lus \in [1..recu[p][1][1].nb -> Debris] :
        vue' = [vue EXCEPT ![p] = peer_list_load(@, <<recu[p][1][1]>> \o lus)]
  BY DEF LitListeRompue
<1> DEFINE r == peer_list_load(vue[p], <<recu[p][1][1]>> \o lus)
<1>3. Ouvert(p)
  BY <1>1 DEF Ouvert
<1>4. r \in Seq(PairsPossibles) /\ r # <<>> /\ r[1] = vue[p][1]
  BY <1>1, <1>3, ListeRompueLue
<1>5. vue' = [vue EXCEPT ![p] = r]
  BY <1>2
<1> HIDE DEF r
<1>. QED BY <1>1, <1>4, <1>5, MembreTypes

LEMMA LiaisonTypes ==
  ASSUME Types, TypesDuService, SoiEnTete, NEW p \in Pairs, handle_udp_liaison(p)
  PROVE  Types' /\ TypesDuService' /\ SoiEnTete'
<1> DEFINE reponse == rejoindre_enchere_mess3(moi[p], vue[p][1].ip, vue[p][1].port)
    r == [de |-> p, msg |-> reponse]
<1>1. /\ etape[p] = "boucle"
      /\ UNCHANGED <<etape, nouveau, moi, vue, file, service, recu, pannes>>
  BY DEF handle_udp_liaison
<1>2. PICK d \in udp[p] :
        udp' = [q \in Pairs |->
            (udp[q] \ (IF q = p THEN {d} ELSE {})) \cup
            (IF q = d.de /\ etape[q] \in EnChemin THEN {r} ELSE {})]
  BY DEF handle_udp_liaison
<1>3. r \in Datagrammes
  <2>1. moi[p] \in Ids /\ vue[p][1].ip \in Pairs /\ vue[p][1].port = LIAISON_PORT
    BY <1>1, DuPair DEF Ouvert
  <2>2. /\ reponse \in Messages /\ PairDe(reponse) = Pair(moi[p], vue[p][1].ip)
    BY <2>1, Rencontre
  <2>3. Nomme(reponse)
    BY <2>1, <2>2, PairPossible DEF Nomme
  <2> HIDE DEF reponse
  <2>. QED BY <2>2, <2>3 DEF Datagrammes
<1> HIDE DEF r
<1>4. udp' \in [Pairs -> SUBSET Datagrammes]
  <2>1. ASSUME NEW q \in Pairs PROVE udp'[q] \subseteq Datagrammes
    BY <1>2, <1>3, DuPair
  <2>. QED BY <1>2, <2>1
<1>5. Types'
  BY <1>1, <1>4 DEF Types, nouveau
<1>6. SoiEnTete' /\ TypesDuService'
  BY <1>1 DEF SoiEnTete, TypesDuService, Ouvert
<1>. QED BY <1>5, <1>6

LEMMA TransmetTypes ==
  ASSUME Types, SoiEnTete, NEW c, c.de \in Pairs, NEW envoi, envoi \in Envois \cup {Refus},
         Transmet(c, envoi)
  PROVE  recu' \in [Pairs -> Seq(Envois)] /\ pannes' \in 0..MaxPannes
<1>1. /\ pannes' = IF envoi = Refus \/ Rompue(envoi) THEN pannes + 1 ELSE pannes
      /\ pannes' = 0 \/ pannes' <= MaxPannes
      /\ recu' = [recu EXCEPT ![c.de] = IF c.vif /\ envoi # Refus THEN Append(@, envoi) ELSE @]
  BY DEF Transmet, Tolere
<1>2. recu' \in [Pairs -> Seq(Envois)]
  <2>1. CASE c.vif /\ envoi # Refus
    <3>1. Append(recu[c.de], envoi) \in Seq(Envois)
      BY <2>1, DuPair
    <3>. QED BY <1>1, <2>1, <3>1 DEF Types
  <2>2. CASE ~(c.vif /\ envoi # Refus)
    BY <1>1, <2>2 DEF Types
  <2>. QED BY <2>1, <2>2
<1>3. pannes' \in 0..MaxPannes
  <2>1. pannes \in Nat /\ pannes <= MaxPannes /\ MaxPannes \in Nat
    BY c.de \in Pairs, DuPair, Constantes
  <2>. QED BY <1>1, <2>1
<1>. QED BY <1>2, <1>3

LEMMA ReponseEnvoi ==
  ASSUME NEW m, NEW id, id \in Ids, NEW envoi, envoi \in Reponses(m, id)
  PROVE  envoi \in Envois \cup {Refus}
<1>1. CASE envoi # Refus
  <2>1. envoi \in Seq(Messages) /\ Len(envoi) = 1 /\ envoi[1].code \in {50, 51}
    BY <1>1, ReponseEcrite
  <2>2. EstReponse(envoi) /\ ~EstListe(envoi)
    BY <2>1, SMT DEF EstListe, EstReponse
  <2>3. envoi # <<>>
    BY <2>1, SMT
  <2>. QED BY <2>1, <2>2, <2>3 DEF Envois
<1>. QED BY <1>1

LEMMA ListeEnvoi ==
  ASSUME NEW p, moi[p] \in Ids, NEW l, l \in Seq(PairsPossibles),
         NEW envoi, envoi \in Listes(p, l)
  PROVE  envoi \in Envois \cup {Refus}
<1>1. CASE envoi # Refus
  <2>1. /\ envoi \in Seq(Messages) /\ Len(envoi) = Len(l) + 1
        /\ envoi[1].code = 7 /\ envoi[1].nb = Len(l)
        /\ \A j \in 2..Len(envoi) : PairDe(envoi[j]) = l[j - 1]
    BY <1>1, ListeEcrite
  <2>2. envoi # <<>>
    BY <2>1
  <2>3. ASSUME NEW j \in 2..Len(envoi) PROVE Nomme(envoi[j])
    <3>1. j - 1 \in 1..Len(l)
      BY <2>1
    <3>2. l[j - 1] \in PairsPossibles
      BY <3>1
    <3>. QED BY <2>1, <3>2 DEF Nomme
  <2>. QED BY <2>1, <2>2, <2>3 DEF Envois, EstListe
<1>. QED BY <1>1

\* The connection at the head of the queue.
LEMMA TeteDeFile ==
  ASSUME Types, SoiEnTete, NEW p \in Pairs, file[p] # <<>>
  PROVE  /\ Head(file[p]) \in Connexions /\ Head(file[p]) = file[p][1]
         /\ Head(file[p]).de \in Pairs /\ Head(file[p]).vif \in BOOLEAN
         /\ Head(file[p]).msgs[1] \in Messages /\ Nomme(Head(file[p]).msgs[1])
         /\ PairDe(Head(file[p]).msgs[1]) \in PairsPossibles
         /\ Head(file[p]).msgs[1].id \in Ids
         /\ Tail(file[p]) \in Seq(Connexions) /\ Len(Tail(file[p])) = Len(file[p]) - 1
         /\ \A k \in 1..Len(Tail(file[p])) : Tail(file[p])[k] = file[p][k + 1]
<1>1. file[p] \in Seq(Connexions)
  BY DuPair
<1>2. /\ Head(file[p]) = file[p][1] /\ 1 \in 1..Len(file[p]) /\ Tail(file[p]) \in Seq(Connexions)
      /\ Len(Tail(file[p])) = Len(file[p]) - 1
      /\ \A k \in 1..Len(Tail(file[p])) : Tail(file[p])[k] = file[p][k + 1]
  BY <1>1
<1> DEFINE c == Head(file[p])
<1>3. c \in Connexions
  BY <1>1, <1>2
<1> HIDE DEF c
<1>4. c.de \in Pairs /\ c.vif \in BOOLEAN /\ c.msgs \in Seq(Messages) /\ Len(c.msgs) = 1
      /\ Nomme(c.msgs[1])
  BY <1>3 DEF Connexions
<1>5. c.msgs[1] \in Messages
  BY <1>4
<1>6. PairDe(c.msgs[1]) \in PairsPossibles /\ c.msgs[1].id \in Ids
  BY <1>4, <1>5 DEF Nomme, Messages
<1>. QED BY <1>2, <1>3, <1>4, <1>5, <1>6 DEF c

LEMMA EntrantTypes ==
  ASSUME Types, TypesDuService, SoiEnTete, NEW p \in Pairs, handle_incoming_tcp(p)
  PROVE  Types' /\ TypesDuService' /\ SoiEnTete'
<1> DEFINE c == Head(file[p])
    m == c.msgs[1]
<1>1. /\ etape[p] = "boucle" /\ file[p] # <<>> /\ file' = [file EXCEPT ![p] = Tail(@)]
      /\ UNCHANGED <<nouveau, moi, udp>>
      /\ \/ handle_new_peer_connection(p, c, m) /\ UNCHANGED vue
         \/ /\ vue' = [vue EXCEPT ![p] = handle_code6_message(@, PairDe(m))]
            /\ UNCHANGED <<etape, service, recu, pannes>>
  BY DEF handle_incoming_tcp
<1>2. /\ c.de \in Pairs /\ c.vif \in BOOLEAN /\ PairDe(m) \in PairsPossibles /\ m.id \in Ids
      /\ Tail(file[p]) \in Seq(Connexions)
  BY <1>1, TeteDeFile
<1> HIDE DEF c, m
<1>3. file' \in [Pairs -> Seq(Connexions)]
  BY <1>1, <1>2 DEF Types
<1>4. Ouvert(p) /\ vue[p] # <<>> /\ vue[p] \in Seq(PairsPossibles) /\ vue[p][1].id = moi[p]
  BY <1>1, DuPair DEF Ouvert
<1>5. CASE handle_new_peer_connection(p, c, m) /\ UNCHANGED vue
  <2>1. PICK id \in Identifiants(p, m.id) :
          /\ \E reponse \in Reponses(m, id) : Transmet(c, reponse)
          /\ service' = [service EXCEPT ![p] =
                 [de |-> c.de, vif |-> c.vif, pair |-> [PairDe(m) EXCEPT !.id = id],
                  reste |-> APrevenir(p, id)]]
          /\ Va(p, "annonce")
    BY <1>5 DEF handle_new_peer_connection
  <2>2. id \in Ids
    BY <1>2, <2>1, IdentifiantPossible
  <2> DEFINE n == [PairDe(m) EXCEPT !.id = id]
      s == [de |-> c.de, vif |-> c.vif, pair |-> n, reste |-> APrevenir(p, id)]
  <2>3. n \in PairsPossibles
    BY <1>2, <2>2 DEF PairsPossibles
  <2>4. APrevenir(p, id) \subseteq 1..Len(vue[p])
    BY DEF APrevenir
  <2> HIDE DEF n
  <2>5. s \in Services /\ s.de = c.de /\ s.pair = n /\ s.reste \subseteq 1..Len(vue[p])
    <3>1. APrevenir(p, id) \subseteq Nat
      BY <2>4
    <3>. QED BY <1>2, <2>3, <2>4, <3>1 DEF Services
  <2>6. service' = [service EXCEPT ![p] = s]
    BY <2>1 DEF n
  <2> HIDE DEF s
  <2>7. /\ service' \in [Pairs -> Services] /\ service'[p] = s
        /\ \A q \in Pairs : q # p => service'[q] = service[q]
    BY <2>5, <2>6 DEF Types
  <2>8. recu' \in [Pairs -> Seq(Envois)] /\ pannes' \in 0..MaxPannes
    <3>1. PICK reponse \in Reponses(m, id) : Transmet(c, reponse)
      BY <2>1
    <3>2. reponse \in Envois \cup {Refus}
      BY <2>2, <3>1, ReponseEnvoi
    <3>. QED BY <1>2, <3>1, <3>2, TransmetTypes
  <2>9. /\ etape' \in [Pairs -> Etapes] /\ etape'[p] = "annonce"
        /\ \A q \in Pairs : q # p => etape'[q] = etape[q]
    BY <2>1 DEF Va, Types, Etapes
  <2>10. Types'
    BY <1>1, <1>3, <1>5, <2>7, <2>8, <2>9 DEF Types, nouveau
  <2>11. SoiEnTete'
    BY <1>1, <1>4, <1>5, <2>9, MemesListes
  <2>12. TypesDuService'
    <3>1. Len(vue'[p]) = Len(vue[p])
      BY <1>5
    <3>. QED BY <1>2, <1>5, <2>3, <2>5, <2>7, <2>9, <3>1, ServiceApres
  <2>. QED BY <2>10, <2>11, <2>12
<1>6. CASE /\ vue' = [vue EXCEPT ![p] = handle_code6_message(@, PairDe(m))]
           /\ UNCHANGED <<etape, service, recu, pannes>>
  <2> DEFINE r == handle_code6_message(vue[p], PairDe(m))
  <2>2. vue' = [vue EXCEPT ![p] = r]
    BY <1>6
  <2>1. r \in Seq(PairsPossibles) /\ r # <<>> /\ r[1].id = moi[p]
    <3> DEFINE l == vue[p]
        q == PairDe(m)
    <3>1. l \in Seq(PairsPossibles) /\ l # <<>> /\ l[1].id = moi[p] /\ q \in PairsPossibles
      BY <1>2, <1>4
    <3>2. r = handle_code6_message(l, q)
      OBVIOUS
    <3> HIDE DEF r, l, q
    <3>3. r \in Seq(PairsPossibles) /\ r # <<>> /\ r[1].id = l[1].id
      BY <3>1, <3>2, Remplacement
    <3>. QED BY <3>1, <3>3
  <2> HIDE DEF r
  <2>3. /\ vue' \in [Pairs -> Seq(PairsPossibles)] /\ vue'[p] = r
        /\ \A q \in Pairs : q # p => vue'[q] = vue[q]
    BY <2>1, <2>2 DEF Types
  <2>4. Types'
    BY <1>1, <1>3, <1>6, <2>3 DEF Types, nouveau
  <2>5. SoiEnTete'
    <3>1. \A q \in Pairs : Ouvert(q)' => Ouvert(q)
      BY <1>6 DEF Ouvert
    <3>2. \A q \in Pairs : moi'[q] = moi[q]
      BY <1>1
    <3>. QED BY <2>1, <2>3, <3>1, <3>2, SoiApres
  <2>6. TypesDuService'
    <3>1. /\ \A q \in Pairs : etape'[q] = etape[q] /\ service'[q] = service[q]
          /\ etape'[p] = "boucle"
      BY <1>1, <1>6
    <3>. QED BY <2>3, <3>1, ServiceApres
  <2>. QED BY <2>4, <2>5, <2>6
<1>. QED BY <1>1, <1>5, <1>6

\* The peers that a sponsor announces a newcomer to are peers of its list.
LEMMA AnnonceTypes ==
  ASSUME Types, TypesDuService, SoiEnTete, NEW p \in Pairs,
         etape[p] = "annonce", service[p].reste # {}
  PROVE  /\ PlusPetit(service[p].reste) \in 1..Len(vue[p])
         /\ vue[p][PlusPetit(service[p].reste)].ip \in Pairs
         /\ service[p].reste \ {PlusPetit(service[p].reste)} \subseteq 1..Len(vue[p])
         /\ service[p].pair \in PairsPossibles /\ service[p].de \in Pairs
<1> DEFINE k == PlusPetit(service[p].reste)
<1>1. service[p].reste \subseteq 1..Len(vue[p])
      /\ service[p].pair \in PairsPossibles /\ service[p].de \in Pairs
  BY DEF TypesDuService
<1>2. service[p].reste \subseteq Nat
  BY <1>1
<1>3. k \in service[p].reste
  BY <1>2, PremierDe
<1> HIDE DEF k
<1>4. k \in 1..Len(vue[p])
  BY <1>1, <1>3
<1>5. vue[p] \in Seq(PairsPossibles)
  BY DuPair
<1>6. vue[p][k] \in PairsPossibles
  BY <1>4, <1>5
<1>7. vue[p][k].ip \in Pairs
  BY <1>6 DEF PairsPossibles
<1>. QED BY <1>1, <1>4, <1>7 DEF k

\* One turn of the announcements, once and for all.
LEMMA Tour ==
  ASSUME Types, TypesDuService, SoiEnTete, NEW p \in Pairs, broadcast_to_peers(p)
  PROVE  \E q \in Pairs : \E m \in Messages : \E f \in Connexions :
            /\ f = [de |-> p, vif |-> FALSE, msgs |-> <<m>>] /\ m.code = 6
            /\ PairDe(m) = service[p].pair /\ Nomme(m)
            /\ (file' = [file EXCEPT ![q] = Append(@, f)] \/ file' = file)
            /\ (Ouvert(q) => file' = [file EXCEPT ![q] = Append(@, f)])
            /\ q = vue[p][PlusPetit(service[p].reste)].ip
            /\ service' = [service EXCEPT ![p].reste = @ \ {PlusPetit(@)}]
            /\ etape[p] = "annonce" /\ service[p].reste # {}
            /\ UNCHANGED <<etape, nouveau, moi, vue, udp, recu, pannes>>
<1> DEFINE q == vue[p][PlusPetit(service[p].reste)].ip
    n == service[p].pair
    m == rejoindre_enchere_mess5(n.id, n.ip, n.port, <<>>)
    f == [de |-> p, vif |-> FALSE, msgs |-> Emis(<<m>>)]
    g == [de |-> p, vif |-> FALSE, msgs |-> <<m>>]
<1>1. /\ etape[p] = "annonce" /\ service[p].reste # {}
      /\ (file' = [file EXCEPT ![q] = Append(@, f)] \/ file' = file)
      /\ (Ouvert(q) => file' = [file EXCEPT ![q] = Append(@, f)])
      /\ service' = [service EXCEPT ![p].reste = @ \ {PlusPetit(@)}]
      /\ UNCHANGED <<etape, nouveau, moi, vue, udp, recu, pannes>>
  <2>1. /\ etape[p] = "annonce" /\ service[p].reste # {}
        /\ service' = [service EXCEPT ![p].reste = @ \ {PlusPetit(@)}]
        /\ UNCHANGED <<etape, nouveau, moi, vue, udp, recu, pannes>>
    BY Zenon DEF broadcast_to_peers
  <2>2. file' = IF Ouvert(q) THEN [file EXCEPT ![q] = Append(@, f)] ELSE file
    BY Zenon DEF broadcast_to_peers
  <2> HIDE DEF q, f
  <2>. QED BY <2>1, <2>2
<1>r. q = vue[p][PlusPetit(service[p].reste)].ip
  OBVIOUS
<1>2. q \in Pairs /\ n \in PairsPossibles
  BY <1>1, AnnonceTypes, Zenon
<1>3. n.id \in Ids /\ n.ip \in Pairs /\ n.port = LIAISON_PORT /\ n = Pair(n.id, n.ip)
  BY <1>2 DEF PairsPossibles, Pair
<1>4. /\ Emis(<<m>>) = <<m>> /\ m \in Messages /\ m.code = 6 /\ PairDe(m) = n /\ Nomme(m)
  <2>1. m = [suffixe_info(n.id, n.ip, LIAISON_PORT, <<>>) EXCEPT !.code = 6]
    BY <1>3 DEF rejoindre_enchere_mess5
  <2> HIDE DEF m, n
  <2>. QED BY <1>3, <2>1, Presentation
<1> HIDE DEF q, n, m
<1>5. f = g
  BY <1>4
<1>6. g \in Connexions
  <2>1. g.msgs = <<m>> /\ g.msgs[1] = m /\ Len(g.msgs) = 1 /\ ~g.vif
    OBVIOUS
  <2>2. g \in [de : Pairs, vif : BOOLEAN, msgs : Seq(Messages)]
    <3>1. <<m>> \in Seq(Messages) /\ FALSE \in BOOLEAN
      BY <1>4
    <3>. QED BY <3>1
  <2> HIDE DEF g
  <2>. QED BY <1>4, <2>1, <2>2 DEF Connexions, Annonce
<1>7. /\ (file' = [file EXCEPT ![q] = Append(@, g)] \/ file' = file)
      /\ (Ouvert(q) => file' = [file EXCEPT ![q] = Append(@, g)])
  BY <1>1, <1>5
<1>8. PairDe(m) = service[p].pair
  BY <1>4 DEF n
<1>9. g = [de |-> p, vif |-> FALSE, msgs |-> <<m>>]
  OBVIOUS
<1>10. /\ etape[p] = "annonce" /\ service[p].reste # {}
       /\ service' = [service EXCEPT ![p].reste = @ \ {PlusPetit(@)}]
       /\ UNCHANGED <<etape, nouveau, moi, vue, udp, recu, pannes>>
  BY <1>1
<1> HIDE DEF g
<1>. QED BY <1>r, <1>2, <1>4, <1>6, <1>7, <1>8, <1>9, <1>10, Zenon

LEMMA DiffusionTypes ==
  ASSUME Types, TypesDuService, SoiEnTete, NEW p \in Pairs, broadcast_to_peers(p)
  PROVE  Types' /\ TypesDuService' /\ SoiEnTete'
<1>1. PICK q \in Pairs, m \in Messages, f \in Connexions :
            /\ (file' = [file EXCEPT ![q] = Append(@, f)] \/ file' = file)
            /\ service' = [service EXCEPT ![p].reste = @ \ {PlusPetit(@)}]
            /\ etape[p] = "annonce" /\ service[p].reste # {}
            /\ UNCHANGED <<etape, nouveau, moi, vue, udp, recu, pannes>>
  BY Tour
<1>2. file' \in [Pairs -> Seq(Connexions)]
  <2>1. CASE file' = file
    BY <2>1 DEF Types
  <2>2. CASE file' = [file EXCEPT ![q] = Append(@, f)]
    <3>1. Append(file[q], f) \in Seq(Connexions)
      BY <1>1, DuPair
    <3>. QED BY <2>2, <3>1 DEF Types
  <2>. QED BY <1>1, <2>1, <2>2
<1> DEFINE r == service[p].reste \ {PlusPetit(service[p].reste)}
    v == [service[p] EXCEPT !.reste = r]
<1>3. /\ r \subseteq 1..Len(vue[p])
      /\ service[p].pair \in PairsPossibles /\ service[p].de \in Pairs
  BY <1>1, AnnonceTypes
<1>4. service' = [service EXCEPT ![p] = v]
  BY <1>1
<1>5. service[p] \in Services
  BY DuPair
<1> HIDE DEF r
<1>6. v \in Services /\ v.de = service[p].de /\ v.pair = service[p].pair /\ v.reste = r
  <2>1. r \subseteq Nat
    BY <1>3
  <2>. QED BY <1>5, <2>1 DEF Services
<1> HIDE DEF v
<1>7. /\ service' \in [Pairs -> Services] /\ service'[p] = v
      /\ \A s \in Pairs : s # p => service'[s] = service[s]
  BY <1>4, <1>6 DEF Types
<1>8. Types'
  BY <1>1, <1>2, <1>7 DEF Types, nouveau
<1>9. SoiEnTete'
  BY <1>1 DEF SoiEnTete, Ouvert
<1>10. TypesDuService'
  BY <1>1, <1>3, <1>6, <1>7, ServiceApres
<1>. QED BY <1>8, <1>9, <1>10

\* The list that is sent, with the newcomer.
LEMMA ListeEnvoyee ==
  ASSUME Types, TypesDuService, SoiEnTete, NEW p \in Pairs, send_peer_list(p)
  PROVE  /\ etape[p] = "annonce" /\ etape' = [etape EXCEPT ![p] = "dort"]
         /\ vue'[p] \in Seq(PairsPossibles) /\ vue'[p] # <<>> /\ vue'[p][1].id = moi[p]
         /\ \A k \in 1..Len(vue'[p]) :
                vue'[p][k] = service[p].pair \/ (k \in 1..Len(vue[p]) /\ vue'[p][k] = vue[p][k])
         /\ \A q \in Pairs : q # p => vue'[q] = vue[q]
         /\ vue' \in [Pairs -> Seq(PairsPossibles)]
         /\ \E liste \in Listes(p, vue'[p]) : Transmet(service[p], liste)
         /\ UNCHANGED <<nouveau, moi, udp, file, service>>
<1> DEFINE n == service[p].pair
    l == vue[p]
    r == add_peer_to_list(p, n)
<1>1. /\ etape[p] = "annonce" /\ etape' = [etape EXCEPT ![p] = "dort"]
      /\ vue' = [vue EXCEPT ![p] = r]
      /\ \E liste \in Listes(p, vue'[p]) : Transmet(service[p], liste)
      /\ UNCHANGED <<nouveau, moi, udp, file, service>>
  BY DEF send_peer_list, Va
<1>2. n \in PairsPossibles
  BY <1>1 DEF TypesDuService
<1>3. l \in Seq(PairsPossibles) /\ l # <<>> /\ l[1].id = moi[p]
  BY <1>1, DuPair DEF Ouvert
<1>4. r = l \/ r = peer_list_add(l, n)
  BY DEF add_peer_to_list
<1> HIDE DEF l, n, r
<1>5. /\ r \in Seq(PairsPossibles) /\ r # <<>> /\ r[1].id = moi[p]
      /\ \A k \in 1..Len(r) : r[k] = n \/ (k \in 1..Len(l) /\ r[k] = l[k])
  <2>1. CASE r = l
    BY <1>3, <2>1
  <2>2. CASE r = peer_list_add(l, n)
    <3> DEFINE y == peer_list_add(l, n)
    <3>1. /\ y \in Seq(PairsPossibles) /\ y # <<>> /\ (l # <<>> => y[1] = l[1])
          /\ \A k \in 1..Len(y) : y[k] = n \/ (k \in 1..Len(l) /\ y[k] = l[k])
      BY <1>2, <1>3, Ajout
    <3>2. r = y
      BY <2>2
    <3> HIDE DEF y
    <3>. QED BY <1>3, <3>1, <3>2
  <2>. QED BY <1>4, <2>1, <2>2
<1>6. /\ vue'[p] = r /\ vue' \in [Pairs -> Seq(PairsPossibles)]
      /\ \A q \in Pairs : q # p => vue'[q] = vue[q]
  BY <1>1, <1>5 DEF Types
<1>. QED BY <1>1, <1>5, <1>6 DEF l, n

LEMMA EnvoiListeTypes ==
  ASSUME Types, TypesDuService, SoiEnTete, NEW p \in Pairs, send_peer_list(p)
  PROVE  Types' /\ TypesDuService' /\ SoiEnTete'
<1>1. /\ etape[p] = "annonce" /\ etape' = [etape EXCEPT ![p] = "dort"]
      /\ vue'[p] \in Seq(PairsPossibles) /\ vue'[p] # <<>> /\ vue'[p][1].id = moi[p]
      /\ \A q \in Pairs : q # p => vue'[q] = vue[q]
      /\ vue' \in [Pairs -> Seq(PairsPossibles)]
      /\ UNCHANGED <<nouveau, moi, udp, file, service>>
  BY ListeEnvoyee
<1>2. PICK liste \in Listes(p, vue'[p]) : Transmet(service[p], liste)
  BY ListeEnvoyee
<1>3. /\ service[p].de \in Pairs /\ service[p].pair \in PairsPossibles /\ moi[p] \in Ids
  BY <1>1, DuPair DEF TypesDuService
<1>4. liste \in Envois \cup {Refus}
  BY <1>1, <1>2, <1>3, ListeEnvoi
<1>5. recu' \in [Pairs -> Seq(Envois)] /\ pannes' \in 0..MaxPannes
  BY <1>2, <1>3, <1>4, TransmetTypes
<1>6. /\ etape' \in [Pairs -> Etapes] /\ etape'[p] = "dort"
      /\ \A q \in Pairs : q # p => etape'[q] = etape[q]
  BY <1>1 DEF Types, Etapes
<1>7. Types'
  BY <1>1, <1>5, <1>6 DEF Types, nouveau
<1>8. SoiEnTete'
  <2>1. \A q \in Pairs : q # p => (Ouvert(q)' => Ouvert(q))
    BY <1>6 DEF Ouvert
  <2>2. \A q \in Pairs : moi'[q] = moi[q]
    BY <1>1
  <2>. QED BY <1>1, <2>1, <2>2, SoiApres
<1>9. TypesDuService'
  <2>1. \A q \in Pairs : service'[q] = service[q]
    BY <1>1
  <2>. QED BY <1>1, <1>3, <1>6, <2>1, ServiceApres
<1>. QED BY <1>7, <1>8, <1>9

LEMMA RienTypes == RienAServir \in Services /\ RienAServir.de = Personne
BY DEF RienAServir, Services

LEMMA MeurtTypes ==
  ASSUME Types, TypesDuService, SoiEnTete, NEW p \in Pairs, Meurt(p)
  PROVE  Types' /\ TypesDuService' /\ SoiEnTete'
<1>1. /\ etape' = [etape EXCEPT ![p] = "mort"]
      /\ file' = [file EXCEPT ![p] = <<>>] /\ udp' = [udp EXCEPT ![p] = {}]
      /\ service' = [service EXCEPT ![p] = RienAServir]
      /\ UNCHANGED <<nouveau, moi, vue, recu, pannes>>
  BY DEF Meurt, Va
<1>2. /\ etape' \in [Pairs -> Etapes] /\ etape'[p] = "mort"
      /\ \A q \in Pairs : q # p => etape'[q] = etape[q]
  BY <1>1 DEF Types, Etapes
<1>3. /\ service' \in [Pairs -> Services]
      /\ \A q \in Pairs : q # p => service'[q] = service[q]
  BY <1>1, RienTypes DEF Types
<1>4. file' \in [Pairs -> Seq(Connexions)] /\ udp' \in [Pairs -> SUBSET Datagrammes]
  BY <1>1 DEF Types
<1>5. Types'
  BY <1>1, <1>2, <1>3, <1>4 DEF Types, nouveau
<1>6. SoiEnTete'
  BY <1>1, <1>2 DEF SoiEnTete, Ouvert
<1>7. TypesDuService'
  BY <1>1, <1>2, <1>3, ServiceApres
<1>. QED BY <1>5, <1>6, <1>7

LEMMA MeurtDeLaListeTypes ==
  ASSUME Types, TypesDuService, SoiEnTete, NEW p \in Pairs, MeurtDeLaListe(p)
  PROVE  Types' /\ TypesDuService' /\ SoiEnTete'
<1>1. /\ etape' = [etape EXCEPT ![p] = "mort"]
      /\ file' = [file EXCEPT ![p] = <<>>] /\ udp' = [udp EXCEPT ![p] = {}]
      /\ recu' = [recu EXCEPT ![p] = <<>>]
      /\ UNCHANGED <<nouveau, moi, vue, service, pannes>>
  BY DEF MeurtDeLaListe, Va
<1>2. /\ etape' \in [Pairs -> Etapes] /\ etape'[p] = "mort"
      /\ \A q \in Pairs : q # p => etape'[q] = etape[q]
  BY <1>1 DEF Types, Etapes
<1>3. /\ file' \in [Pairs -> Seq(Connexions)] /\ udp' \in [Pairs -> SUBSET Datagrammes]
      /\ recu' \in [Pairs -> Seq(Envois)]
  BY <1>1 DEF Types
<1>4. Types'
  BY <1>1, <1>2, <1>3 DEF Types, nouveau
<1>5. SoiEnTete'
  BY <1>1, <1>2 DEF SoiEnTete, Ouvert
<1>6. TypesDuService'
  <2>1. \A q \in Pairs : service'[q] = service[q]
    BY <1>1
  <2>. QED BY <1>1, <1>2, <2>1, ServiceApres
<1>. QED BY <1>4, <1>5, <1>6

LEMMA ReveilTypes ==
  ASSUME Types, TypesDuService, SoiEnTete, NEW p \in Pairs, Reveil(p)
  PROVE  Types' /\ TypesDuService' /\ SoiEnTete'
<1>1. /\ etape[p] = "dort" /\ etape' = [etape EXCEPT ![p] = "boucle"]
      /\ service' = [service EXCEPT ![p] = RienAServir]
      /\ UNCHANGED <<nouveau, moi, vue, udp, file, recu, pannes>>
  BY DEF Reveil, Va
<1>2. /\ etape' \in [Pairs -> Etapes] /\ etape'[p] = "boucle"
      /\ \A q \in Pairs : q # p => etape'[q] = etape[q]
  BY <1>1 DEF Types, Etapes
<1>3. /\ service' \in [Pairs -> Services]
      /\ \A q \in Pairs : q # p => service'[q] = service[q]
  BY <1>1, RienTypes DEF Types
<1>4. Types'
  BY <1>1, <1>2, <1>3 DEF Types, nouveau
<1>5. SoiEnTete'
  <2>1. Ouvert(p)
    BY <1>1 DEF Ouvert
  <2>. QED BY <1>1, <1>2, <2>1, MemesListes
<1>6. TypesDuService'
  BY <1>1, <1>2, <1>3, ServiceApres
<1>. QED BY <1>4, <1>5, <1>6

LEMMA PasTypes ==
  ASSUME Types, TypesDuService, SoiEnTete, Next
  PROVE  Types' /\ TypesDuService' /\ SoiEnTete'
<1>1. PICK p \in Pairs : \/ Demarre(p) \/ Rejoindre(p)
                         \/ handle_udp_liaison(p) \/ Tourner(p)
  BY DEF Next
<1>2. CASE Demarre(p) \/ handle_udp_liaison(p)
  BY <1>2, DemarreTypes, LiaisonTypes
<1>3. CASE Rejoindre(p)
  BY <1>3, RecoitCandidatTypes, ConnecteTypes, RedemandeTypes, CreeReseauTypes,
     RecoitReponseTypes, SansReponseTypes, SansListeTypes, ListeTypes, ListeRompueTypes,
     MeurtDeLaListeTypes DEF Rejoindre
<1>4. CASE Tourner(p)
  BY <1>4, EntrantTypes, DiffusionTypes, EnvoiListeTypes, MeurtTypes, ReveilTypes DEF Tourner
<1>. QED BY <1>1, <1>2, <1>3, <1>4

\* --- the initial states --------------------------------------------------------
LEMMA Depart ==
  ASSUME Init
  PROVE  \E g \in Groupes, r \in [Pairs -> Nat] :
            /\ g \in Seq(Pairs) /\ IsInjective(g) /\ Len(g) <= IdMax
            /\ \A p \in Pairs :
                 \/ /\ etape[p] = "absent" /\ moi[p] = 0 /\ vue[p] = <<>>
                    /\ \A i \in 1..Len(g) : g[i] # p
                 \/ /\ etape[p] = "boucle" /\ r[p] \in 1..Len(g) /\ g[r[p]] = p
                    /\ moi[p] = r[p] /\ vue[p] = Rejoint(g, r[p])
            /\ DOMAIN etape = Pairs /\ DOMAIN moi = Pairs /\ DOMAIN vue = Pairs
            /\ etape = [p \in Pairs |-> etape[p]] /\ moi = [p \in Pairs |-> moi[p]]
            /\ vue = [p \in Pairs |-> vue[p]] /\ enchere \in [Pairs -> BOOLEAN]
            /\ essais = [p \in Pairs |-> 0] /\ candidats = [p \in Pairs |-> <<>>]
            /\ parrain = [p \in Pairs |-> Personne]
            /\ udp = [p \in Pairs |-> {}] /\ file = [p \in Pairs |-> <<>>]
            /\ service = [p \in Pairs |-> RienAServir]
            /\ recu = [p \in Pairs |-> <<>>] /\ pannes = 0
<1> DEFINE rang(g, p) == {i \in 1..Len(g) : g[i] = p}
<1>1. PICK g \in Groupes :
        /\ etape = [p \in Pairs |-> IF rang(g, p) = {} THEN "absent" ELSE "boucle"]
        /\ moi = [p \in Pairs |-> IF rang(g, p) = {} THEN 0 ELSE PlusPetit(rang(g, p))]
        /\ vue = [p \in Pairs |-> IF rang(g, p) = {} THEN <<>>
                                  ELSE Rejoint(g, PlusPetit(rang(g, p)))]
        /\ enchere = [p \in Pairs |-> rang(g, p) # {}]
  BY DEF Init
<1>2. g \in Seq(Pairs) /\ IsInjective(g) /\ Len(g) <= IdMax
  BY MembershipAssumption
<1> DEFINE r == [p \in Pairs |-> IF rang(g, p) = {} THEN 0 ELSE PlusPetit(rang(g, p))]
<1>3. ASSUME NEW p \in Pairs, rang(g, p) # {}
      PROVE  PlusPetit(rang(g, p)) \in Nat /\ PlusPetit(rang(g, p)) \in 1..Len(g)
             /\ g[PlusPetit(rang(g, p))] = p
  <2>1. rang(g, p) \subseteq Nat
    OBVIOUS
  <2>2. PlusPetit(rang(g, p)) \in rang(g, p)
    BY <1>3, <2>1, PremierDe
  <2>. QED BY <2>1, <2>2
<1>4. r \in [Pairs -> Nat]
  BY <1>3
<1>5. ASSUME NEW p \in Pairs
      PROVE  \/ /\ etape[p] = "absent" /\ moi[p] = 0 /\ vue[p] = <<>>
                /\ \A i \in 1..Len(g) : g[i] # p
             \/ /\ etape[p] = "boucle" /\ r[p] \in 1..Len(g) /\ g[r[p]] = p
                /\ moi[p] = r[p] /\ vue[p] = Rejoint(g, r[p])
  <2>1. CASE rang(g, p) = {}
    <3>1. \A i \in 1..Len(g) : g[i] # p
      BY <2>1
    <3>. QED BY <1>1, <2>1, <3>1
  <2>2. CASE rang(g, p) # {}
    <3>1. r[p] = PlusPetit(rang(g, p))
      BY <2>2
    <3>. QED BY <1>1, <1>3, <2>2, <3>1
  <2>. QED BY <2>1, <2>2
<1>6. /\ DOMAIN etape = Pairs /\ DOMAIN moi = Pairs /\ DOMAIN vue = Pairs
      /\ etape = [p \in Pairs |-> etape[p]] /\ moi = [p \in Pairs |-> moi[p]]
      /\ vue = [p \in Pairs |-> vue[p]] /\ enchere \in [Pairs -> BOOLEAN]
  <2> HIDE DEF rang
  <2>. QED BY <1>1
<1>7. /\ essais = [p \in Pairs |-> 0] /\ candidats = [p \in Pairs |-> <<>>]
      /\ parrain = [p \in Pairs |-> Personne]
      /\ udp = [p \in Pairs |-> {}] /\ file = [p \in Pairs |-> <<>>]
      /\ service = [p \in Pairs |-> RienAServir]
      /\ recu = [p \in Pairs |-> <<>>] /\ pannes = 0
  BY DEF Init
<1> HIDE DEF r
<1>8. /\ g \in Seq(Pairs) /\ IsInjective(g) /\ Len(g) <= IdMax
      /\ \A p \in Pairs :
           \/ /\ etape[p] = "absent" /\ moi[p] = 0 /\ vue[p] = <<>>
              /\ \A i \in 1..Len(g) : g[i] # p
           \/ /\ etape[p] = "boucle" /\ r[p] \in 1..Len(g) /\ g[r[p]] = p
              /\ moi[p] = r[p] /\ vue[p] = Rejoint(g, r[p])
  BY <1>2, <1>5
<1>. QED BY <1>4, <1>6, <1>7, <1>8

LEMMA MembreDuGroupe ==
  ASSUME NEW g, g \in Seq(Pairs), Len(g) <= IdMax, NEW i, i \in 1..Len(g)
  PROVE  /\ Rejoint(g, i) \in Seq(PairsPossibles) /\ Rejoint(g, i) # <<>>
         /\ Rejoint(g, i)[1].id = i /\ i \in Ids
         /\ \A x \in ToSet(Rejoint(g, i)) : \E j \in 1..Len(g) : x = Pair(j, g[j])
<1> DEFINE j(k) == IF k = 1 THEN i ELSE IF k <= i THEN k - 1 ELSE k
    r == [k \in 1..Len(g) |-> Pair(j(k), g[j(k)])]
<1>1. Rejoint(g, i) = r
  BY DEF Rejoint
<1>2. Len(g) \in Nat /\ i \in Nat /\ i >= 1 /\ i <= Len(g) /\ IdMax \in Nat
  BY Constantes
<1>3. \A k \in 1..Len(g) : j(k) \in 1..Len(g)
  BY <1>2
<1>4. \A k \in 1..Len(g) : k \in Ids /\ g[k] \in Pairs
  BY <1>2 DEF Ids
<1>5. j(1) = i
  OBVIOUS
<1> HIDE DEF j
<1>6. \A k \in 1..Len(g) : Pair(j(k), g[j(k)]) \in PairsPossibles
  BY <1>3, <1>4, PairPossible
<1>7. r \in [1..Len(g) -> PairsPossibles]
  BY <1>6
<1>8. r \in Seq(PairsPossibles) /\ Len(r) = Len(g)
  BY <1>2, <1>7
<1>9. r[1] = Pair(i, g[i]) /\ r # <<>>
  BY <1>2, <1>5, <1>8
<1>10. \A x \in ToSet(r) : \E k \in 1..Len(g) : x = Pair(k, g[k])
  BY <1>3, <1>7 DEF ToSet
<1>. QED BY <1>1, <1>4, <1>8, <1>9, <1>10 DEF Pair

LEMMA InitIInv == Init => IInvMembership
<1> SUFFICES ASSUME Init PROVE IInvMembership
  OBVIOUS
<1>1. PICK g \in Groupes, r \in [Pairs -> Nat] :
            /\ g \in Seq(Pairs) /\ IsInjective(g) /\ Len(g) <= IdMax
            /\ \A p \in Pairs :
                 \/ /\ etape[p] = "absent" /\ moi[p] = 0 /\ vue[p] = <<>>
                    /\ \A i \in 1..Len(g) : g[i] # p
                 \/ /\ etape[p] = "boucle" /\ r[p] \in 1..Len(g) /\ g[r[p]] = p
                    /\ moi[p] = r[p] /\ vue[p] = Rejoint(g, r[p])
            /\ DOMAIN etape = Pairs /\ DOMAIN moi = Pairs /\ DOMAIN vue = Pairs
            /\ etape = [p \in Pairs |-> etape[p]] /\ moi = [p \in Pairs |-> moi[p]]
            /\ vue = [p \in Pairs |-> vue[p]] /\ enchere \in [Pairs -> BOOLEAN]
            /\ essais = [p \in Pairs |-> 0] /\ candidats = [p \in Pairs |-> <<>>]
            /\ parrain = [p \in Pairs |-> Personne]
            /\ udp = [p \in Pairs |-> {}] /\ file = [p \in Pairs |-> <<>>]
            /\ service = [p \in Pairs |-> RienAServir]
            /\ recu = [p \in Pairs |-> <<>>] /\ pannes = 0
  BY Depart, Zenon
<1>2. ASSUME NEW p \in Pairs, etape[p] = "boucle"
      PROVE  /\ r[p] \in 1..Len(g) /\ g[r[p]] = p /\ moi[p] = r[p] /\ moi[p] \in Ids
             /\ vue[p] \in Seq(PairsPossibles) /\ vue[p] # <<>> /\ vue[p][1].id = moi[p]
             /\ \A x \in ToSet(vue[p]) : \E j \in 1..Len(g) : x = Pair(j, g[j])
  <2>1. r[p] \in 1..Len(g) /\ g[r[p]] = p /\ moi[p] = r[p] /\ vue[p] = Rejoint(g, r[p])
    BY <1>1, <1>2
  <2>. QED BY <1>1, <2>1, MembreDuGroupe
<1>3. ASSUME NEW p \in Pairs, etape[p] # "boucle"
      PROVE  /\ etape[p] = "absent" /\ moi[p] \in Ids /\ vue[p] = <<>>
             /\ \A i \in 1..Len(g) : g[i] # p
  BY <1>1, <1>3, Constantes DEF Ids
<1>4. Types
  <2>1. etape \in [Pairs -> Etapes] /\ moi \in [Pairs -> Ids] /\ vue \in [Pairs -> Seq(PairsPossibles)]
    <3>1. \A p \in Pairs : etape[p] \in Etapes
      BY <1>1 DEF Etapes
    <3>2. ASSUME NEW p \in Pairs PROVE moi[p] \in Ids /\ vue[p] \in Seq(PairsPossibles)
      <4>1. <<>> \in Seq(PairsPossibles)
        OBVIOUS
      <4>2. CASE etape[p] = "boucle"
        BY <1>2, <4>2
      <4>3. CASE etape[p] # "boucle"
        BY <1>3, <4>1, <4>3
      <4>. QED BY <4>2, <4>3
    <3>. QED BY <1>1, <3>1, <3>2
  <2>2. essais \in [Pairs -> 0..MAX_JOIN_ATTEMPTS] /\ pannes \in 0..MaxPannes
    BY <1>1, Constantes
  <2>3. /\ candidats \in [Pairs -> Seq(PairsPossibles)] /\ parrain \in [Pairs -> Pairs \cup {Personne}]
        /\ udp \in [Pairs -> SUBSET Datagrammes] /\ file \in [Pairs -> Seq(Connexions)]
        /\ recu \in [Pairs -> Seq(Envois)]
    BY <1>1
  <2>4. service \in [Pairs -> Services]
    BY <1>1, RienTypes
  <2>. QED BY <1>1, <2>1, <2>2, <2>3, <2>4 DEF Types
<1>5. TypesDuService /\ SoiEnTete
  BY <1>1, <1>2 DEF TypesDuService, SoiEnTete, Ouvert
<1>6. ASSUME NEW s \in Pairs, NEW x \in ToSet(vue[s]) PROVE Sincere(x)
  <2>1. etape[s] = "boucle"
    <3>1. vue[s] # <<>>
      BY DEF ToSet
    <3>. QED BY <1>3, <3>1
  <2>2. PICK j \in 1..Len(g) : x = Pair(j, g[j])
    BY <1>2, <2>1
  <2>3. g[j] \in Pairs /\ x.id = j /\ x.ip = g[j]
    BY <1>1, <2>2 DEF Pair
  <2> DEFINE q == g[j]
  <2>4. etape[q] = "boucle"
    BY <1>3, <2>3
  <2>5. r[q] \in 1..Len(g) /\ g[r[q]] = q /\ moi[q] = r[q]
    BY <1>2, <2>3, <2>4
  <2>6. r[q] = j
    <3>1. DOMAIN g = 1..Len(g)
      BY <1>1
    <3>. QED BY <1>1, <2>5, <3>1 DEF IsInjective
  <2> HIDE DEF q
  <2>7. ~Inconnu(q) /\ IdFinal(q) = j
    BY <2>4, <2>5, <2>6 DEF Inconnu, Patiente, IdFinal, Changera
  <2>. QED BY <2>3, <2>7 DEF Sincere, q
<1>7. DemandesUniques /\ LecturesEnOrdre
  <2>1. \A s \in Pairs : /\ file[s] = <<>> /\ recu[s] = <<>>
                         /\ etape[s] # "attend50" /\ etape[s] # "mort"
    BY <1>1
  <2>2. 1..Len(<<>>) = {}
    OBVIOUS
  <2>3. DemandesUniques
    BY <2>1, <2>2 DEF DemandesUniques, Patiente
  <2>4. LecturesEnOrdre
    BY <2>1, <2>2 DEF LecturesEnOrdre
  <2>. QED BY <2>3, <2>4
<1>8. ServicesAttendus
  BY <1>1 DEF ServicesAttendus
<1>9. NomsSinceres
  <2>1. \A s \in Pairs : etape[s] \notin EnChemin /\ (etape[s] = "absent" => vue[s] = <<>>)
    BY <1>1 DEF EnChemin
  <2>2. \A s \in Pairs : file[s] = <<>> /\ recu[s] = <<>> /\ etape[s] # "annonce"
    BY <1>1
  <2>3. ToSet(<<>>) = {}
    BY DEF ToSet
  <2>. QED BY <1>6, <2>1, <2>2, <2>3 DEF NomsSinceres
<1>10. RompuesComptees
  <2>1. \A s \in Pairs : recu[s] = <<>>
    BY <1>1
  <2>. QED BY <2>1 DEF RompuesComptees
<1>. QED BY <1>4, <1>5, <1>7, <1>8, <1>9, <1>10 DEF IInvMembership, SansPanne

\* --- without failures: what a step keeps -----------------------------------------
\* Who is known stays known, under the same identifier.
Garde(q) == ~Inconnu(q) => ~Inconnu(q)' /\ IdFinal(q)' = IdFinal(q)

LEMMA GardePareil ==
  ASSUME NEW q, etape'[q] = etape[q], recu'[q] = recu[q], moi'[q] = moi[q]
  PROVE  /\ Garde(q) /\ (Patiente(q)' <=> Patiente(q)) /\ (Inconnu(q)' <=> Inconnu(q))
         /\ IdFinal(q)' = IdFinal(q)
<1>1. (Patiente(q)' <=> Patiente(q)) /\ (Changera(q)' <=> Changera(q)) /\ Reponse(q)' = Reponse(q)
  BY DEF Patiente, Changera, Reponse
<1>2. (Inconnu(q)' <=> Inconnu(q)) /\ IdFinal(q)' = IdFinal(q)
  BY <1>1 DEF Inconnu, IdFinal
<1>. QED BY <1>1, <1>2 DEF Garde

LEMMA SincereApres ==
  ASSUME \A q \in Pairs : Garde(q), NEW x, x \in PairsPossibles, Sincere(x)
  PROVE  Sincere(x)'
<1>1. x.ip \in Pairs
  BY DEF PairsPossibles
<1>. QED BY <1>1 DEF Sincere, Garde

LEMMA NomsTypes ==
  ASSUME Types, SoiEnTete, NEW s \in Pairs
  PROVE  /\ \A x \in ToSet(vue[s]) : x \in PairsPossibles
         /\ \A c \in ToSet(file[s]) : c \in Connexions /\ PairDe(c.msgs[1]) \in PairsPossibles
         /\ \A e \in ToSet(recu[s]) : e \in Envois /\
                (EstListe(e) => \A j \in 2..Len(e) : PairDe(e[j]) \in PairsPossibles)
<1>1. vue[s] \in Seq(PairsPossibles) /\ file[s] \in Seq(Connexions) /\ recu[s] \in Seq(Envois)
  BY DuPair
<1>2. \A x \in ToSet(vue[s]) : x \in PairsPossibles
  BY <1>1 DEF ToSet
<1>3. \A c \in ToSet(file[s]) : c \in Connexions
  BY <1>1 DEF ToSet
<1>4. \A e \in ToSet(recu[s]) : e \in Envois
  BY <1>1 DEF ToSet
<1>5. \A c \in Connexions : PairDe(c.msgs[1]) \in PairsPossibles
  BY DEF Connexions, Nomme
<1>6. \A e \in Envois : EstListe(e) => \A j \in 2..Len(e) : PairDe(e[j]) \in PairsPossibles
  BY DEF Envois, Nomme
<1>. QED BY <1>2, <1>3, <1>4, <1>5, <1>6

LEMMA NomsApres ==
  ASSUME NomsSinceres, Types, SoiEnTete, TypesDuService, \A q \in Pairs : Garde(q),
         \A s \in Pairs : etape'[s] \in EnChemin => vue'[s] = <<Pair(moi'[s], s)>>,
         \A s \in Pairs : etape'[s] = "absent" => vue'[s] = <<>>,
         \A s \in Pairs : etape'[s] \notin EnChemin =>
            \A x \in ToSet(vue'[s]) :
                Sincere(x)' \/ (etape[s] \notin EnChemin /\ x \in ToSet(vue[s])),
         \A s \in Pairs : \A c \in ToSet(file'[s]) : Annonce(c) =>
                c \in ToSet(file[s]) \/ Sincere(PairDe(c.msgs[1]))',
         \A s \in Pairs : etape'[s] = "annonce" =>
                \/ etape[s] = "annonce" /\ service'[s].pair = service[s].pair
                \/ Sincere(service[s].pair)',
         \A s \in Pairs : \A e \in ToSet(recu'[s]) : EstListe(e) =>
                e \in ToSet(recu[s]) \/ \A j \in 2..Len(e) : Sincere(PairDe(e[j]))'
  PROVE  NomsSinceres'
<1>1. \A x \in PairsPossibles : Sincere(x) => Sincere(x)'
  BY SincereApres
<1>2. \A s \in Pairs : etape'[s] \notin EnChemin => \A x \in ToSet(vue'[s]) : Sincere(x)'
  <2>1. \A s \in Pairs : etape[s] \notin EnChemin => \A x \in ToSet(vue[s]) : Sincere(x)
    BY DEF NomsSinceres
  <2>2. \A s \in Pairs : \A x \in ToSet(vue[s]) : x \in PairsPossibles
    BY NomsTypes
  <2>. QED BY <1>1, <2>1, <2>2
<1>3. ASSUME NEW s \in Pairs, NEW c \in ToSet(file'[s]), Annonce(c)
      PROVE  Sincere(PairDe(c.msgs[1]))'
  <2> DEFINE x == PairDe(c.msgs[1])
  <2>1. CASE c \in ToSet(file[s])
    <3>1. x \in PairsPossibles /\ Sincere(x)
      BY <1>3, <2>1, NomsTypes DEF NomsSinceres
    <3> HIDE DEF x
    <3>2. Sincere(x)'
      BY <1>1, <3>1
    <3>. QED BY <3>2 DEF x
  <2>. QED BY <1>3, <2>1
<1>4. ASSUME NEW s \in Pairs, etape'[s] = "annonce" PROVE Sincere(service[s].pair)'
  <2>1. CASE etape[s] = "annonce" /\ service'[s].pair = service[s].pair
    <3> DEFINE x == service[s].pair
    <3>1. x \in PairsPossibles /\ Sincere(x)
      BY <2>1 DEF TypesDuService, NomsSinceres
    <3>2. \A y : y = x => Sincere(y)'
      <4> HIDE DEF x
      <4>. QED BY <1>1, <3>1
    <3>3. \A y : y = service'[s].pair => Sincere(y)'
      BY <2>1, <3>2
    <3>. QED BY <3>3 DEF Sincere
  <2>. QED BY <1>4, <2>1
<1>5. ASSUME NEW s \in Pairs, NEW e \in ToSet(recu'[s]), EstListe(e), NEW j \in 2..Len(e)
      PROVE  Sincere(PairDe(e[j]))'
  <2> DEFINE x == PairDe(e[j])
  <2>1. CASE e \in ToSet(recu[s])
    <3>1. x \in PairsPossibles /\ Sincere(x)
      BY <1>5, <2>1, NomsTypes DEF NomsSinceres
    <3> HIDE DEF x
    <3>2. Sincere(x)'
      BY <1>1, <3>1
    <3>. QED BY <3>2 DEF x
  <2>. QED BY <1>5, <2>1
<1>. QED BY <1>2, <1>3, <1>4, <1>5 DEF NomsSinceres

\* The requests that wait are the same.
LEMMA DemandesPareilles ==
  ASSUME DemandesUniques, Types, SoiEnTete, file' = file,
         \A t \in Pairs : service'[t].de = service[t].de \/ service'[t].de \notin Pairs,
         \A q \in Pairs : Patiente(q)' <=> Patiente(q),
         \A q \in Pairs : Patiente(q) => moi'[q] = moi[q]
  PROVE  DemandesUniques'
<1>1. ASSUME NEW s \in Pairs, NEW k \in 1..Len(file'[s]), Demande(file'[s][k])
      PROVE  LET c == file'[s][k] IN
             /\ c.vif /\ etape'[c.de] = "attend50" /\ recu'[c.de] = <<>>
             /\ PairDe(c.msgs[1]) = Pair(moi'[c.de], c.de)
             /\ \A t \in Pairs : service'[t].de # c.de
             /\ \A t \in Pairs : \A l \in 1..Len(file'[t]) :
                   Demande(file'[t][l]) /\ file'[t][l].de = c.de => t = s /\ l = k
  <2> DEFINE c == file[s][k]
  <2>1. /\ c.vif /\ Patiente(c.de) /\ PairDe(c.msgs[1]) = Pair(moi[c.de], c.de)
        /\ \A t \in Pairs : service[t].de # c.de
        /\ \A t \in Pairs : \A l \in 1..Len(file[t]) :
               Demande(file[t][l]) /\ file[t][l].de = c.de => t = s /\ l = k
    BY <1>1 DEF DemandesUniques
  <2>2. c.de \in Pairs
    <3>1. c \in ToSet(file[s])
      BY DuPair DEF ToSet
    <3>. QED BY <3>1, NomsTypes DEF Connexions
  <2> DEFINE q == c.de
  <2>3. \A n \in Pairs : n = q => etape'[n] = "attend50" /\ recu'[n] = <<>> /\ moi'[n] = moi[n]
    BY <2>1 DEF Patiente
  <2>4. /\ etape'[q] = "attend50" /\ recu'[q] = <<>> /\ moi'[q] = moi[q]
        /\ \A t \in Pairs : service'[t].de # q
    BY <2>1, <2>2, <2>3
  <2>. QED BY <2>1, <2>4
<1>2. ASSUME NEW q \in Pairs, Patiente(q)'
      PROVE  \E s \in Pairs : \E k \in 1..Len(file'[s]) : Demande(file'[s][k]) /\ file'[s][k].de = q
  BY <1>2 DEF DemandesUniques
<1>. QED BY <1>1, <1>2 DEF DemandesUniques, Patiente

LEMMA LecturesApres ==
  ASSUME LecturesEnOrdre, NEW p \in Pairs,
         \A q \in Pairs : q # p => etape'[q] = etape[q] /\ recu'[q] = recu[q],
         etape'[p] # "mort",
         recu'[p] # <<>> => etape'[p] \in {"attend50", "attend7"},
         \A k \in 1..Len(recu'[p]) :
            EstReponse(recu'[p][k]) <=> etape'[p] = "attend50" /\ k = 1
  PROVE  LecturesEnOrdre'
BY DEF LecturesEnOrdre

\* What is announced goes on: services that go on with somebody who still waits.
LEMMA ServicesApres ==
  ASSUME ServicesAttendus, TypesDuService, \A q \in Pairs : Garde(q),
         \A s \in Pairs : etape'[s] \notin {"annonce", "dort"} => service'[s] = RienAServir,
         \A s \in Pairs : etape'[s] \in {"annonce", "dort"} =>
            etape[s] \in {"annonce", "dort"} /\ service'[s].de = service[s].de,
         \A s \in Pairs : etape'[s] = "annonce" =>
            /\ etape[s] = "annonce" /\ service'[s].vif = service[s].vif
            /\ service'[s].pair = service[s].pair,
         \A s, q \in Pairs : etape'[s] = "annonce" /\ q = service[s].de =>
            \/ etape'[q] = "attend50" /\ Len(recu'[q]) = 1
            \/ etape'[q] = "attend7" /\ recu'[q] = <<>>,
         \A t \in Pairs : service'[t].de = service[t].de \/ service'[t].de \notin Pairs
  PROVE  ServicesAttendus'
<1> SUFFICES ASSUME NEW s \in Pairs
             PROVE  /\ etape'[s] \notin {"annonce", "dort"} => service'[s] = RienAServir
                    /\ etape'[s] \in {"annonce", "dort"} => ~Inconnu(service[s].de)'
                    /\ etape'[s] = "annonce" =>
                        LET p == service'[s].de IN
                        /\ service'[s].vif /\ service'[s].pair.ip = p
                        /\ \/ etape'[p] = "attend50" /\ Len(recu'[p]) = 1
                           \/ etape'[p] = "attend7" /\ recu'[p] = <<>>
                        /\ \A t \in Pairs : service'[t].de = p => t = s
  BY DEF ServicesAttendus
<1>1. ASSUME etape'[s] \in {"annonce", "dort"} PROVE ~Inconnu(service[s].de)'
  <2>1. etape[s] \in {"annonce", "dort"} /\ service'[s].de = service[s].de
    BY <1>1
  <2>2. service[s].de \in Pairs /\ ~Inconnu(service[s].de)
    BY <2>1 DEF ServicesAttendus, TypesDuService
  <2>3. \A q \in Pairs : q = service[s].de => ~Inconnu(q)'
    BY <2>2 DEF Garde
  <2>4. \A q \in Pairs : q = service'[s].de => ~Inconnu(q)'
    BY <2>1, <2>3
  <2>. QED BY <2>1, <2>2, <2>4 DEF Inconnu, Patiente
<1>2. ASSUME etape'[s] = "annonce"
      PROVE  LET p == service'[s].de IN
             /\ service'[s].vif /\ service'[s].pair.ip = p
             /\ \/ etape'[p] = "attend50" /\ Len(recu'[p]) = 1
                \/ etape'[p] = "attend7" /\ recu'[p] = <<>>
             /\ \A t \in Pairs : service'[t].de = p => t = s
  <2>1. /\ etape[s] = "annonce" /\ service'[s].de = service[s].de
        /\ service'[s].vif = service[s].vif /\ service'[s].pair = service[s].pair
    BY <1>2
  <2>2. /\ service[s].vif /\ service[s].pair.ip = service[s].de /\ service[s].de \in Pairs
        /\ \A t \in Pairs : service[t].de = service[s].de => t = s
    BY <2>1 DEF ServicesAttendus, TypesDuService
  <2>3. \/ etape'[service[s].de] = "attend50" /\ Len(recu'[service[s].de]) = 1
        \/ etape'[service[s].de] = "attend7" /\ recu'[service[s].de] = <<>>
    BY <1>2, <2>2
  <2>4. \A t \in Pairs : service'[t].de = service'[s].de => t = s
    BY <2>1, <2>2
  <2>. QED BY <2>1, <2>2, <2>3, <2>4
<1>. QED BY <1>1, <1>2

\* --- without failures: each step -------------------------------------------------
Sain == Types /\ TypesDuService /\ SoiEnTete /\ RompuesComptees /\ SansPanne /\ pannes = 0

LEMMA SainFaits ==
  ASSUME Sain
  PROVE  Types /\ TypesDuService /\ SoiEnTete /\ pannes = 0
         /\ DemandesUniques /\ ServicesAttendus /\ LecturesEnOrdre /\ NomsSinceres
BY DEF Sain, SansPanne

LEMMA Immobile ==
  ASSUME Sain, UNCHANGED <<etape, moi, vue, file, service, recu>>
  PROVE  SansPanne'
<1>1. Types /\ TypesDuService /\ SoiEnTete
      /\ DemandesUniques /\ ServicesAttendus /\ LecturesEnOrdre /\ NomsSinceres
  BY SainFaits
<1>2. \A q \in Pairs : Garde(q) /\ (Patiente(q)' <=> Patiente(q))
  BY GardePareil
<1>3. DemandesUniques'
  BY <1>1, <1>2, DemandesPareilles
<1>4. ServicesAttendus'
  BY <1>1 DEF ServicesAttendus, Inconnu, Patiente
<1>5. LecturesEnOrdre'
  BY <1>1 DEF LecturesEnOrdre
<1>6. NomsSinceres'
  <2>1. /\ \A s \in Pairs : etape'[s] \in EnChemin => vue'[s] = <<Pair(moi'[s], s)>>
        /\ \A s \in Pairs : etape'[s] = "absent" => vue'[s] = <<>>
    BY <1>1 DEF NomsSinceres
  <2>. QED BY <1>1, <1>2, <2>1, NomsApres
<1>. QED BY <1>3, <1>4, <1>5, <1>6 DEF SansPanne

\* Its own entry is what a peer that enters the loop has in its list.
LEMMA SoiSincere ==
  ASSUME NEW p \in Pairs, etape'[p] = "boucle", NEW x, x = Pair(moi'[p], p)
  PROVE  Sincere(x)'
<1>1. x.ip = p /\ x.id = moi'[p]
  BY DEF Pair
<1>2. ~Inconnu(p)' /\ IdFinal(p)' = moi'[p]
  BY DEF Inconnu, Patiente, IdFinal, Changera
<1>. QED BY <1>1, <1>2 DEF Sincere

LEMMA UneEntree ==
  ASSUME NEW e, NEW x, x \in ToSet(<<e>>)
  PROVE  x = e
BY DEF ToSet

\* Nobody knows yet the peer that takes this step, and it knows itself only.
LEMMA Solitaire ==
  ASSUME Sain, NEW p \in Pairs, etape[p] \in {"absent", "cherche", "essaie"},
         etape'[p] \in {"cherche", "essaie", "boucle"}, UNCHANGED <<file, service, recu>>,
         \A q \in Pairs : q # p => etape'[q] = etape[q] /\ moi'[q] = moi[q] /\ vue'[q] = vue[q],
         vue'[p] = <<Pair(moi'[p], p)>>
  PROVE  SansPanne'
<1>1. Types /\ TypesDuService /\ SoiEnTete
      /\ DemandesUniques /\ ServicesAttendus /\ LecturesEnOrdre /\ NomsSinceres
  BY SainFaits
<1>2. Inconnu(p) /\ ~Patiente(p) /\ ~Patiente(p)'
  BY DEF Inconnu, Patiente
<1>3. \A q \in Pairs : Garde(q) /\ (Patiente(q)' <=> Patiente(q))
  <2>1. \A q \in Pairs : q # p => Garde(q) /\ (Patiente(q)' <=> Patiente(q))
    BY GardePareil
  <2>2. \A q \in Pairs : q = p => Garde(q)
    BY <1>2 DEF Garde
  <2>3. \A q \in Pairs : q = p => (Patiente(q)' <=> Patiente(q))
    BY <1>2
  <2>. QED BY <2>1, <2>2, <2>3
<1>4. DemandesUniques'
  <2>1. \A q \in Pairs : Patiente(q) => moi'[q] = moi[q]
    BY <1>2
  <2>. QED BY <1>1, <1>3, <2>1, DemandesPareilles
<1>5. LecturesEnOrdre'
  <2>1. recu[p] = <<>>
    BY <1>1 DEF LecturesEnOrdre
  <2>2. 1..Len(recu'[p]) = {}
    BY <2>1
  <2>. QED BY <1>1, <2>1, <2>2, LecturesApres
<1>6. ServicesAttendus'
  <2>1. \A s \in Pairs : etape'[s] \notin {"annonce", "dort"} => service'[s] = RienAServir
    BY <1>1 DEF ServicesAttendus
  <2>2. ASSUME NEW s \in Pairs, NEW q \in Pairs, etape'[s] = "annonce", q = service[s].de
        PROVE  \/ etape'[q] = "attend50" /\ Len(recu'[q]) = 1
               \/ etape'[q] = "attend7" /\ recu'[q] = <<>>
    <3>1. etape[s] = "annonce"
      BY <2>2
    <3>2. \/ etape[q] = "attend50" /\ Len(recu[q]) = 1
          \/ etape[q] = "attend7" /\ recu[q] = <<>>
      BY <1>1, <2>2, <3>1 DEF ServicesAttendus
    <3>3. q # p
      BY <3>2
    <3>. QED BY <3>2, <3>3
  <2>3. \A s \in Pairs : /\ etape'[s] \in {"annonce", "dort"} => etape[s] \in {"annonce", "dort"}
                         /\ etape'[s] = "annonce" => etape[s] = "annonce"
                         /\ service'[s] = service[s]
    OBVIOUS
  <2>. QED BY <1>1, <1>3, <2>1, <2>2, <2>3, ServicesApres
<1>7. NomsSinceres'
  <2>1. \A s \in Pairs : etape'[s] \in EnChemin => vue'[s] = <<Pair(moi'[s], s)>>
    BY <1>1 DEF NomsSinceres
  <2>2. \A s \in Pairs : etape'[s] = "absent" => vue'[s] = <<>>
    BY <1>1 DEF NomsSinceres
  <2>3. ASSUME NEW s \in Pairs, etape'[s] \notin EnChemin, NEW x \in ToSet(vue'[s])
        PROVE  Sincere(x)' \/ (etape[s] \notin EnChemin /\ x \in ToSet(vue[s]))
    <3>1. CASE s = p
      <4>1. etape'[p] = "boucle"
        BY <2>3, <3>1 DEF EnChemin
      <4>2. x = Pair(moi'[p], p)
        BY <3>1, UneEntree
      <4>. QED BY <4>1, <4>2, SoiSincere
    <3>2. CASE s # p
      BY <2>3, <3>2
    <3>. QED BY <3>1, <3>2
  <2>4. \A s \in Pairs : etape'[s] = "annonce" =>
                etape[s] = "annonce" /\ service'[s].pair = service[s].pair
    OBVIOUS
  <2>. QED BY <1>1, <1>3, <2>1, <2>2, <2>3, <2>4, NomsApres
<1>. QED BY <1>4, <1>5, <1>6, <1>7 DEF SansPanne

LEMMA DemarreSuite ==
  ASSUME Sain, NEW p \in Pairs, Demarre(p)
  PROVE  SansPanne'
<1>1. PICK id \in Tirages[p] :
          /\ moi' = [moi EXCEPT ![p] = id] /\ vue' = [vue EXCEPT ![p] = <<Pair(id, p)>>]
  BY DEF Demarre
<1>2. /\ etape[p] = "absent" /\ etape' = [etape EXCEPT ![p] = "cherche"]
      /\ UNCHANGED <<file, service, recu>>
  BY DEF Demarre, Va
<1>3. Types
  BY SainFaits
<1>4. /\ vue'[p] = <<Pair(moi'[p], p)>> /\ etape'[p] = "cherche"
      /\ \A q \in Pairs : q # p => etape'[q] = etape[q] /\ moi'[q] = moi[q] /\ vue'[q] = vue[q]
  BY <1>1, <1>2, <1>3 DEF Types
<1>. QED BY <1>2, <1>4, Solitaire

\* A peer on its way has itself in its list.
LEMMA SeulSurLeChemin ==
  ASSUME Sain, NEW p \in Pairs, etape[p] \in EnChemin
  PROVE  vue[p] = <<Pair(moi[p], p)>>
BY SainFaits DEF NomsSinceres

LEMMA RedemandeSuite ==
  ASSUME Sain, NEW p \in Pairs, Redemande(p) \/ CreeReseau(p)
  PROVE  SansPanne'
<1>1. /\ etape[p] \in {"cherche", "essaie"}
      /\ \/ etape' = [etape EXCEPT ![p] = "cherche"]
         \/ etape' = [etape EXCEPT ![p] = "boucle"]
      /\ UNCHANGED <<moi, vue, file, service, recu>>
  BY DEF Redemande, CreeReseau, EntreDansLaBoucle, Essaie, Va
<1>2. vue[p] = <<Pair(moi[p], p)>>
  BY <1>1, SeulSurLeChemin DEF EnChemin
<1>3. Types
  BY SainFaits
<1>4. /\ vue'[p] = <<Pair(moi'[p], p)>> /\ etape'[p] \in {"cherche", "boucle"}
      /\ \A q \in Pairs : q # p => etape'[q] = etape[q] /\ moi'[q] = moi[q] /\ vue'[q] = vue[q]
  BY <1>1, <1>2, <1>3 DEF Types
<1>. QED BY <1>1, <1>4, Solitaire

LEMMA LectureCandidats ==
  ASSUME Sain, NEW p \in Pairs, RecoitCandidat(p) \/ handle_udp_liaison(p)
  PROVE  SansPanne'
<1>1. UNCHANGED <<etape, moi, vue, file, service, recu>>
  BY DEF RecoitCandidat, handle_udp_liaison
<1>. QED BY <1>1, Immobile

LEMMA RecoitReponseSuite ==
  ASSUME Sain, NEW p \in Pairs, RecoitReponse(p)
  PROVE  SansPanne'
<1> DEFINE m == recu[p][1][1]
<1>0. Types /\ TypesDuService /\ SoiEnTete
      /\ DemandesUniques /\ ServicesAttendus /\ LecturesEnOrdre /\ NomsSinceres
  BY SainFaits
<1>1. /\ etape[p] = "attend50" /\ recu[p] # <<>>
      /\ IF m.code = 51 THEN ChangeId(p, m.id) ELSE UNCHANGED <<moi, vue>>
      /\ recu' = [recu EXCEPT ![p] = <<>>] /\ etape' = [etape EXCEPT ![p] = "attend7"]
      /\ UNCHANGED <<file, service>>
  BY DEF RecoitReponse, Va
<1>2. /\ etape'[p] = "attend7" /\ recu'[p] = <<>>
      /\ \A q \in Pairs : q # p => etape'[q] = etape[q] /\ recu'[q] = recu[q]
  BY <1>0, <1>1 DEF Types
<1>3. vue[p] = <<Pair(moi[p], p)>>
  BY <1>1, SeulSurLeChemin DEF EnChemin
<1>4. /\ moi'[p] = IdFinal(p) /\ vue'[p] = <<Pair(moi'[p], p)>>
      /\ \A q \in Pairs : q # p => moi'[q] = moi[q] /\ vue'[q] = vue[q]
  <2>1. CASE m.code # 51
    <3>1. IdFinal(p) = moi[p]
      BY <2>1 DEF IdFinal, Changera, Reponse
    <3>. QED BY <1>1, <1>3, <2>1, <3>1
  <2>2. CASE m.code = 51
    <3>1. IdFinal(p) = m.id
      BY <1>1, <2>2 DEF IdFinal, Changera, Reponse
    <3> HIDE DEF m
    <3> DEFINE e == [vue[p][1] EXCEPT !.id = m.id]
        l == [vue[p] EXCEPT ![1] = e]
    <3>2. moi' = [moi EXCEPT ![p] = m.id] /\ vue' = [vue EXCEPT ![p] = l]
      BY <1>1, <2>2 DEF ChangeId
    <3>3. e = Pair(m.id, p)
      BY <1>3 DEF Pair
    <3>4. l = <<e>>
      BY <1>3
    <3> HIDE DEF e, l
    <3>5. moi'[p] = m.id /\ vue'[p] = l
          /\ \A q \in Pairs : q # p => moi'[q] = moi[q] /\ vue'[q] = vue[q]
      BY <1>0, <3>2 DEF Types
    <3>. QED BY <3>1, <3>3, <3>4, <3>5
  <2>. QED BY <2>1, <2>2
<1>5. ~Inconnu(p)' /\ IdFinal(p)' = moi'[p] /\ ~Patiente(p) /\ ~Patiente(p)'
  BY <1>1, <1>2 DEF Inconnu, Patiente, IdFinal, Changera
<1>6. \A q \in Pairs : Garde(q) /\ (Patiente(q)' <=> Patiente(q))
  <2>1. \A q \in Pairs : q # p => Garde(q) /\ (Patiente(q)' <=> Patiente(q))
    BY <1>2, <1>4, GardePareil
  <2>2. Garde(p)
    BY <1>4, <1>5 DEF Garde
  <2>3. \A q \in Pairs : q = p => Garde(q) /\ (Patiente(q)' <=> Patiente(q))
    BY <1>5, <2>2
  <2>. QED BY <2>1, <2>3
<1>7. DemandesUniques'
  <2>1. \A q \in Pairs : Patiente(q) => moi'[q] = moi[q]
    BY <1>4, <1>5
  <2>. QED BY <1>0, <1>1, <1>6, <2>1, DemandesPareilles
<1>8. LecturesEnOrdre'
  <2>1. 1..Len(recu'[p]) = {}
    BY <1>2
  <2>. QED BY <1>0, <1>2, <2>1, LecturesApres
<1>9. ServicesAttendus'
  <2>1. \A s \in Pairs : etape'[s] \notin {"annonce", "dort"} => service'[s] = RienAServir
    BY <1>0, <1>1, <1>2 DEF ServicesAttendus
  <2>2. ASSUME NEW s \in Pairs, NEW q \in Pairs, etape'[s] = "annonce", q = service[s].de
        PROVE  \/ etape'[q] = "attend50" /\ Len(recu'[q]) = 1
               \/ etape'[q] = "attend7" /\ recu'[q] = <<>>
    <3>1. etape[s] = "annonce"
      BY <1>2, <2>2
    <3>2. \/ etape[q] = "attend50" /\ Len(recu[q]) = 1
          \/ etape[q] = "attend7" /\ recu[q] = <<>>
      BY <1>0, <2>2, <3>1 DEF ServicesAttendus
    <3>. QED BY <1>2, <3>2
  <2>3. \A s \in Pairs : /\ etape'[s] \in {"annonce", "dort"} => etape[s] \in {"annonce", "dort"}
                         /\ etape'[s] = "annonce" => etape[s] = "annonce"
                         /\ service'[s] = service[s]
    BY <1>1, <1>2
  <2>. QED BY <1>0, <1>6, <2>1, <2>2, <2>3, ServicesApres
<1>10. NomsSinceres'
  <2>1. \A s \in Pairs : etape'[s] \in EnChemin => vue'[s] = <<Pair(moi'[s], s)>>
    BY <1>0, <1>2, <1>4 DEF NomsSinceres
  <2>2. \A s \in Pairs : etape'[s] = "absent" => vue'[s] = <<>>
    BY <1>0, <1>2, <1>4 DEF NomsSinceres
  <2>3. ASSUME NEW s \in Pairs, etape'[s] \notin EnChemin, NEW x \in ToSet(vue'[s])
        PROVE  etape[s] \notin EnChemin /\ x \in ToSet(vue[s])
    <3>1. s # p
      BY <1>2, <2>3 DEF EnChemin
    <3>. QED BY <1>2, <1>4, <2>3, <3>1
  <2>4. \A s \in Pairs : etape'[s] = "annonce" =>
                etape[s] = "annonce" /\ service'[s].pair = service[s].pair
    BY <1>1, <1>2
  <2>5. \A s \in Pairs : file'[s] = file[s]
    BY <1>1
  <2>6. ASSUME NEW s \in Pairs, NEW e \in ToSet(recu'[s]) PROVE e \in ToSet(recu[s])
    <3>1. s # p
      BY <1>2 DEF ToSet
    <3>. QED BY <1>2, <3>1
  <2>. QED BY <1>0, <1>6, <2>1, <2>2, <2>3, <2>4, <2>5, <2>6, NomsApres
<1>. QED BY <1>7, <1>8, <1>9, <1>10 DEF SansPanne

\* A connection that waits.
LEMMA DansLaFile ==
  ASSUME Sain, NEW s \in Pairs, NEW k \in 1..Len(file[s])
  PROVE  /\ file[s][k] \in Connexions /\ file[s][k] \in ToSet(file[s])
         /\ file[s][k].de \in Pairs /\ PairDe(file[s][k].msgs[1]) \in PairsPossibles
         /\ Demande(file[s][k]) \/ (Annonce(file[s][k]) /\ ~file[s][k].vif)
<1>1. file[s] \in Seq(Connexions)
  BY SainFaits, DuPair
<1>2. file[s][k] \in Connexions /\ file[s][k] \in ToSet(file[s])
  BY <1>1 DEF ToSet
<1>. QED BY <1>2 DEF Connexions, Nomme

\* A member that a sponsor accepted enters the loop with what it has and with
\* what it was sent.
LEMMA Adhesion ==
  ASSUME Sain, NEW p \in Pairs, etape[p] = "attend7", etape'[p] = "boucle",
         \A q \in Pairs : q # p => etape'[q] = etape[q] /\ vue'[q] = vue[q],
         UNCHANGED moi, Raccroche(p),
         \A s \in Pairs : etape[s] = "annonce" => service[s].de # p,
         \A x \in ToSet(vue'[p]) : x \in ToSet(vue[p]) \/ (Sincere(x) /\ x \in PairsPossibles)
  PROVE  SansPanne'
<1>0. Types /\ TypesDuService /\ SoiEnTete
      /\ DemandesUniques /\ ServicesAttendus /\ LecturesEnOrdre /\ NomsSinceres
  BY SainFaits
<1>1. /\ file' \in [Pairs -> Seq(Connexions)] /\ recu'[p] = <<>>
      /\ \A q \in Pairs : q # p => recu'[q] = recu[q]
      /\ \A q \in Pairs : /\ service'[q].de = service[q].de
                          /\ service[q].de # p => service'[q] = service[q]
      /\ \A s \in Pairs : Len(file'[s]) = Len(file[s])
      /\ \A s \in Pairs : \A k \in 1..Len(file[s]) :
                file[s][k].de # p \/ ~file[s][k].vif => file'[s][k] = file[s][k]
  BY <1>0, RaccrocheTypes
<1>2. ~Patiente(p) /\ ~Patiente(p)' /\ ~Inconnu(p)' /\ IdFinal(p) = moi[p] /\ IdFinal(p)' = moi[p]
  BY DEF Patiente, Inconnu, IdFinal, Changera
<1>3. \A q \in Pairs : Garde(q) /\ (Patiente(q)' <=> Patiente(q))
  <2>1. \A q \in Pairs : q # p => Garde(q) /\ (Patiente(q)' <=> Patiente(q))
    BY <1>1, GardePareil
  <2>2. Garde(p)
    BY <1>2 DEF Garde
  <2>3. \A q \in Pairs : q = p => Garde(q) /\ (Patiente(q)' <=> Patiente(q))
    BY <1>2, <2>2
  <2>. QED BY <2>1, <2>3
<1>4. file' = file
  <2>1. ASSUME NEW s \in Pairs, NEW k \in 1..Len(file[s]) PROVE file'[s][k] = file[s][k]
    <3>1. CASE Demande(file[s][k])
      <4>1. Patiente(file[s][k].de)
        BY <1>0, <3>1 DEF DemandesUniques
      <4>2. file[s][k].de # p
        BY <1>2, <4>1
      <4>. QED BY <1>1, <4>2
    <3>2. CASE ~file[s][k].vif
      BY <1>1, <3>2
    <3>. QED BY <3>1, <3>2, DansLaFile
  <2>2. ASSUME NEW s \in Pairs PROVE file'[s] = file[s]
    <3>1. file[s] \in Seq(Connexions) /\ file'[s] \in Seq(Connexions)
      BY <1>0, <1>1, DuPair
    <3>2. Len(file'[s]) = Len(file[s]) /\ \A k \in 1..Len(file[s]) : file'[s][k] = file[s][k]
      BY <1>1, <2>1
    <3>. QED BY <3>1, <3>2
  <2>3. file \in [Pairs -> Seq(Connexions)]
    BY <1>0 DEF Types
  <2>. QED BY <1>1, <2>2, <2>3
<1>5. DemandesUniques'
  BY <1>0, <1>1, <1>3, <1>4, DemandesPareilles
<1>6. LecturesEnOrdre'
  <2>1. 1..Len(recu'[p]) = {}
    BY <1>1
  <2>. QED BY <1>0, <1>1, <2>1, LecturesApres
<1>7. ServicesAttendus'
  <2>1. ASSUME NEW s \in Pairs, etape'[s] \notin {"annonce", "dort"}
        PROVE  service'[s] = RienAServir
    <3>1. etape[s] \notin {"annonce", "dort"}
      BY <2>1
    <3>2. service[s] = RienAServir
      BY <1>0, <3>1 DEF ServicesAttendus
    <3>3. service[s].de # p
      BY <3>2, RienTypes, Constantes
    <3>. QED BY <1>1, <3>2, <3>3
  <2>2. ASSUME NEW s \in Pairs, NEW q \in Pairs, etape'[s] = "annonce", q = service[s].de
        PROVE  \/ etape'[q] = "attend50" /\ Len(recu'[q]) = 1
               \/ etape'[q] = "attend7" /\ recu'[q] = <<>>
    <3>1. etape[s] = "annonce" /\ q # p
      BY <2>2
    <3>2. \/ etape[q] = "attend50" /\ Len(recu[q]) = 1
          \/ etape[q] = "attend7" /\ recu[q] = <<>>
      BY <1>0, <2>2, <3>1 DEF ServicesAttendus
    <3>. QED BY <1>1, <3>1, <3>2
  <2>3. ASSUME NEW s \in Pairs, etape'[s] = "annonce"
        PROVE  etape[s] = "annonce" /\ service'[s] = service[s]
    <3>1. etape[s] = "annonce"
      BY <2>3
    <3>. QED BY <1>1, <3>1
  <2>4. \A s \in Pairs : etape'[s] \in {"annonce", "dort"} => etape[s] \in {"annonce", "dort"}
    OBVIOUS
  <2>. QED BY <1>0, <1>1, <1>3, <2>1, <2>2, <2>3, <2>4, ServicesApres
<1>8. NomsSinceres'
  <2>1. \A s \in Pairs : etape'[s] \in EnChemin => vue'[s] = <<Pair(moi'[s], s)>>
    BY <1>0 DEF NomsSinceres, EnChemin
  <2>2. \A s \in Pairs : etape'[s] = "absent" => vue'[s] = <<>>
    BY <1>0 DEF NomsSinceres
  <2>3. ASSUME NEW s \in Pairs, etape'[s] \notin EnChemin, NEW x \in ToSet(vue'[s])
        PROVE  Sincere(x)' \/ (etape[s] \notin EnChemin /\ x \in ToSet(vue[s]))
    <3>1. CASE s # p
      BY <2>3, <3>1
    <3>2. CASE s = p /\ x \in ToSet(vue[p])
      <4>1. vue[p] = <<Pair(moi[p], p)>>
        BY SeulSurLeChemin DEF EnChemin
      <4>2. x = Pair(moi'[p], p)
        BY <3>2, <4>1, UneEntree
      <4>. QED BY <4>2, SoiSincere
    <3>3. CASE Sincere(x) /\ x \in PairsPossibles
      BY <1>3, <3>3, SincereApres
    <3>. QED BY <2>3, <3>1, <3>2, <3>3
  <2>4. \A s \in Pairs : etape'[s] = "annonce" =>
                etape[s] = "annonce" /\ service'[s].pair = service[s].pair
    BY <1>1
  <2>5. \A s \in Pairs : file'[s] = file[s]
    BY <1>4
  <2>6. ASSUME NEW s \in Pairs, NEW e \in ToSet(recu'[s]) PROVE e \in ToSet(recu[s])
    <3>1. s # p
      BY <1>1 DEF ToSet
    <3>. QED BY <1>1, <3>1
  <2>. QED BY <1>0, <1>3, <2>1, <2>2, <2>3, <2>4, <2>5, <2>6, NomsApres
<1>. QED BY <1>5, <1>6, <1>7, <1>8 DEF SansPanne

\* A timeout is a failure: who hangs up before anything came had nobody at the
\* other end any more.
LEMMA CoupureSaine ==
  ASSUME Sain, NEW p \in Pairs, Coupure(p), pannes' = 0
  PROVE  recu[p] = <<>> /\ Raccroche(p) /\ UNCHANGED <<moi, vue>>
         /\ \A s \in Pairs : etape[s] = "annonce" => service[s].de # p
<1>1. /\ recu[p] = <<>> /\ Raccroche(p) /\ UNCHANGED <<moi, vue>>
      /\ (~Branche(p) \/ pannes' = pannes + 1)
  BY DEF Coupure
<1>2. ~Branche(p)
  BY <1>1 DEF Sain
<1>3. \A s \in Pairs : etape[s] = "annonce" => service[s].vif
  BY SainFaits DEF ServicesAttendus
<1>. QED BY <1>1, <1>2, <1>3 DEF Branche

\* The request of a newcomer that waits is still in a queue.
LEMMA SansReponseImpossible ==
  ASSUME Sain, NEW p \in Pairs, SansReponse(p), pannes' = 0
  PROVE  FALSE
<1>1. etape[p] = "attend50" /\ Coupure(p)
  BY DEF SansReponse
<1>2. recu[p] = <<>> /\ (~Branche(p) \/ pannes' = pannes + 1)
  BY <1>1 DEF Coupure
<1>3. ~Branche(p)
  BY <1>2 DEF Sain
<1>4. Patiente(p)
  BY <1>1, <1>2 DEF Patiente
<1>5. PICK s \in Pairs : \E k \in 1..Len(file[s]) : Demande(file[s][k]) /\ file[s][k].de = p
  BY <1>4, SainFaits DEF DemandesUniques
<1>6. PICK k \in 1..Len(file[s]) : Demande(file[s][k]) /\ file[s][k].de = p
  BY <1>5
<1>7. file[s][k].vif
  BY <1>6, SainFaits DEF DemandesUniques
<1>. QED BY <1>3, <1>6, <1>7 DEF Branche

LEMMA SansListeSuite ==
  ASSUME Sain, NEW p \in Pairs, SansListe(p), pannes' = 0
  PROVE  SansPanne'
<1>1. /\ etape[p] = "attend7" /\ Coupure(p) /\ etape' = [etape EXCEPT ![p] = "boucle"]
  BY DEF SansListe, EntreDansLaBoucle, Va
<1>2. Raccroche(p) /\ UNCHANGED <<moi, vue>>
      /\ \A s \in Pairs : etape[s] = "annonce" => service[s].de # p
  BY <1>1, CoupureSaine
<1>3. etape'[p] = "boucle" /\ \A q \in Pairs : q # p => etape'[q] = etape[q]
  BY <1>1, SainFaits DEF Types
<1>. QED BY <1>1, <1>2, <1>3, Adhesion

LEMMA ListeSuite ==
  ASSUME Sain, NEW p \in Pairs, handle_peer_list_sync(p)
  PROVE  SansPanne'
<1>0. Types /\ SoiEnTete /\ ServicesAttendus /\ NomsSinceres
  BY SainFaits
<1>1. /\ etape[p] = "attend7" /\ recu[p] # <<>> /\ Raccroche(p)
      /\ etape' = [etape EXCEPT ![p] = "boucle"] /\ UNCHANGED moi
      /\ \/ /\ recu[p][1][1].code = 7
            /\ vue' = [vue EXCEPT ![p] = peer_list_load(@, recu[p][1])]
         \/ UNCHANGED vue
  BY DEF handle_peer_list_sync, EntreDansLaBoucle, Va
<1>2. etape'[p] = "boucle" /\ \A q \in Pairs : q # p => etape'[q] = etape[q]
  BY <1>0, <1>1 DEF Types
<1>3. \A s \in Pairs : etape[s] = "annonce" => service[s].de # p
  <2>1. ASSUME NEW s \in Pairs, etape[s] = "annonce", service[s].de = p PROVE FALSE
    BY <1>0, <1>1, <2>1 DEF ServicesAttendus
  <2>. QED BY <2>1
<1>4. /\ \A q \in Pairs : q # p => vue'[q] = vue[q]
      /\ \A x \in ToSet(vue'[p]) : x \in ToSet(vue[p]) \/ (Sincere(x) /\ x \in PairsPossibles)
  <2>1. CASE UNCHANGED vue
    BY <2>1
  <2>2. CASE ~UNCHANGED vue
    <3> DEFINE l == vue[p]
        e == recu[p][1]
        r == peer_list_load(l, e)
    <3>1. e[1].code = 7 /\ vue' = [vue EXCEPT ![p] = r]
      BY <1>1, <2>2
    <3>2. \A k \in 1..Len(r) : Vient(r[k], l, e)
      BY <1>0, <1>1, <3>1, ListeLue DEF Ouvert
    <3>3. vue'[p] = r /\ \A q \in Pairs : q # p => vue'[q] = vue[q]
      BY <1>0, <3>1 DEF Types
    <3>4. e \in ToSet(recu[p]) /\ EstListe(e)
      <4>1. recu[p] \in Seq(Envois) /\ recu[p] # <<>>
        BY <1>0, <1>1, DuPair
      <4>. QED BY <3>1, <4>1 DEF ToSet, EstListe
    <3>5. \A j \in 2..Len(e) : Sincere(PairDe(e[j])) /\ PairDe(e[j]) \in PairsPossibles
      BY <1>0, <3>4, NomsTypes DEF NomsSinceres
    <3>6. l \in Seq(PairsPossibles)
      BY <1>0, DuPair
    <3>7. r \in Seq(PairsPossibles)
      BY <1>0, <1>1, <3>1, ListeLue DEF Ouvert
    <3> HIDE DEF l, e, r
    <3>8. ASSUME NEW x \in ToSet(r) PROVE x \in ToSet(l) \/ (Sincere(x) /\ x \in PairsPossibles)
      <4>1. PICK k \in 1..Len(r) : x = r[k]
        BY <3>7 DEF ToSet
      <4>2. Vient(x, l, e)
        BY <3>2, <4>1
      <4>3. CASE \E i \in 1..Len(l) : x = l[i]
        BY <3>6, <4>3 DEF ToSet
      <4>4. CASE \E j \in 2..Len(e) : x = PairDe(e[j])
        BY <3>5, <4>4
      <4>. QED BY <4>2, <4>3, <4>4 DEF Vient
    <3>9. \A x \in ToSet(vue'[p]) : x \in ToSet(l) \/ (Sincere(x) /\ x \in PairsPossibles)
      BY <3>3, <3>8
    <3>. QED BY <3>3, <3>9 DEF l
  <2>. QED BY <2>1, <2>2
<1>. QED BY <1>1, <1>2, <1>3, <1>4, Adhesion

\* No list is broken as long as nothing failed.
LEMMA RompueImpossible ==
  ASSUME Sain, NEW p \in Pairs, LitListeRompue(p) \/ MeurtDeLaListe(p)
  PROVE  FALSE
<1>1. recu[p] # <<>> /\ Rompue(recu[p][1])
  BY DEF LitListeRompue, MeurtDeLaListe
<1>2. recu[p] \in Seq(Envois)
  BY SainFaits, DuPair
<1>3. 1 \in 1..Len(recu[p])
  BY <1>1, <1>2
<1>. QED BY <1>1, <1>3 DEF Sain, RompuesComptees

\* A connection that comes waits behind the others.
LEMMA Ajoutee ==
  ASSUME Types, SoiEnTete, NEW q \in Pairs, NEW f, f \in Connexions,
         file' = [file EXCEPT ![q] = Append(@, f)]
  PROVE  /\ \A s \in Pairs : \A k \in 1..Len(file[s]) :
                k \in 1..Len(file'[s]) /\ file'[s][k] = file[s][k]
         /\ \A s \in Pairs : \A k \in 1..Len(file'[s]) :
                \/ k \in 1..Len(file[s]) /\ file'[s][k] = file[s][k]
                \/ s = q /\ k = Len(file[q]) + 1 /\ file'[s][k] = f
         /\ Len(file[q]) + 1 \in 1..Len(file'[q]) /\ file'[q][Len(file[q]) + 1] = f
         /\ \A s \in Pairs : \A c \in ToSet(file'[s]) : c \in ToSet(file[s]) \/ c = f
<1> DEFINE l == file[q]
    r == Append(l, f)
<1>1. l \in Seq(Connexions)
  BY DuPair
<1>2. /\ file'[q] = r /\ \A s \in Pairs : s # q => file'[s] = file[s]
  BY DEF Types
<1> HIDE DEF l
<1>3. /\ r \in Seq(Connexions) /\ Len(r) = Len(l) + 1 /\ r[Len(l) + 1] = f /\ Len(l) \in Nat
      /\ \A k \in 1..Len(l) : r[k] = l[k]
  BY <1>1
<1> HIDE DEF r
<1>4. \A k \in 1..Len(r) : k \in 1..Len(l) \/ k = Len(l) + 1
  BY <1>3
<1>5. \A k \in 1..Len(l) : k \in 1..Len(r)
  BY <1>3
<1>6. Len(l) + 1 \in 1..Len(r)
  BY <1>3
<1>7. \A c \in ToSet(r) : c \in ToSet(l) \/ c = f
  <2>1. ASSUME NEW c \in ToSet(r) PROVE c \in ToSet(l) \/ c = f
    <3>1. PICK k \in 1..Len(r) : c = r[k]
      BY <1>3 DEF ToSet
    <3>2. CASE k \in 1..Len(l)
      BY <1>1, <1>3, <3>1, <3>2 DEF ToSet
    <3>. QED BY <1>3, <1>4, <3>1, <3>2
  <2>. QED BY <2>1
<1>8. \A s \in Pairs : \A k \in 1..Len(file[s]) : k \in 1..Len(file'[s]) /\ file'[s][k] = file[s][k]
  BY <1>2, <1>3, <1>5 DEF l
<1>9. \A s \in Pairs : \A k \in 1..Len(file'[s]) :
                \/ k \in 1..Len(file[s]) /\ file'[s][k] = file[s][k]
                \/ s = q /\ k = Len(file[q]) + 1 /\ file'[s][k] = f
  BY <1>2, <1>3, <1>4 DEF l
<1>10. \A s \in Pairs : \A c \in ToSet(file'[s]) : c \in ToSet(file[s]) \/ c = f
  BY <1>2, <1>7 DEF l
<1>. QED BY <1>2, <1>3, <1>6, <1>8, <1>9, <1>10 DEF l

\* What a request that waits says of its newcomer.
LEMMA DemandeFaits ==
  ASSUME Sain, NEW s \in Pairs, NEW k \in 1..Len(file[s]), Demande(file[s][k]),
         NEW q, q = file[s][k].de
  PROVE  /\ q \in Pairs /\ file[s][k].vif /\ Patiente(q) /\ etape[q] = "attend50" /\ recu[q] = <<>>
         /\ PairDe(file[s][k].msgs[1]) = Pair(moi[q], q) /\ \A t \in Pairs : service[t].de # q
         /\ \A t \in Pairs : \A l \in 1..Len(file[t]) :
                Demande(file[t][l]) /\ file[t][l].de = q => t = s /\ l = k
<1>1. q \in Pairs
  BY DansLaFile
<1>2. /\ file[s][k].vif /\ Patiente(q)
      /\ PairDe(file[s][k].msgs[1]) = Pair(moi[q], q) /\ \A t \in Pairs : service[t].de # q
      /\ \A t \in Pairs : \A l \in 1..Len(file[t]) :
             Demande(file[t][l]) /\ file[t][l].de = q => t = s /\ l = k
  BY SainFaits DEF DemandesUniques
<1>. QED BY <1>1, <1>2 DEF Patiente

\* The requests after a step, stated without names that change.
LEMMA DemandesApres ==
  ASSUME \A s \in Pairs : \A k \in 1..Len(file'[s]) : Demande(file'[s][k]) =>
            /\ file'[s][k].vif /\ file'[s][k].de \in Pairs
            /\ etape'[file'[s][k].de] = "attend50" /\ recu'[file'[s][k].de] = <<>>
            /\ PairDe(file'[s][k].msgs[1]) = Pair(moi'[file'[s][k].de], file'[s][k].de)
            /\ \A t \in Pairs : service'[t].de # file'[s][k].de,
         \A s, t \in Pairs : \A k \in 1..Len(file'[s]), l \in 1..Len(file'[t]) :
            Demande(file'[s][k]) /\ Demande(file'[t][l]) /\ file'[t][l].de = file'[s][k].de
                => t = s /\ l = k,
         \A q \in Pairs : etape'[q] = "attend50" /\ recu'[q] = <<>> =>
            \E s \in Pairs : \E k \in 1..Len(file'[s]) :
                Demande(file'[s][k]) /\ file'[s][k].de = q
  PROVE  DemandesUniques'
BY DEF DemandesUniques, Patiente

LEMMA DemandesAnnonce ==
  ASSUME Sain, NEW q \in Pairs, NEW f, f \in Connexions, Annonce(f),
         file' = [file EXCEPT ![q] = Append(@, f)], UNCHANGED <<etape, moi, recu>>,
         \A t \in Pairs : service'[t].de = service[t].de
  PROVE  DemandesUniques'
<1>1. /\ \A s \in Pairs : \A k \in 1..Len(file[s]) :
                k \in 1..Len(file'[s]) /\ file'[s][k] = file[s][k]
      /\ \A s \in Pairs : \A k \in 1..Len(file'[s]) :
                \/ k \in 1..Len(file[s]) /\ file'[s][k] = file[s][k]
                \/ s = q /\ k = Len(file[q]) + 1 /\ file'[s][k] = f
  BY SainFaits, Ajoutee
<1>2. ~Demande(f)
  BY DEF Annonce, Demande
<1>3. \A s \in Pairs : \A k \in 1..Len(file'[s]) : Demande(file'[s][k]) =>
            k \in 1..Len(file[s]) /\ file'[s][k] = file[s][k]
  BY <1>1, <1>2
<1>4. ASSUME NEW s \in Pairs, NEW k \in 1..Len(file'[s]), Demande(file'[s][k])
      PROVE  /\ file'[s][k].vif /\ file'[s][k].de \in Pairs
             /\ etape'[file'[s][k].de] = "attend50" /\ recu'[file'[s][k].de] = <<>>
             /\ PairDe(file'[s][k].msgs[1]) = Pair(moi'[file'[s][k].de], file'[s][k].de)
             /\ \A t \in Pairs : service'[t].de # file'[s][k].de
  <2>1. k \in 1..Len(file[s]) /\ file'[s][k] = file[s][k]
    BY <1>3, <1>4
  <2>2. /\ file[s][k].vif /\ file[s][k].de \in Pairs
        /\ etape[file[s][k].de] = "attend50" /\ recu[file[s][k].de] = <<>>
        /\ PairDe(file[s][k].msgs[1]) = Pair(moi[file[s][k].de], file[s][k].de)
        /\ \A t \in Pairs : service[t].de # file[s][k].de
    BY <1>4, <2>1, DemandeFaits
  <2>. QED BY <2>1, <2>2
<1>5. ASSUME NEW s \in Pairs, NEW t \in Pairs,
             NEW k \in 1..Len(file'[s]), NEW l \in 1..Len(file'[t]),
             Demande(file'[s][k]), Demande(file'[t][l]), file'[t][l].de = file'[s][k].de
      PROVE  t = s /\ l = k
  <2>1. /\ k \in 1..Len(file[s]) /\ file'[s][k] = file[s][k]
        /\ l \in 1..Len(file[t]) /\ file'[t][l] = file[t][l]
    BY <1>3, <1>5
  <2>. QED BY <1>5, <2>1, SainFaits DEF DemandesUniques
<1>6. ASSUME NEW n \in Pairs, etape'[n] = "attend50", recu'[n] = <<>>
      PROVE  \E s \in Pairs : \E k \in 1..Len(file'[s]) :
                Demande(file'[s][k]) /\ file'[s][k].de = n
  <2>1. Patiente(n)
    BY <1>6 DEF Patiente
  <2>2. \E s \in Pairs : \E k \in 1..Len(file[s]) : Demande(file[s][k]) /\ file[s][k].de = n
    BY <2>1, SainFaits DEF DemandesUniques
  <2>. QED BY <1>1, <2>2
<1>7. \A s \in Pairs : \A k \in 1..Len(file'[s]) : Demande(file'[s][k]) =>
         /\ file'[s][k].vif /\ file'[s][k].de \in Pairs
         /\ etape'[file'[s][k].de] = "attend50" /\ recu'[file'[s][k].de] = <<>>
         /\ PairDe(file'[s][k].msgs[1]) = Pair(moi'[file'[s][k].de], file'[s][k].de)
         /\ \A t \in Pairs : service'[t].de # file'[s][k].de
  BY <1>4
<1>8. \A s, t \in Pairs : \A k \in 1..Len(file'[s]), l \in 1..Len(file'[t]) :
         Demande(file'[s][k]) /\ Demande(file'[t][l]) /\ file'[t][l].de = file'[s][k].de
             => t = s /\ l = k
  BY <1>5
<1>9. \A n \in Pairs : etape'[n] = "attend50" /\ recu'[n] = <<>> =>
         \E s \in Pairs : \E k \in 1..Len(file'[s]) :
             Demande(file'[s][k]) /\ file'[s][k].de = n
  BY <1>6
<1>. QED BY <1>7, <1>8, <1>9, DemandesApres

LEMMA DemandesConnecte ==
  ASSUME Sain, NEW p \in Pairs, etape[p] \in {"cherche", "essaie"}, etape'[p] = "attend50",
         \A n \in Pairs : n # p => etape'[n] = etape[n],
         NEW q \in Pairs, NEW f, f \in Connexions, Demande(f), f.vif, f.de = p,
         PairDe(f.msgs[1]) = Pair(moi[p], p),
         file' = [file EXCEPT ![q] = Append(@, f)], UNCHANGED <<moi, recu, service>>
  PROVE  DemandesUniques'
<1> DEFINE fin == Len(file[q]) + 1
<1>1. /\ \A s \in Pairs : \A k \in 1..Len(file[s]) :
                k \in 1..Len(file'[s]) /\ file'[s][k] = file[s][k]
      /\ \A s \in Pairs : \A k \in 1..Len(file'[s]) :
                \/ k \in 1..Len(file[s]) /\ file'[s][k] = file[s][k]
                \/ s = q /\ k = fin /\ file'[s][k] = f
      /\ fin \in 1..Len(file'[q]) /\ file'[q][fin] = f
  <2>1. Types /\ SoiEnTete
    BY SainFaits
  <2>2. /\ \A s \in Pairs : \A k \in 1..Len(file[s]) :
                k \in 1..Len(file'[s]) /\ file'[s][k] = file[s][k]
        /\ \A s \in Pairs : \A k \in 1..Len(file'[s]) :
                \/ k \in 1..Len(file[s]) /\ file'[s][k] = file[s][k]
                \/ s = q /\ k = Len(file[q]) + 1 /\ file'[s][k] = f
    BY <2>1, Ajoutee
  <2>3. Len(file[q]) + 1 \in 1..Len(file'[q]) /\ file'[q][Len(file[q]) + 1] = f
    BY <2>1, Ajoutee
  <2>. QED BY <2>2, <2>3
<1> HIDE DEF fin
<1>2. recu[p] = <<>> /\ \A t \in Pairs : service[t].de # p
  <2>1. recu[p] = <<>>
    BY SainFaits DEF LecturesEnOrdre
  <2>2. ASSUME NEW t \in Pairs, service[t].de = p PROVE FALSE
    <3>1. etape[t] \in {"annonce", "dort"}
      BY <2>2, SainFaits, RienTypes, Constantes DEF ServicesAttendus
    <3>2. ~Inconnu(p)
      BY <2>2, <3>1, SainFaits DEF ServicesAttendus
    <3>. QED BY <3>2 DEF Inconnu
  <2>. QED BY <2>1, <2>2
<1>3. ASSUME NEW s \in Pairs, NEW k \in 1..Len(file[s]), Demande(file[s][k])
      PROVE  file[s][k].de # p
  BY <1>3, DemandeFaits
<1>4. ASSUME NEW s \in Pairs, NEW k \in 1..Len(file'[s]), Demande(file'[s][k])
      PROVE  /\ file'[s][k].vif /\ file'[s][k].de \in Pairs
             /\ etape'[file'[s][k].de] = "attend50" /\ recu'[file'[s][k].de] = <<>>
             /\ PairDe(file'[s][k].msgs[1]) = Pair(moi'[file'[s][k].de], file'[s][k].de)
             /\ \A t \in Pairs : service'[t].de # file'[s][k].de
  <2>1. CASE k \in 1..Len(file[s]) /\ file'[s][k] = file[s][k]
    <3>1. Demande(file[s][k])
      BY <1>4, <2>1
    <3>2. /\ file[s][k].vif /\ file[s][k].de \in Pairs
          /\ etape[file[s][k].de] = "attend50" /\ recu[file[s][k].de] = <<>>
          /\ PairDe(file[s][k].msgs[1]) = Pair(moi[file[s][k].de], file[s][k].de)
          /\ \A t \in Pairs : service[t].de # file[s][k].de
      BY <2>1, <3>1, DemandeFaits
    <3>3. file[s][k].de # p
      BY <1>3, <2>1, <3>1
    <3>. QED BY <2>1, <3>2, <3>3
  <2>2. CASE s = q /\ k = fin /\ file'[s][k] = f
    BY <1>2, <2>2
  <2>. QED BY <1>1, <2>1, <2>2
<1>5. ASSUME NEW s \in Pairs, NEW t \in Pairs,
             NEW k \in 1..Len(file'[s]), NEW l \in 1..Len(file'[t]),
             Demande(file'[s][k]), Demande(file'[t][l]), file'[t][l].de = file'[s][k].de
      PROVE  t = s /\ l = k
  <2>1. \/ k \in 1..Len(file[s]) /\ file'[s][k] = file[s][k] /\ file[s][k].de # p
        \/ s = q /\ k = fin /\ file'[s][k].de = p
    BY <1>1, <1>3, <1>5
  <2>2. \/ l \in 1..Len(file[t]) /\ file'[t][l] = file[t][l] /\ file[t][l].de # p
        \/ t = q /\ l = fin /\ file'[t][l].de = p
    BY <1>1, <1>3, <1>5
  <2>3. CASE s = q /\ k = fin /\ file'[s][k].de = p
    BY <1>5, <2>2, <2>3
  <2>4. CASE k \in 1..Len(file[s]) /\ file'[s][k] = file[s][k] /\ file[s][k].de # p
    <3>1. l \in 1..Len(file[t]) /\ file'[t][l] = file[t][l]
      BY <1>5, <2>2, <2>4
    <3>2. Demande(file[s][k]) /\ Demande(file[t][l]) /\ file[t][l].de = file[s][k].de
      BY <1>5, <2>4, <3>1
    <3>. QED BY <2>4, <3>1, <3>2, SainFaits DEF DemandesUniques
  <2>. QED BY <2>1, <2>3, <2>4
<1>6. ASSUME NEW n \in Pairs, etape'[n] = "attend50", recu'[n] = <<>>
      PROVE  \E s \in Pairs : \E k \in 1..Len(file'[s]) :
                Demande(file'[s][k]) /\ file'[s][k].de = n
  <2>1. CASE n = p
    BY <1>1, <2>1
  <2>2. CASE n # p
    <3>1. Patiente(n)
      BY <1>6, <2>2 DEF Patiente
    <3>2. \E s \in Pairs : \E k \in 1..Len(file[s]) : Demande(file[s][k]) /\ file[s][k].de = n
      BY <3>1, SainFaits DEF DemandesUniques
    <3>. QED BY <1>1, <3>2
  <2>. QED BY <2>1, <2>2
<1>7. \A s \in Pairs : \A k \in 1..Len(file'[s]) : Demande(file'[s][k]) =>
         /\ file'[s][k].vif /\ file'[s][k].de \in Pairs
         /\ etape'[file'[s][k].de] = "attend50" /\ recu'[file'[s][k].de] = <<>>
         /\ PairDe(file'[s][k].msgs[1]) = Pair(moi'[file'[s][k].de], file'[s][k].de)
         /\ \A t \in Pairs : service'[t].de # file'[s][k].de
  BY <1>4
<1>8. \A s, t \in Pairs : \A k \in 1..Len(file'[s]), l \in 1..Len(file'[t]) :
         Demande(file'[s][k]) /\ Demande(file'[t][l]) /\ file'[t][l].de = file'[s][k].de
             => t = s /\ l = k
  BY ONLY <1>5
<1>9. \A n \in Pairs : etape'[n] = "attend50" /\ recu'[n] = <<>> =>
         \E s \in Pairs : \E k \in 1..Len(file'[s]) :
             Demande(file'[s][k]) /\ file'[s][k].de = n
  BY <1>6
<1>. QED BY <1>7, <1>8, <1>9, DemandesApres

\* The connection at the head is taken; the others move up.
Decalage(p, d) ==
    /\ \A s \in Pairs : \A k \in 1..Len(file'[s]) :
            k + d[s] \in 1..Len(file[s]) /\ file'[s][k] = file[s][k + d[s]]
    /\ \A s \in Pairs : \A k \in 1..Len(file[s]) :
            (s = p => k # 1) => /\ k - d[s] \in 1..Len(file'[s])
                                /\ file'[s][k - d[s]] = file[s][k]
    /\ \A s \in Pairs : \A k \in 1..Len(file'[s]) : s = p => k + d[s] # 1
    /\ \A s \in Pairs : d[s] \in Nat

LEMMA Entamee ==
  ASSUME Sain, NEW p \in Pairs, file[p] # <<>>, file' = [file EXCEPT ![p] = Tail(@)],
         NEW d, d = [s \in Pairs |-> IF s = p THEN 1 ELSE 0]
  PROVE  /\ Decalage(p, d)
         /\ \A s \in Pairs : \A c \in ToSet(file'[s]) : c \in ToSet(file[s])
<1> DEFINE l == file[p]
    r == Tail(l)
<1>1. l \in Seq(Connexions) /\ l # <<>>
  BY SainFaits, DuPair
<1>2. file'[p] = r /\ \A s \in Pairs : s # p => file'[s] = file[s]
  BY SainFaits DEF Types
<1>3. d[p] = 1 /\ (\A s \in Pairs : s # p => d[s] = 0) /\ \A s \in Pairs : d[s] \in Nat
  OBVIOUS
<1> HIDE DEF l
<1>4. /\ r \in Seq(Connexions) /\ Len(r) = Len(l) - 1 /\ Len(l) \in Nat
      /\ \A k \in 1..Len(r) : r[k] = l[k + 1]
  BY <1>1
<1> HIDE DEF r
<1>5. \A k \in 1..Len(r) : k + 1 \in 1..Len(l) /\ k + 1 # 1
  BY <1>4
<1>6. \A k \in 1..Len(l) : k # 1 => k - 1 \in 1..Len(r) /\ r[k - 1] = l[k]
  BY <1>4
<1>7. \A c \in ToSet(r) : c \in ToSet(l)
  <2>1. ASSUME NEW c \in ToSet(r) PROVE c \in ToSet(l)
    <3>1. PICK k \in 1..Len(r) : c = r[k]
      BY <1>4 DEF ToSet
    <3> DEFINE j == k + 1
    <3>2. j \in 1..Len(l) /\ c = l[j]
      BY <1>4, <1>5, <3>1
    <3> HIDE DEF j
    <3>. QED BY <1>1, <3>2 DEF ToSet
  <2>. QED BY <2>1
<1>8. ASSUME NEW s \in Pairs, NEW k \in 1..Len(file'[s])
      PROVE  /\ k + d[s] \in 1..Len(file[s]) /\ file'[s][k] = file[s][k + d[s]]
             /\ (s = p => k + d[s] # 1)
  <2>1. CASE s = p
    BY <1>2, <1>3, <1>4, <1>5, <2>1 DEF l
  <2>2. CASE s # p
    <3>1. d[s] = 0 /\ file'[s] = file[s] /\ k + 0 = k
      BY <1>2, <1>3, <2>2
    <3>. QED BY <2>2, <3>1
  <2>. QED BY <2>1, <2>2
<1>9. ASSUME NEW s \in Pairs, NEW k \in 1..Len(file[s]), s = p => k # 1
      PROVE  k - d[s] \in 1..Len(file'[s]) /\ file'[s][k - d[s]] = file[s][k]
  <2>1. CASE s = p
    BY <1>2, <1>3, <1>6, <1>9, <2>1 DEF l
  <2>2. CASE s # p
    <3>1. d[s] = 0 /\ file'[s] = file[s] /\ k - 0 = k
      BY <1>2, <1>3, <2>2
    <3>. QED BY <2>2, <3>1
  <2>. QED BY <2>1, <2>2
<1>10. \A s \in Pairs : \A c \in ToSet(file'[s]) : c \in ToSet(file[s])
  BY <1>2, <1>7 DEF l
<1>11. Decalage(p, d)
  BY <1>3, <1>8, <1>9 DEF Decalage
<1>. QED BY <1>10, <1>11

LEMMA DemandesEntamees ==
  ASSUME Sain, NEW p \in Pairs, file[p] # <<>>, file' = [file EXCEPT ![p] = Tail(@)],
         etape[p] = "boucle", etape'[p] # "attend50", NEW a,
         \A n \in Pairs : n # p => etape'[n] = etape[n],
         \A n \in Pairs : n # a => recu'[n] = recu[n], UNCHANGED moi,
         \A t \in Pairs : service'[t].de = service[t].de \/ service'[t].de = a,
         IF Demande(file[p][1]) THEN file[p][1].de = a /\ recu'[a] # <<>> ELSE a \notin Pairs
  PROVE  DemandesUniques'
<1> DEFINE d == [s \in Pairs |-> IF s = p THEN 1 ELSE 0]
<1>1. /\ \A s \in Pairs : \A k \in 1..Len(file'[s]) :
            k + d[s] \in 1..Len(file[s]) /\ file'[s][k] = file[s][k + d[s]]
      /\ \A s \in Pairs : \A k \in 1..Len(file[s]) :
            (s = p => k # 1) => /\ k - d[s] \in 1..Len(file'[s])
                                /\ file'[s][k - d[s]] = file[s][k]
      /\ \A s \in Pairs : \A k \in 1..Len(file'[s]) : s = p => k + d[s] # 1
      /\ \A s \in Pairs : d[s] \in Nat
  <2>1. d = [s \in Pairs |-> IF s = p THEN 1 ELSE 0]
    OBVIOUS
  <2> HIDE DEF d
  <2>2. Decalage(p, d)
    BY <2>1, Entamee
  <2>. QED BY <2>2 DEF Decalage
<1> HIDE DEF d
<1>2. 1 \in 1..Len(file[p])
  <2>1. file[p] \in Seq(Connexions)
    BY SainFaits, DuPair
  <2>. QED BY <2>1
<1>3. ASSUME NEW s \in Pairs, NEW k \in 1..Len(file'[s]), Demande(file'[s][k])
      PROVE  /\ k + d[s] \in 1..Len(file[s]) /\ file'[s][k] = file[s][k + d[s]]
             /\ file'[s][k].de # a /\ file'[s][k].de # p /\ file'[s][k].de \in Pairs
             /\ file'[s][k].vif /\ etape[file'[s][k].de] = "attend50" /\ recu[file'[s][k].de] = <<>>
             /\ PairDe(file'[s][k].msgs[1]) = Pair(moi[file'[s][k].de], file'[s][k].de)
             /\ \A t \in Pairs : service[t].de # file'[s][k].de
  <2> DEFINE j == k + d[s]
      n == file[s][j].de
  <2>1. j \in 1..Len(file[s]) /\ file'[s][k] = file[s][j] /\ (s = p => j # 1)
    BY <1>1
  <2> HIDE DEF j
  <2>2. Demande(file[s][j])
    BY <1>3, <2>1
  <2>3. /\ n \in Pairs /\ file[s][j].vif /\ etape[n] = "attend50" /\ recu[n] = <<>>
        /\ PairDe(file[s][j].msgs[1]) = Pair(moi[n], n) /\ \A t \in Pairs : service[t].de # n
        /\ \A t \in Pairs : \A l \in 1..Len(file[t]) :
               Demande(file[t][l]) /\ file[t][l].de = n => t = s /\ l = j
    BY <2>1, <2>2, DemandeFaits
  <2>4. n # p
    BY <2>3
  <2>5. n # a
    <3>1. SUFFICES ASSUME n = a PROVE FALSE
      OBVIOUS
    <3>2. Demande(file[p][1]) /\ file[p][1].de = n
      BY <2>3, <3>1
    <3>3. p = s /\ 1 = j
      BY <1>2, <2>3, <3>2
    <3>. QED BY <2>1, <3>3
  <2>. QED BY <2>1, <2>3, <2>4, <2>5 DEF j
<1>4. ASSUME NEW s \in Pairs, NEW k \in 1..Len(file'[s]), Demande(file'[s][k])
      PROVE  /\ file'[s][k].vif /\ file'[s][k].de \in Pairs
             /\ etape'[file'[s][k].de] = "attend50" /\ recu'[file'[s][k].de] = <<>>
             /\ PairDe(file'[s][k].msgs[1]) = Pair(moi'[file'[s][k].de], file'[s][k].de)
             /\ \A t \in Pairs : service'[t].de # file'[s][k].de
  <2> DEFINE n == file'[s][k].de
  <2>1. /\ n # a /\ n # p /\ n \in Pairs
        /\ file'[s][k].vif /\ etape[n] = "attend50" /\ recu[n] = <<>>
        /\ PairDe(file'[s][k].msgs[1]) = Pair(moi[n], n)
        /\ \A t \in Pairs : service[t].de # n
    BY <1>3, <1>4
  <2>2. etape'[n] = "attend50" /\ recu'[n] = <<>> /\ moi'[n] = moi[n]
    <3> HIDE DEF n
    <3>. QED BY <2>1
  <2>3. \A t \in Pairs : service'[t].de # n
    <3> HIDE DEF n
    <3>. QED BY <2>1
  <2>. QED BY <2>1, <2>2, <2>3
<1>5. \A s, t \in Pairs : \A k \in 1..Len(file'[s]), l \in 1..Len(file'[t]) :
         Demande(file'[s][k]) /\ Demande(file'[t][l]) /\ file'[t][l].de = file'[s][k].de
             => t = s /\ l = k
  <2> TAKE s, t \in Pairs
  <2> TAKE k \in 1..Len(file'[s]), l \in 1..Len(file'[t])
  <2>0. SUFFICES ASSUME Demande(file'[s][k]), Demande(file'[t][l]),
                        file'[t][l].de = file'[s][k].de
                 PROVE  t = s /\ l = k
    OBVIOUS
  <2> DEFINE j == k + d[s]
    i == l + d[t]
  <2>1. /\ j \in 1..Len(file[s]) /\ file'[s][k] = file[s][j]
        /\ i \in 1..Len(file[t]) /\ file'[t][l] = file[t][i]
    BY <1>1
  <2>2. t = s /\ i = j
    <3> HIDE DEF i, j
    <3>1. Demande(file[s][j]) /\ Demande(file[t][i]) /\ file[t][i].de = file[s][j].de
      BY <2>0, <2>1
    <3>. QED BY <2>1, <3>1, SainFaits DEF DemandesUniques
  <2>3. d[s] \in Nat /\ k \in Int /\ l \in Int
    BY <1>1
  <2>. QED BY <2>2, <2>3
<1>6. ASSUME NEW n \in Pairs, etape'[n] = "attend50", recu'[n] = <<>>
      PROVE  \E s \in Pairs : \E k \in 1..Len(file'[s]) :
                Demande(file'[s][k]) /\ file'[s][k].de = n
  <2>1. n # p
    BY <1>6
  <2>2. n # a
    BY <1>6
  <2>3. Patiente(n)
    BY <1>6, <2>1, <2>2 DEF Patiente
  <2>4. PICK s \in Pairs : \E k \in 1..Len(file[s]) : Demande(file[s][k]) /\ file[s][k].de = n
    BY <2>3, SainFaits DEF DemandesUniques
  <2>5. PICK k \in 1..Len(file[s]) : Demande(file[s][k]) /\ file[s][k].de = n
    BY <2>4
  <2>6. s = p => k # 1
    BY <2>2, <2>5
  <2>7. k - d[s] \in 1..Len(file'[s]) /\ file'[s][k - d[s]] = file[s][k]
    BY <1>1, <2>6
  <2>. QED BY <2>5, <2>7
<1>7. \A s \in Pairs : \A k \in 1..Len(file'[s]) : Demande(file'[s][k]) =>
         /\ file'[s][k].vif /\ file'[s][k].de \in Pairs
         /\ etape'[file'[s][k].de] = "attend50" /\ recu'[file'[s][k].de] = <<>>
         /\ PairDe(file'[s][k].msgs[1]) = Pair(moi'[file'[s][k].de], file'[s][k].de)
         /\ \A t \in Pairs : service'[t].de # file'[s][k].de
  BY <1>4
<1>8. \A n \in Pairs : etape'[n] = "attend50" /\ recu'[n] = <<>> =>
         \E s \in Pairs : \E k \in 1..Len(file'[s]) :
             Demande(file'[s][k]) /\ file'[s][k].de = n
  BY <1>6
<1>. QED BY <1>5, <1>7, <1>8, DemandesApres

LEMMA ConnecteSuite ==
  ASSUME Sain, NEW p \in Pairs, Connecte(p)
  PROVE  SansPanne'
<1> DEFINE s0 == Head(candidats[p]).ip
    demande == rejoindre_enchere_mess4(moi[p], vue[p][1].ip, vue[p][1].port, <<>>)
    c == [de |-> p, vif |-> TRUE, msgs |-> Emis(<<demande>>)]
<1>0. Types /\ TypesDuService /\ SoiEnTete
      /\ DemandesUniques /\ ServicesAttendus /\ LecturesEnOrdre /\ NomsSinceres
  BY SainFaits
<1>1. /\ etape[p] \in {"cherche", "essaie"} /\ candidats[p] # <<>>
      /\ UNCHANGED <<moi, vue, service, recu>>
      /\ \/ file' = [file EXCEPT ![s0] = Append(@, c)] /\ etape' = [etape EXCEPT ![p] = "attend50"]
         \/ etape' = [etape EXCEPT ![p] = "essaie"] /\ UNCHANGED file
  BY DEF Connecte, Essaie, Va
<1>2. vue[p] = <<Pair(moi[p], p)>>
  BY <1>1, SeulSurLeChemin DEF EnChemin
<1>3. CASE etape' = [etape EXCEPT ![p] = "essaie"] /\ UNCHANGED file
  <2>1. etape'[p] = "essaie" /\ \A q \in Pairs : q # p => etape'[q] = etape[q]
    BY <1>0, <1>3 DEF Types
  <2>. QED BY <1>1, <1>2, <1>3, <2>1, Solitaire
<1>4. CASE /\ file' = [file EXCEPT ![s0] = Append(@, c)]
           /\ etape' = [etape EXCEPT ![p] = "attend50"]
  <2>1. etape'[p] = "attend50" /\ \A q \in Pairs : q # p => etape'[q] = etape[q]
    BY <1>0, <1>4 DEF Types
  <2>2. s0 \in Pairs
    <3>1. candidats[p] \in Seq(PairsPossibles)
      BY <1>0, DuPair
    <3>2. candidats[p][1] \in PairsPossibles /\ Head(candidats[p]) = candidats[p][1]
      BY <1>1, <3>1
    <3>. QED BY <3>2 DEF PairsPossibles
  <2>3. c \in Connexions /\ c.de = p /\ c.vif /\ Demande(c) /\ PairDe(c.msgs[1]) = Pair(moi[p], p)
    <3>1. moi[p] \in Ids /\ demande = [suffixe_info(moi[p], p, LIAISON_PORT, <<>>) EXCEPT !.code = 5]
      BY <1>0, <1>2, DuPair DEF Pair, rejoindre_enchere_mess4
    <3> HIDE DEF demande
    <3>2. /\ Emis(<<demande>>) = <<demande>> /\ demande \in Messages /\ demande.code = 5
          /\ Nomme(demande) /\ PairDe(demande) = Pair(moi[p], p)
      BY <3>1, Presentation
    <3>3. <<demande>> \in Seq(Messages) /\ <<demande>>[1] = demande /\ Len(<<demande>>) = 1
      BY <3>2
    <3>4. c = [de |-> p, vif |-> TRUE, msgs |-> <<demande>>]
      BY <3>2
    <3>. QED BY <3>2, <3>3, <3>4 DEF Connexions, Demande
  <2> HIDE DEF s0, c
  <2>4. \A s \in Pairs : \A x \in ToSet(file'[s]) : x \in ToSet(file[s]) \/ x = c
    BY <1>0, <1>4, <2>2, <2>3, Ajoutee
  <2>5. DemandesUniques'
    BY <1>1, <1>4, <2>1, <2>2, <2>3, DemandesConnecte
  <2>6. recu[p] = <<>>
    BY <1>0, <1>1 DEF LecturesEnOrdre
  <2>7. LecturesEnOrdre'
    <3>1. 1..Len(recu'[p]) = {}
      BY <1>1, <2>6
    <3>. QED BY <1>0, <1>1, <2>1, <2>6, <3>1, LecturesApres
  <2>8. \A q \in Pairs : Garde(q)
    <3>1. \A q \in Pairs : q # p => Garde(q)
      BY <1>1, <2>1, GardePareil
    <3>2. Garde(p)
      BY <1>1 DEF Garde, Inconnu
    <3>. QED BY <3>1, <3>2
  <2>9. ServicesAttendus'
    <3>1. \A s \in Pairs : etape'[s] \notin {"annonce", "dort"} => service'[s] = RienAServir
      BY <1>0, <1>1, <2>1 DEF ServicesAttendus
    <3>2. ASSUME NEW s \in Pairs, NEW q \in Pairs, etape'[s] = "annonce", q = service[s].de
          PROVE  \/ etape'[q] = "attend50" /\ Len(recu'[q]) = 1
                 \/ etape'[q] = "attend7" /\ recu'[q] = <<>>
      <4>1. etape[s] = "annonce"
        BY <2>1, <3>2
      <4>2. \/ etape[q] = "attend50" /\ Len(recu[q]) = 1
            \/ etape[q] = "attend7" /\ recu[q] = <<>>
        BY <1>0, <3>2, <4>1 DEF ServicesAttendus
      <4>3. q # p
        BY <1>1, <4>2
      <4>. QED BY <1>1, <2>1, <4>2, <4>3
    <3>3. \A s \in Pairs : /\ etape'[s] \in {"annonce", "dort"} => etape[s] \in {"annonce", "dort"}
                           /\ etape'[s] = "annonce" => etape[s] = "annonce"
                           /\ service'[s] = service[s]
      BY <1>1, <2>1
    <3>. QED BY <1>0, <2>8, <3>1, <3>2, <3>3, ServicesApres
  <2>10. NomsSinceres'
    <3>1. \A s \in Pairs : etape'[s] \in EnChemin => vue'[s] = <<Pair(moi'[s], s)>>
      BY <1>0, <1>1, <1>2, <2>1 DEF NomsSinceres
    <3>2. \A s \in Pairs : etape'[s] = "absent" => vue'[s] = <<>>
      BY <1>0, <1>1, <2>1 DEF NomsSinceres
    <3>3. ASSUME NEW s \in Pairs, etape'[s] \notin EnChemin, NEW x \in ToSet(vue'[s])
          PROVE  etape[s] \notin EnChemin /\ x \in ToSet(vue[s])
      BY <1>1, <2>1, <3>3 DEF EnChemin
    <3>4. \A s \in Pairs : etape'[s] = "annonce" =>
                etape[s] = "annonce" /\ service'[s].pair = service[s].pair
      BY <1>1, <2>1
    <3>5. ~Annonce(c)
      BY <2>3 DEF Annonce, Demande
    <3>6. \A s \in Pairs : \A x \in ToSet(file'[s]) : Annonce(x) => x \in ToSet(file[s])
      BY <2>4, <3>5
    <3>7. \A s \in Pairs : recu'[s] = recu[s]
      BY <1>1
    <3>. QED BY <1>0, <2>8, <3>1, <3>2, <3>3, <3>4, <3>6, <3>7, NomsApres
  <2>. QED BY <2>5, <2>7, <2>9, <2>10 DEF SansPanne
<1>. QED BY <1>1, <1>3, <1>4

\* The sponsor takes the request of a newcomer, which reads one answer.
Accueille(p, c, n, id, e) ==
    /\ n = c.de /\ n # p /\ etape[n] = "attend50" /\ recu[n] = <<>>
    /\ \A t \in Pairs : service[t].de # n
    /\ recu'[n] = <<e>> /\ EstReponse(e)
    /\ IF id = moi[n] THEN e[1].code = 50 ELSE e[1].code = 51 /\ e[1].id = id
    /\ service'[p].de = n /\ service'[p].vif /\ service'[p].pair = Pair(id, n)
    /\ etape'[p] = "annonce" /\ \A q \in Pairs : q # n => recu'[q] = recu[q]
    /\ \A q \in Pairs : q # p => etape'[q] = etape[q] /\ service'[q] = service[q]
    /\ service'[p].reste = APrevenir(p, id)

LEMMA Accueil ==
  ASSUME Sain, NEW p \in Pairs, etape[p] = "boucle", file[p] # <<>>,
         NEW c, c = file[p][1], Demande(c), handle_new_peer_connection(p, c, c.msgs[1]),
         pannes' = 0
  PROVE  \E n \in Pairs : \E id \in Ids : \E e \in Envois : Accueille(p, c, n, id, e)
<1> DEFINE m == c.msgs[1]
    n == c.de
<1>1. Types /\ TypesDuService /\ SoiEnTete /\ pannes = 0
  BY SainFaits
<1>2. /\ c \in Connexions /\ m.id \in Ids
  BY <1>1, TeteDeFile
<1>3. 1 \in 1..Len(file[p])
  <2>1. file[p] \in Seq(Connexions)
    BY <1>1, DuPair
  <2>. QED BY <2>1
<1>4. /\ n \in Pairs /\ c.vif /\ etape[n] = "attend50" /\ recu[n] = <<>>
      /\ PairDe(m) = Pair(moi[n], n) /\ \A t \in Pairs : service[t].de # n
  BY <1>3, DemandeFaits
<1>5. m.id = moi[n]
  BY <1>4 DEF PairDe, Pair
<1>6. PICK id \in Identifiants(p, m.id) :
        /\ \E reponse \in Reponses(m, id) : Transmet(c, reponse)
        /\ service' = [service EXCEPT ![p] =
               [de |-> c.de, vif |-> c.vif, pair |-> [PairDe(m) EXCEPT !.id = id],
                reste |-> APrevenir(p, id)]]
        /\ Va(p, "annonce")
  BY DEF handle_new_peer_connection
<1>7. id \in Ids
  BY <1>2, <1>6, IdentifiantPossible
<1>8. PICK e \in Reponses(m, id) : Transmet(c, e)
  BY <1>6
<1>9. e # Refus /\ recu' = [recu EXCEPT ![n] = Append(@, e)]
  <2>1. pannes' = IF e = Refus \/ Rompue(e) THEN pannes + 1 ELSE pannes
    BY <1>8 DEF Transmet
  <2>2. e # Refus
    BY <1>1, <2>1
  <2>3. recu' = [recu EXCEPT ![c.de] = IF c.vif /\ e # Refus THEN Append(@, e) ELSE @]
    BY <1>8 DEF Transmet
  <2>. QED BY <1>4, <2>2, <2>3
<1>10. e \in Envois /\ EstReponse(e)
       /\ IF id = moi[n] THEN e[1].code = 50 ELSE e[1].code = 51 /\ e[1].id = id
  <2>1. e \in Envois
    BY <1>7, <1>8, <1>9, ReponseEnvoi
  <2>2. IF id = m.id THEN e[1].code = 50 ELSE e[1].code = 51 /\ e[1].id = id
    BY <1>7, <1>8, <1>9, ReponseEcrite
  <2>. QED BY <1>5, <2>1, <2>2 DEF EstReponse
<1>11. [PairDe(m) EXCEPT !.id = id] = Pair(id, n)
  BY <1>4 DEF Pair
<1> HIDE DEF m, n
<1>12. recu'[n] = <<e>> /\ \A q \in Pairs : q # n => recu'[q] = recu[q]
  <2>1. recu'[n] = Append(recu[n], e) /\ \A q \in Pairs : q # n => recu'[q] = recu[q]
    BY <1>1, <1>4, <1>9 DEF Types
  <2>. QED BY <1>4, <2>1
<1>13. /\ service'[p].de = n /\ service'[p].vif /\ service'[p].pair = Pair(id, n)
       /\ service'[p].reste = APrevenir(p, id)
       /\ \A q \in Pairs : q # p => service'[q] = service[q]
  <2> DEFINE v == [de |-> n, vif |-> c.vif, pair |-> Pair(id, n), reste |-> APrevenir(p, id)]
  <2>1. v.de = n /\ v.vif /\ v.pair = Pair(id, n) /\ v.reste = APrevenir(p, id)
    BY <1>4
  <2>2. service' = [service EXCEPT ![p] = v]
    BY <1>6, <1>11 DEF n
  <2> HIDE DEF v
  <2>3. service'[p] = v /\ \A q \in Pairs : q # p => service'[q] = service[q]
    BY <1>1, <2>2 DEF Types
  <2>. QED BY <2>1, <2>3
<1>14. etape'[p] = "annonce" /\ \A q \in Pairs : q # p => etape'[q] = etape[q]
  BY <1>1, <1>6 DEF Va, Types
<1>15. n # p
  BY <1>4
<1>16. n = c.de
  BY DEF n
<1>17. Accueille(p, c, n, id, e)
  BY <1>4, <1>10, <1>12, <1>13, <1>14, <1>15, <1>16 DEF Accueille
<1>. QED BY <1>4, <1>7, <1>10, <1>17

LEMMA AccueilSuite ==
  ASSUME Sain, NEW p \in Pairs, etape[p] = "boucle", file[p] # <<>>,
         file' = [file EXCEPT ![p] = Tail(@)], UNCHANGED <<moi, vue>>,
         Demande(file[p][1]), handle_new_peer_connection(p, file[p][1], file[p][1].msgs[1]),
         pannes' = 0
  PROVE  SansPanne'
<1>0. Types /\ TypesDuService /\ SoiEnTete
      /\ DemandesUniques /\ ServicesAttendus /\ LecturesEnOrdre /\ NomsSinceres
  BY SainFaits
<1>1. PICK n \in Pairs, id \in Ids, e \in Envois :
            /\ n = file[p][1].de /\ n # p /\ etape[n] = "attend50" /\ recu[n] = <<>>
            /\ \A t \in Pairs : service[t].de # n
            /\ recu'[n] = <<e>> /\ EstReponse(e)
            /\ IF id = moi[n] THEN e[1].code = 50 ELSE e[1].code = 51 /\ e[1].id = id
            /\ service'[p].de = n /\ service'[p].vif /\ service'[p].pair = Pair(id, n)
            /\ etape'[p] = "annonce" /\ \A q \in Pairs : q # n => recu'[q] = recu[q]
            /\ \A q \in Pairs : q # p => etape'[q] = etape[q] /\ service'[q] = service[q]
  <2> DEFINE c == file[p][1]
  <2>1. c = file[p][1] /\ Demande(c) /\ handle_new_peer_connection(p, c, c.msgs[1])
    OBVIOUS
  <2> HIDE DEF c
  <2>2. \E n \in Pairs : \E id \in Ids : \E e \in Envois : Accueille(p, c, n, id, e)
    BY <2>1, Accueil
  <2>. QED BY <2>1, <2>2 DEF Accueille
<1>2. etape'[n] = "attend50" /\ recu'[n] # <<>> /\ Len(recu'[n]) = 1 /\ recu'[n][1] = e
  BY <1>1
<1>3. DemandesUniques'
  <2>1. etape'[p] # "attend50" /\ \A q \in Pairs : q # p => etape'[q] = etape[q]
    BY <1>1
  <2>2. \A t \in Pairs : service'[t].de = service[t].de \/ service'[t].de = n
    BY <1>1
  <2>3. IF Demande(file[p][1]) THEN file[p][1].de = n /\ recu'[n] # <<>> ELSE n \notin Pairs
    BY <1>1, <1>2
  <2>4. UNCHANGED moi /\ \A q \in Pairs : q # n => recu'[q] = recu[q]
    BY <1>1
  <2>. QED BY <2>1, <2>2, <2>3, <2>4, DemandesEntamees
<1>4. LecturesEnOrdre'
  <2>1. \A q \in Pairs : q # n /\ q # p => etape'[q] = etape[q] /\ recu'[q] = recu[q]
    BY <1>1
  <2>2. recu[p] = <<>> /\ recu'[p] = <<>>
    BY <1>0, <1>1 DEF LecturesEnOrdre
  <2>3. ASSUME NEW q \in Pairs
        PROVE  /\ etape'[q] # "mort"
               /\ recu'[q] # <<>> => etape'[q] \in {"attend50", "attend7"}
               /\ \A k \in 1..Len(recu'[q]) :
                     EstReponse(recu'[q][k]) <=> etape'[q] = "attend50" /\ k = 1
    <3>1. CASE q = n
      <4>1. \A k \in 1..Len(recu'[n]) : k = 1
        BY <1>2
      <4>. QED BY <1>1, <1>2, <3>1, <4>1
    <3>2. CASE q = p
      <4>1. 1..Len(recu'[p]) = {}
        BY <2>2
      <4>. QED BY <1>1, <2>2, <3>2, <4>1
    <3>3. CASE q # n /\ q # p
      BY <1>0, <2>1, <3>3 DEF LecturesEnOrdre
    <3>. QED BY <3>1, <3>2, <3>3
  <2>. QED BY <2>3 DEF LecturesEnOrdre
<1>5. Inconnu(n) /\ ~Inconnu(n)' /\ IdFinal(n)' = id
  <2>1. Inconnu(n)
    BY <1>1 DEF Inconnu, Patiente
  <2>2. ~Inconnu(n)'
    BY <1>2 DEF Inconnu, Patiente
  <2>3. Reponse(n)' = e[1]
    BY <1>2 DEF Reponse
  <2>4. Changera(n)' <=> e[1].code = 51
    BY <1>2, <2>3 DEF Changera
  <2>5. moi'[n] = moi[n]
    OBVIOUS
  <2>6. CASE id = moi[n]
    <3>1. ~Changera(n)'
      BY <1>1, <2>4, <2>6
    <3>. QED BY <2>1, <2>2, <2>5, <2>6, <3>1 DEF IdFinal
  <2>7. CASE id # moi[n]
    <3>1. Changera(n)' /\ e[1].id = id
      BY <1>1, <2>4, <2>7
    <3>. QED BY <2>1, <2>2, <2>3, <3>1 DEF IdFinal
  <2>. QED BY <2>6, <2>7
<1>6. \A q \in Pairs : Garde(q)
  <2>1. \A q \in Pairs : q # n /\ q # p => Garde(q)
    BY <1>1, GardePareil
  <2>2. Garde(n)
    BY <1>5 DEF Garde
  <2>3. ~Inconnu(p) /\ ~Inconnu(p)' /\ IdFinal(p)' = IdFinal(p)
    BY <1>1 DEF Inconnu, Patiente, IdFinal, Changera
  <2>4. Garde(p)
    BY <2>3 DEF Garde
  <2>. QED BY <2>1, <2>2, <2>4
<1>7. \A s \in Pairs : s = p => Sincere(service[s].pair)'
  <2> DEFINE x == Pair(id, n)
  <2>1. x.ip = n /\ x.id = id /\ service'[p].pair = x
    BY <1>1 DEF Pair
  <2> HIDE DEF x
  <2>2. ~Inconnu(x.ip)' /\ x.id = IdFinal(x.ip)'
    BY <1>5, <2>1
  <2>3. \A y : y = x => ~Inconnu(y.ip)' /\ y.id = IdFinal(y.ip)'
    BY <2>2
  <2>4. \A s \in Pairs : s = p => service'[s].pair = x
    BY <2>1
  <2>. QED BY <2>3, <2>4 DEF Sincere, Inconnu, Patiente, IdFinal, Changera, Reponse
<1>8. ServicesAttendus'
  <2>1. ASSUME NEW s \in Pairs, s # p
        PROVE  /\ etape'[s] \notin {"annonce", "dort"} => service'[s] = RienAServir
               /\ etape'[s] \in {"annonce", "dort"} => ~Inconnu(service[s].de)'
               /\ etape'[s] = "annonce" =>
                    /\ service'[s].vif /\ service'[s].pair.ip = service'[s].de
                    /\ \/ etape'[service'[s].de] = "attend50" /\ Len(recu'[service'[s].de]) = 1
                       \/ etape'[service'[s].de] = "attend7" /\ recu'[service'[s].de] = <<>>
                    /\ \A t \in Pairs : service'[t].de = service'[s].de => t = s
    <3>1. etape'[s] = etape[s] /\ service'[s] = service[s]
      BY <1>1, <2>1
    <3> DEFINE q == service[s].de
    <3>2. etape[s] \notin {"annonce", "dort"} => service[s] = RienAServir
      BY <1>0 DEF ServicesAttendus
    <3>3. ASSUME etape[s] \in {"annonce", "dort"}
          PROVE  q \in Pairs /\ ~Inconnu(q) /\ q # n
      <4>1. q \in Pairs
        BY <1>0, <3>3 DEF TypesDuService
      <4>2. ~Inconnu(q)
        BY <1>0, <3>3 DEF ServicesAttendus
      <4>. QED BY <1>1, <4>1, <4>2
    <3>4. ASSUME etape[s] \in {"annonce", "dort"} PROVE ~Inconnu(service[s].de)'
      <4>1. \A x \in Pairs : x = q => ~Inconnu(x)'
        BY <1>6, <3>3, <3>4 DEF Garde
      <4>2. \A x \in Pairs : x = service'[s].de => ~Inconnu(x)'
        BY <3>1, <4>1
      <4>3. service'[s].de \in Pairs
        BY <3>1, <3>3, <3>4
      <4>. QED BY <4>2, <4>3 DEF Inconnu, Patiente
    <3>5. ASSUME etape[s] = "annonce"
          PROVE  /\ service[s].vif /\ service[s].pair.ip = q
                 /\ \/ etape'[q] = "attend50" /\ Len(recu'[q]) = 1
                    \/ etape'[q] = "attend7" /\ recu'[q] = <<>>
                 /\ \A t \in Pairs : service'[t].de = q => t = s
      <4>1. /\ service[s].vif /\ service[s].pair.ip = q
            /\ \/ etape[q] = "attend50" /\ Len(recu[q]) = 1
               \/ etape[q] = "attend7" /\ recu[q] = <<>>
            /\ \A t \in Pairs : service[t].de = q => t = s
        BY <1>0, <3>5 DEF ServicesAttendus
      <4>2. q \in Pairs /\ q # n
        BY <3>3, <3>5
      <4>3. q # p
        BY <4>1
      <4> HIDE DEF q
      <4>4. etape'[q] = etape[q] /\ recu'[q] = recu[q]
        BY <1>1, <4>2, <4>3
      <4>5. \A t \in Pairs : service'[t].de = q => t # p /\ service[t].de = q
        BY <1>1, <4>2
      <4>. QED BY <4>1, <4>4, <4>5
    <3>. QED BY <3>1, <3>2, <3>4, <3>5
  <2>2. /\ etape'[p] = "annonce" /\ service'[p].vif /\ service'[p].pair.ip = service'[p].de
        /\ service'[p].de = n
    BY <1>1 DEF Pair
  <2>3. ~Inconnu(service[p].de)'
    <3>1. \A x : x = service'[p].de => ~Inconnu(x)'
      BY <1>5, <2>2
    <3>. QED BY <2>2, <3>1 DEF Inconnu, Patiente
  <2>4. etape'[service'[p].de] = "attend50" /\ Len(recu'[service'[p].de]) = 1
    BY <1>2, <2>2
  <2>5. \A t \in Pairs : service'[t].de = service'[p].de => t = p
    BY <1>1, <2>2
  <2>. QED BY <2>1, <2>2, <2>3, <2>4, <2>5 DEF ServicesAttendus
<1>9. NomsSinceres'
  <2>1. \A s \in Pairs : etape'[s] \in EnChemin => vue'[s] = <<Pair(moi'[s], s)>>
    BY <1>0, <1>1 DEF NomsSinceres, EnChemin
  <2>2. \A s \in Pairs : etape'[s] = "absent" => vue'[s] = <<>>
    BY <1>0, <1>1 DEF NomsSinceres
  <2>3. ASSUME NEW s \in Pairs, etape'[s] \notin EnChemin, NEW x \in ToSet(vue'[s])
        PROVE  etape[s] \notin EnChemin /\ x \in ToSet(vue[s])
    BY <1>1, <2>3 DEF EnChemin
  <2>4. ASSUME NEW s \in Pairs, etape'[s] = "annonce"
        PROVE  \/ etape[s] = "annonce" /\ service'[s].pair = service[s].pair
               \/ Sincere(service[s].pair)'
    <3>1. CASE s = p
      BY <1>7, <3>1
    <3>2. CASE s # p
      BY <1>1, <2>4, <3>2
    <3>. QED BY <3>1, <3>2
  <2>5. \A s \in Pairs : \A x \in ToSet(file'[s]) : x \in ToSet(file[s])
    <3> DEFINE d == [s \in Pairs |-> IF s = p THEN 1 ELSE 0]
    <3>1. d = [s \in Pairs |-> IF s = p THEN 1 ELSE 0]
      OBVIOUS
    <3> HIDE DEF d
    <3>. QED BY <3>1, Entamee
  <2>6. \A s \in Pairs : \A x \in ToSet(recu'[s]) : EstListe(x) => x \in ToSet(recu[s])
    <3>1. ASSUME NEW x \in ToSet(recu'[n]) PROVE ~EstListe(x)
      <4>1. x = e
        BY <1>1, <3>1, UneEntree
      <4>. QED BY <1>1, <4>1 DEF EstListe, EstReponse
    <3>. QED BY <1>1, <3>1
  <2>. QED BY <1>0, <1>6, <2>1, <2>2, <2>3, <2>4, <2>5, <2>6, NomsApres
<1>. QED BY <1>3, <1>4, <1>8, <1>9 DEF SansPanne

\* The sponsor reads an announcement: the peer it names is one that a sponsor
\* accepted.
LEMMA LectureSuite ==
  ASSUME Sain, NEW p \in Pairs, etape[p] = "boucle", file[p] # <<>>,
         file' = [file EXCEPT ![p] = Tail(@)], Annonce(file[p][1]),
         NEW m, m = file[p][1].msgs[1],
         vue' = [vue EXCEPT ![p] = handle_code6_message(@, PairDe(m))],
         UNCHANGED <<etape, moi, service, recu>>
  PROVE  SansPanne'
<1>0. Types /\ TypesDuService /\ SoiEnTete
      /\ DemandesUniques /\ ServicesAttendus /\ LecturesEnOrdre /\ NomsSinceres
  BY SainFaits
<1> DEFINE d == [s \in Pairs |-> IF s = p THEN 1 ELSE 0]
<1>1. \A s \in Pairs : \A c \in ToSet(file'[s]) : c \in ToSet(file[s])
  <2>1. d = [s \in Pairs |-> IF s = p THEN 1 ELSE 0]
    OBVIOUS
  <2> HIDE DEF d
  <2>. QED BY <2>1, Entamee
<1>2. \A q \in Pairs : Garde(q)
  BY GardePareil
<1>3. DemandesUniques'
  <2>1. ~Demande(file[p][1])
    BY DEF Demande, Annonce
  <2>2. Personne \notin Pairs
    BY Constantes
  <2>3. IF Demande(file[p][1]) THEN file[p][1].de = Personne /\ recu'[Personne] # <<>>
                               ELSE Personne \notin Pairs
    BY <2>1, <2>2
  <2>4. UNCHANGED moi /\ \A q \in Pairs : q # Personne => recu'[q] = recu[q]
    OBVIOUS
  <2>5. \A t \in Pairs : service'[t].de = service[t].de \/ service'[t].de = Personne
    OBVIOUS
  <2>6. etape'[p] # "attend50" /\ \A q \in Pairs : q # p => etape'[q] = etape[q]
    OBVIOUS
  <2>. QED BY <2>3, <2>4, <2>5, <2>6, DemandesEntamees
<1>4. ServicesAttendus'
  BY <1>0 DEF ServicesAttendus, Inconnu, Patiente
<1>5. LecturesEnOrdre'
  BY <1>0 DEF LecturesEnOrdre
<1>6. Sincere(PairDe(m)) /\ PairDe(m) \in PairsPossibles
  <2>1. file[p] \in Seq(Connexions)
    BY <1>0, DuPair
  <2>2. 1 \in 1..Len(file[p])
    BY <2>1
  <2>3. file[p][1] \in ToSet(file[p])
    BY <2>2, DansLaFile
  <2>. QED BY <1>0, <2>2, <2>3, DansLaFile DEF NomsSinceres
<1>7. /\ \A q \in Pairs : q # p => vue'[q] = vue[q]
      /\ \A x \in ToSet(vue'[p]) : x \in ToSet(vue[p]) \/ x = PairDe(m)
  <2> DEFINE l == vue[p]
      n == PairDe(m)
      r == handle_code6_message(l, n)
  <2>1. l \in Seq(PairsPossibles) /\ n \in PairsPossibles
    BY <1>0, <1>6, DuPair
  <2>2. r = handle_code6_message(l, n)
    OBVIOUS
  <2>3. vue'[p] = r /\ \A q \in Pairs : q # p => vue'[q] = vue[q]
    BY <1>0 DEF Types
  <2> HIDE DEF l, n, r
  <2>4. r \in Seq(PairsPossibles) /\ \A k \in 1..Len(r) : Reste(r, k, n, l)
    BY <2>1, <2>2, Remplacement
  <2>5. ASSUME NEW x \in ToSet(r) PROVE x \in ToSet(l) \/ x = n
    <3>1. PICK k \in 1..Len(r) : x = r[k]
      BY <2>4, <2>5 DEF ToSet
    <3>. QED BY <2>1, <2>4, <3>1 DEF ToSet, Reste
  <2>6. \A x \in ToSet(vue'[p]) : x \in ToSet(l) \/ x = n
    BY <2>3, <2>5
  <2>. QED BY <2>3, <2>6 DEF l, n
<1>8. NomsSinceres'
  <2>1. \A s \in Pairs : etape'[s] \in EnChemin => vue'[s] = <<Pair(moi'[s], s)>>
    BY <1>0, <1>7 DEF NomsSinceres, EnChemin
  <2>2. \A s \in Pairs : etape'[s] = "absent" => vue'[s] = <<>>
    BY <1>0, <1>7 DEF NomsSinceres
  <2>3. ASSUME NEW s \in Pairs, etape'[s] \notin EnChemin, NEW x \in ToSet(vue'[s])
        PROVE  Sincere(x)' \/ (etape[s] \notin EnChemin /\ x \in ToSet(vue[s]))
    <3>1. CASE s # p
      BY <1>7, <2>3, <3>1
    <3>2. CASE s = p /\ x = PairDe(m)
      BY <1>2, <1>6, <3>2, SincereApres
    <3>. QED BY <1>7, <2>3, <3>1, <3>2
  <2>4. \A s \in Pairs : etape'[s] = "annonce" =>
                etape[s] = "annonce" /\ service'[s].pair = service[s].pair
    OBVIOUS
  <2>. QED BY <1>0, <1>1, <1>2, <2>1, <2>2, <2>3, <2>4, NomsApres
<1>. QED BY <1>3, <1>4, <1>5, <1>8 DEF SansPanne

LEMMA EntrantSuite ==
  ASSUME Sain, NEW p \in Pairs, handle_incoming_tcp(p), pannes' = 0
  PROVE  SansPanne'
<1> DEFINE c == file[p][1]
    m == c.msgs[1]
<1>1. Types /\ SoiEnTete
  BY SainFaits
<1>2. /\ etape[p] = "boucle" /\ file[p] # <<>> /\ file' = [file EXCEPT ![p] = Tail(@)]
      /\ UNCHANGED moi
  BY DEF handle_incoming_tcp
<1>3. Head(file[p]) = c
  BY <1>1, <1>2, TeteDeFile
<1>4. \/ m.code = 5 /\ handle_new_peer_connection(p, c, m) /\ UNCHANGED vue
      \/ /\ m.code = 6 /\ vue' = [vue EXCEPT ![p] = handle_code6_message(@, PairDe(m))]
         /\ UNCHANGED <<etape, service, recu>>
  BY <1>3 DEF handle_incoming_tcp
<1>5. CASE m.code = 5 /\ handle_new_peer_connection(p, c, m) /\ UNCHANGED vue
  <2>1. Demande(c)
    BY <1>5 DEF Demande
  <2>. QED BY <1>2, <1>5, <2>1, AccueilSuite
<1>6. CASE /\ m.code = 6 /\ vue' = [vue EXCEPT ![p] = handle_code6_message(@, PairDe(m))]
           /\ UNCHANGED <<etape, service, recu>>
  <2>1. Annonce(c) /\ m = file[p][1].msgs[1]
    BY <1>6 DEF Annonce
  <2> HIDE DEF m
  <2>. QED BY <1>2, <1>6, <2>1, LectureSuite DEF c
<1>. QED BY <1>4, <1>5, <1>6

\* What the sponsor announces is the newcomer under the identifier it gave it.
LEMMA DiffusionSuite ==
  ASSUME Sain, NEW p \in Pairs, broadcast_to_peers(p)
  PROVE  SansPanne'
<1>0. Types /\ TypesDuService /\ SoiEnTete
      /\ DemandesUniques /\ ServicesAttendus /\ LecturesEnOrdre /\ NomsSinceres
  BY SainFaits
<1>1. PICK q \in Pairs, m \in Messages, f \in Connexions :
            /\ f = [de |-> p, vif |-> FALSE, msgs |-> <<m>>] /\ m.code = 6
            /\ PairDe(m) = service[p].pair /\ Nomme(m)
            /\ (file' = [file EXCEPT ![q] = Append(@, f)] \/ file' = file)
            /\ service' = [service EXCEPT ![p].reste = @ \ {PlusPetit(@)}]
            /\ etape[p] = "annonce" /\ service[p].reste # {}
            /\ UNCHANGED <<etape, nouveau, moi, vue, udp, recu, pannes>>
  BY <1>0, Tour
<1>2. UNCHANGED <<etape, moi, vue, recu>>
  BY <1>1
<1>3. \A s \in Pairs : /\ service'[s].de = service[s].de /\ service'[s].vif = service[s].vif
                       /\ service'[s].pair = service[s].pair
                       /\ s # p => service'[s] = service[s]
  <2> DEFINE v == [service[p] EXCEPT !.reste = @ \ {PlusPetit(@)}]
  <2>1. service' = [service EXCEPT ![p] = v]
    BY <1>1
  <2>2. service[p] \in Services
    BY <1>0, DuPair
  <2>3. v.de = service[p].de /\ v.vif = service[p].vif /\ v.pair = service[p].pair
    BY <2>2 DEF Services
  <2> HIDE DEF v
  <2>4. service'[p] = v /\ \A s \in Pairs : s # p => service'[s] = service[s]
    BY <1>0, <2>1 DEF Types
  <2>. QED BY <2>3, <2>4
<1>4. \A n \in Pairs : Garde(n) /\ (Patiente(n)' <=> Patiente(n))
  BY <1>2, GardePareil
<1>5. Annonce(f) /\ PairDe(f.msgs[1]) = service[p].pair
  BY <1>1 DEF Annonce
<1>6. DemandesUniques'
  <2>1. CASE file' = file
    <3>1. \A t \in Pairs : service'[t].de = service[t].de \/ service'[t].de \notin Pairs
      BY <1>3
    <3>2. \A n \in Pairs : Patiente(n) => moi'[n] = moi[n]
      BY <1>2
    <3>. QED BY <1>0, <1>4, <2>1, <3>1, <3>2, DemandesPareilles
  <2>2. CASE file' = [file EXCEPT ![q] = Append(@, f)]
    BY <1>2, <1>3, <1>5, <2>2, DemandesAnnonce
  <2>. QED BY <1>1, <2>1, <2>2
<1>7. ServicesAttendus'
  <2>1. \A s \in Pairs : etape'[s] \notin {"annonce", "dort"} => service'[s] = RienAServir
    <3>1. ASSUME NEW s \in Pairs, etape'[s] \notin {"annonce", "dort"}
          PROVE  service'[s] = RienAServir
      <4>1. s # p /\ etape[s] \notin {"annonce", "dort"}
        BY <1>1, <1>2, <3>1
      <4>2. service[s] = RienAServir
        BY <1>0, <4>1 DEF ServicesAttendus
      <4>. QED BY <1>3, <4>1, <4>2
    <3>. QED BY <3>1
  <2>2. ASSUME NEW s \in Pairs, NEW n \in Pairs, etape'[s] = "annonce", n = service[s].de
        PROVE  \/ etape'[n] = "attend50" /\ Len(recu'[n]) = 1
               \/ etape'[n] = "attend7" /\ recu'[n] = <<>>
    <3>1. etape[s] = "annonce"
      BY <1>2, <2>2
    <3>2. \/ etape[n] = "attend50" /\ Len(recu[n]) = 1
          \/ etape[n] = "attend7" /\ recu[n] = <<>>
      BY <1>0, <2>2, <3>1 DEF ServicesAttendus
    <3>. QED BY <1>2, <3>2
  <2>3. \A s \in Pairs : etape'[s] = etape[s]
    BY <1>2
  <2>. QED BY <1>0, <1>3, <1>4, <2>1, <2>2, <2>3, ServicesApres
<1>8. LecturesEnOrdre'
  BY <1>0, <1>2 DEF LecturesEnOrdre
<1>9. NomsSinceres'
  <2>1. \A s \in Pairs : etape'[s] \in EnChemin => vue'[s] = <<Pair(moi'[s], s)>>
    BY <1>0, <1>2 DEF NomsSinceres
  <2>2. \A s \in Pairs : etape'[s] = "absent" => vue'[s] = <<>>
    BY <1>0, <1>2 DEF NomsSinceres
  <2>3. \A s \in Pairs : etape'[s] = etape[s] /\ vue'[s] = vue[s] /\ recu'[s] = recu[s]
    BY <1>2
  <2>4. \A s \in Pairs : etape'[s] = "annonce" =>
                etape[s] = "annonce" /\ service'[s].pair = service[s].pair
    BY <1>2, <1>3
  <2>5. Sincere(PairDe(f.msgs[1]))'
    <3> DEFINE x == service[p].pair
    <3>1. x \in PairsPossibles /\ Sincere(x)
      BY <1>0, <1>1 DEF TypesDuService, NomsSinceres
    <3>2. PairDe(f.msgs[1]) = x
      BY <1>5
    <3>3. \A y : y = x => y \in PairsPossibles /\ Sincere(y)
      BY <3>1
    <3>4. \A y : y = PairDe(f.msgs[1]) => y \in PairsPossibles /\ Sincere(y)
      BY <3>2, <3>3
    <3>. QED BY <1>4, <3>4, SincereApres
  <2>6. \A s \in Pairs : \A c \in ToSet(file'[s]) : c \in ToSet(file[s]) \/ c = f
    <3>1. CASE file' = file
      BY <3>1
    <3>2. CASE file' = [file EXCEPT ![q] = Append(@, f)]
      BY <1>0, <3>2, Ajoutee
    <3>. QED BY <1>1, <3>1, <3>2
  <2>7. ASSUME NEW s \in Pairs, NEW c \in ToSet(file'[s]), Annonce(c)
        PROVE  c \in ToSet(file[s]) \/ Sincere(PairDe(c.msgs[1]))'
    <3>1. CASE c = f
      BY <2>5, <3>1
    <3>. QED BY <2>6, <3>1
  <2>. QED BY <1>0, <1>4, <2>1, <2>2, <2>3, <2>4, <2>7, NomsApres
<1>. QED BY <1>6, <1>7, <1>8, <1>9 DEF SansPanne

\* What the sponsor writes to the newcomer that it announced to all.
EnvoieListe(p, n, liste) ==
    /\ n = service[p].de
    /\ etape[p] = "annonce" /\ etape' = [etape EXCEPT ![p] = "dort"]
    /\ vue'[p] \in Seq(PairsPossibles)
    /\ \A q \in Pairs : q # p => vue'[q] = vue[q]
    /\ UNCHANGED <<nouveau, moi, udp, file, service>>
    /\ n \in Pairs /\ service[p].pair \in PairsPossibles /\ Sincere(service[p].pair)
    /\ service[p].vif /\ moi[p] \in Ids /\ ~Inconnu(n)
    /\ \/ etape[n] = "attend50" /\ Len(recu[n]) = 1
       \/ etape[n] = "attend7" /\ recu[n] = <<>>
    /\ \A t \in Pairs : service[t].de = n => t = p
    /\ liste \in Seq(Messages) /\ Len(liste) = Len(vue'[p]) + 1
    /\ EstListe(liste) /\ ~EstReponse(liste) /\ liste \in Envois
    /\ \A j \in 2..Len(liste) : PairDe(liste[j]) = vue'[p][j - 1]
    /\ etape'[p] = "dort" /\ \A q \in Pairs : q # p => etape'[q] = etape[q]
    /\ recu'[n] = Append(recu[n], liste) /\ \A q \in Pairs : q # n => recu'[q] = recu[q]
    /\ recu[n] \in Seq(Envois) /\ n # p
    /\ Len(recu'[n]) = Len(recu[n]) + 1 /\ recu'[n] # <<>>
    /\ recu'[n][Len(recu[n]) + 1] = liste
    /\ \A k \in 1..Len(recu[n]) : recu'[n][k] = recu[n][k]
    /\ Len(recu[n]) \in Nat /\ ToSet(recu'[n]) = ToSet(recu[n]) \cup {liste}
    /\ ~Patiente(n) /\ ~Patiente(n)' /\ ~Inconnu(n)' /\ IdFinal(n)' = IdFinal(n)

LEMMA EnvoiListeFaits ==
  ASSUME Sain, NEW p \in Pairs, send_peer_list(p), pannes' = 0
  PROVE  \E n \in Pairs : \E liste \in Envois : EnvoieListe(p, n, liste)
<1>0. Types /\ TypesDuService /\ SoiEnTete
      /\ DemandesUniques /\ ServicesAttendus /\ LecturesEnOrdre /\ NomsSinceres
  BY SainFaits
<1>1. /\ etape[p] = "annonce" /\ etape' = [etape EXCEPT ![p] = "dort"]
      /\ vue'[p] \in Seq(PairsPossibles)
      /\ \A q \in Pairs : q # p => vue'[q] = vue[q]
      /\ UNCHANGED <<nouveau, moi, udp, file, service>>
  BY <1>0, ListeEnvoyee
<1>2. \A k \in 1..Len(vue'[p]) :
         vue'[p][k] = service[p].pair \/ (k \in 1..Len(vue[p]) /\ vue'[p][k] = vue[p][k])
  BY <1>0, ListeEnvoyee
<1>3. PICK liste \in Listes(p, vue'[p]) : Transmet(service[p], liste)
  BY <1>0, ListeEnvoyee
<1>n. PICK n : n = service[p].de
  OBVIOUS
<1>4. /\ n \in Pairs /\ service[p].pair \in PairsPossibles /\ Sincere(service[p].pair)
      /\ service[p].vif /\ moi[p] \in Ids /\ ~Inconnu(n)
      /\ \/ etape[n] = "attend50" /\ Len(recu[n]) = 1
         \/ etape[n] = "attend7" /\ recu[n] = <<>>
      /\ \A t \in Pairs : service[t].de = n => t = p
  <2>1. moi[p] \in Ids
    BY <1>0, DuPair
  <2>2. n \in Pairs /\ service[p].pair \in PairsPossibles /\ Sincere(service[p].pair)
    BY <1>0, <1>1, <1>n DEF TypesDuService, NomsSinceres
  <2>. QED BY <1>0, <1>1, <1>n, <2>1, <2>2 DEF ServicesAttendus
<1>5. liste # Refus /\ recu' = [recu EXCEPT ![n] = Append(@, liste)]
  <2>1. /\ pannes' = IF liste = Refus \/ Rompue(liste) THEN pannes + 1 ELSE pannes
        /\ recu' = [recu EXCEPT ![n] = IF service[p].vif /\ liste # Refus THEN Append(@, liste) ELSE @]
    BY <1>3, <1>n DEF Transmet
  <2>2. liste # Refus
    BY <2>1 DEF Sain
  <2>. QED BY <1>4, <1>n, <2>1, <2>2
<1>6. /\ liste \in Seq(Messages) /\ Len(liste) = Len(vue'[p]) + 1
      /\ EstListe(liste) /\ ~EstReponse(liste) /\ liste \in Envois
      /\ \A j \in 2..Len(liste) : PairDe(liste[j]) = vue'[p][j - 1]
  <2> DEFINE l == vue'[p]
  <2>1. l \in Seq(PairsPossibles) /\ liste \in Listes(p, l)
    BY <1>1, <1>3
  <2> HIDE DEF l
  <2>2. /\ liste \in Seq(Messages) /\ Len(liste) = Len(l) + 1 /\ liste[1].code = 7
        /\ \A j \in 2..Len(liste) : PairDe(liste[j]) = l[j - 1]
    BY <1>4, <1>5, <2>1, ListeEcrite
  <2>3. liste \in Envois
    BY <1>4, <1>5, <2>1, ListeEnvoi
  <2>. QED BY <2>2, <2>3 DEF l, EstListe, EstReponse
<1>7. /\ etape'[p] = "dort" /\ \A q \in Pairs : q # p => etape'[q] = etape[q]
      /\ recu'[n] = Append(recu[n], liste) /\ \A q \in Pairs : q # n => recu'[q] = recu[q]
      /\ recu[n] \in Seq(Envois) /\ n # p
  <2>1. recu[n] \in Seq(Envois)
    BY <1>0, <1>4, DuPair
  <2>. QED BY <1>0, <1>1, <1>4, <1>5, <2>1 DEF Types
<1>8. /\ Len(recu'[n]) = Len(recu[n]) + 1 /\ recu'[n] # <<>>
      /\ recu'[n][Len(recu[n]) + 1] = liste
      /\ \A k \in 1..Len(recu[n]) : recu'[n][k] = recu[n][k]
      /\ Len(recu[n]) \in Nat /\ ToSet(recu'[n]) = ToSet(recu[n]) \cup {liste}
  <2> DEFINE l == recu[n]
      r == Append(l, liste)
  <2>1. l \in Seq(Envois) /\ recu'[n] = r /\ liste \in Envois
    BY <1>6, <1>7
  <2> HIDE DEF l
  <2>2. /\ r \in Seq(Envois) /\ Len(r) = Len(l) + 1 /\ r # <<>> /\ r[Len(l) + 1] = liste /\ Len(l) \in Nat
        /\ \A k \in 1..Len(l) : r[k] = l[k]
    BY <2>1
  <2> HIDE DEF r
  <2>3. ToSet(r) = ToSet(l) \cup {liste}
    <3>1. \A k \in 1..Len(r) : k \in 1..Len(l) \/ k = Len(l) + 1
      BY <2>2
    <3>2. Len(l) + 1 \in 1..Len(r) /\ \A k \in 1..Len(l) : k \in 1..Len(r)
      BY <2>2
    <3>3. ToSet(l) = {l[k] : k \in 1..Len(l)} /\ ToSet(r) = {r[k] : k \in 1..Len(r)}
      BY <2>1, <2>2 DEF ToSet
    <3>. QED BY <2>2, <3>1, <3>2, <3>3
  <2>. QED BY <2>1, <2>2, <2>3 DEF l
<1>9. /\ ~Patiente(n) /\ ~Patiente(n)' /\ ~Inconnu(n)' /\ IdFinal(n)' = IdFinal(n)
  <2>1. ~Patiente(n)
    BY <1>4 DEF Inconnu
  <2>2. ~Patiente(n)' /\ ~Inconnu(n)'
    BY <1>4, <1>7, <1>8 DEF Patiente, Inconnu
  <2>3. CASE etape[n] = "attend50" /\ Len(recu[n]) = 1
    <3>1. recu[n] # <<>> /\ recu'[n][1] = recu[n][1]
      BY <1>7, <1>8, <2>3
    <3>2. (Changera(n)' <=> Changera(n)) /\ Reponse(n)' = Reponse(n) /\ moi'[n] = moi[n]
      BY <1>1, <1>7, <1>8, <2>3, <3>1 DEF Changera, Reponse
    <3>. QED BY <2>1, <2>2, <3>2 DEF IdFinal
  <2>4. CASE etape[n] = "attend7"
    <3>1. ~Changera(n)' /\ ~Changera(n) /\ moi'[n] = moi[n]
      BY <1>1, <1>7, <2>4 DEF Changera
    <3>. QED BY <2>1, <2>2, <3>1 DEF IdFinal
  <2>. QED BY <1>4, <2>3, <2>4
<1>. QED BY <1>n, <1>1, <1>4, <1>6, <1>7, <1>8, <1>9 DEF EnvoieListe

\* The list is sent: every name in it is one that others know already, or the
\* newcomer's.
LEMMA EnvoiListeSuite ==
  ASSUME Sain, NEW p \in Pairs, send_peer_list(p), pannes' = 0
  PROVE  SansPanne'
<1>0. Types /\ TypesDuService /\ SoiEnTete
      /\ DemandesUniques /\ ServicesAttendus /\ LecturesEnOrdre /\ NomsSinceres
  BY SainFaits
<1>3. PICK n \in Pairs, liste \in Envois : EnvoieListe(p, n, liste)
  BY EnvoiListeFaits
<1>n. n = service[p].de
  BY <1>3 DEF EnvoieListe
<1>1. /\ etape[p] = "annonce" /\ etape' = [etape EXCEPT ![p] = "dort"]
      /\ vue'[p] \in Seq(PairsPossibles)
      /\ \A q \in Pairs : q # p => vue'[q] = vue[q]
      /\ UNCHANGED <<nouveau, moi, udp, file, service>>
  BY <1>3 DEF EnvoieListe
<1>2. \A k \in 1..Len(vue'[p]) :
         vue'[p][k] = service[p].pair \/ (k \in 1..Len(vue[p]) /\ vue'[p][k] = vue[p][k])
  BY <1>0, ListeEnvoyee
<1>4. /\ n \in Pairs /\ service[p].pair \in PairsPossibles /\ Sincere(service[p].pair)
      /\ service[p].vif /\ moi[p] \in Ids /\ ~Inconnu(n)
      /\ \/ etape[n] = "attend50" /\ Len(recu[n]) = 1
         \/ etape[n] = "attend7" /\ recu[n] = <<>>
      /\ \A t \in Pairs : service[t].de = n => t = p
  BY <1>3 DEF EnvoieListe
<1>6. /\ liste \in Seq(Messages) /\ Len(liste) = Len(vue'[p]) + 1
      /\ EstListe(liste) /\ ~EstReponse(liste) /\ liste \in Envois
      /\ \A j \in 2..Len(liste) : PairDe(liste[j]) = vue'[p][j - 1]
  BY <1>3 DEF EnvoieListe
<1>7. /\ etape'[p] = "dort" /\ \A q \in Pairs : q # p => etape'[q] = etape[q]
      /\ recu'[n] = Append(recu[n], liste) /\ \A q \in Pairs : q # n => recu'[q] = recu[q]
      /\ recu[n] \in Seq(Envois) /\ n # p
  BY <1>3 DEF EnvoieListe
<1>8. /\ Len(recu'[n]) = Len(recu[n]) + 1 /\ recu'[n] # <<>>
      /\ recu'[n][Len(recu[n]) + 1] = liste
      /\ \A k \in 1..Len(recu[n]) : recu'[n][k] = recu[n][k]
      /\ Len(recu[n]) \in Nat /\ ToSet(recu'[n]) = ToSet(recu[n]) \cup {liste}
  BY <1>3 DEF EnvoieListe
<1>9. /\ ~Patiente(n) /\ ~Patiente(n)' /\ ~Inconnu(n)' /\ IdFinal(n)' = IdFinal(n)
  BY <1>3 DEF EnvoieListe
<1>10. \A q \in Pairs : Garde(q) /\ (Patiente(q)' <=> Patiente(q))
  <2>1. \A q \in Pairs : q # n /\ q # p => Garde(q) /\ (Patiente(q)' <=> Patiente(q))
    BY <1>1, <1>7, GardePareil
  <2>2. Garde(n) /\ (Patiente(n)' <=> Patiente(n))
    BY <1>9 DEF Garde
  <2>3. /\ ~Inconnu(p)' /\ IdFinal(p)' = IdFinal(p) /\ ~Patiente(p) /\ ~Patiente(p)'
    BY <1>1, <1>7 DEF Inconnu, Patiente, IdFinal, Changera
  <2>4. Garde(p) /\ (Patiente(p)' <=> Patiente(p))
    BY <2>3 DEF Garde
  <2>. QED BY <2>1, <2>2, <2>4
<1>11. DemandesUniques'
  <2>1. \A q \in Pairs : Patiente(q) => moi'[q] = moi[q]
    BY <1>1
  <2>2. \A t \in Pairs : service'[t].de = service[t].de
    BY <1>1
  <2>. QED BY <1>0, <1>1, <1>10, <2>1, <2>2, DemandesPareilles
<1>12. LecturesEnOrdre'
  <2>1. \A q \in Pairs : q # n /\ q # p => etape'[q] = etape[q] /\ recu'[q] = recu[q]
    BY <1>7
  <2>2. recu[p] = <<>> /\ recu'[p] = <<>>
    BY <1>0, <1>1, <1>7 DEF LecturesEnOrdre
  <2>3. ASSUME NEW q \in Pairs
        PROVE  /\ etape'[q] # "mort"
               /\ recu'[q] # <<>> => etape'[q] \in {"attend50", "attend7"}
               /\ \A k \in 1..Len(recu'[q]) :
                     EstReponse(recu'[q][k]) <=> etape'[q] = "attend50" /\ k = 1
    <3>1. CASE q = n
      <4>1. etape'[n] = etape[n] /\ etape[n] \in {"attend50", "attend7"}
        BY <1>4, <1>7
      <4>2. ASSUME NEW k \in 1..Len(recu'[n])
            PROVE  EstReponse(recu'[n][k]) <=> etape'[n] = "attend50" /\ k = 1
        <5>1. CASE k \in 1..Len(recu[n])
          BY <1>0, <1>4, <1>8, <4>1, <5>1 DEF LecturesEnOrdre
        <5>2. CASE k = Len(recu[n]) + 1
          <6>1. recu'[n][k] = liste
            BY <1>8, <5>2
          <6>2. ~(etape[n] = "attend50" /\ k = 1)
            <7>1. etape[n] = "attend50" => Len(recu[n]) = 1
              BY <1>4
            <7>2. Len(recu[n]) = 1 => k # 1
              BY <5>2
            <7>. QED BY <7>1, <7>2
          <6>. QED BY <1>6, <4>1, <6>1, <6>2
        <5>3. k \in 1..Len(recu[n]) \/ k = Len(recu[n]) + 1
          BY <1>8
        <5>. QED BY <5>1, <5>2, <5>3
      <4>. QED BY <3>1, <4>1, <4>2
    <3>2. CASE q = p
      <4>1. 1..Len(recu'[p]) = {}
        BY <2>2
      <4>. QED BY <1>7, <2>2, <3>2, <4>1
    <3>3. CASE q # n /\ q # p
      BY <1>0, <2>1, <3>3 DEF LecturesEnOrdre
    <3>. QED BY <3>1, <3>2, <3>3
  <2>. QED BY <2>3 DEF LecturesEnOrdre
<1>13. ServicesAttendus'
  <2>1. \A s \in Pairs : etape'[s] \notin {"annonce", "dort"} => service'[s] = RienAServir
    BY <1>0, <1>1, <1>7 DEF ServicesAttendus
  <2>2. ASSUME NEW s \in Pairs, NEW q \in Pairs, etape'[s] = "annonce", q = service[s].de
        PROVE  \/ etape'[q] = "attend50" /\ Len(recu'[q]) = 1
               \/ etape'[q] = "attend7" /\ recu'[q] = <<>>
    <3>1. s # p /\ etape[s] = "annonce"
      BY <1>7, <2>2
    <3>2. \/ etape[q] = "attend50" /\ Len(recu[q]) = 1
          \/ etape[q] = "attend7" /\ recu[q] = <<>>
      BY <1>0, <2>2, <3>1 DEF ServicesAttendus
    <3>3. q # n
      BY <1>4, <1>n, <2>2, <3>1
    <3>4. q # p
      BY <1>1, <3>2
    <3>. QED BY <1>7, <3>2, <3>3, <3>4
  <2>3. \A s \in Pairs : /\ etape'[s] \in {"annonce", "dort"} => etape[s] \in {"annonce", "dort"}
                         /\ etape'[s] = "annonce" => etape[s] = "annonce"
                         /\ service'[s] = service[s]
    BY <1>1, <1>7
  <2>. QED BY <1>0, <1>10, <2>1, <2>2, <2>3, ServicesApres
<1>14. \A k \in 1..Len(vue'[p]) : Sincere(vue'[p][k]) /\ vue'[p][k] \in PairsPossibles
  <2>1. ASSUME NEW k \in 1..Len(vue'[p])
        PROVE  Sincere(vue'[p][k]) /\ vue'[p][k] \in PairsPossibles
    <3>1. CASE vue'[p][k] = service[p].pair
      BY <1>4, <3>1
    <3>2. CASE k \in 1..Len(vue[p]) /\ vue'[p][k] = vue[p][k]
      <4>1. vue[p] \in Seq(PairsPossibles)
        BY <1>0, DuPair
      <4>2. vue[p][k] \in ToSet(vue[p]) /\ vue[p][k] \in PairsPossibles
        BY <3>2, <4>1 DEF ToSet
      <4>3. Sincere(vue[p][k])
        BY <1>0, <1>1, <4>2 DEF NomsSinceres, EnChemin
      <4>. QED BY <3>2, <4>2, <4>3
    <3>. QED BY <1>2, <3>1, <3>2
  <2>. QED BY <2>1
<1>15. \A k \in 1..Len(vue'[p]) : \A x : x = vue'[p][k] => Sincere(x)'
  <2>1. \A x \in PairsPossibles : Sincere(x) => Sincere(x)'
    BY <1>10, SincereApres
  <2>. QED BY <1>14, <2>1
<1>16. NomsSinceres'
  <2>1. \A s \in Pairs : etape'[s] \in EnChemin => vue'[s] = <<Pair(moi'[s], s)>>
    BY <1>0, <1>1, <1>7 DEF NomsSinceres, EnChemin
  <2>2. \A s \in Pairs : etape'[s] = "absent" => vue'[s] = <<>>
    BY <1>0, <1>1, <1>7 DEF NomsSinceres
  <2>3. ASSUME NEW s \in Pairs, etape'[s] \notin EnChemin, NEW x \in ToSet(vue'[s])
        PROVE  Sincere(x)' \/ (etape[s] \notin EnChemin /\ x \in ToSet(vue[s]))
    <3>1. CASE s = p
      <4>1. PICK k \in 1..Len(vue'[p]) : x = vue'[p][k]
        BY <1>1, <2>3, <3>1 DEF ToSet
      <4>. QED BY <1>15, <4>1
    <3>2. CASE s # p
      BY <1>1, <1>7, <2>3, <3>2
    <3>. QED BY <3>1, <3>2
  <2>4. \A s \in Pairs : etape'[s] = "annonce" =>
                etape[s] = "annonce" /\ service'[s].pair = service[s].pair
    BY <1>1, <1>7
  <2>5. \A s \in Pairs : file'[s] = file[s]
    BY <1>1
  <2>6. ASSUME NEW j \in 2..Len(liste) PROVE Sincere(PairDe(liste[j]))'
    <3> DEFINE x == PairDe(liste[j])
    <3>1. x = vue'[p][j - 1] /\ j - 1 \in 1..Len(vue'[p])
      BY <1>1, <1>6
    <3> HIDE DEF x
    <3>2. Sincere(x)'
      BY <1>15, <3>1
    <3>. QED BY <3>2 DEF x
  <2>7. ASSUME NEW s \in Pairs, NEW e \in ToSet(recu'[s])
        PROVE  e \in ToSet(recu[s]) \/ \A j \in 2..Len(e) : Sincere(PairDe(e[j]))'
    <3>1. CASE e = liste
      BY <2>6, <3>1
    <3>2. e \in ToSet(recu[s]) \/ e = liste
      BY <1>7, <1>8, <2>7
    <3>. QED BY <3>1, <3>2
  <2>. QED BY <1>0, <1>10, <2>1, <2>2, <2>3, <2>4, <2>5, <2>7, NomsApres
<1>. QED BY <1>11, <1>12, <1>13, <1>16 DEF SansPanne

\* Nobody hangs up on a sponsor that still announces.
LEMMA MeurtImpossible ==
  ASSUME Sain, NEW p \in Pairs, Meurt(p)
  PROVE  FALSE
<1>1. etape[p] = "annonce" /\ ~service[p].vif
  BY DEF Meurt
<1>. QED BY <1>1, SainFaits DEF ServicesAttendus

LEMMA ReveilSuite ==
  ASSUME Sain, NEW p \in Pairs, Reveil(p)
  PROVE  SansPanne'
<1>0. Types /\ TypesDuService /\ SoiEnTete
      /\ DemandesUniques /\ ServicesAttendus /\ LecturesEnOrdre /\ NomsSinceres
  BY SainFaits
<1>1. /\ etape[p] = "dort" /\ etape' = [etape EXCEPT ![p] = "boucle"]
      /\ service' = [service EXCEPT ![p] = RienAServir]
      /\ UNCHANGED <<moi, vue, file, recu>>
  BY DEF Reveil, Va
<1>2. /\ etape'[p] = "boucle" /\ service'[p] = RienAServir
      /\ \A q \in Pairs : q # p => etape'[q] = etape[q] /\ service'[q] = service[q]
  BY <1>0, <1>1 DEF Types
<1>3. \A q \in Pairs : Garde(q) /\ (Patiente(q)' <=> Patiente(q))
  <2>1. \A q \in Pairs : q # p => Garde(q) /\ (Patiente(q)' <=> Patiente(q))
    BY <1>1, <1>2, GardePareil
  <2>2. /\ ~Inconnu(p)' /\ IdFinal(p)' = IdFinal(p) /\ ~Patiente(p) /\ ~Patiente(p)'
    BY <1>1, <1>2 DEF Inconnu, Patiente, IdFinal, Changera
  <2>3. Garde(p) /\ (Patiente(p)' <=> Patiente(p))
    BY <2>2 DEF Garde
  <2>. QED BY <2>1, <2>3
<1>4. \A t \in Pairs : service'[t].de = service[t].de \/ service'[t].de \notin Pairs
  BY <1>2, RienTypes, Constantes
<1>5. DemandesUniques'
  <2>1. \A q \in Pairs : Patiente(q) => moi'[q] = moi[q]
    BY <1>1
  <2>. QED BY <1>0, <1>1, <1>3, <1>4, <2>1, DemandesPareilles
<1>6. LecturesEnOrdre'
  <2>1. recu[p] = <<>> /\ recu'[p] = <<>>
    BY <1>0, <1>1 DEF LecturesEnOrdre
  <2>2. 1..Len(recu'[p]) = {}
    BY <2>1
  <2>. QED BY <1>0, <1>1, <1>2, <2>1, <2>2, LecturesApres
<1>7. ServicesAttendus'
  <2>1. \A s \in Pairs : etape'[s] \notin {"annonce", "dort"} => service'[s] = RienAServir
    BY <1>0, <1>2 DEF ServicesAttendus
  <2>2. ASSUME NEW s \in Pairs, NEW q \in Pairs, etape'[s] = "annonce", q = service[s].de
        PROVE  \/ etape'[q] = "attend50" /\ Len(recu'[q]) = 1
               \/ etape'[q] = "attend7" /\ recu'[q] = <<>>
    <3>1. etape[s] = "annonce"
      BY <1>2, <2>2
    <3>2. \/ etape[q] = "attend50" /\ Len(recu[q]) = 1
          \/ etape[q] = "attend7" /\ recu[q] = <<>>
      BY <1>0, <2>2, <3>1 DEF ServicesAttendus
    <3>3. q # p
      BY <1>1, <3>2
    <3>. QED BY <1>1, <1>2, <3>2, <3>3
  <2>3. \A s \in Pairs :
            /\ etape'[s] \in {"annonce", "dort"} =>
                    etape[s] \in {"annonce", "dort"} /\ service'[s] = service[s]
            /\ etape'[s] = "annonce" => etape[s] = "annonce"
    BY <1>2
  <2>. QED BY <1>0, <1>3, <1>4, <2>1, <2>2, <2>3, ServicesApres
<1>8. NomsSinceres'
  <2>1. \A s \in Pairs : etape'[s] \in EnChemin => vue'[s] = <<Pair(moi'[s], s)>>
    BY <1>0, <1>1, <1>2 DEF NomsSinceres, EnChemin
  <2>2. \A s \in Pairs : etape'[s] = "absent" => vue'[s] = <<>>
    BY <1>0, <1>1, <1>2 DEF NomsSinceres
  <2>3. ASSUME NEW s \in Pairs, etape'[s] \notin EnChemin, NEW x \in ToSet(vue'[s])
        PROVE  etape[s] \notin EnChemin /\ x \in ToSet(vue[s])
    BY <1>1, <1>2, <2>3 DEF EnChemin
  <2>4. \A s \in Pairs : etape'[s] = "annonce" =>
                etape[s] = "annonce" /\ service'[s].pair = service[s].pair
    BY <1>2
  <2>5. \A s \in Pairs : file'[s] = file[s] /\ recu'[s] = recu[s]
    BY <1>1
  <2>. QED BY <1>0, <1>3, <2>1, <2>2, <2>3, <2>4, <2>5, NomsApres
<1>. QED BY <1>5, <1>6, <1>7, <1>8 DEF SansPanne

\* --- every step ------------------------------------------------------------------
\* A failure is never forgotten.
LEMMA PannesRestent ==
  ASSUME pannes \in Nat, Next, pannes' = 0
  PROVE  pannes = 0
<1>1. PICK p \in Pairs : \/ Demarre(p) \/ Rejoindre(p)
                         \/ handle_udp_liaison(p) \/ Tourner(p)
  BY DEF Next
<1>2. ASSUME NEW c, NEW envoi, Transmet(c, envoi) PROVE pannes' = pannes \/ pannes' = pannes + 1
  BY <1>2 DEF Transmet
<1>3. CASE Demarre(p) \/ handle_udp_liaison(p)
  BY <1>3 DEF Demarre, handle_udp_liaison
<1>4. CASE Rejoindre(p)
  <2>1. \/ UNCHANGED pannes
        \/ Coupure(p)
    BY <1>4 DEF Rejoindre, RecoitCandidat, Connecte, Redemande, CreeReseau, RecoitReponse,
                SansReponse, SansListe, handle_peer_list_sync, LitListeRompue, MeurtDeLaListe
  <2>2. pannes' = pannes \/ pannes' = pannes + 1
    BY <2>1 DEF Coupure
  <2>. QED BY <2>2
<1>5. CASE Tourner(p)
  <2>1. \/ UNCHANGED pannes
        \/ \E c, envoi : Transmet(c, envoi)
    <3>1. CASE handle_incoming_tcp(p)
      BY <3>1 DEF handle_incoming_tcp, handle_new_peer_connection
    <3>2. CASE send_peer_list(p)
      <4>1. PICK liste \in Listes(p, vue'[p]) : Transmet(service[p], liste)
        BY <3>2 DEF send_peer_list
      <4>. QED BY <4>1
    <3>3. CASE broadcast_to_peers(p) \/ Meurt(p) \/ Reveil(p)
      BY <3>3, Zenon DEF broadcast_to_peers, Meurt, Reveil
    <3>. QED BY <1>5, <3>1, <3>2, <3>3 DEF Tourner
  <2>2. pannes' = pannes \/ pannes' = pannes + 1
    BY <1>2, <2>1
  <2>. QED BY <2>2
<1>. QED BY <1>1, <1>3, <1>4, <1>5

\* Nor is a list that is broken.
LEMMA RompuesRestent ==
  ASSUME Types, SoiEnTete, RompuesComptees, NEW p \in Pairs,
         pannes' \in Nat, pannes' >= pannes,
         \/ recu' = recu \/ recu' = [recu EXCEPT ![p] = <<>>]
  PROVE  RompuesComptees'
<1>1. pannes \in Nat
  BY DEF Types
<1>2. ASSUME NEW q \in Pairs, NEW k \in 1..Len(recu'[q]), Rompue(recu'[q][k])
      PROVE  pannes' > 0
  <2>1. recu'[q] = recu[q] \/ recu'[q] = <<>>
    BY DEF Types
  <2>2. recu'[q] = recu[q]
    BY <2>1, <1>2
  <2>3. pannes > 0
    BY <1>2, <2>2 DEF RompuesComptees
  <2>. QED BY <1>1, <2>3
<1>. QED BY <1>2 DEF RompuesComptees

LEMMA RompueTransmise ==
  ASSUME Types, SoiEnTete, RompuesComptees, NEW c, c.de \in Pairs,
         NEW envoi, envoi \in Envois \cup {Refus}, Transmet(c, envoi)
  PROVE  RompuesComptees'
<1>1. /\ pannes' = IF envoi = Refus \/ Rompue(envoi) THEN pannes + 1 ELSE pannes
      /\ recu' = [recu EXCEPT ![c.de] = IF c.vif /\ envoi # Refus THEN Append(@, envoi) ELSE @]
  BY DEF Transmet
<1>2. pannes \in Nat
  BY c.de \in Pairs, DuPair
<1>3. ASSUME NEW q \in Pairs, NEW k \in 1..Len(recu'[q]), Rompue(recu'[q][k])
      PROVE  pannes' > 0
  <2>1. recu[q] \in Seq(Envois)
    BY DuPair
  <2>2. \/ recu'[q] = recu[q]
        \/ envoi # Refus /\ recu'[q] = Append(recu[q], envoi)
    BY <1>1 DEF Types
  <2>3. CASE k \in 1..Len(recu[q]) /\ recu'[q][k] = recu[q][k]
    <3>1. pannes > 0
      BY <1>3, <2>3 DEF RompuesComptees
    <3>. QED BY <1>1, <1>2, <3>1
  <2>4. CASE recu'[q][k] = envoi
    <3>1. Rompue(envoi)
      BY <1>3, <2>4
    <3>. QED BY <1>1, <1>2, <3>1
  <2>5. CASE recu'[q] = recu[q]
    BY <1>3, <2>3, <2>5
  <2>6. CASE envoi # Refus /\ recu'[q] = Append(recu[q], envoi)
    <3>1. envoi \in Envois
      BY <2>6
    <3>2. \/ k \in 1..Len(recu[q]) /\ recu'[q][k] = recu[q][k]
          \/ recu'[q][k] = envoi
      BY <1>3, <2>1, <2>6, <3>1
    <3>. QED BY <2>3, <2>4, <3>2
  <2>. QED BY <2>2, <2>5, <2>6
<1>. QED BY <1>3 DEF RompuesComptees

LEMMA PasRompues ==
  ASSUME Types, TypesDuService, SoiEnTete, RompuesComptees, Next
  PROVE  RompuesComptees'
<1>0. pannes \in Nat
  BY DEF Types
<1>1. PICK p \in Pairs : \/ Demarre(p) \/ Rejoindre(p)
                         \/ handle_udp_liaison(p) \/ Tourner(p)
  BY DEF Next
<1>2. CASE Demarre(p) \/ handle_udp_liaison(p)
  <2>1. UNCHANGED <<recu, pannes>>
    BY <1>2 DEF Demarre, handle_udp_liaison
  <2>. QED BY <1>0, <2>1, RompuesRestent
<1>3. CASE Rejoindre(p)
  <2>1. CASE RecoitCandidat(p) \/ Connecte(p) \/ Redemande(p) \/ CreeReseau(p)
    <3>1. UNCHANGED <<recu, pannes>>
      BY <2>1 DEF RecoitCandidat, Connecte, Redemande, CreeReseau
    <3>. QED BY <1>0, <3>1, RompuesRestent
  <2>2. CASE RecoitReponse(p) \/ handle_peer_list_sync(p) \/ LitListeRompue(p) \/ MeurtDeLaListe(p)
    <3>1. recu' = [recu EXCEPT ![p] = <<>>] /\ pannes' = pannes
      BY <2>2 DEF RecoitReponse, handle_peer_list_sync, LitListeRompue, MeurtDeLaListe, Raccroche
    <3>2. pannes' \in Nat /\ pannes' >= pannes
      BY <1>0, <3>1
    <3>. QED BY <3>1, <3>2, RompuesRestent
  <2>3. CASE SansReponse(p) \/ SansListe(p)
    <3>1. Coupure(p)
      BY <2>3 DEF SansReponse, SansListe
    <3>2. recu' = [recu EXCEPT ![p] = <<>>] /\ (pannes' = pannes \/ pannes' = pannes + 1)
      BY <3>1 DEF Coupure, Raccroche
    <3>3. pannes' \in Nat /\ pannes' >= pannes
      BY <1>0, <3>2
    <3>. QED BY <3>2, <3>3, RompuesRestent
  <2>. QED BY <1>3, <2>1, <2>2, <2>3 DEF Rejoindre
<1>4. CASE broadcast_to_peers(p) \/ Meurt(p) \/ Reveil(p)
  <2>1. UNCHANGED <<recu, pannes>>
    BY <1>4 DEF broadcast_to_peers, Meurt, Reveil
  <2>. QED BY <1>0, <2>1, RompuesRestent
<1>5. CASE handle_incoming_tcp(p)
  <2> DEFINE c == Head(file[p])
      m == c.msgs[1]
  <2>1. \/ handle_new_peer_connection(p, c, m)
        \/ UNCHANGED <<recu, pannes>>
    BY <1>5 DEF handle_incoming_tcp
  <2>2. CASE UNCHANGED <<recu, pannes>>
    BY <1>0, <2>2, RompuesRestent
  <2>3. CASE handle_new_peer_connection(p, c, m)
    <3>1. etape[p] = "boucle" /\ file[p] # <<>>
      BY <1>5 DEF handle_incoming_tcp
    <3>2. c \in Connexions /\ m \in Messages /\ m.id \in Ids /\ c.de \in Pairs
      BY <3>1, TeteDeFile
    <3> HIDE DEF c, m
    <3>3. PICK id \in Identifiants(p, m.id) : \E r \in Reponses(m, id) : Transmet(c, r)
      BY <2>3 DEF handle_new_peer_connection
    <3>4. PICK r \in Reponses(m, id) : Transmet(c, r)
      BY <3>3
    <3>5. id \in Ids
      BY <3>2, <3>3, IdentifiantPossible
    <3>6. r \in Envois \cup {Refus}
      BY <3>4, <3>5, ReponseEnvoi
    <3>. QED BY <3>2, <3>4, <3>6, RompueTransmise
  <2>. QED BY <2>1, <2>2, <2>3
<1>6. CASE send_peer_list(p)
  <2>1. etape[p] = "annonce" /\ vue'[p] \in Seq(PairsPossibles)
    BY <1>6, ListeEnvoyee
  <2>2. PICK liste \in Listes(p, vue'[p]) : Transmet(service[p], liste)
    BY <1>6, ListeEnvoyee
  <2>3. service[p].de \in Pairs /\ moi[p] \in Ids
    BY <2>1, DuPair DEF TypesDuService
  <2>4. liste \in Envois \cup {Refus}
    BY <2>1, <2>2, <2>3, ListeEnvoi
  <2>. QED BY <2>2, <2>3, <2>4, RompueTransmise
<1>. QED BY <1>1, <1>2, <1>3, <1>4, <1>5, <1>6 DEF Tourner

LEMMA PasSansPanne ==
  ASSUME Sain, Next, pannes' = 0
  PROVE  SansPanne'
<1>1. PICK p \in Pairs : \/ Demarre(p) \/ Rejoindre(p)
                         \/ handle_udp_liaison(p) \/ Tourner(p)
  BY DEF Next
<1>2. CASE Demarre(p)
  BY <1>2, DemarreSuite
<1>3. CASE handle_udp_liaison(p) \/ RecoitCandidat(p)
  BY <1>3, LectureCandidats
<1>4. CASE Connecte(p)
  BY <1>4, ConnecteSuite
<1>5. CASE Redemande(p) \/ CreeReseau(p)
  BY <1>5, RedemandeSuite
<1>6. CASE RecoitReponse(p)
  BY <1>6, RecoitReponseSuite
<1>7. CASE SansReponse(p)
  BY <1>7, SansReponseImpossible
<1>8. CASE SansListe(p)
  BY <1>8, SansListeSuite
<1>9. CASE handle_peer_list_sync(p)
  BY <1>9, ListeSuite
<1>10. CASE handle_incoming_tcp(p)
  BY <1>10, EntrantSuite
<1>11. CASE broadcast_to_peers(p)
  BY <1>11, DiffusionSuite
<1>12. CASE send_peer_list(p)
  BY <1>12, EnvoiListeSuite
<1>13. CASE Meurt(p)
  BY <1>13, MeurtImpossible
<1>14. CASE Reveil(p)
  BY <1>14, ReveilSuite
<1>15. CASE LitListeRompue(p) \/ MeurtDeLaListe(p)
  BY <1>15, RompueImpossible
<1>. QED BY <1>1, <1>2, <1>3, <1>4, <1>5, <1>6, <1>7, <1>8, <1>9, <1>10, <1>11, <1>12, <1>13, <1>14,
            <1>15 DEF Rejoindre, Tourner

LEMMA PasIInv ==
  ASSUME IInvMembership, [Next]_vars
  PROVE  IInvMembership'
<1>1. CASE Next
  <2>1. Types' /\ TypesDuService' /\ SoiEnTete' /\ RompuesComptees'
    BY <1>1, PasTypes, PasRompues DEF IInvMembership
  <2>2. ASSUME pannes' = 0 PROVE SansPanne'
    <3>1. pannes \in 0..MaxPannes
      BY DEF IInvMembership, Types
    <3>2. pannes = 0
      BY <1>1, <2>2, <3>1, PannesRestent
    <3>3. Sain
      BY <3>2 DEF IInvMembership, Sain
    <3>. QED BY <1>1, <2>2, <3>3, PasSansPanne
  <2>. QED BY <2>1, <2>2 DEF IInvMembership
<1>2. CASE UNCHANGED vars
  <2>1. Types' /\ TypesDuService' /\ SoiEnTete' /\ RompuesComptees'
    <3>1. Types' /\ RompuesComptees'
      BY <1>2 DEF IInvMembership, Types, RompuesComptees, vars
    <3>2. TypesDuService'
      BY <1>2 DEF IInvMembership, TypesDuService, vars
    <3>3. SoiEnTete'
      BY <1>2 DEF IInvMembership, SoiEnTete, Ouvert, vars
    <3>. QED BY <3>1, <3>2, <3>3
  <2>2. ASSUME pannes' = 0 PROVE SansPanne'
    <3>1. Sain
      BY <1>2, <2>2 DEF IInvMembership, Sain, vars
    <3>. QED BY <1>2, <3>1, Immobile DEF vars
  <2>. QED BY <2>1, <2>2 DEF IInvMembership
<1>. QED BY <1>1, <1>2

\* --- whom a list names -----------------------------------------------------------
\* Who is in a list, by its entries.
LEMMA NommesDe ==
  ASSUME NEW l, NEW q
  PROVE  q \in Nommes(l) <=> \E k \in 1..Len(l) : l[k].ip = q
BY DEF Nommes

LEMMA NommesPairs ==
  ASSUME NEW l, l \in Seq(PairsPossibles)
  PROVE  Nommes(l) \subseteq Pairs
<1>1. \A k \in 1..Len(l) : l[k] \in PairsPossibles
  OBVIOUS
<1>2. \A k \in 1..Len(l) : l[k].ip \in Pairs
  BY <1>1 DEF PairsPossibles
<1>. QED BY <1>2 DEF Nommes

LEMMA NommesAjout ==
  ASSUME NEW l, l \in Seq(PairsPossibles), NEW pair, pair \in PairsPossibles,
         \A k \in 1..Len(l) : l[k].id = pair.id => l[k].ip = pair.ip, NEW r, r = peer_list_add(l, pair)
  PROVE  Nommes(r) = Nommes(l) \cup {pair.ip}
<1>1. CASE ~peer_list_find(l, pair.id)
  <2>1. r = Append(l, pair)
    BY <1>1 DEF peer_list_add
  <2>2. /\ Len(r) = Len(l) + 1 /\ r[Len(l) + 1] = pair /\ Len(l) \in Nat
        /\ \A k \in 1..Len(l) : r[k] = l[k]
    BY <2>1
  <2>3. \A k \in 1..Len(r) : k \in 1..Len(l) \/ k = Len(l) + 1
    BY <2>2
  <2>4. Len(l) + 1 \in 1..Len(r) /\ \A k \in 1..Len(l) : k \in 1..Len(r)
    BY <2>2
  <2>5. ASSUME NEW q PROVE q \in Nommes(r) <=> q \in Nommes(l) \cup {pair.ip}
    BY <2>2, <2>3, <2>4, NommesDe
  <2>. QED BY <2>5
<1>2. CASE peer_list_find(l, pair.id)
  <2> DEFINE i == Rang(l, pair.id)
  <2>1. i \in 1..Len(l) /\ l[i].id = pair.id
    BY <1>2, RangDe
  <2>2. l[i].ip = pair.ip
    BY <2>1
  <2>3. r = l \/ r = [l EXCEPT ![i] = pair]
    BY <1>2 DEF peer_list_add
  <2> HIDE DEF i
  <2>4. Len(r) = Len(l) /\ \A k \in 1..Len(l) : r[k].ip = l[k].ip
    <3>1. CASE r = l
      BY <3>1
    <3>2. CASE r = [l EXCEPT ![i] = pair]
      <4>1. Len(r) = Len(l) /\ \A k \in 1..Len(l) : r[k] = IF k = i THEN pair ELSE l[k]
        BY <2>1, <3>2
      <4>. QED BY <2>2, <4>1
    <3>. QED BY <2>3, <3>1, <3>2
  <2>5. ASSUME NEW q PROVE q \in Nommes(r) <=> q \in Nommes(l) \cup {pair.ip}
    BY <2>1, <2>2, <2>4, NommesDe
  <2>. QED BY <2>5
<1>. QED BY <1>1, <1>2

LEMMA NommesRemplacement ==
  ASSUME NEW l, l \in Seq(PairsPossibles), NEW pair, pair \in PairsPossibles,
         \A k \in 1..Len(l) : l[k].id = pair.id => l[k].ip = pair.ip,
         NEW r, r = handle_code6_message(l, pair)
  PROVE  Nommes(r) = Nommes(l) \cup {pair.ip}
<1>1. CASE ~peer_list_find(l, pair.id)
  <2>1. r = peer_list_add(l, pair)
    BY <1>1 DEF handle_code6_message
  <2>. QED BY <2>1, NommesAjout
<1>2. CASE peer_list_find(l, pair.id)
  <2> DEFINE i == Rang(l, pair.id)
      e == [l[i] EXCEPT !.ip = pair.ip, !.port = pair.port]
  <2>1. i \in 1..Len(l) /\ l[i].id = pair.id
    BY <1>2, RangDe
  <2>2. l[i].ip = pair.ip
    BY <2>1
  <2>3. r = [l EXCEPT ![i] = e]
    BY <1>2 DEF handle_code6_message
  <2> HIDE DEF i
  <2>4. e.ip = pair.ip
    <3>1. l[i] \in PairsPossibles
      BY <2>1
    <3>. QED BY <3>1 DEF PairsPossibles
  <2> HIDE DEF e
  <2>5. Len(r) = Len(l) /\ \A k \in 1..Len(l) : r[k] = IF k = i THEN e ELSE l[k]
    BY <2>1, <2>3
  <2>6. \A k \in 1..Len(l) : r[k].ip = l[k].ip
    BY <2>2, <2>4, <2>5
  <2>7. ASSUME NEW q PROVE q \in Nommes(r) <=> q \in Nommes(l) \cup {pair.ip}
    BY <2>1, <2>2, <2>5, <2>6, NommesDe
  <2>. QED BY <2>7
<1>. QED BY <1>1, <1>2

\* Whom the entries of a list that was sent name.
Envoyes(msgs) == {msgs[j].ip : j \in 2..Len(msgs)}
Coherents(S) == \A x, y \in S : x.id = y.id => x.ip = y.ip

LEMMA NommesCharges ==
  ASSUME NEW S, S \subseteq PairsPossibles, Coherents(S),
         NEW l, l \in Seq(PairsPossibles), \A k \in 1..Len(l) : l[k] \in S,
         NEW msgs, Entiere(msgs), \A j \in 2..Len(msgs) : PairDe(msgs[j]) \in S,
         NEW r, r = peer_list_load(l, msgs)
  PROVE  Nommes(r) = Nommes(l) \cup Envoyes(msgs)
<1> DEFINE n == msgs[1].nb
    Vus(k) == {msgs[j].ip : j \in 2..(k + 1)}
    Bon(k) == {x \in Seq(PairsPossibles) :
                  (\A i \in 1..Len(x) : x[i] \in S) /\ Nommes(x) = Nommes(l) \cup Vus(k)}
    P == [k \in 0..n |-> Bon(k)]
<1>1. n \in Nat /\ Len(msgs) = n + 1
  BY DEF Entiere
<1>2. l \in P[0]
  <2>1. Vus(0) = {}
    OBVIOUS
  <2>2. l \in Bon(0)
    BY <2>1
  <2>. QED BY <1>1, <2>2
<1>3. ASSUME NEW k \in 1..n, NEW x \in P[k - 1]
      PROVE  peer_list_add(x, PairDe(msgs[k + 1])) \in P[k]
  <2>1. k - 1 \in 0..n /\ k \in 0..n /\ k \in Nat /\ k + 1 \in 2..Len(msgs) /\ k - 1 + 1 = k
    BY <1>1
  <2>2. x \in Bon(k - 1)
    BY <2>1
  <2>3. /\ x \in Seq(PairsPossibles) /\ \A i \in 1..Len(x) : x[i] \in S
        /\ Nommes(x) = Nommes(l) \cup Vus(k - 1)
    BY <2>2
  <2> DEFINE pair == PairDe(msgs[k + 1])
      y == peer_list_add(x, pair)
  <2>4. pair \in S /\ pair \in PairsPossibles
    BY <2>1
  <2>5. pair.ip = msgs[k + 1].ip
    BY DEF PairDe
  <2> HIDE DEF pair
  <2>6. \A i \in 1..Len(x) : x[i].id = pair.id => x[i].ip = pair.ip
    BY <2>3, <2>4 DEF Coherents
  <2>7. Nommes(y) = Nommes(x) \cup {pair.ip}
    BY <2>3, <2>4, <2>6, NommesAjout
  <2>8. /\ y \in Seq(PairsPossibles)
        /\ \A i \in 1..Len(y) : y[i] = pair \/ (i \in 1..Len(x) /\ y[i] = x[i])
    BY <2>3, <2>4, Ajout
  <2>9. \A i \in 1..Len(y) : y[i] \in S
    BY <2>3, <2>4, <2>8
  <2>10. Vus(k) = Vus(k - 1) \cup {msgs[k + 1].ip}
    <3>1. \A j : j \in 2..(k + 1) <=> j \in 2..(k - 1 + 1) \/ j = k + 1
      BY <2>1
    <3>. QED BY <3>1
  <2> HIDE DEF y, Vus
  <2>11. Nommes(y) = Nommes(l) \cup Vus(k)
    BY <2>3, <2>5, <2>7, <2>10
  <2>12. y \in Bon(k)
    BY <2>8, <2>9, <2>11
  <2> HIDE DEF Bon
  <2>13. P[k] = Bon(k)
    BY <2>1
  <2>. QED BY <2>12, <2>13 DEF y, pair
<1>4. r \in P[n]
  <2>1. \A k \in 1..msgs[1].nb : \A x \in P[k - 1] : peer_list_add(x, PairDe(msgs[k + 1])) \in P[k]
    BY <1>3
  <2>2. msgs[1].nb \in Nat
    BY <1>1
  <2> HIDE DEF P
  <2>3. peer_list_load(l, msgs) \in P[msgs[1].nb]
    BY <1>2, <2>1, <2>2, ChargementSuivi
  <2>. QED BY <2>3
<1>5. r \in Bon(n)
  <2>1. n \in 0..n
    BY <1>1
  <2> HIDE DEF Bon
  <2>. QED BY <1>4, <2>1
<1>6. Vus(n) = Envoyes(msgs)
  BY <1>1 DEF Envoyes
<1>. QED BY <1>5, <1>6

\* --- whom a peer knows or will know ------------------------------------------------
\* Whoever is named is known.
LEMMA NomConnu ==
  ASSUME NEW x, x \in PairsPossibles, Sincere(x)
  PROVE  x.ip \in Pairs /\ ~Inconnu(x.ip)
BY DEF PairsPossibles, Sincere

LEMMA NommeConnu ==
  ASSUME Sain, NEW p \in Pairs, NEW q, q \in Nommes(vue[p])
  PROVE  q \in Pairs /\ (q = p \/ ~Inconnu(q))
<1>1. Types /\ SoiEnTete /\ NomsSinceres
  BY SainFaits
<1>2. PICK k \in 1..Len(vue[p]) : vue[p][k].ip = q
  BY NommesDe
<1> DEFINE x == vue[p][k]
<1>3. x \in PairsPossibles /\ x \in ToSet(vue[p])
  <2>1. vue[p] \in Seq(PairsPossibles)
    BY <1>1, DuPair
  <2>. QED BY <2>1 DEF ToSet
<1>4. CASE etape[p] \in EnChemin
  <2>1. x \in ToSet(<<Pair(moi[p], p)>>)
    BY <1>3, <1>4, SeulSurLeChemin
  <2>2. x = Pair(moi[p], p)
    BY <2>1, UneEntree
  <2>. QED BY <1>2, <2>2 DEF Pair
<1>5. CASE etape[p] \notin EnChemin
  <2>1. Sincere(x)
    BY <1>1, <1>3, <1>5 DEF NomsSinceres
  <2>. QED BY <1>2, <1>3, <2>1, NomConnu
<1>. QED BY <1>4, <1>5

LEMMA AnnonceConnue ==
  ASSUME Sain, NEW p \in Pairs, NEW q, Annoncee(p, q)
  PROVE  q \in Pairs /\ ~Inconnu(q)
<1>1. PICK k \in 1..Len(file[p]) : Annonce(file[p][k]) /\ file[p][k].msgs[1].ip = q
  BY DEF Annoncee
<1>2. /\ file[p][k] \in ToSet(file[p]) /\ PairDe(file[p][k].msgs[1]) \in PairsPossibles
  BY DansLaFile
<1> DEFINE x == PairDe(file[p][k].msgs[1])
<1>3. Sincere(x)
  BY <1>1, <1>2, SainFaits DEF NomsSinceres
<1>4. x.ip = q
  BY <1>1 DEF PairDe
<1> HIDE DEF x
<1>. QED BY <1>2, <1>3, <1>4, NomConnu DEF x

LEMMA ListeConnue ==
  ASSUME Sain, NEW p \in Pairs, NEW q, Listee(p, q)
  PROVE  q \in Pairs /\ ~Inconnu(q)
<1>0. Types /\ SoiEnTete /\ NomsSinceres
  BY SainFaits
<1>1. PICK k \in 1..Len(recu[p]) :
        EstListe(recu[p][k]) /\ \E j \in 2..Len(recu[p][k]) : recu[p][k][j].ip = q
  BY DEF Listee
<1>2. PICK e : e = recu[p][k]
  OBVIOUS
<1>3. PICK j \in 2..Len(e) : e[j].ip = q
  BY <1>1, <1>2
<1>4. e \in ToSet(recu[p])
  <2>1. recu[p] \in Seq(Envois)
    BY <1>0, DuPair
  <2>. QED BY <1>2, <2>1 DEF ToSet
<1> DEFINE x == PairDe(e[j])
<1>5. x \in PairsPossibles
  BY <1>0, <1>1, <1>2, <1>4, NomsTypes
<1>6. Sincere(x)
  BY <1>0, <1>1, <1>2, <1>4 DEF NomsSinceres
<1>7. x.ip = q
  BY <1>3 DEF PairDe
<1> HIDE DEF x
<1>. QED BY <1>5, <1>6, <1>7, NomConnu

LEMMA PresenteFaits ==
  ASSUME Sain, NEW t \in Pairs, NEW q, Presente(t, q)
  PROVE  /\ q \in Pairs /\ ~Inconnu(q) /\ q # t /\ service[t].vif /\ service[t].pair.ip = q
         /\ service[t].pair \in PairsPossibles /\ Sincere(service[t].pair)
         /\ service[t].reste \subseteq 1..Len(vue[t]) /\ etape[q] \in {"attend50", "attend7"}
         /\ \/ etape[q] = "attend50" /\ Len(recu[q]) = 1
            \/ etape[q] = "attend7" /\ recu[q] = <<>>
         /\ \A u \in Pairs : Presente(u, q) => u = t
<1>1. etape[t] = "annonce" /\ service[t].de = q
  BY DEF Presente
<1>2. /\ TypesDuService /\ ServicesAttendus /\ NomsSinceres
  BY SainFaits
<1>3. q \in Pairs /\ service[t].pair \in PairsPossibles /\ service[t].reste \subseteq 1..Len(vue[t])
  BY <1>1, <1>2 DEF TypesDuService
<1>4. /\ ~Inconnu(q) /\ service[t].vif /\ service[t].pair.ip = q
      /\ \/ etape[q] = "attend50" /\ Len(recu[q]) = 1
         \/ etape[q] = "attend7" /\ recu[q] = <<>>
      /\ \A u \in Pairs : service[u].de = q => u = t
  BY <1>1, <1>2 DEF ServicesAttendus
<1>5. Sincere(service[t].pair)
  BY <1>1, <1>2 DEF NomsSinceres
<1>6. \A u \in Pairs : Presente(u, q) => u = t
  BY <1>4 DEF Presente
<1>. QED BY <1>1, <1>3, <1>4, <1>5, <1>6

LEMMA SauraConnu ==
  ASSUME Sain, NEW p \in Pairs, NEW q, Saura(p, q)
  PROVE  q \in Pairs /\ (q = p \/ ~Inconnu(q))
<1>1. CASE q \in Nommes(vue[p])
  BY <1>1, NommeConnu
<1>2. CASE Annoncee(p, q)
  BY <1>2, AnnonceConnue
<1>3. CASE Listee(p, q)
  BY <1>3, ListeConnue
<1>4. CASE DuParrain(p, q)
  <2>1. PICK t \in Pairs : Presente(t, p) /\ q \in Nommes(vue[t])
    BY <1>4 DEF DuParrain
  <2>2. q \in Pairs /\ (q = t \/ ~Inconnu(q))
    BY <2>1, NommeConnu
  <2>3. ~Inconnu(t)
    BY <2>1 DEF Presente, Inconnu, Patiente
  <2>. QED BY <2>2, <2>3
<1>5. CASE AAnnoncer(p, q)
  <2>1. PICK t \in Pairs : Presente(t, q)
    BY <1>5 DEF AAnnoncer
  <2>. QED BY <2>1, PresenteFaits
<1>. QED BY <1>1, <1>2, <1>3, <1>4, <1>5 DEF Saura

\* Whoever started is in its own list.
LEMMA SoiNomme ==
  ASSUME Sain, Distincts, NEW p \in Pairs, etape[p] # "absent"
  PROVE  p \in Nommes(vue[p])
<1>1. Types /\ SoiEnTete /\ NomsSinceres /\ LecturesEnOrdre
  BY SainFaits
<1>2. CASE etape[p] \in EnChemin
  <2>1. vue[p] = <<Pair(moi[p], p)>>
    BY <1>2, SeulSurLeChemin
  <2>2. 1 \in 1..Len(vue[p]) /\ vue[p][1].ip = p
    BY <2>1 DEF Pair
  <2>. QED BY <2>2, NommesDe
<1>3. CASE etape[p] \notin EnChemin
  <2>1. Ouvert(p)
    BY <1>1 DEF Ouvert, LecturesEnOrdre
  <2>2. /\ vue[p] \in Seq(PairsPossibles) /\ vue[p] # <<>> /\ vue[p][1] \in PairsPossibles
        /\ vue[p][1].id = moi[p] /\ vue[p][1].ip \in Pairs
    BY <1>1, <2>1, DuPair
  <2>3. 1 \in 1..Len(vue[p])
    BY <2>2
  <2>4. vue[p][1] \in ToSet(vue[p])
    BY <2>3 DEF ToSet
  <2>5. Sincere(vue[p][1])
    BY <1>1, <1>3, <2>4 DEF NomsSinceres
  <2>6. ~Inconnu(p) /\ IdFinal(p) = moi[p]
    BY <1>3 DEF EnChemin, Inconnu, Patiente, IdFinal, Changera
  <2>7. vue[p][1].ip = p
    BY <2>2, <2>5, <2>6 DEF Sincere, Distincts
  <2>. QED BY <2>3, <2>7, NommesDe
<1>. QED BY <1>2, <1>3

\* What is sincere is coherent when nobody has the identifier of another.
LEMMA SinceresCoherents ==
  ASSUME Distincts
  PROVE  Coherents({x \in PairsPossibles : Sincere(x)})
<1>1. \A x \in PairsPossibles : x.ip \in Pairs
  BY DEF PairsPossibles
<1>. QED BY <1>1 DEF Coherents, Sincere, Distincts

\* Nobody takes over the name of another in the list of a member.
LEMMA VueCoherente ==
  ASSUME Sain, Distincts, NEW p \in Pairs, etape[p] \notin EnChemin,
         NEW x, x \in PairsPossibles, Sincere(x)
  PROVE  \A k \in 1..Len(vue[p]) : vue[p][k].id = x.id => vue[p][k].ip = x.ip
<1>1. Types /\ SoiEnTete /\ NomsSinceres
  BY SainFaits
<1>2. vue[p] \in Seq(PairsPossibles)
  BY <1>1, DuPair
<1>3. ASSUME NEW k \in 1..Len(vue[p]) PROVE vue[p][k] \in PairsPossibles /\ Sincere(vue[p][k])
  <2>1. vue[p][k] \in ToSet(vue[p])
    BY DEF ToSet
  <2>. QED BY <1>1, <1>2, <2>1 DEF NomsSinceres
<1>4. \A y \in PairsPossibles : Sincere(y) /\ y.id = x.id => y.ip = x.ip
  BY SinceresCoherents DEF Coherents
<1>. QED BY <1>3, <1>4

\* A peer that joins knows itself.
LEMMA MoiSincere ==
  ASSUME NEW p \in Pairs, etape[p] = "attend7"
  PROVE  Sincere(Pair(moi[p], p))
<1>1. ~Inconnu(p) /\ IdFinal(p) = moi[p]
  BY DEF Inconnu, Patiente, IdFinal, Changera
<1>. QED BY <1>1 DEF Sincere, Pair

\* --- from one state to the next ---------------------------------------------------
LEMMA DistinctsAvant ==
  ASSUME \A q \in Pairs : Garde(q), Distincts'
  PROVE  Distincts
BY DEF Garde, Distincts

Paisible(q) ==
    /\ Garde(q) /\ (~Inconnu(q) => parrain'[q] = parrain[q])
    /\ etape[q] \notin EnChemin \cup {"absent"} =>
            etape'[q] \notin EnChemin \cup {"absent"} /\ enchere'[q] = enchere[q]
    /\ etape[q] = "attend7" /\ recu[q] = <<>> =>
            \/ etape'[q] \notin EnChemin \cup {"absent"} /\ ~enchere'[q]
            \/ \E t \in Pairs : Presente(t, q)
            \/ /\ etape'[q] = "attend7" /\ recu'[q] = <<>>
               /\ \A t \in Pairs : Presente(t, q)' => Presente(t, q)

LEMMA InformesAvant ==
  ASSUME \A q \in Pairs : Paisible(q), Informes'
  PROVE  Informes
<1>1. ASSUME NEW p \in Pairs, etape[p] \notin EnChemin \cup {"absent"} PROVE enchere[p]
  BY <1>1 DEF Informes, Paisible
<1>2. ASSUME NEW p \in Pairs, etape[p] = "attend7", recu[p] = <<>>
      PROVE  \E t \in Pairs : Presente(t, p)
  <2>1. \/ etape'[p] \notin EnChemin \cup {"absent"} /\ ~enchere'[p]
        \/ \E t \in Pairs : Presente(t, p)
        \/ /\ etape'[p] = "attend7" /\ recu'[p] = <<>>
           /\ \A t \in Pairs : Presente(t, p)' => Presente(t, p)
    BY <1>2 DEF Paisible
  <2>2. CASE etape'[p] \notin EnChemin \cup {"absent"} /\ ~enchere'[p]
    BY <2>2 DEF Informes
  <2>3. CASE /\ etape'[p] = "attend7" /\ recu'[p] = <<>>
             /\ \A t \in Pairs : Presente(t, p)' => Presente(t, p)
    <3>1. \E t \in Pairs : Presente(t, p)'
      BY <2>3 DEF Informes
    <3>. QED BY <2>3, <3>1
  <2>. QED BY <2>1, <2>2, <2>3
<1>. QED BY <1>1, <1>2 DEF Informes

SoisNommes == \A p \in Pairs : etape[p] # "absent" => p \in Nommes(vue[p])

LEMMA TousSeNomment == Sain /\ Distincts => SoisNommes
BY SoiNomme DEF SoisNommes

LEMMA TousSeNommentApres == Sain' /\ Distincts' => SoisNommes'
BY TousSeNomment, PTL

LEMMA AAnnoncerPareil ==
  ASSUME \A t \in Pairs : \A x : Presente(t, x)' <=> Presente(t, x),
         \A t \in Pairs : etape[t] = "annonce" => service'[t] = service[t] /\ vue'[t] = vue[t]
  PROVE  \A x, y \in Pairs : AAnnoncer(x, y)' <=> AAnnoncer(x, y)
<1>1. ASSUME NEW t \in Pairs, NEW x \in Pairs, NEW y \in Pairs, Presente(t, y)
      PROVE  (t = x \/ \E k \in service'[t].reste : vue'[t][k].ip = x)
                <=> (t = x \/ \E k \in service[t].reste : vue[t][k].ip = x)
  BY <1>1 DEF Presente
<1>. QED BY <1>1 DEF AAnnoncer

LEMMA SauraVus == \A p \in Pairs : \A q : q \in Nommes(vue[p]) => Saura(p, q)
BY DEF Saura

LEMMA ConnuPresent ==
  ASSUME NEW p, ~Inconnu(p)
  PROVE  etape[p] # "absent"
BY DEF Inconnu

\* A step that adds nothing to what peers know or will know of each other.
LEMMA RelationsPareilles ==
  ASSUME Sain, Sain', Distincts, Distincts', Parrains, Relies,
         \A q \in Pairs : Paisible(q),
         \A q \in Pairs : Inconnu(q) => Inconnu(q)' \/ parrain'[q] = Personne,
         \A p, q \in Pairs : p # q => (Saura(p, q)' <=> Saura(p, q)),
         \A p \in Pairs : Nommes(vue[p]) \subseteq Nommes(vue'[p]),
         \A s, p \in Pairs : Presente(s, p) => Presente(s, p)' \/ p \in Nommes(vue'[s])
  PROVE  Relies'
<1>1. SoisNommes /\ SoisNommes'
  BY TousSeNomment, TousSeNommentApres
<1>2. \A p \in Pairs : etape'[p] # "absent" => Saura(p, p)'
  BY <1>1 DEF SoisNommes, Saura
<1>3. \A p \in Pairs : etape[p] # "absent" => Saura(p, p)
  BY <1>1 DEF SoisNommes, Saura
<1>4. \A p \in Pairs : ~Inconnu(p)' => etape'[p] # "absent"
  BY DEF Inconnu
<1>5. ASSUME NEW p \in Pairs, ~Inconnu(p)', parrain'[p] # Personne
      PROVE  ~Inconnu(p) /\ parrain'[p] = parrain[p]
  BY <1>5 DEF Paisible
<1>6. ASSUME NEW p \in Pairs, NEW s \in Pairs, ~Inconnu(p)', parrain'[p] = s
      PROVE  p \in Nommes(vue'[s]) \/ Presente(s, p)'
  <2>1. s # Personne
    BY Constantes
  <2>2. ~Inconnu(p) /\ parrain[p] = s
    BY <1>5, <1>6, <2>1
  <2>3. p \in Nommes(vue[s]) \/ Presente(s, p)
    BY <2>2 DEF Relies
  <2>. QED BY <2>3
<1>7. ASSUME NEW p \in Pairs, NEW q \in Pairs, Saura(p, q)' PROVE Saura(q, p)'
  <2>1. CASE p = q
    BY <1>7, <2>1
  <2>2. CASE p # q
    <3>1. Saura(p, q)
      BY <1>7, <2>2
    <3>2. Saura(q, p)
      BY <3>1 DEF Relies
    <3>. QED BY <2>2, <3>2
  <2>. QED BY <2>1, <2>2
<1>8. ASSUME NEW p \in Pairs, NEW q \in Pairs, NEW s \in Pairs, ~Inconnu(p)', parrain'[p] = s,
             parrain'[q] \in {s, Personne}, Saura(s, q)'
      PROVE  Saura(p, q)'
  <2>1. s # Personne
    BY Constantes
  <2>2. ~Inconnu(p) /\ parrain[p] = s
    BY <1>5, <1>8, <2>1
  <2>3. CASE p = q
    BY <1>2, <1>4, <1>8, <2>3
  <2>4. CASE p = s
    BY <1>8, <2>4
  <2>5. CASE p # q /\ p # s
    <3>1. Saura(s, q) /\ ~Inconnu(q)
      <4>1. CASE s = q
        <5>1. etape[s] \notin EnChemin \cup {"absent"}
          BY <2>1, <2>2 DEF Parrains
        <5>. QED BY <1>3, <4>1, <5>1 DEF EnChemin, Inconnu, Patiente
      <4>2. CASE s # q
        <5>1. Saura(s, q)
          BY <1>8, <4>2
        <5>. QED BY <4>2, <5>1, SauraConnu
      <4>. QED BY <4>1, <4>2
    <3>2. parrain[q] \in {s, Personne}
      BY <1>8, <3>1 DEF Paisible
    <3>3. Saura(p, q)
      BY <2>2, <3>1, <3>2 DEF Relies
    <3>. QED BY <2>5, <3>3
  <2>. QED BY <2>3, <2>4, <2>5
<1>. QED BY <1>6, <1>7, <1>8 DEF Relies

\* Every peer goes on as it was, and a step adds nothing to what peers know, or
\* will know, of each other.
Paisibles == \A q \in Pairs : Paisible(q)
MemesNoms ==
    /\ \A q \in Pairs : Inconnu(q) => Inconnu(q)' \/ parrain'[q] = Personne
    /\ \A p, q \in Pairs : p # q => (Saura(p, q)' <=> Saura(p, q))
    /\ \A p \in Pairs : Nommes(vue[p]) \subseteq Nommes(vue'[p])
    /\ \A s, p \in Pairs : Presente(s, p) => Presente(s, p)' \/ p \in Nommes(vue'[s])

LEMMA NommesDUn ==
  ASSUME NEW id, NEW p, NEW l, l = <<Pair(id, p)>>
  PROVE  Nommes(l) = {p}
<1>1. Len(l) = 1 /\ l[1].ip = p
  BY DEF Pair
<1>2. \A q : q \in Nommes(l) <=> q = p
  BY <1>1, NommesDe
<1>. QED BY <1>2

LEMMA NommesDeRien == Nommes(<<>>) = {}
BY DEF Nommes

LEMMA PaisiblePareil ==
  ASSUME NEW q, etape'[q] = etape[q], recu'[q] = recu[q], moi'[q] = moi[q],
         parrain'[q] = parrain[q], enchere'[q] = enchere[q],
         \A t \in Pairs : Presente(t, q)' => Presente(t, q)
  PROVE  Paisible(q)
<1>1. Garde(q)
  BY GardePareil
<1>. QED BY <1>1 DEF Paisible

\* A step before the first connection, or outside the joins.
LEMMA Ecart ==
  ASSUME Sain, Parrains, NEW p \in Pairs, UNCHANGED <<parrain, file, service, recu>>,
         \A q \in Pairs : q # p => /\ etape'[q] = etape[q] /\ moi'[q] = moi[q]
                                   /\ vue'[q] = vue[q] /\ enchere'[q] = enchere[q],
         \/ etape'[p] = etape[p] /\ vue'[p] = vue[p] /\ moi'[p] = moi[p] /\ enchere'[p] = enchere[p]
         \/ /\ etape[p] \in {"absent", "cherche", "essaie"} /\ vue'[p] = <<Pair(moi'[p], p)>>
            /\ \/ etape'[p] \in {"cherche", "essaie"} /\ enchere'[p] = enchere[p]
               \/ etape'[p] = "boucle"
  PROVE  Parrains' /\ Paisibles /\ MemesNoms
<1>0. NomsSinceres
  BY SainFaits
<1> DEFINE Entre == /\ etape[p] \in {"absent", "cherche", "essaie"}
                    /\ etape'[p] \in {"cherche", "essaie", "boucle"}
<1>1. \A q \in Pairs : ~(q = p /\ Entre) =>
         etape'[q] = etape[q] /\ moi'[q] = moi[q] /\ vue'[q] = vue[q] /\ enchere'[q] = enchere[q]
  OBVIOUS
<1>2. \A s \in Pairs : \A x : Presente(s, x)' <=> Presente(s, x)
  BY <1>1 DEF Presente
<1>3. \A s \in Pairs : etape[s] = "annonce" => vue'[s] = vue[s]
  BY <1>1
<1>4. Entre => Inconnu(p) /\ parrain[p] = Personne
  BY DEF Inconnu, Parrains, SurLeChemin
<1>5. \A q \in Pairs : ~(q = p /\ Entre) => (Inconnu(q)' <=> Inconnu(q)) /\ Paisible(q)
  <2>1. ASSUME NEW q \in Pairs, ~(q = p /\ Entre) PROVE (Inconnu(q)' <=> Inconnu(q)) /\ Paisible(q)
    <3>1. etape'[q] = etape[q] /\ moi'[q] = moi[q] /\ enchere'[q] = enchere[q]
          /\ recu'[q] = recu[q] /\ parrain'[q] = parrain[q]
      BY <1>1, <2>1
    <3>. QED BY <1>2, <3>1, GardePareil, PaisiblePareil
  <2>. QED BY <2>1
<1>6. Entre => Paisible(p)
  BY <1>4 DEF Paisible, Garde, EnChemin
<1>7. \A s \in Pairs : etape[s] \notin EnChemin \cup {"absent"} => etape'[s] = etape[s]
  BY <1>1 DEF EnChemin
<1>8. Parrains'
  <2>1. ASSUME NEW q \in Pairs PROVE SurLeChemin(q)'
    <3>1. SurLeChemin(q)
      BY DEF Parrains
    <3>2. CASE q = p /\ Entre
      BY <1>4, <3>1, <3>2 DEF SurLeChemin, EnChemin
    <3>3. CASE ~(q = p /\ Entre)
      BY <1>1, <3>1, <3>3 DEF SurLeChemin
    <3>. QED BY <3>2, <3>3
  <2>2. \A s \in Pairs : EnFile(s)'
    BY DEF Parrains, EnFile
  <2>3. ASSUME NEW s \in Pairs, NEW x \in Pairs, Presente(s, x)'
        PROVE  parrain'[x] = s /\ \A k \in service'[s].reste : vue'[s][k].ip # s
    <3>1. Presente(s, x) /\ vue'[s] = vue[s]
      BY <1>2, <1>3, <2>3 DEF Presente
    <3>. QED BY <3>1 DEF Parrains
  <2>4. ASSUME NEW s \in Pairs, NEW x \in Pairs, ~Inconnu(x)', parrain'[x] = s
        PROVE  etape'[s] \notin EnChemin \cup {"absent"}
    <3>1. ~(x = p /\ Entre)
      BY <1>4, <2>4, Constantes
    <3>2. etape[s] \notin EnChemin \cup {"absent"}
      BY <1>5, <2>4, <3>1 DEF Parrains
    <3>. QED BY <1>7, <3>2
  <2>. QED BY <2>1, <2>2, <2>3, <2>4 DEF Parrains
<1>9. Paisibles
  BY <1>5, <1>6 DEF Paisibles
<1>10. Nommes(vue[p]) \subseteq Nommes(vue'[p]) /\ Nommes(vue'[p]) \subseteq Nommes(vue[p]) \cup {p}
  <2>1. CASE Entre
    <3>1. vue'[p] = <<Pair(moi'[p], p)>>
      BY <1>0, <2>1 DEF NomsSinceres, EnChemin
    <3>2. Nommes(vue'[p]) = {p}
      BY <3>1, NommesDUn
    <3>3. CASE vue[p] = <<>>
      <4>1. Nommes(vue[p]) = {}
        BY <3>3, NommesDeRien, Zenon
      <4>. QED BY <3>2, <4>1
    <3>4. CASE vue[p] = <<Pair(moi[p], p)>>
      <4>1. Nommes(vue[p]) = {p}
        BY <3>4, NommesDUn
      <4>. QED BY <3>2, <4>1
    <3>. QED BY <1>0, <2>1, <3>3, <3>4 DEF NomsSinceres, EnChemin
  <2>2. CASE ~Entre
    BY <1>1, <2>2
  <2>. QED BY <2>1, <2>2
<1>11. /\ \A x \in Pairs : Nommes(vue[x]) \subseteq Nommes(vue'[x])
       /\ \A x, y \in Pairs : x # y => (y \in Nommes(vue'[x]) <=> y \in Nommes(vue[x]))
  BY <1>1, <1>10
<1>12. \A x, y \in Pairs : x # y => (Saura(x, y)' <=> Saura(x, y))
  <2>1. \A x, y \in Pairs : (Annoncee(x, y)' <=> Annoncee(x, y)) /\ (Listee(x, y)' <=> Listee(x, y))
    BY DEF Annoncee, Listee
  <2>2. \A x, y \in Pairs : DuParrain(x, y)' <=> DuParrain(x, y)
    BY <1>2, <1>3 DEF DuParrain, Presente
  <2>3. \A x, y \in Pairs : AAnnoncer(x, y)' <=> AAnnoncer(x, y)
    BY <1>2, <1>3 DEF AAnnoncer, Presente
  <2>. QED BY <1>11, <2>1, <2>2, <2>3 DEF Saura
<1>13. MemesNoms
  <2>1. \A q \in Pairs : Inconnu(q) => Inconnu(q)' \/ parrain'[q] = Personne
    BY <1>4, <1>5
  <2>2. \A s, x \in Pairs : Presente(s, x) => Presente(s, x)'
    BY <1>2
  <2>. QED BY <1>11, <1>12, <2>1, <2>2 DEF MemesNoms
<1>. QED BY <1>8, <1>9, <1>13

LEMMA EcartPas ==
  ASSUME Sain, Parrains, NEW p \in Pairs,
         Demarre(p) \/ RecoitCandidat(p) \/ Redemande(p) \/ CreeReseau(p) \/ handle_udp_liaison(p)
  PROVE  Parrains' /\ Paisibles /\ MemesNoms
<1>0. Types
  BY SainFaits
<1>1. UNCHANGED <<parrain, file, service, recu>>
  BY DEF Demarre, RecoitCandidat, Redemande, CreeReseau, handle_udp_liaison, nouveau
<1>2. CASE Demarre(p)
  <2>1. PICK id \in Tirages[p] :
          /\ moi' = [moi EXCEPT ![p] = id] /\ vue' = [vue EXCEPT ![p] = <<Pair(id, p)>>]
    BY <1>2 DEF Demarre
  <2>2. etape[p] = "absent" /\ etape' = [etape EXCEPT ![p] = "cherche"] /\ enchere' = enchere
    BY <1>2 DEF Demarre, Va
  <2>3. /\ vue'[p] = <<Pair(moi'[p], p)>> /\ etape'[p] = "cherche"
        /\ \A q \in Pairs : q # p => etape'[q] = etape[q] /\ moi'[q] = moi[q] /\ vue'[q] = vue[q]
    BY <1>0, <2>1, <2>2 DEF Types
  <2>. QED BY <1>1, <2>2, <2>3, Ecart
<1>3. CASE RecoitCandidat(p) \/ handle_udp_liaison(p)
  <2>1. UNCHANGED <<etape, moi, vue, enchere>>
    BY <1>3 DEF RecoitCandidat, handle_udp_liaison, nouveau
  <2>. QED BY <1>1, <2>1, Ecart
<1>4. CASE Redemande(p) \/ CreeReseau(p)
  <2>1. /\ etape[p] \in {"cherche", "essaie"} /\ UNCHANGED <<moi, vue>>
        /\ \/ etape' = [etape EXCEPT ![p] = "cherche"] /\ enchere' = enchere
           \/ etape' = [etape EXCEPT ![p] = "boucle"] /\ enchere' = [enchere EXCEPT ![p] = TRUE]
    BY <1>4 DEF Redemande, CreeReseau, EntreDansLaBoucle, Essaie, Va
  <2>2. vue[p] = <<Pair(moi[p], p)>>
    BY <2>1, SeulSurLeChemin DEF EnChemin
  <2>3. /\ \/ etape'[p] = "cherche" /\ enchere'[p] = enchere[p]
           \/ etape'[p] = "boucle"
        /\ vue'[p] = <<Pair(moi'[p], p)>>
        /\ \A q \in Pairs : q # p => /\ etape'[q] = etape[q] /\ moi'[q] = moi[q]
                                     /\ vue'[q] = vue[q] /\ enchere'[q] = enchere[q]
    BY <1>0, <2>1, <2>2 DEF Types
  <2>. QED BY <1>1, <2>1, <2>3, Ecart
<1>. QED BY <1>2, <1>3, <1>4

\* What is waiting on the listening sockets.
LEMMA AnnonceInconnue ==
  ASSUME Sain, NEW s \in Pairs, NEW k \in 1..Len(file[s]), Annonce(file[s][k])
  PROVE  file[s][k].msgs[1].ip \in Pairs /\ ~Inconnu(file[s][k].msgs[1].ip)
<1>1. Annoncee(s, file[s][k].msgs[1].ip)
  BY DEF Annoncee
<1>. QED BY <1>1, AnnonceConnue

LEMMA ConnecteFaits ==
  ASSUME Sain, NEW p \in Pairs, Connecte(p)
  PROVE  /\ etape[p] \in {"cherche", "essaie"} /\ recu[p] = <<>>
         /\ UNCHANGED <<moi, vue, enchere, service, recu>>
         /\ \A q \in Pairs : q # p => etape'[q] = etape[q] /\ parrain'[q] = parrain[q]
         /\ \/ etape'[p] = "essaie" /\ UNCHANGED <<file, parrain>>
            \/ \E q \in Pairs : \E f \in Connexions :
                 /\ f.de = p /\ Demande(f) /\ file' = [file EXCEPT ![q] = Append(@, f)]
                 /\ etape'[p] = "attend50" /\ parrain'[p] = q
<1> DEFINE s0 == Head(candidats[p]).ip
    demande == rejoindre_enchere_mess4(moi[p], vue[p][1].ip, vue[p][1].port, <<>>)
    c == [de |-> p, vif |-> TRUE, msgs |-> Emis(<<demande>>)]
<1>0. Types /\ SoiEnTete /\ LecturesEnOrdre
  BY SainFaits
<1>1. /\ etape[p] \in {"cherche", "essaie"} /\ candidats[p] # <<>>
      /\ UNCHANGED <<moi, vue, enchere, service, recu>>
      /\ \/ /\ file' = [file EXCEPT ![s0] = Append(@, c)] /\ etape' = [etape EXCEPT ![p] = "attend50"]
            /\ parrain' = [parrain EXCEPT ![p] = s0]
         \/ etape' = [etape EXCEPT ![p] = "essaie"] /\ UNCHANGED <<file, parrain>>
  BY DEF Connecte, Essaie, Va
<1>2. vue[p] = <<Pair(moi[p], p)>>
  BY <1>1, SeulSurLeChemin DEF EnChemin
<1>3. recu[p] = <<>>
  BY <1>0, <1>1 DEF LecturesEnOrdre
<1>4. s0 \in Pairs
  <2>1. candidats[p] \in Seq(PairsPossibles)
    BY <1>0, DuPair
  <2>2. candidats[p][1] \in PairsPossibles /\ Head(candidats[p]) = candidats[p][1]
    BY <1>1, <2>1
  <2>. QED BY <2>2 DEF PairsPossibles
<1>5. c \in Connexions /\ c.de = p /\ Demande(c)
  <2>1. moi[p] \in Ids /\ demande = [suffixe_info(moi[p], p, LIAISON_PORT, <<>>) EXCEPT !.code = 5]
    BY <1>0, <1>2, DuPair DEF Pair, rejoindre_enchere_mess4
  <2> HIDE DEF demande
  <2>2. /\ Emis(<<demande>>) = <<demande>> /\ demande \in Messages /\ demande.code = 5
        /\ Nomme(demande)
    BY <2>1, Presentation
  <2>3. <<demande>> \in Seq(Messages) /\ <<demande>>[1] = demande /\ Len(<<demande>>) = 1
    BY <2>2
  <2>4. c = [de |-> p, vif |-> TRUE, msgs |-> <<demande>>]
    BY <2>2
  <2>. QED BY <2>2, <2>3, <2>4 DEF Connexions, Demande
<1> HIDE DEF s0, c
<1>. QED BY <1>0, <1>1, <1>3, <1>4, <1>5 DEF Types

LEMMA ConnecteRelations ==
  ASSUME Sain, Parrains, NEW p \in Pairs, Connecte(p)
  PROVE  Parrains' /\ Paisibles /\ MemesNoms
<1>0. Types /\ SoiEnTete
  BY SainFaits
<1>1. /\ etape[p] \in {"cherche", "essaie"} /\ recu[p] = <<>>
      /\ UNCHANGED <<moi, vue, enchere, service, recu>>
      /\ \A q \in Pairs : q # p => etape'[q] = etape[q] /\ parrain'[q] = parrain[q]
  BY ConnecteFaits
<1>2. CASE etape'[p] = "essaie" /\ UNCHANGED <<file, parrain>>
  <2>1. vue[p] = <<Pair(moi[p], p)>>
    BY <1>1, SeulSurLeChemin DEF EnChemin
  <2>. QED BY <1>1, <1>2, <2>1, Ecart
<1>3. CASE \E q \in Pairs : \E f \in Connexions :
                 /\ f.de = p /\ Demande(f) /\ file' = [file EXCEPT ![q] = Append(@, f)]
                 /\ etape'[p] = "attend50" /\ parrain'[p] = q
  <2>1. PICK q \in Pairs, f \in Connexions :
                 /\ f.de = p /\ Demande(f) /\ file' = [file EXCEPT ![q] = Append(@, f)]
                 /\ etape'[p] = "attend50" /\ parrain'[p] = q
    BY <1>3
  <2>2. /\ \A s \in Pairs : \A k \in 1..Len(file[s]) :
                k \in 1..Len(file'[s]) /\ file'[s][k] = file[s][k]
        /\ \A s \in Pairs : \A k \in 1..Len(file'[s]) :
                \/ k \in 1..Len(file[s]) /\ file'[s][k] = file[s][k]
                \/ s = q /\ k = Len(file[q]) + 1 /\ file'[s][k] = f
    BY <1>0, <2>1, Ajoutee
  <2>3. ~Annonce(f)
    BY <2>1 DEF Demande, Annonce
  <2>4. Inconnu(p) /\ Inconnu(p)'
    BY <1>1, <2>1 DEF Inconnu, Patiente
  <2>5. \A s \in Pairs : \A x : Presente(s, x)' <=> Presente(s, x)
    BY <1>1, <2>1 DEF Presente
  <2>6. \A x \in Pairs : x # p => (Inconnu(x)' <=> Inconnu(x)) /\ Paisible(x)
    <3>1. ASSUME NEW x \in Pairs, x # p PROVE (Inconnu(x)' <=> Inconnu(x)) /\ Paisible(x)
      <4>1. etape'[x] = etape[x] /\ moi'[x] = moi[x] /\ enchere'[x] = enchere[x]
            /\ recu'[x] = recu[x] /\ parrain'[x] = parrain[x]
        BY <1>1, <3>1
      <4>. QED BY <2>5, <4>1, GardePareil, PaisiblePareil
    <3>. QED BY <3>1
  <2>7. Paisible(p)
    BY <1>1, <2>4 DEF Paisible, Garde, EnChemin
  <2>8. Parrains'
    <3>1. ASSUME NEW x \in Pairs PROVE SurLeChemin(x)'
      <4>1. SurLeChemin(x)
        BY DEF Parrains
      <4>. QED BY <1>1, <2>1, <4>1 DEF SurLeChemin, EnChemin
    <3>2. ASSUME NEW s \in Pairs, NEW k \in 1..Len(file'[s])
          PROVE  /\ Demande(file'[s][k]) => parrain'[file'[s][k].de] = s
                 /\ Annonce(file'[s][k]) => parrain'[file'[s][k].msgs[1].ip] = file'[s][k].de
                                            /\ file'[s][k].de # s
      <4>1. CASE k \in 1..Len(file[s]) /\ file'[s][k] = file[s][k]
        <5>1. PICK c : c = file[s][k]
          OBVIOUS
        <5>2. EnFile(s)
          BY DEF Parrains
        <5>3. /\ Demande(c) => parrain[c.de] = s
              /\ Annonce(c) => parrain[c.msgs[1].ip] = c.de /\ c.de # s
          BY <4>1, <5>1, <5>2 DEF EnFile
        <5>4. Demande(c) => c.de \in Pairs /\ c.de # p
          <6>1. ASSUME Demande(c) PROVE c.de \in Pairs /\ Patiente(c.de)
            BY <4>1, <5>1, <6>1, DemandeFaits
          <6>. QED BY <1>1, <6>1 DEF Patiente
        <5>5. Annonce(c) => c.msgs[1].ip \in Pairs /\ c.msgs[1].ip # p
          <6>1. ASSUME Annonce(c) PROVE c.msgs[1].ip \in Pairs /\ ~Inconnu(c.msgs[1].ip)
            BY <4>1, <5>1, <6>1, AnnonceInconnue
          <6>. QED BY <2>4, <6>1
        <5>. QED BY <1>1, <4>1, <5>1, <5>3, <5>4, <5>5
      <4>2. CASE s = q /\ file'[s][k] = f
        BY <2>1, <2>3, <4>2
      <4>. QED BY <2>2, <4>1, <4>2
    <3>3. \A s \in Pairs : EnFile(s)'
      BY <3>2 DEF EnFile
    <3>4. ASSUME NEW s \in Pairs, NEW x \in Pairs, Presente(s, x)'
          PROVE  parrain'[x] = s /\ \A k \in service'[s].reste : vue'[s][k].ip # s
      <4>1. Presente(s, x)
        BY <2>5, <3>4
      <4>2. x # p
        BY <2>4, <4>1, PresenteFaits
      <4>. QED BY <1>1, <4>1, <4>2 DEF Parrains
    <3>5. ASSUME NEW s \in Pairs, NEW x \in Pairs, ~Inconnu(x)', parrain'[x] = s
          PROVE  etape'[s] \notin EnChemin \cup {"absent"}
      <4>1. x # p /\ ~Inconnu(x)
        BY <2>4, <2>6, <3>5
      <4>2. etape[s] \notin EnChemin \cup {"absent"}
        BY <1>1, <3>5, <4>1 DEF Parrains
      <4>. QED BY <1>1, <4>2 DEF EnChemin
    <3>. QED BY <3>1, <3>3, <3>4, <3>5 DEF Parrains
  <2>9. Paisibles
    BY <2>6, <2>7 DEF Paisibles
  <2>10. \A x, y \in Pairs : Annoncee(x, y)' <=> Annoncee(x, y)
    <3>1. ASSUME NEW x \in Pairs, NEW y \in Pairs, Annoncee(x, y) PROVE Annoncee(x, y)'
      <4>1. PICK k \in 1..Len(file[x]) : Annonce(file[x][k]) /\ file[x][k].msgs[1].ip = y
        BY <3>1 DEF Annoncee
      <4>2. k \in 1..Len(file'[x]) /\ file'[x][k] = file[x][k]
        BY <2>2
      <4>. QED BY <4>1, <4>2 DEF Annoncee
    <3>2. ASSUME NEW x \in Pairs, NEW y \in Pairs, Annoncee(x, y)' PROVE Annoncee(x, y)
      <4>1. PICK k \in 1..Len(file'[x]) : Annonce(file'[x][k]) /\ file'[x][k].msgs[1].ip = y
        BY <3>2 DEF Annoncee
      <4>2. file'[x][k] # f
        BY <2>3, <4>1
      <4>3. k \in 1..Len(file[x]) /\ file'[x][k] = file[x][k]
        BY <2>2, <4>2
      <4>. QED BY <4>1, <4>3 DEF Annoncee
    <3>. QED BY <3>1, <3>2
  <2>11. \A x, y \in Pairs : Saura(x, y)' <=> Saura(x, y)
    <3>1. \A x, y \in Pairs : Listee(x, y)' <=> Listee(x, y)
      BY <1>1 DEF Listee
    <3>2. \A x, y \in Pairs : DuParrain(x, y)' <=> DuParrain(x, y)
      BY <1>1, <2>5 DEF DuParrain, Presente
    <3>3. \A x, y \in Pairs : AAnnoncer(x, y)' <=> AAnnoncer(x, y)
      <4>1. \A s \in Pairs : etape[s] = "annonce" => service'[s] = service[s] /\ vue'[s] = vue[s]
        BY <1>1
      <4>. QED BY <2>5, <4>1, AAnnoncerPareil
    <3>. QED BY <1>1, <2>10, <3>1, <3>2, <3>3 DEF Saura
  <2>12. \A x \in Pairs : Inconnu(x) => Inconnu(x)'
    BY <2>4, <2>6
  <2>13. MemesNoms
    BY <1>1, <2>5, <2>11, <2>12 DEF MemesNoms
  <2>. QED BY <2>8, <2>9, <2>13
<1>. QED BY <1>2, <1>3, ConnecteFaits

LEMMA ReponseLue ==
  ASSUME Sain, NEW p \in Pairs, RecoitReponse(p)
  PROVE  /\ etape[p] = "attend50" /\ recu[p] # <<>> /\ etape'[p] = "attend7" /\ recu'[p] = <<>>
         /\ \A q \in Pairs : q # p => /\ etape'[q] = etape[q] /\ recu'[q] = recu[q]
                                      /\ moi'[q] = moi[q] /\ vue'[q] = vue[q]
         /\ vue[p] = <<Pair(moi[p], p)>>
         /\ moi'[p] = IdFinal(p) /\ vue'[p] = <<Pair(moi'[p], p)>>
         /\ UNCHANGED <<file, service, enchere, parrain>>
<1> DEFINE m == recu[p][1][1]
<1>0. Types
  BY SainFaits
<1>1. /\ etape[p] = "attend50" /\ recu[p] # <<>>
      /\ IF m.code = 51 THEN ChangeId(p, m.id) ELSE UNCHANGED <<moi, vue>>
      /\ recu' = [recu EXCEPT ![p] = <<>>] /\ etape' = [etape EXCEPT ![p] = "attend7"]
      /\ UNCHANGED <<file, service, enchere, parrain>>
  BY DEF RecoitReponse, Va, nouveau
<1>2. /\ etape'[p] = "attend7" /\ recu'[p] = <<>>
      /\ \A q \in Pairs : q # p => etape'[q] = etape[q] /\ recu'[q] = recu[q]
  BY <1>0, <1>1 DEF Types
<1>3. vue[p] = <<Pair(moi[p], p)>>
  BY <1>1, SeulSurLeChemin DEF EnChemin
<1>4. /\ moi'[p] = IdFinal(p) /\ vue'[p] = <<Pair(moi'[p], p)>>
      /\ \A q \in Pairs : q # p => moi'[q] = moi[q] /\ vue'[q] = vue[q]
  <2>1. CASE m.code # 51
    <3>1. IdFinal(p) = moi[p]
      BY <2>1 DEF IdFinal, Changera, Reponse
    <3>. QED BY <1>1, <1>3, <2>1, <3>1
  <2>2. CASE m.code = 51
    <3>1. IdFinal(p) = m.id
      BY <1>1, <2>2 DEF IdFinal, Changera, Reponse
    <3> HIDE DEF m
    <3> DEFINE e == [vue[p][1] EXCEPT !.id = m.id]
        l == [vue[p] EXCEPT ![1] = e]
    <3>2. moi' = [moi EXCEPT ![p] = m.id] /\ vue' = [vue EXCEPT ![p] = l]
      BY <1>1, <2>2 DEF ChangeId
    <3>3. e = Pair(m.id, p)
      BY <1>3 DEF Pair
    <3>4. l = <<e>>
      BY <1>3
    <3> HIDE DEF e, l
    <3>5. moi'[p] = m.id /\ vue'[p] = l
          /\ \A q \in Pairs : q # p => moi'[q] = moi[q] /\ vue'[q] = vue[q]
      BY <1>0, <3>2 DEF Types
    <3>. QED BY <3>1, <3>3, <3>4, <3>5
  <2>. QED BY <2>1, <2>2
<1>. QED BY <1>1, <1>2, <1>3, <1>4

LEMMA RecoitReponseRelations ==
  ASSUME Sain, Parrains, NEW p \in Pairs, RecoitReponse(p)
  PROVE  Parrains' /\ Paisibles /\ (Informes' => MemesNoms)
<1>0. Types /\ LecturesEnOrdre
  BY SainFaits
<1>1. /\ etape[p] = "attend50" /\ recu[p] # <<>> /\ etape'[p] = "attend7" /\ recu'[p] = <<>>
      /\ \A q \in Pairs : q # p => /\ etape'[q] = etape[q] /\ recu'[q] = recu[q]
                                   /\ moi'[q] = moi[q] /\ vue'[q] = vue[q]
      /\ UNCHANGED <<file, service, enchere, parrain>>
  BY ReponseLue
<1>2. Nommes(vue[p]) = {p} /\ Nommes(vue'[p]) = {p} /\ moi'[p] = IdFinal(p)
  <2>1. vue[p] = <<Pair(moi[p], p)>> /\ vue'[p] = <<Pair(moi'[p], p)>> /\ moi'[p] = IdFinal(p)
    BY ReponseLue
  <2>2. Nommes(vue[p]) = {p}
    BY <2>1, NommesDUn
  <2>3. Nommes(vue'[p]) = {p}
    BY <2>1, NommesDUn
  <2>. QED BY <2>1, <2>2, <2>3
<1>3. ~Inconnu(p) /\ ~Inconnu(p)' /\ IdFinal(p)' = moi'[p]
  BY <1>1 DEF Inconnu, Patiente, IdFinal, Changera
<1>4. \A s \in Pairs : \A x : Presente(s, x)' <=> Presente(s, x)
  BY <1>1 DEF Presente
<1>5. \A s \in Pairs : etape[s] = "annonce" => vue'[s] = vue[s]
  BY <1>1
<1>6. \A x \in Pairs : x # p => (Inconnu(x)' <=> Inconnu(x)) /\ Paisible(x)
  <2>1. ASSUME NEW x \in Pairs, x # p PROVE (Inconnu(x)' <=> Inconnu(x)) /\ Paisible(x)
    <3>1. etape'[x] = etape[x] /\ moi'[x] = moi[x] /\ enchere'[x] = enchere[x]
          /\ recu'[x] = recu[x] /\ parrain'[x] = parrain[x]
      BY <1>1, <2>1
    <3>. QED BY <1>4, <3>1, GardePareil, PaisiblePareil
  <2>. QED BY <2>1
<1>7. Paisible(p)
  BY <1>1, <1>2, <1>3 DEF Paisible, Garde, EnChemin
<1>8. Parrains'
  <2>1. ASSUME NEW x \in Pairs PROVE SurLeChemin(x)'
    <3>1. SurLeChemin(x)
      BY DEF Parrains
    <3>2. Len(<<>>) <= 1
      OBVIOUS
    <3>. QED BY <1>1, <3>1, <3>2 DEF SurLeChemin, EnChemin
  <2>2. \A s \in Pairs : EnFile(s)'
    BY <1>1 DEF Parrains, EnFile
  <2>3. ASSUME NEW s \in Pairs, NEW x \in Pairs, Presente(s, x)'
        PROVE  parrain'[x] = s /\ \A k \in service'[s].reste : vue'[s][k].ip # s
    <3>1. Presente(s, x) /\ vue'[s] = vue[s]
      BY <1>4, <1>5, <2>3 DEF Presente
    <3>. QED BY <1>1, <3>1 DEF Parrains
  <2>4. ASSUME NEW s \in Pairs, NEW x \in Pairs, ~Inconnu(x)', parrain'[x] = s
        PROVE  etape'[s] \notin EnChemin \cup {"absent"}
    <3>1. etape[s] \notin EnChemin \cup {"absent"}
      BY <1>1, <1>3, <1>6, <2>4 DEF Parrains
    <3>. QED BY <1>1, <3>1 DEF EnChemin
  <2>. QED BY <2>1, <2>2, <2>3, <2>4 DEF Parrains
<1>9. Paisibles
  BY <1>6, <1>7 DEF Paisibles
<1>10. ASSUME Informes' PROVE MemesNoms
  <2>1. PICK t \in Pairs : Presente(t, p)
    BY <1>1, <1>4, <1>10 DEF Informes
  <2>2. Len(recu[p]) = 1
    BY <1>1, <2>1, PresenteFaits
  <2>3. \A y : ~Listee(p, y)
    <3>1. \A k \in 1..Len(recu[p]) : ~EstListe(recu[p][k])
      <4>1. \A k \in 1..Len(recu[p]) : EstReponse(recu[p][k])
        BY <1>0, <1>1, <2>2 DEF LecturesEnOrdre
      <4>. QED BY <4>1 DEF EstListe, EstReponse
    <3>. QED BY <3>1 DEF Listee
  <2>4. \A y : ~Listee(p, y)'
    <3>1. 1..Len(recu'[p]) = {}
      BY <1>1
    <3>. QED BY <3>1 DEF Listee
  <2>5. \A x, y \in Pairs : Listee(x, y)' <=> Listee(x, y)
    <3>1. \A x, y \in Pairs : x # p => (Listee(x, y)' <=> Listee(x, y))
      <4>1. ASSUME NEW x \in Pairs, x # p PROVE recu'[x] = recu[x]
        BY <1>1, <4>1
      <4>. QED BY <4>1 DEF Listee
    <3>. QED BY <2>3, <2>4, <3>1
  <2>6. \A x \in Pairs : Nommes(vue'[x]) = Nommes(vue[x])
    BY <1>1, <1>2
  <2>7. \A x, y \in Pairs : Saura(x, y)' <=> Saura(x, y)
    <3>1. \A x, y \in Pairs : Annoncee(x, y)' <=> Annoncee(x, y)
      BY <1>1 DEF Annoncee
    <3>2. \A x, y \in Pairs : DuParrain(x, y)' <=> DuParrain(x, y)
      BY <1>4, <1>5 DEF DuParrain, Presente
    <3>3. \A x, y \in Pairs : AAnnoncer(x, y)' <=> AAnnoncer(x, y)
      BY <1>1, <1>4, <1>5 DEF AAnnoncer, Presente
    <3>. QED BY <2>5, <2>6, <3>1, <3>2, <3>3 DEF Saura
  <2>8. \A x \in Pairs : Inconnu(x) => Inconnu(x)'
    BY <1>3, <1>6
  <2>. QED BY <1>4, <2>6, <2>7, <2>8 DEF MemesNoms
<1>. QED BY <1>8, <1>9, <1>10

\* A newcomer enters the loop and closes its connection.
LEMMA AdhesionRelations ==
  ASSUME Sain, Parrains, NEW p \in Pairs, etape[p] = "attend7", etape'[p] = "boucle",
         \A q \in Pairs : q # p => /\ etape'[q] = etape[q] /\ vue'[q] = vue[q]
                                   /\ enchere'[q] = enchere[q],
         UNCHANGED <<moi, parrain>>, Raccroche(p), recu[p] = <<>> => ~enchere'[p]
  PROVE  /\ Parrains' /\ Paisibles
         /\ \A s \in Pairs : \A x : Presente(s, x)' <=> Presente(s, x)
         /\ \A x \in Pairs : Inconnu(x)' <=> Inconnu(x)
         /\ \A x, y \in Pairs : /\ Annoncee(x, y)' <=> Annoncee(x, y)
                                /\ DuParrain(x, y)' <=> DuParrain(x, y)
                                /\ AAnnoncer(x, y)' <=> AAnnoncer(x, y)
<1>0. Types /\ SoiEnTete
  BY SainFaits
<1>1. /\ recu'[p] = <<>> /\ \A q \in Pairs : q # p => recu'[q] = recu[q]
      /\ \A q \in Pairs : service'[q].de = service[q].de /\ service'[q].reste = service[q].reste
      /\ \A s \in Pairs : Len(file'[s]) = Len(file[s])
      /\ \A s \in Pairs : \A k \in 1..Len(file[s]) :
                file'[s][k].de = file[s][k].de /\ file'[s][k].msgs = file[s][k].msgs
  BY <1>0, RaccrocheTypes
<1>2. \A s \in Pairs : \A x : Presente(s, x)' <=> Presente(s, x)
  BY <1>1 DEF Presente
<1>3. \A s \in Pairs : etape[s] = "annonce" => vue'[s] = vue[s]
  OBVIOUS
<1>4. ~Inconnu(p) /\ ~Inconnu(p)' /\ IdFinal(p) = moi[p] /\ IdFinal(p)' = moi[p]
  BY DEF Patiente, Inconnu, IdFinal, Changera
<1>5. \A x \in Pairs : x # p => (Inconnu(x)' <=> Inconnu(x)) /\ Paisible(x)
  <2>1. ASSUME NEW x \in Pairs, x # p PROVE (Inconnu(x)' <=> Inconnu(x)) /\ Paisible(x)
    <3>1. etape'[x] = etape[x] /\ moi'[x] = moi[x] /\ enchere'[x] = enchere[x]
          /\ recu'[x] = recu[x] /\ parrain'[x] = parrain[x]
      BY <1>1, <2>1
    <3>. QED BY <1>2, <3>1, GardePareil, PaisiblePareil
  <2>. QED BY <2>1
<1>6. Paisible(p)
  BY <1>4 DEF Paisible, Garde, EnChemin
<1>7. \A s \in Pairs : \A k \in 1..Len(file[s]) : /\ Demande(file'[s][k]) <=> Demande(file[s][k])
                                                  /\ Annonce(file'[s][k]) <=> Annonce(file[s][k])
  BY <1>1 DEF Demande, Annonce
<1>8. Parrains'
  <2>1. ASSUME NEW x \in Pairs PROVE SurLeChemin(x)'
    <3>1. SurLeChemin(x)
      BY DEF Parrains
    <3>. QED BY <1>1, <3>1 DEF SurLeChemin, EnChemin
  <2>2. ASSUME NEW s \in Pairs PROVE EnFile(s)'
    <3>1. EnFile(s)
      BY DEF Parrains
    <3>. QED BY <1>1, <1>7, <3>1 DEF EnFile
  <2>3. ASSUME NEW s \in Pairs, NEW x \in Pairs, Presente(s, x)'
        PROVE  parrain'[x] = s /\ \A k \in service'[s].reste : vue'[s][k].ip # s
    <3>1. Presente(s, x) /\ vue'[s] = vue[s]
      BY <1>2, <1>3, <2>3 DEF Presente
    <3>. QED BY <1>1, <3>1 DEF Parrains
  <2>4. ASSUME NEW s \in Pairs, NEW x \in Pairs, ~Inconnu(x)', parrain'[x] = s
        PROVE  etape'[s] \notin EnChemin \cup {"absent"}
    <3>1. etape[s] \notin EnChemin \cup {"absent"}
      BY <1>4, <1>5, <2>4 DEF Parrains
    <3>. QED BY <3>1 DEF EnChemin
  <2>. QED BY <2>1, <2>2, <2>3, <2>4 DEF Parrains
<1>9. Paisibles
  BY <1>5, <1>6 DEF Paisibles
<1>10. \A x, y \in Pairs : Annoncee(x, y)' <=> Annoncee(x, y)
  <2>1. ASSUME NEW x \in Pairs, NEW y \in Pairs PROVE Annoncee(x, y)' <=> Annoncee(x, y)
    <3>1. \A k \in 1..Len(file[x]) : /\ Annonce(file'[x][k]) <=> Annonce(file[x][k])
                                     /\ file'[x][k].msgs = file[x][k].msgs
      BY <1>1, <1>7
    <3>2. Len(file'[x]) = Len(file[x])
      BY <1>1
    <3>. QED BY <3>1, <3>2 DEF Annoncee
  <2>. QED BY <2>1
<1>11. \A x, y \in Pairs : DuParrain(x, y)' <=> DuParrain(x, y)
  <2>1. \A s \in Pairs : etape[s] = "annonce" => Nommes(vue'[s]) = Nommes(vue[s])
    BY <1>3
  <2>2. ASSUME NEW x \in Pairs, NEW y \in Pairs, DuParrain(x, y) PROVE DuParrain(x, y)'
    <3>1. PICK t \in Pairs : Presente(t, x) /\ y \in Nommes(vue[t])
      BY <2>2 DEF DuParrain
    <3>2. Presente(t, x)' /\ y \in Nommes(vue'[t])
      BY <1>2, <2>1, <3>1 DEF Presente
    <3>. QED BY <3>2 DEF DuParrain
  <2>3. ASSUME NEW x \in Pairs, NEW y \in Pairs, DuParrain(x, y)' PROVE DuParrain(x, y)
    <3>1. PICK t \in Pairs : Presente(t, x)' /\ y \in Nommes(vue'[t])
      BY <2>3 DEF DuParrain
    <3>2. Presente(t, x) /\ y \in Nommes(vue[t])
      BY <1>2, <2>1, <3>1 DEF Presente
    <3>. QED BY <3>2 DEF DuParrain
  <2>. QED BY <2>2, <2>3
<1>12. \A x, y \in Pairs : AAnnoncer(x, y)' <=> AAnnoncer(x, y)
  BY <1>1, <1>2, <1>3 DEF AAnnoncer, Presente
<1>13. \A x \in Pairs : Inconnu(x)' <=> Inconnu(x)
  BY <1>4, <1>5
<1>. QED BY <1>2, <1>8, <1>9, <1>10, <1>11, <1>12, <1>13

LEMMA SansListeRelations ==
  ASSUME Sain, Parrains, NEW p \in Pairs, SansListe(p), pannes' = 0
  PROVE  Parrains' /\ Paisibles /\ ~Informes'
<1>0. Types
  BY SainFaits
<1>1. /\ etape[p] = "attend7" /\ Coupure(p) /\ etape' = [etape EXCEPT ![p] = "boucle"]
      /\ UNCHANGED <<moi, vue, enchere, parrain>>
  BY DEF SansListe, EntreDansLaBoucle, Va, Coupure
<1>2. Raccroche(p)
  BY <1>1, CoupureSaine
<1>3. etape'[p] = "boucle" /\ \A q \in Pairs : q # p => etape'[q] = etape[q]
  BY <1>0, <1>1 DEF Types
<1>4. ~enchere[p]
  BY <1>1 DEF Parrains, SurLeChemin, EnChemin
<1>5. Parrains' /\ Paisibles
  BY <1>1, <1>2, <1>3, <1>4, AdhesionRelations
<1>6. ~Informes'
  BY <1>1, <1>3, <1>4 DEF Informes, EnChemin
<1>. QED BY <1>5, <1>6

LEMMA ListeRelations ==
  ASSUME Sain, Parrains, NEW p \in Pairs, handle_peer_list_sync(p)
  PROVE  Parrains' /\ Paisibles /\ (Distincts => MemesNoms)
<1>0. Types /\ SoiEnTete /\ LecturesEnOrdre /\ NomsSinceres
  BY SainFaits
<1>1. /\ etape[p] = "attend7" /\ recu[p] # <<>> /\ Raccroche(p)
      /\ etape' = [etape EXCEPT ![p] = "boucle"] /\ UNCHANGED <<moi, parrain>>
      /\ IF recu[p][1][1].code = 7
         THEN /\ vue' = [vue EXCEPT ![p] = peer_list_load(@, recu[p][1])]
              /\ enchere' = [enchere EXCEPT ![p] = TRUE]
         ELSE UNCHANGED <<vue, enchere>>
  BY DEF handle_peer_list_sync, EntreDansLaBoucle, Va
<1>2. PICK e : e = recu[p][1]
  OBVIOUS
<1>3. PICK r : r = peer_list_load(vue[p], e)
  OBVIOUS
<1>4. /\ recu[p] \in Seq(Envois) /\ Len(recu[p]) = 1 /\ e \in Envois /\ e \in ToSet(recu[p])
      /\ EstListe(e)
  <2>1. recu[p] \in Seq(Envois)
    BY <1>0, DuPair
  <2>2. Len(recu[p]) = 1
    <3>1. Len(recu[p]) <= 1
      BY <1>1 DEF Parrains, SurLeChemin
    <3>2. Len(recu[p]) \in Nat /\ Len(recu[p]) # 0
      BY <1>1, <2>1
    <3>3. \A n \in Nat : n # 0 /\ n <= 1 => n = 1
      OBVIOUS
    <3>. QED BY <3>1, <3>2, <3>3
  <2>3. 1 \in 1..Len(recu[p]) /\ e \in Envois /\ e \in ToSet(recu[p])
    BY <1>2, <2>1, <2>2 DEF ToSet
  <2>4. ~EstReponse(e)
    BY <1>0, <1>1, <1>2, <2>3 DEF LecturesEnOrdre
  <2>. QED BY <2>1, <2>2, <2>3, <2>4 DEF Envois
<1>5. vue' = [vue EXCEPT ![p] = r] /\ enchere' = [enchere EXCEPT ![p] = TRUE]
  BY <1>1, <1>2, <1>3, <1>4 DEF EstListe
<1>6. /\ etape'[p] = "boucle" /\ vue'[p] = r
      /\ \A q \in Pairs : q # p => /\ etape'[q] = etape[q] /\ vue'[q] = vue[q]
                                   /\ enchere'[q] = enchere[q]
  BY <1>0, <1>1, <1>5 DEF Types
<1>7. /\ Parrains' /\ Paisibles
      /\ \A s \in Pairs : \A x : Presente(s, x)' <=> Presente(s, x)
      /\ \A x \in Pairs : Inconnu(x)' <=> Inconnu(x)
      /\ \A x, y \in Pairs : /\ Annoncee(x, y)' <=> Annoncee(x, y)
                             /\ DuParrain(x, y)' <=> DuParrain(x, y)
                             /\ AAnnoncer(x, y)' <=> AAnnoncer(x, y)
  BY <1>1, <1>6, AdhesionRelations
<1>8. ASSUME Distincts PROVE MemesNoms
  <2> DEFINE S == {x \in PairsPossibles : Sincere(x)}
  <2>1. S \subseteq PairsPossibles /\ Coherents(S)
    BY <1>8, SinceresCoherents
  <2>2. vue[p] \in Seq(PairsPossibles) /\ vue[p] = <<Pair(moi[p], p)>>
    BY <1>0, <1>1, DuPair, SeulSurLeChemin DEF EnChemin
  <2>3. \A k \in 1..Len(vue[p]) : vue[p][k] \in S
    <3>1. Len(vue[p]) = 1 /\ vue[p][1] = Pair(moi[p], p)
      BY <2>2
    <3>2. vue[p][1] \in PairsPossibles
      BY <2>2, <3>1
    <3>3. Sincere(Pair(moi[p], p))
      BY <1>1, MoiSincere
    <3>4. Pair(moi[p], p) \in S
      BY <3>1, <3>2, <3>3
    <3>. QED BY <3>1, <3>4
  <2>4. Entiere(e) /\ \A j \in 2..Len(e) : PairDe(e[j]) \in S
    <3>1. \A j \in 2..Len(e) : Sincere(PairDe(e[j])) /\ PairDe(e[j]) \in PairsPossibles
      BY <1>0, <1>4, NomsTypes DEF NomsSinceres
    <3>2. Entiere(e)
      <4>1. recu[p][1][1].nb \in Nat
        BY <1>0, <1>1, EnvoiLu
      <4>2. Len(e) = e[1].nb + 1 /\ \A j \in 2..Len(e) : Nomme(e[j])
        BY <1>4 DEF Envois
      <4>3. e[1].nb \in Nat
        BY <1>2, <4>1
      <4>. QED BY <4>2, <4>3 DEF Entiere
    <3>. QED BY <3>1, <3>2
  <2> HIDE DEF S
  <2>5. Nommes(r) = Nommes(vue[p]) \cup Envoyes(e)
    BY <1>3, <2>1, <2>2, <2>3, <2>4, NommesCharges
  <2>6. \A y : Listee(p, y) <=> y \in Envoyes(e)
    <3>1. \A k \in 1..Len(recu[p]) : k = 1 /\ recu[p][k] = e
      BY <1>2, <1>4
    <3>2. 1 \in 1..Len(recu[p])
      BY <1>4
    <3>. QED BY <1>4, <3>1, <3>2 DEF Listee, Envoyes
  <2>7. recu'[p] = <<>> /\ \A q \in Pairs : q # p => recu'[q] = recu[q]
    BY <1>0, <1>1, RaccrocheTypes
  <2>8. \A y : ~Listee(p, y)'
    <3>1. 1..Len(recu'[p]) = {}
      BY <2>7
    <3>. QED BY <3>1 DEF Listee
  <2>9. \A x, y \in Pairs : x # p => (Listee(x, y)' <=> Listee(x, y))
    BY <2>7 DEF Listee
  <2>10. \A x, y \in Pairs : (y \in Nommes(vue'[x]) \/ Listee(x, y)')
                               <=> (y \in Nommes(vue[x]) \/ Listee(x, y))
    BY <1>6, <2>5, <2>6, <2>8, <2>9
  <2>11. \A x, y \in Pairs : Saura(x, y)' <=> Saura(x, y)
    BY <1>7, <2>10 DEF Saura
  <2>12. \A x \in Pairs : Nommes(vue[x]) \subseteq Nommes(vue'[x])
    BY <1>6, <2>5
  <2>. QED BY <1>7, <2>11, <2>12 DEF MemesNoms
<1>. QED BY <1>7, <1>8

LEMMA DuParrainPareil ==
  ASSUME \A s, x \in Pairs : Presente(s, x)' <=> Presente(s, x),
         \A s \in Pairs : etape[s] = "annonce" => vue'[s] = vue[s]
  PROVE  \A x, y \in Pairs : DuParrain(x, y)' <=> DuParrain(x, y)
<1>1. \A s \in Pairs : etape[s] = "annonce" => Nommes(vue'[s]) = Nommes(vue[s])
  OBVIOUS
<1>2. ASSUME NEW x \in Pairs, NEW y \in Pairs, DuParrain(x, y) PROVE DuParrain(x, y)'
  <2>1. PICK t \in Pairs : Presente(t, x) /\ y \in Nommes(vue[t])
    BY <1>2 DEF DuParrain
  <2>2. Presente(t, x)' /\ y \in Nommes(vue'[t])
    BY <1>1, <2>1 DEF Presente
  <2>. QED BY <2>2 DEF DuParrain
<1>3. ASSUME NEW x \in Pairs, NEW y \in Pairs, DuParrain(x, y)' PROVE DuParrain(x, y)
  <2>1. PICK t \in Pairs : Presente(t, x)' /\ y \in Nommes(vue'[t])
    BY <1>3 DEF DuParrain
  <2>2. Presente(t, x) /\ y \in Nommes(vue[t])
    BY <1>1, <2>1 DEF Presente
  <2>. QED BY <2>2 DEF DuParrain
<1>. QED BY <1>2, <1>3

\* The first connection that waits is read.
LEMMA TeteLue ==
  ASSUME Types, SoiEnTete, NEW p \in Pairs, file[p] # <<>>, file' = [file EXCEPT ![p] = Tail(@)]
  PROVE  /\ 1 \in 1..Len(file[p])
         /\ \A s \in Pairs : \A k \in 1..Len(file'[s]) :
                \E j \in 1..Len(file[s]) : file'[s][k] = file[s][j]
         /\ \A y : Annoncee(p, y) <=>
                (Annonce(file[p][1]) /\ file[p][1].msgs[1].ip = y) \/ Annoncee(p, y)'
         /\ \A x \in Pairs : x # p => \A y : Annoncee(x, y)' <=> Annoncee(x, y)
<1>1. file'[p] = Tail(file[p]) /\ \A s \in Pairs : s # p => file'[s] = file[s]
  BY DEF Types
<1>2. /\ file[p] \in Seq(Connexions) /\ Len(Tail(file[p])) = Len(file[p]) - 1
      /\ \A k \in 1..Len(Tail(file[p])) : Tail(file[p])[k] = file[p][k + 1]
  BY DuPair, TeteDeFile
<1>3. Len(file[p]) \in Nat /\ Len(file[p]) # 0
  BY <1>2
<1>4. \A n \in Nat : n # 0 =>
        /\ 1 \in 1..n /\ \A k \in 1..(n - 1) : k + 1 \in 1..n
        /\ \A k \in 1..n : k = 1 \/ (k - 1 \in 1..(n - 1) /\ k - 1 + 1 = k)
  OBVIOUS
<1>5. /\ Len(file'[p]) = Len(file[p]) - 1 /\ 1 \in 1..Len(file[p])
      /\ \A k \in 1..Len(file'[p]) : k + 1 \in 1..Len(file[p]) /\ file'[p][k] = file[p][k + 1]
      /\ \A k \in 1..Len(file[p]) :
            k = 1 \/ (k - 1 \in 1..Len(file'[p]) /\ file'[p][k - 1] = file[p][k])
  BY <1>1, <1>2, <1>3, <1>4
<1>6. \A s \in Pairs : \A k \in 1..Len(file'[s]) :
          \E j \in 1..Len(file[s]) : file'[s][k] = file[s][j]
  BY <1>1, <1>5
<1>7. ASSUME NEW y, Annoncee(p, y)
      PROVE  (Annonce(file[p][1]) /\ file[p][1].msgs[1].ip = y) \/ Annoncee(p, y)'
  <2>1. PICK k \in 1..Len(file[p]) : Annonce(file[p][k]) /\ file[p][k].msgs[1].ip = y
    BY <1>7 DEF Annoncee
  <2>2. CASE k = 1
    BY <2>1, <2>2
  <2>3. CASE k # 1
    <3>1. k - 1 \in 1..Len(file'[p]) /\ file'[p][k - 1] = file[p][k]
      BY <1>5, <2>3
    <3>. QED BY <2>1, <3>1 DEF Annoncee
  <2>. QED BY <2>2, <2>3
<1>8. ASSUME NEW y, Annonce(file[p][1]) /\ file[p][1].msgs[1].ip = y PROVE Annoncee(p, y)
  BY <1>5, <1>8 DEF Annoncee
<1>9. ASSUME NEW y, Annoncee(p, y)' PROVE Annoncee(p, y)
  <2>1. PICK k \in 1..Len(file'[p]) : Annonce(file'[p][k]) /\ file'[p][k].msgs[1].ip = y
    BY <1>9 DEF Annoncee
  <2>2. k + 1 \in 1..Len(file[p]) /\ file'[p][k] = file[p][k + 1]
    BY <1>5
  <2>. QED BY <2>1, <2>2 DEF Annoncee
<1>10. \A x \in Pairs : x # p => \A y : Annoncee(x, y)' <=> Annoncee(x, y)
  BY <1>1 DEF Annoncee
<1>. QED BY <1>5, <1>6, <1>7, <1>8, <1>9, <1>10

\* What waits in the queues keeps its sponsor.
LEMMA FilesApres ==
  ASSUME Sain, Parrains,
         \A s \in Pairs : \A k \in 1..Len(file'[s]) :
            \E j \in 1..Len(file[s]) : file'[s][k] = file[s][j],
         UNCHANGED parrain
  PROVE  \A s \in Pairs : EnFile(s)'
<1>1. ASSUME NEW s \in Pairs, NEW k \in 1..Len(file'[s])
      PROVE  /\ Demande(file'[s][k]) => parrain'[file'[s][k].de] = s
             /\ Annonce(file'[s][k]) => parrain'[file'[s][k].msgs[1].ip] = file'[s][k].de
                                        /\ file'[s][k].de # s
  <2>1. PICK j \in 1..Len(file[s]) : file'[s][k] = file[s][j]
    OBVIOUS
  <2>2. PICK c : c = file[s][j]
    OBVIOUS
  <2>3. EnFile(s)
    BY DEF Parrains
  <2>4. /\ Demande(c) => parrain[c.de] = s
        /\ Annonce(c) => parrain[c.msgs[1].ip] = c.de /\ c.de # s
    BY <2>2, <2>3 DEF EnFile
  <2>. QED BY <2>1, <2>2, <2>4
<1>. QED BY <1>1 DEF EnFile

LEMMA LectureRelations ==
  ASSUME Sain, Parrains, NEW p \in Pairs, etape[p] = "boucle", file[p] # <<>>,
         file' = [file EXCEPT ![p] = Tail(@)], Annonce(file[p][1]),
         NEW m, m = file[p][1].msgs[1],
         vue' = [vue EXCEPT ![p] = handle_code6_message(@, PairDe(m))],
         UNCHANGED <<etape, moi, service, recu, parrain, enchere>>
  PROVE  Parrains' /\ Paisibles /\ (Distincts => MemesNoms)
<1>0. Types /\ SoiEnTete /\ NomsSinceres
  BY SainFaits
<1>1. /\ 1 \in 1..Len(file[p])
      /\ \A s \in Pairs : \A k \in 1..Len(file'[s]) :
                \E j \in 1..Len(file[s]) : file'[s][k] = file[s][j]
      /\ \A y : Annoncee(p, y) <=>
                (Annonce(file[p][1]) /\ file[p][1].msgs[1].ip = y) \/ Annoncee(p, y)'
      /\ \A x \in Pairs : x # p => \A y : Annoncee(x, y)' <=> Annoncee(x, y)
  BY <1>0, TeteLue
<1>2. PICK r : r = handle_code6_message(vue[p], PairDe(m))
  OBVIOUS
<1>3. vue'[p] = r /\ \A q \in Pairs : q # p => vue'[q] = vue[q]
  BY <1>0, <1>2 DEF Types
<1>4. \A s, x \in Pairs : Presente(s, x)' <=> Presente(s, x)
  BY DEF Presente
<1>5. \A s \in Pairs : etape[s] = "annonce" => vue'[s] = vue[s]
  BY <1>3
<1>6. \A x \in Pairs : (Inconnu(x)' <=> Inconnu(x)) /\ Paisible(x)
  <2>1. ASSUME NEW x \in Pairs PROVE (Inconnu(x)' <=> Inconnu(x)) /\ Paisible(x)
    <3>1. etape'[x] = etape[x] /\ moi'[x] = moi[x] /\ enchere'[x] = enchere[x]
          /\ recu'[x] = recu[x] /\ parrain'[x] = parrain[x]
      OBVIOUS
    <3>. QED BY <1>4, <3>1, GardePareil, PaisiblePareil
  <2>. QED BY <2>1
<1>7. Parrains'
  <2>1. \A x \in Pairs : SurLeChemin(x)'
    BY DEF Parrains, SurLeChemin
  <2>2. \A s \in Pairs : EnFile(s)'
    BY <1>1, FilesApres
  <2>3. ASSUME NEW s \in Pairs, NEW x \in Pairs, Presente(s, x)'
        PROVE  parrain'[x] = s /\ \A k \in service'[s].reste : vue'[s][k].ip # s
    <3>1. Presente(s, x) /\ vue'[s] = vue[s]
      BY <1>4, <1>5, <2>3 DEF Presente
    <3>. QED BY <3>1 DEF Parrains
  <2>4. ASSUME NEW s \in Pairs, NEW x \in Pairs, ~Inconnu(x)', parrain'[x] = s
        PROVE  etape'[s] \notin EnChemin \cup {"absent"}
    BY <1>6, <2>4 DEF Parrains
  <2>. QED BY <2>1, <2>2, <2>3, <2>4 DEF Parrains
<1>8. Paisibles
  BY <1>6 DEF Paisibles
<1>9. ASSUME Distincts PROVE MemesNoms
  <2>1. PICK x : x = PairDe(m)
    OBVIOUS
  <2>2. x \in PairsPossibles /\ Sincere(x) /\ x.ip = m.ip
    <3>1. file[p][1] \in ToSet(file[p]) /\ x \in PairsPossibles
      BY <1>1, <2>1, DansLaFile
    <3>2. Sincere(PairDe(file[p][1].msgs[1]))
      BY <1>0, <3>1 DEF NomsSinceres
    <3>3. \A y : y = PairDe(file[p][1].msgs[1]) => Sincere(y)
      BY <3>2
    <3>4. x.ip = m.ip
      BY <2>1 DEF PairDe
    <3>. QED BY <2>1, <3>1, <3>3, <3>4
  <2>3. \A k \in 1..Len(vue[p]) : vue[p][k].id = x.id => vue[p][k].ip = x.ip
    BY <1>9, <2>2, VueCoherente DEF EnChemin
  <2>4. vue[p] \in Seq(PairsPossibles)
    BY <1>0, DuPair
  <2>5. Nommes(r) = Nommes(vue[p]) \cup {x.ip}
    <3>1. r = handle_code6_message(vue[p], x)
      BY <1>2, <2>1
    <3>. QED BY <2>2, <2>3, <2>4, <3>1, NommesRemplacement
  <2>6. \A y : Annoncee(p, y) <=> y = x.ip \/ Annoncee(p, y)'
    BY <1>1, <2>2
  <2>7. \A a, b \in Pairs : (b \in Nommes(vue'[a]) \/ Annoncee(a, b)')
                               <=> (b \in Nommes(vue[a]) \/ Annoncee(a, b))
    BY <1>1, <1>3, <2>5, <2>6
  <2>8. \A a, b \in Pairs : Listee(a, b)' <=> Listee(a, b)
    BY DEF Listee
  <2>9. \A a, b \in Pairs : DuParrain(a, b)' <=> DuParrain(a, b)
    BY <1>4, <1>5, DuParrainPareil
  <2>10. \A a, b \in Pairs : AAnnoncer(a, b)' <=> AAnnoncer(a, b)
    BY <1>5 DEF AAnnoncer, Presente
  <2>11. \A a, b \in Pairs : Saura(a, b)' <=> Saura(a, b)
    BY <2>7, <2>8, <2>9, <2>10 DEF Saura
  <2>12. \A a \in Pairs : Nommes(vue[a]) \subseteq Nommes(vue'[a])
    BY <1>3, <2>5
  <2>. QED BY <1>4, <1>6, <2>11, <2>12 DEF MemesNoms
<1>. QED BY <1>7, <1>8, <1>9

\* A member that a list names is there.
LEMMA NommeOuvert ==
  ASSUME Sain, NEW p \in Pairs, etape[p] \notin EnChemin, NEW k \in 1..Len(vue[p])
  PROVE  /\ vue[p][k] \in PairsPossibles /\ Sincere(vue[p][k])
         /\ vue[p][k].ip \in Pairs /\ ~Inconnu(vue[p][k].ip) /\ Ouvert(vue[p][k].ip)
<1>0. Types /\ SoiEnTete /\ NomsSinceres /\ LecturesEnOrdre
  BY SainFaits
<1>1. vue[p][k] \in PairsPossibles /\ vue[p][k] \in ToSet(vue[p])
  <2>1. vue[p] \in Seq(PairsPossibles)
    BY <1>0, DuPair
  <2>. QED BY <2>1 DEF ToSet
<1>2. Sincere(vue[p][k])
  BY <1>0, <1>1 DEF NomsSinceres
<1>3. vue[p][k].ip \in Pairs /\ ~Inconnu(vue[p][k].ip)
  BY <1>1, <1>2, NomConnu
<1>4. Ouvert(vue[p][k].ip)
  BY <1>0, <1>3 DEF Ouvert, Inconnu, LecturesEnOrdre
<1>. QED BY <1>1, <1>2, <1>3, <1>4

LEMMA DiffusionRelations ==
  ASSUME Sain, Parrains, NEW p \in Pairs, broadcast_to_peers(p)
  PROVE  Parrains' /\ Paisibles /\ MemesNoms
<1>0. Types /\ TypesDuService /\ SoiEnTete
  BY SainFaits
<1>1. PICK q \in Pairs, m \in Messages, f \in Connexions :
            /\ f = [de |-> p, vif |-> FALSE, msgs |-> <<m>>] /\ m.code = 6
            /\ PairDe(m) = service[p].pair
            /\ (Ouvert(q) => file' = [file EXCEPT ![q] = Append(@, f)])
            /\ q = vue[p][PlusPetit(service[p].reste)].ip
            /\ service' = [service EXCEPT ![p].reste = @ \ {PlusPetit(@)}]
            /\ etape[p] = "annonce" /\ service[p].reste # {}
            /\ UNCHANGED <<etape, nouveau, moi, vue, udp, recu, pannes>>
  BY <1>0, Tour
<1>2. PICK k0 : k0 = PlusPetit(service[p].reste)
  OBVIOUS
<1>3. PICK n : n = service[p].de
  OBVIOUS
<1>4. /\ Presente(p, n) /\ n \in Pairs /\ ~Inconnu(n) /\ service[p].pair.ip = n
      /\ service[p].reste \subseteq 1..Len(vue[p])
  <2>1. Presente(p, n)
    BY <1>1, <1>3 DEF Presente
  <2>. QED BY <2>1, PresenteFaits
<1>5. k0 \in service[p].reste /\ k0 \in 1..Len(vue[p]) /\ q = vue[p][k0].ip
  <2>1. service[p].reste \subseteq Nat
    BY <1>4
  <2>2. k0 \in service[p].reste
    BY <1>1, <1>2, <2>1, PremierDe
  <2>. QED BY <1>1, <1>2, <1>4, <2>2
<1>6. Ouvert(q) /\ q # p
  <2>1. Ouvert(q)
    BY <1>1, <1>5, NommeOuvert DEF EnChemin
  <2>2. q # p
    BY <1>4, <1>5 DEF Parrains
  <2>. QED BY <2>1, <2>2
<1>7. file' = [file EXCEPT ![q] = Append(@, f)]
  BY <1>1, <1>6
<1>8. /\ f.de = p /\ Annonce(f) /\ ~Demande(f) /\ f.msgs[1].ip = n
  <2>1. m.ip = n
    BY <1>1, <1>4 DEF PairDe
  <2>2. f.de = p /\ f.vif = FALSE /\ Len(f.msgs) = 1 /\ f.msgs[1] = m
    BY <1>1
  <2>. QED BY <1>1, <2>1, <2>2 DEF Annonce, Demande
<1>9. /\ UNCHANGED <<etape, moi, vue, recu, parrain, enchere>>
  BY <1>1 DEF nouveau
<1>10. /\ service'[p].reste = service[p].reste \ {k0}
       /\ \A s \in Pairs : service'[s].de = service[s].de
       /\ \A s \in Pairs : s # p => service'[s].reste = service[s].reste
  <2> DEFINE v == [service[p] EXCEPT !.reste = @ \ {PlusPetit(@)}]
  <2>1. service' = [service EXCEPT ![p] = v]
    BY <1>1
  <2>2. service[p] \in Services
    BY <1>0, DuPair
  <2>3. v.de = service[p].de /\ v.reste = service[p].reste \ {k0}
    BY <1>2, <2>2 DEF Services
  <2> HIDE DEF v
  <2>4. service'[p] = v /\ \A s \in Pairs : s # p => service'[s] = service[s]
    BY <1>0, <2>1 DEF Types
  <2>. QED BY <2>3, <2>4
<1>11. \A s, x \in Pairs : Presente(s, x)' <=> Presente(s, x)
  BY <1>9, <1>10 DEF Presente
<1>12. \A x \in Pairs : (Inconnu(x)' <=> Inconnu(x)) /\ Paisible(x)
  <2>1. ASSUME NEW x \in Pairs PROVE (Inconnu(x)' <=> Inconnu(x)) /\ Paisible(x)
    <3>1. etape'[x] = etape[x] /\ moi'[x] = moi[x] /\ enchere'[x] = enchere[x]
          /\ recu'[x] = recu[x] /\ parrain'[x] = parrain[x]
      BY <1>9
    <3>. QED BY <1>11, <3>1, GardePareil, PaisiblePareil
  <2>. QED BY <2>1
<1>13. /\ \A s \in Pairs : \A k \in 1..Len(file[s]) :
                k \in 1..Len(file'[s]) /\ file'[s][k] = file[s][k]
       /\ \A s \in Pairs : \A k \in 1..Len(file'[s]) :
                \/ k \in 1..Len(file[s]) /\ file'[s][k] = file[s][k]
                \/ s = q /\ k = Len(file[q]) + 1 /\ file'[s][k] = f
       /\ Len(file[q]) + 1 \in 1..Len(file'[q]) /\ file'[q][Len(file[q]) + 1] = f
  BY <1>0, <1>7, Ajoutee
<1>14. Parrains'
  <2>1. \A x \in Pairs : SurLeChemin(x)'
    BY <1>9 DEF Parrains, SurLeChemin
  <2>2. ASSUME NEW s \in Pairs, NEW k \in 1..Len(file'[s])
        PROVE  /\ Demande(file'[s][k]) => parrain'[file'[s][k].de] = s
               /\ Annonce(file'[s][k]) => parrain'[file'[s][k].msgs[1].ip] = file'[s][k].de
                                          /\ file'[s][k].de # s
    <3>1. CASE k \in 1..Len(file[s]) /\ file'[s][k] = file[s][k]
      <4>1. PICK c : c = file[s][k]
        OBVIOUS
      <4>2. EnFile(s)
        BY DEF Parrains
      <4>3. /\ Demande(c) => parrain[c.de] = s
            /\ Annonce(c) => parrain[c.msgs[1].ip] = c.de /\ c.de # s
        BY <3>1, <4>1, <4>2 DEF EnFile
      <4>. QED BY <1>9, <3>1, <4>1, <4>3
    <3>2. CASE s = q /\ file'[s][k] = f
      <4>1. parrain[n] = p
        BY <1>4 DEF Parrains
      <4>. QED BY <1>6, <1>8, <1>9, <3>2, <4>1
    <3>. QED BY <1>13, <3>1, <3>2
  <2>3. \A s \in Pairs : EnFile(s)'
    BY <2>2 DEF EnFile
  <2>4. ASSUME NEW s \in Pairs, NEW x \in Pairs, Presente(s, x)'
        PROVE  parrain'[x] = s /\ \A k \in service'[s].reste : vue'[s][k].ip # s
    <3>1. Presente(s, x) /\ service'[s].reste \subseteq service[s].reste
      BY <1>10, <1>11, <2>4
    <3>. QED BY <1>9, <3>1 DEF Parrains
  <2>5. ASSUME NEW s \in Pairs, NEW x \in Pairs, ~Inconnu(x)', parrain'[x] = s
        PROVE  etape'[s] \notin EnChemin \cup {"absent"}
    BY <1>9, <1>12, <2>5 DEF Parrains
  <2>. QED BY <2>1, <2>3, <2>4, <2>5 DEF Parrains
<1>15. Paisibles
  BY <1>12 DEF Paisibles
<1>16. ASSUME NEW x \in Pairs, NEW y \in Pairs
       PROVE  Annoncee(x, y)' <=> Annoncee(x, y) \/ (x = q /\ y = n)
  <2>1. ASSUME Annoncee(x, y) PROVE Annoncee(x, y)'
    <3>1. PICK k \in 1..Len(file[x]) : Annonce(file[x][k]) /\ file[x][k].msgs[1].ip = y
      BY <2>1 DEF Annoncee
    <3>2. k \in 1..Len(file'[x]) /\ file'[x][k] = file[x][k]
      BY <1>13
    <3>. QED BY <3>1, <3>2 DEF Annoncee
  <2>2. ASSUME x = q, y = n PROVE Annoncee(x, y)'
    BY <1>8, <1>13, <2>2 DEF Annoncee
  <2>3. ASSUME Annoncee(x, y)' PROVE Annoncee(x, y) \/ (x = q /\ y = n)
    <3>1. PICK k \in 1..Len(file'[x]) : Annonce(file'[x][k]) /\ file'[x][k].msgs[1].ip = y
      BY <2>3 DEF Annoncee
    <3>2. CASE k \in 1..Len(file[x]) /\ file'[x][k] = file[x][k]
      BY <3>1, <3>2 DEF Annoncee
    <3>3. CASE x = q /\ file'[x][k] = f
      BY <1>8, <3>1, <3>3
    <3>. QED BY <1>13, <3>2, <3>3
  <2>. QED BY <2>1, <2>2, <2>3
<1>17. ASSUME NEW x \in Pairs, NEW y \in Pairs
       PROVE  AAnnoncer(x, y) <=> AAnnoncer(x, y)' \/ (x = q /\ y = n)
  <2>1. ASSUME AAnnoncer(x, y)' PROVE AAnnoncer(x, y)
    <3>1. PICK t \in Pairs : Presente(t, y)'
              /\ (t = x \/ \E k \in service'[t].reste : vue'[t][k].ip = x)
      BY <2>1 DEF AAnnoncer
    <3>2. service'[t].reste \subseteq service[t].reste /\ vue' = vue /\ Presente(t, y)
      BY <1>9, <1>10, <1>11, <3>1
    <3>. QED BY <3>1, <3>2 DEF AAnnoncer
  <2>2. ASSUME x = q, y = n PROVE AAnnoncer(x, y)
    BY <1>4, <1>5, <2>2 DEF AAnnoncer
  <2>3. ASSUME AAnnoncer(x, y), ~(x = q /\ y = n) PROVE AAnnoncer(x, y)'
    <3>1. PICK t \in Pairs : Presente(t, y) /\ (t = x \/ \E k \in service[t].reste : vue[t][k].ip = x)
      BY <2>3 DEF AAnnoncer
    <3>2. CASE t = x
      <4>1. Presente(t, y)'
        BY <1>11, <3>1
      <4>. QED BY <3>2, <4>1 DEF AAnnoncer
    <3>3. CASE t # x
      <4>1. PICK k \in service[t].reste : vue[t][k].ip = x
        BY <3>1, <3>3
      <4>2. k \in service'[t].reste
        <5>1. CASE t # p
          BY <1>10, <5>1
        <5>2. CASE t = p
          <6>1. y = n
            BY <1>3, <3>1, <5>2 DEF Presente
          <6>2. k # k0
            BY <1>5, <2>3, <4>1, <5>2, <6>1
          <6>. QED BY <1>10, <5>2, <6>2
        <5>. QED BY <5>1, <5>2
      <4>3. Presente(t, y)' /\ vue'[t][k].ip = x
        BY <1>9, <1>11, <3>1, <4>1
      <4>. QED BY <4>2, <4>3 DEF AAnnoncer
    <3>. QED BY <3>2, <3>3
  <2>. QED BY <2>1, <2>2, <2>3
<1>18. \A x, y \in Pairs : Saura(x, y)' <=> Saura(x, y)
  <2>1. \A x, y \in Pairs : Listee(x, y)' <=> Listee(x, y)
    BY <1>9 DEF Listee
  <2>2. \A x, y \in Pairs : DuParrain(x, y)' <=> DuParrain(x, y)
    BY <1>9, <1>11, DuParrainPareil
  <2>3. \A x, y \in Pairs : (Annoncee(x, y)' \/ AAnnoncer(x, y)') <=> (Annoncee(x, y) \/ AAnnoncer(x, y))
    BY <1>16, <1>17
  <2>. QED BY <1>9, <2>1, <2>2, <2>3 DEF Saura
<1>19. MemesNoms
  BY <1>9, <1>11, <1>12, <1>18 DEF MemesNoms
<1>. QED BY <1>14, <1>15, <1>19

LEMMA EnvoiListeRelations ==
  ASSUME Sain, Parrains, NEW p \in Pairs, send_peer_list(p), pannes' = 0
  PROVE  Parrains' /\ Paisibles /\ (Distincts => MemesNoms)
<1>0. Types /\ TypesDuService /\ SoiEnTete
  BY SainFaits
<1>l. PICK n \in Pairs, liste \in Envois : EnvoieListe(p, n, liste)
  BY EnvoiListeFaits
<1>1. /\ etape[p] = "annonce" /\ n = service[p].de /\ n # p
      /\ \/ etape[n] = "attend50" /\ Len(recu[n]) = 1
         \/ etape[n] = "attend7" /\ recu[n] = <<>>
      /\ etape'[p] = "dort" /\ \A q \in Pairs : q # p => etape'[q] = etape[q]
      /\ vue'[p] = add_peer_to_list(p, service[p].pair) /\ vue'[p] \in Seq(PairsPossibles)
      /\ \A q \in Pairs : q # p => vue'[q] = vue[q]
      /\ UNCHANGED <<nouveau, moi, udp, file, service>>
      /\ Len(liste) = Len(vue'[p]) + 1 /\ EstListe(liste)
      /\ \A j \in 2..Len(liste) : PairDe(liste[j]) = vue'[p][j - 1]
      /\ recu'[n] = Append(recu[n], liste) /\ \A q \in Pairs : q # n => recu'[q] = recu[q]
      /\ Len(recu'[n]) = Len(recu[n]) + 1 /\ recu'[n][Len(recu[n]) + 1] = liste
      /\ \A k \in 1..Len(recu[n]) : recu'[n][k] = recu[n][k]
      /\ Len(recu[n]) \in Nat
      /\ ~Inconnu(n)' /\ IdFinal(n)' = IdFinal(n)
  <2>1. vue'[p] = add_peer_to_list(p, service[p].pair)
    BY <1>0 DEF send_peer_list, Types
  <2>. QED BY <1>l, <2>1 DEF EnvoieListe
<1>2. UNCHANGED <<moi, enchere, parrain, file, service>>
  BY <1>1 DEF nouveau
<1>3. /\ Presente(p, n) /\ ~Inconnu(n) /\ service[p].pair.ip = n
      /\ service[p].pair \in PairsPossibles /\ Sincere(service[p].pair)
  <2>1. Presente(p, n)
    BY <1>1 DEF Presente
  <2>. QED BY <2>1, PresenteFaits
<1>4. \A s \in Pairs : \A x : Presente(s, x)' <=> Presente(s, x) /\ s # p
  BY <1>1, <1>2 DEF Presente
<1>5. \A x : Presente(p, x) <=> x = n
  BY <1>1 DEF Presente
<1>6. \A q \in Pairs : q # n /\ q # p => (Inconnu(q)' <=> Inconnu(q)) /\ Paisible(q)
  <2>1. ASSUME NEW q \in Pairs, q # n, q # p PROVE (Inconnu(q)' <=> Inconnu(q)) /\ Paisible(q)
    <3>1. etape'[q] = etape[q] /\ moi'[q] = moi[q] /\ enchere'[q] = enchere[q]
          /\ recu'[q] = recu[q] /\ parrain'[q] = parrain[q]
      BY <1>1, <1>2, <2>1
    <3>. QED BY <1>4, <3>1, GardePareil, PaisiblePareil
  <2>. QED BY <2>1
<1>7. ~Inconnu(n)' /\ Paisible(n)
  <2>1. Garde(n)
    BY <1>1, <1>3 DEF Garde
  <2>2. etape[n] \in EnChemin
    BY <1>1 DEF EnChemin
  <2>. QED BY <1>1, <1>2, <1>3, <2>1, <2>2 DEF Paisible
<1>8. ~Inconnu(p) /\ ~Inconnu(p)' /\ Paisible(p)
  <2>1. ~Inconnu(p) /\ ~Inconnu(p)' /\ IdFinal(p)' = IdFinal(p)
    BY <1>1, <1>2 DEF Inconnu, Patiente, IdFinal, Changera
  <2>2. Garde(p)
    BY <2>1 DEF Garde
  <2>3. etape[p] \notin EnChemin /\ etape'[p] \notin EnChemin \cup {"absent"} /\ etape[p] # "attend7"
    BY <1>1 DEF EnChemin
  <2>4. parrain'[p] = parrain[p] /\ enchere'[p] = enchere[p]
    BY <1>2
  <2>5. Paisible(p)
    BY <2>2, <2>3, <2>4 DEF Paisible
  <2>. QED BY <2>1, <2>5
<1>9. \A q \in Pairs : Inconnu(q)' <=> Inconnu(q)
  BY <1>3, <1>6, <1>7, <1>8
<1>10. Paisibles
  BY <1>6, <1>7, <1>8 DEF Paisibles
<1>11. Parrains'
  <2>1. ASSUME NEW x \in Pairs PROVE SurLeChemin(x)'
    <3>1. SurLeChemin(x)
      BY DEF Parrains
    <3>2. CASE x = n
      BY <1>1, <1>2, <3>1, <3>2 DEF SurLeChemin
    <3>3. CASE x = p
      BY <1>1, <3>3 DEF SurLeChemin, EnChemin
    <3>4. CASE x # n /\ x # p
      BY <1>1, <1>2, <3>1, <3>4 DEF SurLeChemin
    <3>. QED BY <3>2, <3>3, <3>4
  <2>2. \A s \in Pairs : EnFile(s)'
    BY <1>2 DEF Parrains, EnFile
  <2>3. ASSUME NEW s \in Pairs, NEW x \in Pairs, Presente(s, x)'
        PROVE  parrain'[x] = s /\ \A k \in service'[s].reste : vue'[s][k].ip # s
    <3>1. Presente(s, x) /\ s # p
      BY <1>4, <2>3
    <3>2. vue'[s] = vue[s]
      BY <1>1, <3>1
    <3>. QED BY <1>2, <3>1, <3>2 DEF Parrains
  <2>4. ASSUME NEW s \in Pairs, NEW x \in Pairs, ~Inconnu(x)', parrain'[x] = s
        PROVE  etape'[s] \notin EnChemin \cup {"absent"}
    <3>1. etape[s] \notin EnChemin \cup {"absent"}
      BY <1>2, <1>9, <2>4 DEF Parrains
    <3>. QED BY <1>1, <3>1 DEF EnChemin
  <2>. QED BY <2>1, <2>2, <2>3, <2>4 DEF Parrains
<1>12. ASSUME Distincts PROVE Nommes(vue'[p]) = Nommes(vue[p]) \cup {n}
  <2> DEFINE x == service[p].pair
  <2>1. IdFinal(p) = moi[p]
    BY <1>1 DEF IdFinal, Changera
  <2>2. x.id # moi[p]
    BY <1>1, <1>3, <1>8, <1>12, <2>1 DEF Sincere, Distincts
  <2>3. vue'[p] = peer_list_add(vue[p], x)
    BY <1>1, <2>2 DEF add_peer_to_list
  <2>4. vue[p] \in Seq(PairsPossibles)
    BY <1>0, DuPair
  <2>5. \A k \in 1..Len(vue[p]) : vue[p][k].id = x.id => vue[p][k].ip = x.ip
    BY <1>1, <1>3, <1>12, VueCoherente DEF EnChemin
  <2>6. x \in PairsPossibles /\ x.ip = n
    BY <1>3
  <2> HIDE DEF x
  <2>. QED BY <2>3, <2>4, <2>5, <2>6, NommesAjout
<1>13. \A y : (\E j \in 2..Len(liste) : liste[j].ip = y) <=> y \in Nommes(vue'[p])
  <2>1. PICK l : l = vue'[p]
    OBVIOUS
  <2>2. Len(l) \in Nat /\ Len(liste) = Len(l) + 1
    BY <1>1, <2>1
  <2>8. \A j \in 2..Len(liste) : PairDe(liste[j]) = l[j - 1]
    BY <1>1, <2>1
  <2>9. \A j \in 2..Len(liste) : j - 1 \in 1..Len(l)
    BY <2>2
  <2>10. \A e : PairDe(e).ip = e.ip
    BY DEF PairDe
  <2>3. \A j \in 2..Len(liste) : j - 1 \in 1..Len(l) /\ liste[j].ip = l[j - 1].ip
    BY <2>8, <2>9, <2>10
  <2>4. \A k \in 1..Len(l) : k + 1 \in 2..Len(liste) /\ (k + 1) - 1 = k
    BY <2>2
  <2>5. \A y : y \in Nommes(l) <=> \E k \in 1..Len(l) : l[k].ip = y
    BY NommesDe
  <2>6. \A k \in 1..Len(l) : liste[k + 1].ip = l[k].ip
    BY <2>3, <2>4
  <2>7. ASSUME NEW y PROVE (\E j \in 2..Len(liste) : liste[j].ip = y) <=> y \in Nommes(l)
    BY <2>3, <2>4, <2>5, <2>6
  <2>. QED BY <2>1, <2>7
<1>14. ASSUME NEW x \in Pairs, NEW y
       PROVE  Listee(x, y)' <=> Listee(x, y) \/ (x = n /\ y \in Nommes(vue'[p]))
  <2>1. CASE x # n
    <3>1. recu'[x] = recu[x]
      BY <1>1, <2>1
    <3>. QED BY <2>1, <3>1 DEF Listee
  <2>2. CASE x = n
    <3>1. PICK m : m = Len(recu[n])
      OBVIOUS
    <3>2. m \in Nat /\ Len(recu'[n]) = m + 1 /\ recu'[n][m + 1] = liste
          /\ \A k \in 1..m : recu'[n][k] = recu[n][k]
      BY <1>1, <3>1
    <3>3. /\ m + 1 \in 1..(m + 1) /\ \A k \in 1..m : k \in 1..(m + 1)
          /\ \A k \in 1..(m + 1) : k \in 1..m \/ k = m + 1
      BY <3>2
    <3>4. ASSUME Listee(n, y) PROVE Listee(n, y)'
      BY <3>1, <3>2, <3>3, <3>4 DEF Listee
    <3>5. ASSUME y \in Nommes(vue'[p]) PROVE Listee(n, y)'
      <4>1. EstListe(recu'[n][m + 1])
        BY <1>1, <3>2
      <4>2. \E j \in 2..Len(recu'[n][m + 1]) : recu'[n][m + 1][j].ip = y
        BY <1>13, <3>2, <3>5
      <4>3. m + 1 \in 1..Len(recu'[n])
        BY <3>2, <3>3
      <4>. QED BY <4>1, <4>2, <4>3 DEF Listee
    <3>6. ASSUME Listee(n, y)' PROVE Listee(n, y) \/ y \in Nommes(vue'[p])
      <4>1. PICK k \in 1..(m + 1) : EstListe(recu'[n][k])
                /\ \E j \in 2..Len(recu'[n][k]) : recu'[n][k][j].ip = y
        BY <3>2, <3>6 DEF Listee
      <4>2. CASE k \in 1..m
        BY <3>1, <3>2, <4>1, <4>2 DEF Listee
      <4>3. CASE k = m + 1
        BY <1>13, <3>2, <4>1, <4>3
      <4>. QED BY <3>3, <4>2, <4>3
    <3>. QED BY <2>2, <3>4, <3>5, <3>6
  <2>. QED BY <2>1, <2>2
<1>15. ASSUME NEW x \in Pairs, NEW y
       PROVE  DuParrain(x, y) <=> DuParrain(x, y)' \/ (x = n /\ y \in Nommes(vue[p]))
  <2>1. ASSUME DuParrain(x, y)' PROVE DuParrain(x, y)
    <3>1. PICK t \in Pairs : Presente(t, x)' /\ y \in Nommes(vue'[t])
      BY <2>1 DEF DuParrain
    <3>2. Presente(t, x) /\ vue'[t] = vue[t]
      BY <1>1, <1>4, <3>1
    <3>. QED BY <3>1, <3>2 DEF DuParrain
  <2>2. ASSUME x = n, y \in Nommes(vue[p]) PROVE DuParrain(x, y)
    BY <1>3, <2>2 DEF DuParrain
  <2>3. ASSUME DuParrain(x, y), ~(x = n /\ y \in Nommes(vue[p])) PROVE DuParrain(x, y)'
    <3>1. PICK t \in Pairs : Presente(t, x) /\ y \in Nommes(vue[t])
      BY <2>3 DEF DuParrain
    <3>2. t # p
      BY <1>5, <2>3, <3>1
    <3>3. Presente(t, x)' /\ vue'[t] = vue[t]
      BY <1>1, <1>4, <3>1, <3>2
    <3>. QED BY <3>1, <3>3 DEF DuParrain
  <2>. QED BY <2>1, <2>2, <2>3
<1>16. ASSUME NEW x \in Pairs, NEW y
       PROVE  AAnnoncer(x, y) <=> AAnnoncer(x, y)' \/ (x = p /\ y = n)
  <2>0. service[p].reste = {}
    BY DEF send_peer_list
  <2>1. ASSUME AAnnoncer(x, y)' PROVE AAnnoncer(x, y)
    <3>1. PICK t \in Pairs : Presente(t, y)' /\ (t = x \/ \E k \in service'[t].reste : vue'[t][k].ip = x)
      BY <2>1 DEF AAnnoncer
    <3>2. Presente(t, y) /\ vue'[t] = vue[t] /\ service'[t] = service[t]
      BY <1>1, <1>4, <3>1
    <3>. QED BY <3>1, <3>2 DEF AAnnoncer
  <2>2. ASSUME x = p, y = n PROVE AAnnoncer(x, y)
    BY <1>3, <2>2 DEF AAnnoncer
  <2>3. ASSUME AAnnoncer(x, y), ~(x = p /\ y = n) PROVE AAnnoncer(x, y)'
    <3>1. PICK t \in Pairs : Presente(t, y) /\ (t = x \/ \E k \in service[t].reste : vue[t][k].ip = x)
      BY <2>3 DEF AAnnoncer
    <3>2. t # p
      BY <1>5, <2>0, <2>3, <3>1
    <3>3. Presente(t, y)' /\ vue'[t] = vue[t] /\ service'[t] = service[t]
      BY <1>1, <1>4, <3>1, <3>2
    <3>. QED BY <3>1, <3>3 DEF AAnnoncer
  <2>. QED BY <2>1, <2>2, <2>3
<1>17. ASSUME Distincts PROVE MemesNoms
  <2>1. Nommes(vue'[p]) = Nommes(vue[p]) \cup {n}
    BY <1>12, <1>17
  <2>2. \A x, y \in Pairs : y \in Nommes(vue'[x]) <=> y \in Nommes(vue[x]) \/ (x = p /\ y = n)
    BY <1>1, <2>1
  <2>3. \A x, y \in Pairs : Annoncee(x, y)' <=> Annoncee(x, y)
    BY <1>2 DEF Annoncee
  <2>4. ASSUME NEW x \in Pairs, NEW y \in Pairs, x # y PROVE Saura(x, y)' <=> Saura(x, y)
    <3>1. Listee(x, y)' <=> Listee(x, y) \/ (x = n /\ y \in Nommes(vue[p]))
      BY <1>14, <2>1, <2>4
    <3>. QED BY <1>15, <1>16, <2>2, <2>3, <3>1 DEF Saura
  <2>5. \A x \in Pairs : Nommes(vue[x]) \subseteq Nommes(vue'[x])
    BY <1>1, <2>1
  <2>6. \A s, x \in Pairs : Presente(s, x) => Presente(s, x)' \/ x \in Nommes(vue'[s])
    BY <1>4, <1>5, <2>1
  <2>. QED BY <1>9, <2>4, <2>5, <2>6 DEF MemesNoms
<1>. QED BY <1>10, <1>11, <1>17

\* The sponsor wakes up.
LEMMA ReveilRelations ==
  ASSUME Sain, Parrains, NEW p \in Pairs, Reveil(p)
  PROVE  Parrains' /\ Paisibles /\ MemesNoms
<1>0. Types
  BY SainFaits
<1>1. /\ etape[p] = "dort" /\ etape' = [etape EXCEPT ![p] = "boucle"]
      /\ service' = [service EXCEPT ![p] = RienAServir]
      /\ UNCHANGED <<nouveau, moi, vue, file, recu>>
  BY DEF Reveil, Va
<1>2. /\ etape'[p] = "boucle" /\ UNCHANGED <<parrain, enchere>>
      /\ \A q \in Pairs : q # p => etape'[q] = etape[q] /\ service'[q] = service[q]
  BY <1>0, <1>1 DEF Types, nouveau
<1>3. \A s \in Pairs : \A x : /\ Presente(s, x)' <=> Presente(s, x)
                              /\ Presente(s, x) => service'[s] = service[s]
  BY <1>1, <1>2 DEF Presente
<1>4. \A q \in Pairs : (Inconnu(q)' <=> Inconnu(q)) /\ Paisible(q)
  <2>1. ASSUME NEW q \in Pairs, q # p PROVE (Inconnu(q)' <=> Inconnu(q)) /\ Paisible(q)
    <3>1. etape'[q] = etape[q] /\ moi'[q] = moi[q] /\ enchere'[q] = enchere[q]
          /\ recu'[q] = recu[q] /\ parrain'[q] = parrain[q]
      BY <1>1, <1>2, <2>1
    <3>. QED BY <1>3, <3>1, GardePareil, PaisiblePareil
  <2>2. ~Inconnu(p) /\ ~Inconnu(p)' /\ IdFinal(p)' = IdFinal(p)
    BY <1>1, <1>2 DEF Inconnu, Patiente, IdFinal, Changera
  <2>3. Paisible(p)
    BY <1>1, <1>2, <2>2 DEF Paisible, Garde, EnChemin
  <2>. QED BY <2>1, <2>2, <2>3
<1>5. Parrains'
  <2>1. ASSUME NEW x \in Pairs PROVE SurLeChemin(x)'
    <3>1. SurLeChemin(x)
      BY DEF Parrains
    <3>2. CASE x = p
      BY <1>2, <3>2 DEF SurLeChemin, EnChemin
    <3>3. CASE x # p
      BY <1>1, <1>2, <3>1, <3>3 DEF SurLeChemin
    <3>. QED BY <3>2, <3>3
  <2>2. \A s \in Pairs : EnFile(s)'
    BY <1>1, <1>2 DEF Parrains, EnFile
  <2>3. ASSUME NEW s \in Pairs, NEW x \in Pairs, Presente(s, x)'
        PROVE  parrain'[x] = s /\ \A k \in service'[s].reste : vue'[s][k].ip # s
    <3>1. Presente(s, x) /\ service'[s] = service[s]
      BY <1>3, <2>3
    <3>. QED BY <1>1, <1>2, <3>1 DEF Parrains
  <2>4. ASSUME NEW s \in Pairs, NEW x \in Pairs, ~Inconnu(x)', parrain'[x] = s
        PROVE  etape'[s] \notin EnChemin \cup {"absent"}
    <3>1. etape[s] \notin EnChemin \cup {"absent"}
      BY <1>2, <1>4, <2>4 DEF Parrains
    <3>. QED BY <1>2, <3>1 DEF EnChemin
  <2>. QED BY <2>1, <2>2, <2>3, <2>4 DEF Parrains
<1>6. MemesNoms
  <2>1. \A x, y \in Pairs : (Annoncee(x, y)' <=> Annoncee(x, y)) /\ (Listee(x, y)' <=> Listee(x, y))
    BY <1>1 DEF Annoncee, Listee
  <2>2. \A x, y \in Pairs : DuParrain(x, y)' <=> DuParrain(x, y)
    BY <1>1, <1>3, DuParrainPareil
  <2>3. ASSUME NEW x \in Pairs, NEW y \in Pairs PROVE AAnnoncer(x, y)' <=> AAnnoncer(x, y)
    <3>1. ASSUME AAnnoncer(x, y) PROVE AAnnoncer(x, y)'
      BY <1>1, <1>3, <3>1 DEF AAnnoncer
    <3>2. ASSUME AAnnoncer(x, y)' PROVE AAnnoncer(x, y)
      BY <1>1, <1>3, <3>2 DEF AAnnoncer
    <3>. QED BY <3>1, <3>2
  <2>4. \A x, y \in Pairs : Saura(x, y)' <=> Saura(x, y)
    BY <1>1, <2>1, <2>2, <2>3 DEF Saura
  <2>. QED BY <1>1, <1>3, <1>4, <2>4 DEF MemesNoms
<1>7. Paisibles
  BY <1>4 DEF Paisibles
<1>. QED BY <1>5, <1>6, <1>7

\* --- a newcomer is taken in --------------------------------------------------------
\* What a sponsor's answer leaves as it was, and whom it will tell.
Accueilli(p, n, id) ==
    /\ n = file[p][1].de /\ n # p /\ Inconnu(n) /\ ~Inconnu(n)' /\ IdFinal(n)' = id
    /\ etape[n] = "attend50" /\ \A t \in Pairs : ~Presente(t, n)
    /\ recu[n] = <<>> /\ (\E e \in Envois : recu'[n] = <<e>> /\ EstReponse(e))
    /\ \A q \in Pairs : q # n => recu'[q] = recu[q]
    /\ service'[p].de = n /\ service'[p].reste = APrevenir(p, id)
    /\ etape'[p] = "annonce"
    /\ \A q \in Pairs : q # p => etape'[q] = etape[q] /\ service'[q] = service[q]
    /\ \A q \in Pairs : Garde(q) /\ (q # n => (Inconnu(q)' <=> Inconnu(q)))

LEMMA AccueilFaits ==
  ASSUME Sain, NEW p \in Pairs, etape[p] = "boucle", file[p] # <<>>, UNCHANGED <<moi, vue>>,
         Demande(file[p][1]), handle_new_peer_connection(p, file[p][1], file[p][1].msgs[1]),
         pannes' = 0
  PROVE  \E n \in Pairs : \E id \in Ids : Accueilli(p, n, id)
<1>1. PICK n \in Pairs, id \in Ids, e \in Envois :
            /\ n = file[p][1].de /\ n # p /\ etape[n] = "attend50" /\ recu[n] = <<>>
            /\ \A t \in Pairs : service[t].de # n
            /\ recu'[n] = <<e>> /\ EstReponse(e)
            /\ IF id = moi[n] THEN e[1].code = 50 ELSE e[1].code = 51 /\ e[1].id = id
            /\ service'[p].de = n /\ service'[p].reste = APrevenir(p, id)
            /\ etape'[p] = "annonce" /\ \A q \in Pairs : q # n => recu'[q] = recu[q]
            /\ \A q \in Pairs : q # p => etape'[q] = etape[q] /\ service'[q] = service[q]
  <2> DEFINE c == file[p][1]
  <2>1. c = file[p][1] /\ Demande(c) /\ handle_new_peer_connection(p, c, c.msgs[1])
    OBVIOUS
  <2> HIDE DEF c
  <2>2. \E n \in Pairs : \E id \in Ids : \E e \in Envois : Accueille(p, c, n, id, e)
    BY <2>1, Accueil
  <2>. QED BY <2>1, <2>2 DEF Accueille
<1>2. etape'[n] = "attend50" /\ recu'[n] # <<>> /\ recu'[n][1] = e /\ moi'[n] = moi[n]
  BY <1>1
<1>3. Inconnu(n) /\ ~Inconnu(n)' /\ IdFinal(n)' = id
  <2>1. Inconnu(n) /\ ~Inconnu(n)'
    BY <1>1, <1>2 DEF Inconnu, Patiente
  <2>2. Reponse(n)' = e[1] /\ (Changera(n)' <=> e[1].code = 51)
    BY <1>2 DEF Reponse, Changera
  <2>3. CASE id = moi[n]
    <3>1. ~Changera(n)'
      BY <1>1, <2>2, <2>3
    <3>. QED BY <1>2, <2>1, <2>3, <3>1 DEF IdFinal
  <2>4. CASE id # moi[n]
    <3>1. Changera(n)' /\ Reponse(n)'.id = id
      BY <1>1, <2>2, <2>4
    <3>. QED BY <2>1, <3>1 DEF IdFinal
  <2>. QED BY <2>1, <2>3, <2>4
<1>4. \A q \in Pairs : Garde(q) /\ (q # n => (Inconnu(q)' <=> Inconnu(q)))
  <2>1. ASSUME NEW q \in Pairs, q # n, q # p PROVE Garde(q) /\ (Inconnu(q)' <=> Inconnu(q))
    <3>1. etape'[q] = etape[q] /\ recu'[q] = recu[q] /\ moi'[q] = moi[q]
      BY <1>1, <2>1
    <3>. QED BY <3>1, GardePareil
  <2>2. Garde(n)
    BY <1>3 DEF Garde
  <2>3. ~Inconnu(p) /\ ~Inconnu(p)' /\ IdFinal(p)' = IdFinal(p)
    BY <1>1 DEF Inconnu, Patiente, IdFinal, Changera
  <2>4. Garde(p)
    BY <2>3 DEF Garde
  <2>. QED BY <2>1, <2>2, <2>3, <2>4
<1>5. \A t \in Pairs : ~Presente(t, n)
  BY <1>1 DEF Presente
<1>6. Accueilli(p, n, id)
  BY <1>1, <1>3, <1>4, <1>5 DEF Accueilli
<1>. QED BY <1>6

LEMMA AccueilRelations ==
  ASSUME Sain, Parrains, NEW p \in Pairs, etape[p] = "boucle", file[p] # <<>>,
         file' = [file EXCEPT ![p] = Tail(@)], UNCHANGED <<moi, vue, parrain, enchere>>,
         Demande(file[p][1]), NEW n \in Pairs, NEW id \in Ids, Accueilli(p, n, id)
  PROVE  Parrains' /\ Paisibles
<1>0. Types /\ SoiEnTete
  BY SainFaits
<1>1. /\ n = file[p][1].de /\ n # p /\ Inconnu(n) /\ ~Inconnu(n)'
      /\ etape[n] = "attend50" /\ \A t \in Pairs : ~Presente(t, n)
      /\ \A q \in Pairs : q # n => recu'[q] = recu[q]
      /\ service'[p].de = n /\ service'[p].reste = APrevenir(p, id)
      /\ etape'[p] = "annonce"
      /\ \A q \in Pairs : q # p => etape'[q] = etape[q] /\ service'[q] = service[q]
      /\ \A q \in Pairs : Garde(q) /\ (q # n => (Inconnu(q)' <=> Inconnu(q)))
  BY DEF Accueilli
<1>2. /\ 1 \in 1..Len(file[p])
      /\ \A s \in Pairs : \A k \in 1..Len(file'[s]) :
                \E j \in 1..Len(file[s]) : file'[s][k] = file[s][j]
  BY <1>0, TeteLue
<1>3. parrain[n] = p
  <2>1. EnFile(p)
    BY DEF Parrains
  <2>. QED BY <1>1, <1>2, <2>1 DEF EnFile
<1>4. \A s \in Pairs : \A x : Presente(s, x)' <=> Presente(s, x) \/ (s = p /\ x = n)
  BY <1>1 DEF Presente
<1>5. \A k \in APrevenir(p, id) : vue[p][k].ip # p
  <2>1. ~Inconnu(p) /\ IdFinal(p) = moi[p]
    BY DEF Inconnu, Patiente, IdFinal, Changera
  <2>2. ASSUME NEW k \in APrevenir(p, id), vue[p][k].ip = p PROVE FALSE
    <3>1. k \in 1..Len(vue[p]) /\ vue[p][k].id # moi[p]
      BY DEF APrevenir, Autre
    <3>2. Sincere(vue[p][k])
      BY <3>1, NommeOuvert DEF EnChemin
    <3>. QED BY <2>1, <2>2, <3>1, <3>2 DEF Sincere
  <2>. QED BY <2>2
<1>6. Parrains'
  <2>1. ASSUME NEW x \in Pairs PROVE SurLeChemin(x)'
    <3>1. SurLeChemin(x)
      BY DEF Parrains
    <3>2. CASE x = n
      BY <1>1, <3>1, <3>2 DEF SurLeChemin, EnChemin
    <3>3. CASE x = p
      BY <1>1, <3>3 DEF SurLeChemin, EnChemin
    <3>4. CASE x # n /\ x # p
      BY <1>1, <3>1, <3>4 DEF SurLeChemin
    <3>. QED BY <3>2, <3>3, <3>4
  <2>2. \A s \in Pairs : EnFile(s)'
    BY <1>2, FilesApres
  <2>3. ASSUME NEW s \in Pairs, NEW x \in Pairs, Presente(s, x)'
        PROVE  parrain'[x] = s /\ \A k \in service'[s].reste : vue'[s][k].ip # s
    <3>1. CASE s = p
      <4>1. ~Presente(p, x)
        BY DEF Presente
      <4>2. x = n
        BY <1>4, <2>3, <3>1, <4>1
      <4>. QED BY <1>1, <1>3, <1>5, <3>1, <4>2
    <3>2. CASE s # p
      <4>1. Presente(s, x) /\ service'[s] = service[s]
        BY <1>1, <1>4, <2>3, <3>2
      <4>. QED BY <4>1 DEF Parrains
    <3>. QED BY <3>1, <3>2
  <2>4. ASSUME NEW s \in Pairs, NEW x \in Pairs, ~Inconnu(x)', parrain'[x] = s
        PROVE  etape'[s] \notin EnChemin \cup {"absent"}
    <3>1. CASE s = p
      BY <1>1, <3>1 DEF EnChemin
    <3>2. CASE s # p
      <4>1. x # n
        BY <1>3, <2>4, <3>2
      <4>2. etape[s] \notin EnChemin \cup {"absent"}
        BY <1>1, <2>4, <4>1 DEF Parrains
      <4>. QED BY <1>1, <3>2, <4>2
    <3>. QED BY <3>1, <3>2
  <2>. QED BY <2>1, <2>2, <2>3, <2>4 DEF Parrains
<1>7. ASSUME NEW q \in Pairs PROVE Paisible(q)
  <2>1. CASE q = n
    BY <1>1, <2>1 DEF Paisible, EnChemin
  <2>2. CASE q = p
    BY <1>1, <2>2 DEF Paisible, EnChemin
  <2>3. CASE q # n /\ q # p
    <3>1. /\ etape'[q] = etape[q] /\ recu'[q] = recu[q] /\ moi'[q] = moi[q]
          /\ parrain'[q] = parrain[q] /\ enchere'[q] = enchere[q]
      BY <1>1, <2>3
    <3>2. \A t \in Pairs : Presente(t, q)' => Presente(t, q)
      BY <1>4, <2>3
    <3>. QED BY <3>1, <3>2, PaisiblePareil
  <2>. QED BY <2>1, <2>2, <2>3
<1>. QED BY <1>6, <1>7 DEF Paisibles

\* Those that a sponsor lists, and those that it tells of a newcomer, are the
\* same but the newcomer itself.
LEMMA Prevenus ==
  ASSUME Sain, Distincts, Distincts', NEW p \in Pairs, etape[p] = "boucle", UNCHANGED vue,
         NEW n \in Pairs, NEW id \in Ids, Accueilli(p, n, id)
  PROVE  /\ n \notin Nommes(vue[p])
         /\ \A x : x \in Nommes(vue[p]) <=>
                x = p \/ \E k \in service'[p].reste : vue'[p][k].ip = x
<1>1. /\ n # p /\ Inconnu(n) /\ ~Inconnu(n)' /\ IdFinal(n)' = id
      /\ service'[p].reste = APrevenir(p, id)
      /\ \A q \in Pairs : Garde(q) /\ (q # n => (Inconnu(q)' <=> Inconnu(q)))
  BY DEF Accueilli
<1>2. n \notin Nommes(vue[p])
  BY <1>1, NommeConnu
<1>3. ~Inconnu(p) /\ IdFinal(p) = moi[p] /\ etape[p] # "absent"
  BY DEF Inconnu, Patiente, IdFinal, Changera
<1>4. ASSUME NEW k \in 1..Len(vue[p]), vue[p][k].ip # p PROVE k \in APrevenir(p, id)
  <2>1. /\ Sincere(vue[p][k]) /\ vue[p][k].ip \in Pairs /\ ~Inconnu(vue[p][k].ip)
    BY NommeOuvert DEF EnChemin
  <2>2. PICK x \in Pairs : x = vue[p][k].ip
    BY <2>1
  <2>3. vue[p][k].id = IdFinal(x) /\ ~Inconnu(x) /\ x # p
    BY <1>4, <2>1, <2>2 DEF Sincere
  <2>4. vue[p][k].id # moi[p]
    BY <1>3, <2>3 DEF Distincts
  <2>5. vue[p][k].id # id
    <3>1. x # n
      BY <1>1, <2>3
    <3>2. ~Inconnu(x)' /\ IdFinal(x)' = IdFinal(x)
      BY <1>1, <2>3 DEF Garde
    <3>. QED BY <1>1, <2>3, <3>1, <3>2 DEF Distincts
  <2>. QED BY <2>4, <2>5 DEF APrevenir, Autre
<1>5. APrevenir(p, id) \subseteq 1..Len(vue[p])
  BY DEF APrevenir
<1>6. p \in Nommes(vue[p])
  BY <1>3, SoiNomme
<1>7. \A x : x \in Nommes(vue[p]) <=> \E k \in 1..Len(vue[p]) : vue[p][k].ip = x
  BY NommesDe
<1>8. ASSUME NEW x
      PROVE  x \in Nommes(vue[p]) <=> x = p \/ \E k \in service'[p].reste : vue'[p][k].ip = x
  BY <1>1, <1>4, <1>5, <1>6, <1>7
<1>. QED BY <1>2, <1>8

\* The newcomer will know those that its sponsor lists, and they will know it.
LEMMA AccueilNoms ==
  ASSUME Sain, Distincts, Distincts', NEW p \in Pairs, etape[p] = "boucle", file[p] # <<>>,
         file' = [file EXCEPT ![p] = Tail(@)], UNCHANGED <<moi, vue>>,
         Demande(file[p][1]), NEW n \in Pairs, NEW id \in Ids, Accueilli(p, n, id)
  PROVE  \A x, y \in Pairs :
            Saura(x, y)' <=> \/ Saura(x, y)
                             \/ x = n /\ y \in Nommes(vue[p])
                             \/ y = n /\ x \in Nommes(vue[p])
<1>0. Types /\ SoiEnTete
  BY SainFaits
<1>1. /\ n # p /\ recu[n] = <<>> /\ (\E e \in Envois : recu'[n] = <<e>> /\ EstReponse(e))
      /\ \A q \in Pairs : q # n => recu'[q] = recu[q]
      /\ service'[p].de = n /\ etape'[p] = "annonce"
      /\ \A q \in Pairs : q # p => etape'[q] = etape[q] /\ service'[q] = service[q]
  BY DEF Accueilli
<1>2. \A x \in Pairs : \A y : Annoncee(x, y)' <=> Annoncee(x, y)
  <2>1. ~Annonce(file[p][1])
    BY DEF Annonce, Demande
  <2>2. /\ \A y : Annoncee(p, y) <=>
                (Annonce(file[p][1]) /\ file[p][1].msgs[1].ip = y) \/ Annoncee(p, y)'
        /\ \A x \in Pairs : x # p => \A y : Annoncee(x, y)' <=> Annoncee(x, y)
    BY <1>0, TeteLue
  <2>. QED BY <2>1, <2>2
<1>3. \A x \in Pairs : \A y : Listee(x, y)' <=> Listee(x, y)
  <2>1. \A y : ~Listee(n, y)
    <3>1. 1..Len(recu[n]) = {}
      BY <1>1
    <3>. QED BY <3>1 DEF Listee
  <2>2. \A y : ~Listee(n, y)'
    <3>1. PICK e \in Envois : recu'[n] = <<e>> /\ EstReponse(e)
      BY <1>1
    <3>2. \A k \in 1..Len(recu'[n]) : recu'[n][k] = e
      BY <3>1
    <3>3. ~EstListe(e)
      BY <3>1 DEF EstListe, EstReponse
    <3>. QED BY <3>2, <3>3 DEF Listee
  <2>3. ASSUME NEW x \in Pairs, x # n, NEW y PROVE Listee(x, y)' <=> Listee(x, y)
    <3>1. recu'[x] = recu[x]
      BY <1>1, <2>3
    <3>. QED BY <3>1 DEF Listee
  <2>. QED BY <2>1, <2>2, <2>3
<1>4. \A s \in Pairs : \A x : Presente(s, x)' <=> Presente(s, x) \/ (s = p /\ x = n)
  BY <1>1 DEF Presente
<1>5. \A s \in Pairs : \A x : Presente(s, x) => s # p /\ service'[s] = service[s]
  BY <1>1 DEF Presente
<1>6. Presente(p, n)' /\ \A s \in Pairs : \A x : Presente(s, x) => Presente(s, x)'
  BY <1>4
<1>7. ASSUME NEW x \in Pairs, NEW y \in Pairs
      PROVE  DuParrain(x, y)' <=> DuParrain(x, y) \/ (x = n /\ y \in Nommes(vue[p]))
  <2>1. ASSUME DuParrain(x, y) PROVE DuParrain(x, y)'
    <3>1. PICK t \in Pairs : Presente(t, x) /\ y \in Nommes(vue[t])
      BY <2>1 DEF DuParrain
    <3>. QED BY <1>6, <3>1 DEF DuParrain
  <2>2. ASSUME x = n, y \in Nommes(vue[p]) PROVE DuParrain(x, y)'
    BY <1>6, <2>2 DEF DuParrain
  <2>3. ASSUME DuParrain(x, y)' PROVE DuParrain(x, y) \/ (x = n /\ y \in Nommes(vue[p]))
    <3>1. PICK t \in Pairs : Presente(t, x)' /\ y \in Nommes(vue'[t])
      BY <2>3 DEF DuParrain
    <3>. QED BY <1>4, <3>1 DEF DuParrain
  <2>. QED BY <2>1, <2>2, <2>3
<1>8. ASSUME NEW x \in Pairs, NEW y \in Pairs
      PROVE  AAnnoncer(x, y)' <=> AAnnoncer(x, y) \/ (y = n /\ x \in Nommes(vue[p]))
  <2>0. x \in Nommes(vue[p]) <=> x = p \/ \E k \in service'[p].reste : vue'[p][k].ip = x
    BY Prevenus
  <2>1. ASSUME AAnnoncer(x, y) PROVE AAnnoncer(x, y)'
    <3>1. PICK t \in Pairs : Presente(t, y) /\ (t = x \/ \E k \in service[t].reste : vue[t][k].ip = x)
      BY <2>1 DEF AAnnoncer
    <3>2. Presente(t, y)' /\ service'[t] = service[t] /\ vue'[t] = vue[t]
      BY <1>5, <1>6, <3>1
    <3>. QED BY <3>1, <3>2 DEF AAnnoncer
  <2>2. ASSUME y = n, x \in Nommes(vue[p]) PROVE AAnnoncer(x, y)'
    BY <1>6, <2>0, <2>2 DEF AAnnoncer
  <2>3. ASSUME AAnnoncer(x, y)' PROVE AAnnoncer(x, y) \/ (y = n /\ x \in Nommes(vue[p]))
    <3>1. PICK t \in Pairs : Presente(t, y)' /\ (t = x \/ \E k \in service'[t].reste : vue'[t][k].ip = x)
      BY <2>3 DEF AAnnoncer
    <3>2. CASE Presente(t, y)
      <4>1. service'[t] = service[t] /\ vue'[t] = vue[t]
        BY <1>5, <3>2
      <4>. QED BY <3>1, <3>2, <4>1 DEF AAnnoncer
    <3>3. CASE t = p /\ y = n
      BY <2>0, <3>1, <3>3
    <3>. QED BY <1>4, <3>1, <3>2, <3>3
  <2>. QED BY <2>1, <2>2, <2>3
<1>9. ASSUME NEW x \in Pairs, NEW y \in Pairs
      PROVE  Saura(x, y)' <=> \/ Saura(x, y)
                              \/ x = n /\ y \in Nommes(vue[p])
                              \/ y = n /\ x \in Nommes(vue[p])
  <2>1. y \in Nommes(vue'[x]) <=> y \in Nommes(vue[x])
    OBVIOUS
  <2>. QED BY <1>2, <1>3, <1>7, <1>8, <2>1 DEF Saura
<1>. QED BY <1>9

\* What a sponsor in its loop knows without having it in its list yet came from
\* another sponsor.
LEMMA DUnAutre ==
  ASSUME Sain, Parrains, NEW p \in Pairs, etape[p] = "boucle", NEW q \in Pairs, Saura(p, q),
         parrain[q] \in {p, Personne}
  PROVE  q \in Nommes(vue[p])
<1>0. Types /\ SoiEnTete /\ LecturesEnOrdre
  BY SainFaits
<1>1. ~Annoncee(p, q)
  <2>1. SUFFICES ASSUME Annoncee(p, q) PROVE FALSE
    OBVIOUS
  <2>2. PICK k \in 1..Len(file[p]) : Annonce(file[p][k]) /\ file[p][k].msgs[1].ip = q
    BY <2>1 DEF Annoncee
  <2>3. EnFile(p)
    BY DEF Parrains
  <2>4. PICK c : c = file[p][k]
    OBVIOUS
  <2>5. parrain[q] = c.de /\ c.de # p
    BY <2>2, <2>3, <2>4 DEF EnFile
  <2>6. c.de \in Pairs
    <3>1. c \in Connexions
      <4>1. file[p] \in Seq(Connexions)
        BY <1>0, DuPair
      <4>. QED BY <2>4, <4>1
    <3>. QED BY <3>1 DEF Connexions
  <2>. QED BY <2>5, <2>6, Constantes
<1>2. ~Listee(p, q)
  <2>1. 1..Len(recu[p]) = {}
    <3>1. recu[p] = <<>>
      BY <1>0 DEF LecturesEnOrdre
    <3>. QED BY <3>1
  <2>. QED BY <2>1 DEF Listee
<1>3. ~DuParrain(p, q)
  <2>1. \A t \in Pairs : ~Presente(t, p)
    BY PresenteFaits
  <2>. QED BY <2>1 DEF DuParrain
<1>4. ~AAnnoncer(p, q)
  <2>1. ASSUME NEW t \in Pairs, Presente(t, q) PROVE FALSE
    <3>1. parrain[q] = t
      BY <2>1 DEF Parrains
    <3>2. t # p
      BY <2>1 DEF Presente
    <3>. QED BY <3>1, <3>2, Constantes
  <2>. QED BY <2>1 DEF AAnnoncer
<1>. QED BY <1>1, <1>2, <1>3, <1>4 DEF Saura

LEMMA AccueilRelies ==
  ASSUME Sain, Sain', Distincts, Distincts', Parrains, Relies,
         NEW p \in Pairs, etape[p] = "boucle", file[p] # <<>>,
         file' = [file EXCEPT ![p] = Tail(@)], UNCHANGED <<moi, vue, parrain>>,
         Demande(file[p][1]), NEW n \in Pairs, NEW id \in Ids, Accueilli(p, n, id)
  PROVE  Relies'
<1>0. Types /\ SoiEnTete
  BY SainFaits
<1>1. /\ n = file[p][1].de /\ n # p /\ Inconnu(n) /\ ~Inconnu(n)' /\ etape[n] = "attend50"
      /\ service'[p].de = n /\ etape'[p] = "annonce"
      /\ \A q \in Pairs : q # p => etape'[q] = etape[q] /\ service'[q] = service[q]
      /\ \A q \in Pairs : q # n => (Inconnu(q)' <=> Inconnu(q))
  BY DEF Accueilli
<1>2. parrain[n] = p
  <2>1. EnFile(p)
    BY DEF Parrains
  <2>2. 1 \in 1..Len(file[p])
    BY <1>0, TeteLue
  <2>. QED BY <1>1, <2>1, <2>2 DEF EnFile
<1>3. \A x, y \in Pairs :
         Saura(x, y)' <=> \/ Saura(x, y)
                          \/ x = n /\ y \in Nommes(vue[p])
                          \/ y = n /\ x \in Nommes(vue[p])
  BY AccueilNoms
<1>4. \A s \in Pairs : \A x : Presente(s, x)' <=> Presente(s, x) \/ (s = p /\ x = n)
  BY <1>1 DEF Presente
<1>5. ASSUME NEW x \in Pairs, NEW s \in Pairs, ~Inconnu(x)', parrain'[x] = s
      PROVE  x \in Nommes(vue'[s]) \/ Presente(s, x)'
  <2>1. CASE x = n
    BY <1>2, <1>4, <1>5, <2>1
  <2>2. CASE x # n
    <3>1. x \in Nommes(vue[s]) \/ Presente(s, x)
      BY <1>1, <1>5, <2>2 DEF Relies
    <3>. QED BY <1>4, <3>1
  <2>. QED BY <2>1, <2>2
<1>6. ASSUME NEW x \in Pairs, NEW y \in Pairs, Saura(x, y)' PROVE Saura(y, x)'
  <2>1. Saura(x, y) => Saura(y, x)
    BY DEF Relies
  <2>. QED BY <1>3, <1>6, <2>1
<1>7. ASSUME NEW x \in Pairs, NEW q \in Pairs, NEW s \in Pairs, ~Inconnu(x)', parrain'[x] = s,
             parrain'[q] \in {s, Personne}, Saura(s, q)'
      PROVE  Saura(x, q)'
  <2>1. CASE x = n /\ q = n
    <3>1. SoisNommes' /\ etape'[n] # "absent"
      BY <1>1, TousSeNommentApres
    <3>. QED BY <2>1, <3>1 DEF SoisNommes, Saura
  <2>2. CASE x = n /\ q # n
    <3>1. s = p /\ Saura(p, q)
      BY <1>1, <1>2, <1>3, <1>7, <2>2
    <3>2. q \in Nommes(vue[p])
      BY <1>7, <3>1, DUnAutre
    <3>. QED BY <1>3, <2>2, <3>2
  <2>3. CASE x # n /\ q = n
    <3>1. s = p
      BY <1>2, <1>7, <2>3, Constantes
    <3>2. x \in Nommes(vue[p]) \/ Presente(p, x)
      BY <1>1, <1>7, <2>3, <3>1 DEF Relies
    <3>3. ~Presente(p, x)
      BY DEF Presente
    <3>. QED BY <1>3, <2>3, <3>2, <3>3
  <2>4. CASE x # n /\ q # n
    <3>1. ~Inconnu(x) /\ parrain[x] = s /\ parrain[q] \in {s, Personne}
      BY <1>1, <1>7, <2>4
    <3>2. s # n
      BY <1>1, <3>1 DEF Parrains, EnChemin
    <3>3. Saura(s, q)
      BY <1>3, <1>7, <2>4, <3>2
    <3>4. Saura(x, q)
      BY <3>1, <3>3 DEF Relies
    <3>. QED BY <1>3, <3>4
  <2>. QED BY <2>1, <2>2, <2>3, <2>4
<1>. QED BY <1>5, <1>6, <1>7 DEF Relies

\* A step keeps what Parrains and Relies say, as long as nothing fails.
Suivi ==
    /\ Parrains' /\ Paisibles
    /\ Distincts /\ Distincts' /\ Informes' /\ Relies => Relies'

LEMMA SuiviPareil ==
  ASSUME Sain, Sain', Parrains, Parrains', Paisibles, Distincts /\ Informes' => MemesNoms
  PROVE  Suivi
<1>1. ASSUME Distincts, Distincts', Informes', Relies PROVE Relies'
  <2>1. MemesNoms
    BY <1>1
  <2>. QED BY <1>1, <2>1, RelationsPareilles DEF MemesNoms, Paisibles
<1>. QED BY <1>1 DEF Suivi

LEMMA EntrantRelations ==
  ASSUME Sain, Sain', Parrains, NEW p \in Pairs, handle_incoming_tcp(p), pannes' = 0
  PROVE  Suivi
<1> DEFINE c == file[p][1]
    m == c.msgs[1]
<1>1. Types /\ SoiEnTete
  BY SainFaits
<1>2. /\ etape[p] = "boucle" /\ file[p] # <<>> /\ file' = [file EXCEPT ![p] = Tail(@)]
      /\ UNCHANGED <<moi, parrain, enchere>>
  BY DEF handle_incoming_tcp, nouveau
<1>3. Head(file[p]) = c
  BY <1>1, <1>2, TeteDeFile
<1>4. \/ m.code = 5 /\ handle_new_peer_connection(p, c, m) /\ UNCHANGED vue
      \/ /\ m.code = 6 /\ vue' = [vue EXCEPT ![p] = handle_code6_message(@, PairDe(m))]
         /\ UNCHANGED <<etape, service, recu>>
  BY <1>3 DEF handle_incoming_tcp
<1>5. CASE m.code = 5 /\ handle_new_peer_connection(p, c, m) /\ UNCHANGED vue
  <2>1. Demande(file[p][1])
    BY <1>5 DEF Demande
  <2>2. PICK n \in Pairs, id \in Ids : Accueilli(p, n, id)
    BY <1>2, <1>5, <2>1, AccueilFaits
  <2>3. Parrains' /\ Paisibles
    BY <1>2, <1>5, <2>1, <2>2, AccueilRelations
  <2>4. Distincts /\ Distincts' /\ Relies => Relies'
    BY <1>2, <1>5, <2>1, <2>2, AccueilRelies
  <2>. QED BY <2>3, <2>4 DEF Suivi
<1>6. CASE /\ m.code = 6 /\ vue' = [vue EXCEPT ![p] = handle_code6_message(@, PairDe(m))]
           /\ UNCHANGED <<etape, service, recu>>
  <2>1. Annonce(file[p][1]) /\ m = file[p][1].msgs[1]
    BY <1>6 DEF Annonce
  <2> HIDE DEF m, c
  <2>2. Parrains' /\ Paisibles /\ (Distincts => MemesNoms)
    BY <1>2, <1>6, <2>1, LectureRelations
  <2>. QED BY <2>2, SuiviPareil
<1>. QED BY <1>4, <1>5, <1>6

LEMMA PasSuivi ==
  ASSUME Sain, Sain', Parrains, Next, pannes' = 0
  PROVE  Suivi
<1>1. PICK p \in Pairs : \/ Demarre(p) \/ Rejoindre(p)
                         \/ handle_udp_liaison(p) \/ Tourner(p)
  BY DEF Next
<1>2. CASE Demarre(p) \/ RecoitCandidat(p) \/ Redemande(p) \/ CreeReseau(p) \/ handle_udp_liaison(p)
  BY <1>2, EcartPas, SuiviPareil
<1>3. CASE Connecte(p)
  BY <1>3, ConnecteRelations, SuiviPareil
<1>4. CASE RecoitReponse(p)
  BY <1>4, RecoitReponseRelations, SuiviPareil
<1>5. CASE SansReponse(p)
  BY <1>5, SansReponseImpossible
<1>6. CASE SansListe(p)
  BY <1>6, SansListeRelations, SuiviPareil
<1>7. CASE handle_peer_list_sync(p)
  BY <1>7, ListeRelations, SuiviPareil
<1>8. CASE handle_incoming_tcp(p)
  BY <1>8, EntrantRelations
<1>9. CASE broadcast_to_peers(p)
  BY <1>9, DiffusionRelations, SuiviPareil
<1>10. CASE send_peer_list(p)
  BY <1>10, EnvoiListeRelations, SuiviPareil
<1>11. CASE Meurt(p)
  BY <1>11, MeurtImpossible
<1>12. CASE Reveil(p)
  BY <1>12, ReveilRelations, SuiviPareil
<1>13. CASE LitListeRompue(p) \/ MeurtDeLaListe(p)
  BY <1>13, RompueImpossible
<1>. QED BY <1>1, <1>2, <1>3, <1>4, <1>5, <1>6, <1>7, <1>8, <1>9, <1>10, <1>11, <1>12, <1>13
         DEF Rejoindre, Tourner

LEMMA SainDeIInv == IInvMembership /\ pannes = 0 => Sain
BY DEF IInvMembership, Sain

LEMMA SainDeIInvApres == IInvMembership' /\ pannes' = 0 => Sain'
BY DEF IInvMembership, Sain

LEMMA RelationsImmobiles ==
  ASSUME UNCHANGED vars, IInvRelations, IInvMembership'
  PROVE  IInvRelations'
<1>1. /\ etape' = etape /\ moi' = moi /\ vue' = vue /\ enchere' = enchere /\ parrain' = parrain
      /\ file' = file /\ service' = service /\ recu' = recu /\ pannes' = pannes
  BY DEF vars
<1>2. Parrains => Parrains'
  <2>1. \A s, p \in Pairs : (Presente(s, p)' <=> Presente(s, p)) /\ (Inconnu(p)' <=> Inconnu(p))
    BY <1>1 DEF Presente, Inconnu, Patiente
  <2>2. \A s, p \in Pairs : (SurLeChemin(p) => SurLeChemin(p)') /\ (EnFile(s) => EnFile(s)')
    BY <1>1 DEF SurLeChemin, EnFile
  <2>3. \A s \in Pairs : \A k : vue'[s][k] = vue[s][k]
    BY <1>1
  <2>. QED BY <1>1, <2>1, <2>2, <2>3 DEF Parrains
<1>3. (Distincts' <=> Distincts) /\ (Informes' <=> Informes)
  <2>1. Distincts' <=> Distincts
    BY <1>1 DEF Distincts, Inconnu, Patiente, IdFinal, Changera, Reponse
  <2>2. Informes' <=> Informes
    BY <1>1 DEF Informes, Presente
  <2>. QED BY <2>1, <2>2
<1>4. Relies' <=> Relies
  <2>1. \A x, y \in Pairs : (Annoncee(x, y)' <=> Annoncee(x, y)) /\ (Listee(x, y)' <=> Listee(x, y))
    BY <1>1 DEF Annoncee, Listee
  <2>2. \A x, y \in Pairs : DuParrain(x, y)' <=> DuParrain(x, y)
    BY <1>1 DEF DuParrain, Presente
  <2>3. \A x, y \in Pairs : AAnnoncer(x, y)' <=> AAnnoncer(x, y)
    BY <1>1 DEF AAnnoncer, Presente
  <2>4. \A x, y \in Pairs : Saura(x, y)' <=> Saura(x, y)
    BY <1>1, <2>1, <2>2, <2>3 DEF Saura
  <2>5. \A x, y \in Pairs : (Presente(x, y)' <=> Presente(x, y)) /\ (Inconnu(x)' <=> Inconnu(x))
    BY <1>1 DEF Presente, Inconnu, Patiente
  <2>. QED BY <1>1, <2>4, <2>5 DEF Relies
<1>. QED BY <1>1, <1>2, <1>3, <1>4 DEF IInvRelations

LEMMA PasRelations ==
  ASSUME IInvRelations, [Next]_vars
  PROVE  IInvRelations'
<1>0. IInvMembership /\ IInvMembership'
  BY PasIInv DEF IInvRelations
<1>1. CASE Next
  <2>1. ASSUME pannes' = 0
        PROVE  Parrains' /\ (Distincts' /\ Informes' => Relies')
    <3>1. pannes \in Nat
      BY <1>0 DEF IInvMembership, Types
    <3>2. pannes = 0
      BY <1>1, <2>1, <3>1, PannesRestent
    <3>3. Sain /\ Sain' /\ Parrains
      BY <1>0, <2>1, <3>2, SainDeIInv, SainDeIInvApres DEF IInvRelations
    <3>4. Suivi
      BY <1>1, <2>1, <3>3, PasSuivi
    <3>5. ASSUME Distincts', Informes' PROVE Relies'
      <4>1. \A q \in Pairs : Garde(q) /\ Paisible(q)
        BY <3>4 DEF Suivi, Paisibles, Paisible
      <4>2. Distincts /\ Informes
        BY <3>5, <4>1, DistinctsAvant, InformesAvant
      <4>3. Relies
        BY <3>2, <4>2 DEF IInvRelations
      <4>. QED BY <3>4, <3>5, <4>2, <4>3 DEF Suivi
    <3>. QED BY <3>4, <3>5 DEF Suivi
  <2>. QED BY <1>0, <2>1 DEF IInvRelations
<1>2. CASE UNCHANGED vars
  BY <1>0, <1>2, RelationsImmobiles
<1>. QED BY <1>1, <1>2

\* The members of the first group know each other, and nobody has a sponsor.
LEMMA TousNommes ==
  ASSUME NEW g, g \in Seq(Pairs), NEW i, i \in 1..Len(g)
  PROVE  \A m \in 1..Len(g) : g[m] \in Nommes(Rejoint(g, i))
<1> DEFINE j(k) == IF k = 1 THEN i ELSE IF k <= i THEN k - 1 ELSE k
    r == [k \in 1..Len(g) |-> Pair(j(k), g[j(k)])]
<1>1. Rejoint(g, i) = r
  BY DEF Rejoint
<1>2. Len(g) \in Nat
  OBVIOUS
<1>3. \A k \in 1..Len(g) : j(k) \in 1..Len(g)
  BY <1>2
<1>4. ASSUME NEW m \in 1..Len(g) PROVE \E k \in 1..Len(g) : j(k) = m
  <2>1. CASE m = i
    BY <1>2, <2>1
  <2>2. CASE m < i
    <3>1. m + 1 \in 1..Len(g) /\ j(m + 1) = m
      BY <1>2, <2>2
    <3>. QED BY <3>1
  <2>3. CASE m > i
    <3>1. j(m) = m
      BY <1>2, <2>3
    <3>. QED BY <3>1
  <2>. QED BY <1>2, <2>1, <2>2, <2>3
<1> HIDE DEF j
<1>5. \A k \in 1..Len(g) : r[k].ip = g[j(k)]
  BY DEF Pair
<1>6. Len(r) = Len(g)
  BY <1>2
<1> HIDE DEF r
<1>7. ASSUME NEW m \in 1..Len(g) PROVE g[m] \in Nommes(r)
  <2>1. PICK k \in 1..Len(g) : j(k) = m
    BY <1>4
  <2>2. r[k].ip = g[m] /\ k \in 1..Len(r)
    BY <1>5, <1>6, <2>1
  <2>. QED BY <2>2, NommesDe
<1>. QED BY <1>1, <1>7

LEMMA InitRelations == Init => IInvRelations
<1> SUFFICES ASSUME Init PROVE IInvRelations
  OBVIOUS
<1>1. PICK g \in Groupes, r \in [Pairs -> Nat] :
            /\ g \in Seq(Pairs) /\ IsInjective(g) /\ Len(g) <= IdMax
            /\ \A p \in Pairs :
                 \/ /\ etape[p] = "absent" /\ moi[p] = 0 /\ vue[p] = <<>>
                    /\ \A i \in 1..Len(g) : g[i] # p
                 \/ /\ etape[p] = "boucle" /\ r[p] \in 1..Len(g) /\ g[r[p]] = p
                    /\ moi[p] = r[p] /\ vue[p] = Rejoint(g, r[p])
            /\ DOMAIN etape = Pairs /\ DOMAIN moi = Pairs /\ DOMAIN vue = Pairs
            /\ etape = [p \in Pairs |-> etape[p]] /\ moi = [p \in Pairs |-> moi[p]]
            /\ vue = [p \in Pairs |-> vue[p]] /\ enchere \in [Pairs -> BOOLEAN]
            /\ essais = [p \in Pairs |-> 0] /\ candidats = [p \in Pairs |-> <<>>]
            /\ parrain = [p \in Pairs |-> Personne]
            /\ udp = [p \in Pairs |-> {}] /\ file = [p \in Pairs |-> <<>>]
            /\ service = [p \in Pairs |-> RienAServir]
            /\ recu = [p \in Pairs |-> <<>>] /\ pannes = 0
  BY Depart, Zenon
<1>2. \A p \in Pairs : /\ etape[p] \in {"absent", "boucle"} /\ parrain[p] = Personne
                       /\ file[p] = <<>> /\ recu[p] = <<>>
  BY <1>1
<1>3. ASSUME NEW p \in Pairs, etape[p] = "absent" PROVE ~enchere[p]
  <2>1. PICK h \in Groupes :
            /\ etape = [x \in Pairs |-> IF {i \in 1..Len(h) : h[i] = x} = {} THEN "absent" ELSE "boucle"]
            /\ enchere = [x \in Pairs |-> {i \in 1..Len(h) : h[i] = x} # {}]
    BY Zenon DEF Init
  <2>2. PICK rang : rang = {i \in 1..Len(h) : h[i] = p}
    OBVIOUS
  <2>3. /\ etape[p] = IF rang = {} THEN "absent" ELSE "boucle"
        /\ enchere[p] = (rang # {})
    BY <2>1, <2>2
  <2>. QED BY <1>3, <2>3
<1>4. /\ \A s, p \in Pairs : ~Presente(s, p)
      /\ 1..Len(<<>>) = {}
  <2>1. 1..Len(<<>>) = {}
    OBVIOUS
  <2>. QED BY <1>2, <2>1 DEF Presente
<1>5. Parrains
  <2>1. \A p \in Pairs : SurLeChemin(p)
    BY <1>2, <1>3 DEF SurLeChemin, EnChemin
  <2>2. \A s \in Pairs : EnFile(s)
    BY <1>2, <1>4 DEF EnFile
  <2>. QED BY <1>2, <1>4, <2>1, <2>2, Constantes DEF Parrains
<1>6. \A p, q \in Pairs : Saura(p, q) <=> q \in Nommes(vue[p])
  <2>1. \A p, q \in Pairs : ~Annoncee(p, q) /\ ~Listee(p, q)
    BY <1>2, <1>4 DEF Annoncee, Listee
  <2>2. \A p, q \in Pairs : ~DuParrain(p, q) /\ ~AAnnoncer(p, q)
    BY <1>4 DEF DuParrain, AAnnoncer
  <2>. QED BY <2>1, <2>2 DEF Saura
<1>7. ASSUME NEW p \in Pairs, NEW q \in Pairs, q \in Nommes(vue[p]) PROVE p \in Nommes(vue[q])
  <2>1. etape[p] = "boucle"
    <3>1. vue[p] # <<>>
      BY <1>7, NommesDeRien, Zenon
    <3>. QED BY <1>1, <3>1
  <2>2. r[p] \in 1..Len(g) /\ g[r[p]] = p /\ vue[p] = Rejoint(g, r[p])
    BY <1>1, <2>1
  <2>3. PICK l : l = Rejoint(g, r[p])
    OBVIOUS
  <2>4. \A x \in ToSet(l) : \E j \in 1..Len(g) : x = Pair(j, g[j])
    BY <1>1, <2>2, <2>3, MembreDuGroupe
  <2>5. l \in Seq(PairsPossibles)
    BY <1>1, <2>2, <2>3, MembreDuGroupe
  <2>6. PICK k \in 1..Len(l) : l[k].ip = q
    BY <1>7, <2>2, <2>3, NommesDe
  <2>7. l[k] \in ToSet(l)
    BY <2>5 DEF ToSet
  <2>8. PICK j \in 1..Len(g) : l[k] = Pair(j, g[j])
    BY <2>4, <2>7
  <2>9. q = g[j]
    BY <2>6, <2>8 DEF Pair
  <2>10. r[q] \in 1..Len(g) /\ vue[q] = Rejoint(g, r[q])
    BY <1>1, <2>9
  <2>. QED BY <1>1, <2>2, <2>10, TousNommes
<1>8. Relies
  BY <1>2, <1>6, <1>7, Constantes DEF Relies
<1>. QED BY <1>5, <1>8, InitIInv DEF IInvRelations

\* --- at rest -----------------------------------------------------------------------
LEMMA AuRepos ==
  ASSUME IInvRelations, Repos, pannes = 0, IdsDistincts, \A p \in Membres : enchere[p]
  PROVE  /\ Parrains /\ Relies
         /\ Membres = {p \in Pairs : etape[p] = "boucle"} /\ \A p \in Membres : ~Inconnu(p)
         /\ \A p, q \in Pairs : Saura(p, q) <=> q \in Nommes(vue[p])
         /\ \A p \in Membres : \A q \in Pairs : Connait(p, q) <=> q \in Nommes(vue[p])
<1>0. Sain /\ Parrains
  BY SainDeIInv DEF IInvRelations
<1>1. Types /\ SoiEnTete /\ LecturesEnOrdre /\ NomsSinceres
  BY <1>0, SainFaits
<1>2. \A p \in Pairs : /\ etape[p] \in {"absent", "boucle"} /\ file[p] = <<>>
                       /\ recu[p] = <<>>
  BY <1>1 DEF Repos, LecturesEnOrdre
<1>3. \A p \in Pairs : /\ etape[p] = "absent" <=> Inconnu(p)
                       /\ p \in Membres <=> etape[p] = "boucle"
                       /\ IdFinal(p) = moi[p]
  BY <1>2 DEF Inconnu, Patiente, IdFinal, Changera, Membres, Ouvert
<1>4. Distincts
  BY <1>2, <1>3 DEF Distincts, IdsDistincts
<1>5. Informes
  BY <1>2, <1>3 DEF Informes, EnChemin
<1>6. Relies
  BY <1>4, <1>5 DEF IInvRelations
<1>7. \A p, q \in Pairs : ~Presente(p, q)
  BY <1>2 DEF Presente
<1>8. \A p, q \in Pairs : Saura(p, q) <=> q \in Nommes(vue[p])
  <2>1. 1..Len(<<>>) = {}
    OBVIOUS
  <2>2. \A p, q \in Pairs : ~Annoncee(p, q) /\ ~Listee(p, q)
    BY <1>2, <2>1 DEF Annoncee, Listee
  <2>3. \A p, q \in Pairs : ~DuParrain(p, q) /\ ~AAnnoncer(p, q)
    BY <1>7 DEF DuParrain, AAnnoncer
  <2>. QED BY <2>2, <2>3 DEF Saura
<1>9. ASSUME NEW p \in Membres, NEW q \in Pairs PROVE Connait(p, q) <=> q \in Nommes(vue[p])
  <2>0. p \in Pairs /\ etape[p] = "boucle"
    BY <1>3 DEF Membres
  <2>1. ASSUME Connait(p, q) PROVE q \in Nommes(vue[p])
    BY <2>1, NommesDe DEF Connait
  <2>2. ASSUME q \in Nommes(vue[p]) PROVE Connait(p, q)
    <3>1. PICK k \in 1..Len(vue[p]) : vue[p][k].ip = q
      BY <2>2, NommesDe
    <3>2. Sincere(vue[p][k])
      BY <1>0, <2>0, NommeOuvert DEF EnChemin
    <3>3. ~Inconnu(q) /\ vue[p][k].id = IdFinal(q)
      BY <3>1, <3>2 DEF Sincere
    <3>4. IdFinal(q) = moi[q]
      BY <1>2, <1>3, <3>3
    <3>. QED BY <3>1, <3>3, <3>4 DEF Connait
  <2>. QED BY <2>1, <2>2
<1>10. Membres = {p \in Pairs : etape[p] = "boucle"}
  BY <1>2 DEF Membres, Ouvert
<1>11. \A p \in Membres : ~Inconnu(p)
  BY <1>3, <1>10
<1>. QED BY <1>0, <1>6, <1>8, <1>9, <1>10, <1>11

\* --- theorems ----------------------------------------------------------------------
\* Whatever waits in a socket is well formed, and without failures every newcomer
\* has one request on its way, one sponsor and one identifier for all the others
\* (join.c:48-97, 164-346; peers.c:83-120).
THEOREM ToujoursIInvMembership == Spec => []IInvMembership
BY InitIInv, PasIInv, PTL DEF Spec

\* Every variable of the membership keeps its type for any number of machines,
\* identifiers, attempts and failures (join.c, peers.c:33-120).
THEOREM ToujoursTypeOK == Spec => []TypeOK
<1>1. IInvMembership => TypeOK
  <2>1. SUFFICES ASSUME IInvMembership PROVE TypeOK
    OBVIOUS
  <2>2. Types /\ TypesDuService /\ SoiEnTete
    BY <2>1 DEF IInvMembership
  <2>3. ASSUME NEW p \in Pairs
        PROVE  /\ \A i \in 1..Len(vue[p]) : vue[p][i] \in PairsPossibles
               /\ \A i \in 1..Len(candidats[p]) : candidats[p][i] \in PairsPossibles
               /\ service[p].de \in Pairs \cup {Personne}
               /\ etape[p] \in {"annonce", "dort"} => service[p].pair \in PairsPossibles
    <3>1. /\ vue[p] \in Seq(PairsPossibles) /\ candidats[p] \in Seq(PairsPossibles)
          /\ service[p] \in Services
      BY <2>2, DuPair
    <3>2. service[p].de \in Pairs \cup {Personne}
      BY <3>1 DEF Services
    <3>3. etape[p] \in {"annonce", "dort"} => service[p].pair \in PairsPossibles
      BY <2>2 DEF TypesDuService
    <3>. QED BY <3>1, <3>2, <3>3
  <2>. QED BY <2>2, <2>3 DEF TypeOK, Types
<1>. QED BY <1>1, ToujoursIInvMembership, PTL

\* A peer is the first of its own list, under the identifier it has at that
\* moment, whatever announcements and lists overwrite in it (peers.c:83-120,
\* udp_message_recv.c:39-42, join.c:215-223).
THEOREM ToujoursSoiEnTete == Spec => []SoiEnTete
<1>1. IInvMembership => SoiEnTete
  BY DEF IInvMembership
<1>. QED BY <1>1, ToujoursIInvMembership, PTL

\* As long as nothing failed, whenever everybody is at rest no list names a peer
\* under an identifier it does not have: what code 51 replaced is in nobody's
\* list, however many joined at once and through however many sponsors
\* (join.c:207-226, 275-346; tcp_message_recv.c's code 6).
THEOREM ToujoursVuesSinceres == Spec => []VuesSinceres
<1>1. IInvMembership => VuesSinceres
  <2>1. SUFFICES ASSUME IInvMembership, Repos, pannes = 0,
                        NEW p \in Membres, NEW i \in 1..Len(vue[p])
                 PROVE  moi[vue[p][i].ip] = vue[p][i].id
    BY DEF VuesSinceres
  <2>2. Types /\ SoiEnTete /\ NomsSinceres
    BY <2>1 DEF IInvMembership, SansPanne
  <2>3. p \in Pairs /\ etape[p] = "boucle"
    BY <2>1 DEF Membres, Ouvert, Repos
  <2> DEFINE x == vue[p][i]
  <2>4. x \in PairsPossibles /\ x \in ToSet(vue[p])
    <3>1. vue[p] \in Seq(PairsPossibles)
      BY <2>2, <2>3, DuPair
    <3>. QED BY <3>1 DEF ToSet
  <2>5. Sincere(x)
    BY <2>2, <2>3, <2>4 DEF NomsSinceres, EnChemin
  <2> HIDE DEF x
  <2>6. x.ip \in Pairs
    BY <2>4 DEF PairsPossibles
  <2>7. ~Changera(x.ip)
    BY <2>1, <2>6 DEF Changera, Repos
  <2>8. x.id = moi[x.ip]
    BY <2>5, <2>7 DEF Sincere, IdFinal
  <2>. QED BY <2>8 DEF x
<1>. QED BY <1>1, ToujoursIInvMembership, PTL

\* As long as nothing failed and no two peers got one identifier, what is known
\* and what is on its way of any two peers agree (join.c:48-97, 164-346;
\* peers.c:83-120).
THEOREM ToujoursIInvRelations == Spec => []IInvRelations
BY InitRelations, PasRelations, PTL DEF Spec

\* At rest two members know each other or neither knows the other, for any
\* number of machines and of sponsors, however the joins crossed
\* (join.c:48-97, 164-346; tcp_message_recv.c's code 6).
THEOREM ToujoursSymetrie == Spec => []SymetrieAuRepos
<1>1. IInvRelations => SymetrieAuRepos
  <2>1. SUFFICES ASSUME IInvRelations, Repos, pannes = 0, IdsDistincts,
                        \A p \in Membres : enchere[p],
                        NEW p \in Membres, NEW q \in Membres, Connait(p, q)
                 PROVE  Connait(q, p)
    BY DEF SymetrieAuRepos
  <2>2. p \in Pairs /\ q \in Pairs
    BY DEF Membres
  <2>3. Saura(p, q)
    BY <2>1, <2>2, AuRepos
  <2>4. Saura(q, p)
    BY <2>1, <2>2, <2>3, AuRepos DEF Relies
  <2>. QED BY <2>1, <2>2, <2>4, AuRepos
<1>. QED BY <1>1, ToujoursIInvRelations, PTL

\* At rest those that joined through one sponsor know each other and those that
\* the sponsor knows from before them (join.c:275-346; tcp_message_send.c's
\* broadcast of code 6).
THEOREM ToujoursFratrie == Spec => []Fratrie
<1>1. IInvRelations => Fratrie
  <2>1. SUFFICES ASSUME IInvRelations, Repos, pannes = 0, IdsDistincts,
                        \A p \in Membres : enchere[p],
                        NEW p \in Membres, NEW q \in Membres, NEW s, s = parrain[p],
                        s # Personne, parrain[q] \in {s, Personne}, Connait(s, q)
                 PROVE  Connait(p, q)
    BY DEF Fratrie
  <2>2. p \in Pairs /\ q \in Pairs /\ s \in Pairs
    BY <2>1 DEF Membres, IInvRelations, IInvMembership, Types
  <2>3. /\ Parrains /\ Relies /\ ~Inconnu(p)
        /\ Membres = {x \in Pairs : etape[x] = "boucle"}
    BY <2>1, AuRepos
  <2>4. s \in Membres
    <3>1. etape[s] \notin EnChemin \cup {"absent"}
      BY <2>1, <2>2, <2>3 DEF Parrains
    <3>2. etape[s] \in {"absent", "boucle", "mort"} /\ etape[s] # "mort"
      BY <2>1, <2>2 DEF Repos, IInvRelations, IInvMembership, SansPanne, LecturesEnOrdre
    <3>. QED BY <2>2, <2>3, <3>1, <3>2
  <2>5. Saura(s, q)
    BY <2>1, <2>2, <2>4, AuRepos
  <2>6. Saura(p, q)
    BY <2>1, <2>2, <2>3, <2>5 DEF Relies
  <2>. QED BY <2>1, <2>2, <2>6, AuRepos
<1>. QED BY <1>1, ToujoursIInvRelations, PTL
=============================================================================
