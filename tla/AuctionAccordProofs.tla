------------------------ MODULE AuctionAccordProofs ------------------------
(* Proofs about AuctionAccord, for any number of peers, sales and prices, as *)
(* long as no round gave a peer up: peers that left are forgotten, a sale    *)
(* has one winner and one history of prices, and the copies of a sale are    *)
(* those of its supervisor.  As in AuctionProofs, this is about the code up  *)
(* to four peers.                                                            *)
EXTENDS AuctionAccord, AuctionProofs

\* The sequence t has, of the datagrams with a code of C, nothing more than s.
Reduit(t, s, C) ==
    /\ AuPlusUn(s, C) => AuPlusUn(t, C)
    /\ \A j \in 1..Len(t) : t[j].code \in C => \E i \in 1..Len(s) : t[j] = s[i]

LEMMA ReduitAucun ==
  ASSUME NEW s, NEW t, NEW C, Reduit(t, s, C), NEW D, D \subseteq C, Aucun(s, D)
  PROVE  Aucun(t, D)
BY DEF Reduit, Aucun

LEMMA ReduitSoi ==
  ASSUME NEW s, NEW C
  PROVE  Reduit(s, s, C)
BY DEF Reduit

\* The elements of a sequence without the one at k keep their order.
LEMMA RetraitExact ==
  ASSUME NEW S, NEW s \in Seq(S), NEW k \in 1..Len(s)
  PROVE  /\ RemoveAt(s, k) \in Seq(S) /\ Len(RemoveAt(s, k)) = Len(s) - 1
         /\ \A j \in 1..(Len(s) - 1) : RemoveAt(s, k)[j] = IF j < k THEN s[j] ELSE s[j + 1]
<1>. DEFINE u == SubSeq(s, 1, k - 1)
            v == SubSeq(s, k + 1, Len(s))
<1>1. Len(s) \in Nat /\ \A i \in 1..Len(s) : s[i] \in S
  BY LenProperties, ElementOfSeq
<1>2. u \in Seq(S) /\ Len(u) = k - 1 /\ \A i \in 1..(k - 1) : u[i] = s[i]
  BY <1>1, SubSeqProperties
<1>3. v \in Seq(S) /\ Len(v) = Len(s) - k /\ \A i \in 1..(Len(s) - k) : v[i] = s[k + i]
  BY <1>1, SubSeqProperties
<1>4. RemoveAt(s, k) = u \o v
  BY DEF RemoveAt
<1>. HIDE DEF u, v
<1>5. /\ u \o v \in Seq(S) /\ Len(u \o v) = Len(u) + Len(v)
      /\ \A i \in 1..(Len(u) + Len(v)) :
            (u \o v)[i] = IF i <= Len(u) THEN u[i] ELSE v[i - Len(u)]
  BY <1>2, <1>3, ConcatProperties
<1>6. ASSUME NEW j \in 1..(Len(s) - 1)
      PROVE  (u \o v)[j] = IF j < k THEN s[j] ELSE s[j + 1]
  <2>1. CASE j < k
    BY <1>1, <1>2, <1>3, <1>5, <2>1
  <2>2. CASE ~(j < k)
    <3>1. (u \o v)[j] = v[j - (k - 1)] /\ j - (k - 1) \in 1..(Len(s) - k)
      BY <1>1, <1>2, <1>3, <1>5, <2>2
    <3>2. v[j - (k - 1)] = s[k + (j - (k - 1))] /\ k + (j - (k - 1)) = j + 1
      BY <1>1, <1>3, <3>1
    <3>. QED BY <2>2, <3>1, <3>2
  <2>. QED BY <2>1, <2>2
<1>. QED BY <1>1, <1>2, <1>3, <1>4, <1>5, <1>6

LEMMA RetraitReduit ==
  ASSUME NEW S, NEW s \in Seq(S), NEW k \in 1..Len(s), NEW C
  PROVE  /\ Reduit(RemoveAt(s, k), s, C)
         /\ AuPlusUn(s, C) /\ s[k].code \in C => Aucun(RemoveAt(s, k), C)
<1>. DEFINE t == RemoveAt(s, k)
            o(j) == IF j < k THEN j ELSE j + 1
<1>1. Len(s) \in Nat /\ Len(t) = Len(s) - 1
      /\ \A j \in 1..(Len(s) - 1) : t[j] = IF j < k THEN s[j] ELSE s[j + 1]
  BY RetraitExact, LenProperties
<1>. HIDE DEF t
<1>2. \A j \in 1..Len(t) : t[j] = s[o(j)] /\ o(j) \in 1..Len(s) /\ o(j) # k
  BY <1>1
<1>3. \A i, j \in 1..Len(t) : o(i) = o(j) => i = j
  BY <1>1
<1>. HIDE DEF o
<1>4. AuPlusUn(s, C) => AuPlusUn(t, C)
  BY <1>2, <1>3 DEF AuPlusUn
<1>5. AuPlusUn(s, C) /\ s[k].code \in C => Aucun(t, C)
  BY <1>2 DEF AuPlusUn, Aucun
<1>. QED BY <1>2, <1>4, <1>5 DEF Reduit, t

LEMMA AjoutReduit ==
  ASSUME NEW S, NEW s \in Seq(S), NEW m \in S, NEW C
  PROVE  /\ m.code \notin C => Reduit(Append(s, m), s, C)
         /\ m.code \notin C /\ Aucun(s, C) => Aucun(Append(s, m), C)
         /\ Aucun(s, C) => AuPlusUn(Append(s, m), C)
         /\ \A j \in 1..Len(Append(s, m)) :
                Append(s, m)[j] = m \/ \E i \in 1..Len(s) : i = j /\ Append(s, m)[j] = s[i]
         /\ m.code \in C => ~Aucun(Append(s, m), C)
<1>. DEFINE t == Append(s, m)
<1>1. /\ Len(s) \in Nat /\ Len(t) = Len(s) + 1
      /\ \A i \in 1..Len(s) : t[i] = s[i]
      /\ t[Len(s) + 1] = m
  BY AppendProperties, LenProperties
<1>. HIDE DEF t
<1>2. \A j \in 1..Len(t) : j \in 1..Len(s) \/ (j = Len(s) + 1 /\ t[j] = m)
  BY <1>1
<1>3. m.code \notin C => Reduit(t, s, C)
  BY <1>1, <1>2 DEF Reduit, AuPlusUn
<1>4. m.code \notin C /\ Aucun(s, C) => Aucun(t, C)
  BY <1>1, <1>2 DEF Aucun
<1>5. Aucun(s, C) => AuPlusUn(t, C)
  BY <1>1, <1>2 DEF Aucun, AuPlusUn
<1>6. \A j \in 1..Len(t) : t[j] = m \/ \E i \in 1..Len(s) : i = j /\ t[j] = s[i]
  BY <1>1, <1>2
<1>7. m.code \in C => ~Aucun(t, C)
  BY <1>1 DEF Aucun
<1>. QED BY <1>3, <1>4, <1>5, <1>6, <1>7 DEF t
-----------------------------------------------------------------------------
(* The network.                                                              *)

\* What is read leaves its channel, and nothing else moves.
LEMMA ReseauLu ==
  ASSUME Coherence, NEW p \in Pairs, NEW d \in Lisibles(p)
  PROVE  /\ d.src \in Pairs /\ d.src # p /\ d.m \in Messages /\ DeLuiMeme(d.src, d.m)
         /\ net[<<d.src, p>>] \in Seq(Messages) /\ d.k \in 1..Len(net[<<d.src, p>>])
         /\ d.m = net[<<d.src, p>>][d.k]
         /\ Lu(p, d)[<<d.src, p>>] = RemoveAt(net[<<d.src, p>>], d.k)
         /\ \A q, r \in Pairs : q # d.src \/ r # p => Lu(p, d)[<<q, r>>] = net[<<q, r>>]
         /\ ~Desordre => d.k = 1
<1>1. d.src \in Pairs /\ d.src # p /\ d.m \in Messages /\ DeLuiMeme(d.src, d.m)
      /\ d.k \in 1..Len(net[<<d.src, p>>])
  BY LisibleDe DEF Coherence
<1>2. net \in [Pairs \X Pairs -> Seq(Messages)]
  BY DEF Coherence, ReseauSur
<1>. DEFINE D(q) == {q} \X Prochains(net[<<q, p>>])
<1>3. PICK r \in UNION {D(q) : q \in Pairs} :
        d = [src |-> r[1], k |-> r[2], m |-> net[<<r[1], p>>][r[2]]]
  BY DEF Lisibles
<1>4. PICK q \in Pairs : r \in D(q)
  BY <1>3
<1>5. d.src = q /\ d.m = net[<<q, p>>][d.k] /\ d.k \in Prochains(net[<<q, p>>])
  BY <1>3, <1>4
<1>6. Lu(p, d)[<<d.src, p>>] = RemoveAt(net[<<d.src, p>>], d.k)
      /\ \A u, r_1 \in Pairs : u # d.src \/ r_1 # p => Lu(p, d)[<<u, r_1>>] = net[<<u, r_1>>]
  BY <1>1, <1>2 DEF Lu
<1>7. ~Desordre => d.k = 1
  BY <1>5 DEF Prochains
<1>. QED BY <1>1, <1>2, <1>5, <1>6, <1>7

LEMMA LuReduit ==
  ASSUME Coherence, NEW p \in Pairs, NEW d \in Lisibles(p), NEW C
  PROVE  /\ \A q, r \in Pairs : Reduit(Lu(p, d)[<<q, r>>], net[<<q, r>>], C)
         /\ AuPlusUn(net[<<d.src, p>>], C) /\ d.m.code \in C
                => Aucun(Lu(p, d)[<<d.src, p>>], C)
         /\ d.m.code \in C => ~Aucun(net[<<d.src, p>>], C)
<1>. DEFINE s == net[<<d.src, p>>]
            k == d.k
<1>1. /\ d.src \in Pairs /\ s \in Seq(Messages) /\ k \in 1..Len(s) /\ d.m = s[k]
      /\ Lu(p, d)[<<d.src, p>>] = RemoveAt(s, k)
      /\ \A q, r \in Pairs : q # d.src \/ r # p => Lu(p, d)[<<q, r>>] = net[<<q, r>>]
  BY ReseauLu
<1>. HIDE DEF s, k
<1>2. Reduit(RemoveAt(s, k), s, C) /\ (AuPlusUn(s, C) /\ s[k].code \in C => Aucun(RemoveAt(s, k), C))
  BY <1>1, RetraitReduit
<1>3. ASSUME NEW q \in Pairs, NEW r \in Pairs
      PROVE  Reduit(Lu(p, d)[<<q, r>>], net[<<q, r>>], C)
  <2>1. CASE q = d.src /\ r = p
    BY <1>1, <1>2, <2>1 DEF s
  <2>2. CASE q # d.src \/ r # p
    BY <1>1, <2>2, ReduitSoi
  <2>. QED BY <2>1, <2>2
<1>4. d.m.code \in C => ~Aucun(s, C)
  BY <1>1 DEF Aucun
<1>. QED BY <1>1, <1>2, <1>3, <1>4 DEF s

LEMMA LuAilleurs ==
  ASSUME Coherence, NEW p \in Pairs, NEW d \in Lisibles(p), net' = Lu(p, d)
  PROVE  \A q, r \in Pairs : q # d.src \/ r # p => net'[<<q, r>>] = net[<<q, r>>]
<1>1. \A q, r \in Pairs : q # d.src \/ r # p => Lu(p, d)[<<q, r>>] = net[<<q, r>>]
  BY ReseauLu
<1>. QED BY <1>1

\* An acknowledgement goes back to the living sender of what was read.
LEMMA ReseauAccuse ==
  ASSUME Coherence, NEW p \in Pairs, NEW d \in Lisibles(p)
  PROVE  \A q, r \in Pairs : LuEtAccuse(p, d)[<<q, r>>] =
            IF q = p /\ r = d.src /\ r \in Vivants THEN Append(net[<<q, r>>], [code |-> 1])
            ELSE Lu(p, d)[<<q, r>>]
<1>1. \A q, r \in Pairs : q # d.src \/ r # p => Lu(p, d)[<<q, r>>] = net[<<q, r>>]
  BY ReseauLu
<1>2. d.src # p
  BY ReseauLu
<1>. QED BY <1>1, <1>2 DEF LuEtAccuse, Envoye

LEMMA ReseauDiffuse ==
  ASSUME NEW p \in Pairs, NEW m
  PROVE  \A q, r \in Pairs : Diffuse(p, m)[<<q, r>>] =
            IF q = p /\ r # p /\ r \in Vivants THEN Append(net[<<q, r>>], m) ELSE net[<<q, r>>]
BY DEF Diffuse, Envoye

\* A datagram that is no question adds none, one that is no answer neither.
LEMMA DiffuseReduit ==
  ASSUME Coherence, NEW p \in Pairs, NEW m \in Messages, NEW C, m.code \notin C
  PROVE  \A q, r \in Pairs : Reduit(Diffuse(p, m)[<<q, r>>], net[<<q, r>>], C)
<1>1. \A q, r \in Pairs : net[<<q, r>>] \in Seq(Messages)
  BY DEF Coherence, ReseauSur
<1>2. ASSUME NEW q \in Pairs, NEW r \in Pairs
      PROVE  Reduit(Diffuse(p, m)[<<q, r>>], net[<<q, r>>], C)
  <2>1. Reduit(Append(net[<<q, r>>], m), net[<<q, r>>], C)
    BY <1>1, AjoutReduit
  <2>2. Reduit(net[<<q, r>>], net[<<q, r>>], C)
    BY ReduitSoi
  <2>3. \/ Diffuse(p, m)[<<q, r>>] = Append(net[<<q, r>>], m)
        \/ Diffuse(p, m)[<<q, r>>] = net[<<q, r>>]
    BY DEF Diffuse, Envoye
  <2>. QED BY <2>1, <2>2, <2>3
<1>. QED BY <1>2

LEMMA AccuseReduit ==
  ASSUME Coherence, NEW p \in Pairs, NEW d \in Lisibles(p), NEW C, 1 \notin C
  PROVE  \A q, r \in Pairs : Reduit(LuEtAccuse(p, d)[<<q, r>>], net[<<q, r>>], C)
<1>1. \A q, r \in Pairs : net[<<q, r>>] \in Seq(Messages)
  BY DEF Coherence, ReseauSur
<1>. DEFINE m == [code |-> 1]
<1>2. m \in Messages /\ m.code \notin C
  BY DEF Messages
<1>. HIDE DEF m
<1>3. \A q, r \in Pairs : Reduit(Append(net[<<q, r>>], m), net[<<q, r>>], C)
  BY <1>1, <1>2, AjoutReduit
<1>4. \A q, r \in Pairs : Reduit(Lu(p, d)[<<q, r>>], net[<<q, r>>], C)
  BY LuReduit
<1>5. \A q, r \in Pairs : \/ LuEtAccuse(p, d)[<<q, r>>] = Append(net[<<q, r>>], m)
                          \/ LuEtAccuse(p, d)[<<q, r>>] = Lu(p, d)[<<q, r>>]
  BY ReseauAccuse DEF m
<1>6. ASSUME NEW q \in Pairs, NEW r \in Pairs
      PROVE  Reduit(LuEtAccuse(p, d)[<<q, r>>], net[<<q, r>>], C)
  BY <1>3, <1>4, <1>5
<1>. QED BY <1>6
-----------------------------------------------------------------------------
(* The rounds.                                                               *)

\* What a round of p and its reader q owe each other.
Duo(p, q) == RetourExact(p, q) /\ AllerExact(p, q) /\ DepartExact(p, q)

\* A step of a, seen by the others.
Seul(a) ==
    /\ \A p \in Pairs \ {a} :
            /\ pc'[p] = pc[p] /\ ventes'[p] = ventes[p] /\ copie'[p] = copie[p]
            /\ liste'[p] = liste[p] /\ frames'[p] = frames[p] /\ suite'[p] = suite[p]
    /\ \A p, q \in Pairs : p # a /\ q # a => net'[<<p, q>>] = net[<<p, q>>]
    /\ annonces \subseteq annonces'
    /\ (Actif(a)' => Actif(a)) /\ (a \in Vivants' => a \in Vivants)

LEMMA ActifReste ==
  ASSUME NEW a \in Pairs, Seul(a), NEW q \in Pairs
  PROVE  (Actif(q)' => Actif(q)) /\ (q # a => (Actif(q)' = Actif(q)) /\ (q \in Vivants' <=> q \in Vivants))
<1>1. CASE q = a
  BY <1>1 DEF Seul
<1>2. CASE q # a
  BY <1>2 DEF Seul, Actif, Vivants
<1>. QED BY <1>1, <1>2

LEMMA RondesEnsemble ==
  ASSUME Rondes, NEW a \in Pairs, Seul(a), ListeExacte(a)', RondeExacte(a)',
         \A q \in Pairs : q # a => Duo(a, q)' /\ Duo(q, a)'
  PROVE  Rondes'
<1>1. ASSUME NEW p \in Pairs PROVE ListeExacte(p)' /\ RondeExacte(p)'
  <2>. SUFFICES ASSUME p # a PROVE ListeExacte(p)' /\ RondeExacte(p)'
    OBVIOUS
  <2>1. ListeExacte(p) /\ RondeExacte(p)
    BY DEF Rondes
  <2>2. /\ pc'[p] = pc[p] /\ ventes'[p] = ventes[p] /\ copie'[p] = copie[p]
        /\ liste'[p] = liste[p] /\ frames'[p] = frames[p] /\ suite'[p] = suite[p]
        /\ annonces \subseteq annonces'
    BY DEF Seul
  <2>3. ListeExacte(p)'
    <3>1. \A q \in Pairs : Actif(q)' => Actif(q)
      BY ActifReste
    <3>. QED BY <2>1, <2>2, <3>1 DEF ListeExacte, Ids
  <2>4. RondeExacte(p)'
    <3>1. EnRonde(p)' = EnRonde(p) /\ HorsConsensus(p)' = HorsConsensus(p)
          /\ Sommet(p)' = Sommet(p) /\ Autres(p)' = Autres(p)
      BY <2>2 DEF EnRonde, HorsConsensus, Sommet, Profondeur, Autres
    <3>. QED BY <2>1, <2>2, <3>1 DEF RondeExacte
  <2>. QED BY <2>3, <2>4
<1>2. ASSUME NEW p \in Pairs, NEW q \in Pairs, p # q PROVE Duo(p, q)'
  <2>. SUFFICES ASSUME p # a, q # a PROVE Duo(p, q)'
    BY <1>2
  <2>1. Duo(p, q)
    BY <1>2 DEF Rondes, Duo
  <2>2. /\ pc'[p] = pc[p] /\ liste'[p] = liste[p] /\ frames'[p] = frames[p] /\ suite'[p] = suite[p]
        /\ liste'[q] = liste[q]
        /\ net'[<<p, q>>] = net[<<p, q>>] /\ net'[<<q, p>>] = net[<<q, p>>]
    BY DEF Seul
  <2>3. /\ Actif(p)' = Actif(p) /\ Actif(q)' = Actif(q) /\ (p \in Vivants' <=> p \in Vivants)
    BY ActifReste
  <2>4. EnRonde(p)' = EnRonde(p) /\ Sommet(p)' = Sommet(p) /\ Autres(p)' = Autres(p)
    BY <2>2 DEF EnRonde, Sommet, Profondeur, Autres
  <2>. QED BY <2>1, <2>2, <2>3, <2>4 DEF Duo, RetourExact, AllerExact, DepartExact, Repondu
<1>. QED BY <1>1, <1>2 DEF Rondes, Duo

\* A step of the reader a that answers nothing to q.
LEMMA DuoReponse ==
  ASSUME NEW a \in Pairs, NEW q \in Pairs, q # a, Duo(q, a), Seul(a),
         Reduit(net'[<<q, a>>], net[<<q, a>>], Demandes),
         Reduit(net'[<<a, q>>], net[<<a, q>>], Accuse),
         Ids(liste[a])' \subseteq Ids(liste[a])
  PROVE  Duo(q, a)'
<1>1. /\ pc'[q] = pc[q] /\ liste'[q] = liste[q] /\ frames'[q] = frames[q] /\ suite'[q] = suite[q]
  BY DEF Seul
<1>2. (Actif(a)' => Actif(a)) /\ Actif(q)' = Actif(q) /\ (q \in Vivants' <=> q \in Vivants)
  BY ActifReste
<1>3. EnRonde(q)' = EnRonde(q) /\ Sommet(q)' = Sommet(q) /\ Autres(q)' = Autres(q)
  BY <1>1 DEF EnRonde, Sommet, Profondeur, Autres
<1>4. Aucun(net[<<a, q>>], Accuse) => Aucun(net'[<<a, q>>], Accuse)
  BY ReduitAucun
<1>5. Aucun(net[<<q, a>>], {13}) => Aucun(net'[<<q, a>>], {13})
  <2>1. {13} \subseteq Demandes
    BY DEF Demandes
  <2>. QED BY <2>1, ReduitAucun
<1>6. RetourExact(q, a)'
  BY <1>2, <1>3, <1>4 DEF Duo, RetourExact, Reduit
<1>7. AllerExact(q, a)'
  BY <1>2, <1>3, <1>4 DEF Duo, AllerExact, Reduit
<1>8. Repondu(q, a)' => Repondu(q, a)
  BY <1>3, <1>4 DEF Repondu
<1>9. DepartExact(q, a)'
  BY <1>1, <1>2, <1>3, <1>5, <1>8 DEF Duo, DepartExact
<1>. QED BY <1>6, <1>7, <1>9 DEF Duo

\* A step of a that changes nothing to its round, if there is one.
LEMMA DuoDemande ==
  ASSUME NEW a \in Pairs, NEW q \in Pairs, q # a, Duo(a, q), Seul(a),
         Reduit(net'[<<a, q>>], net[<<a, q>>], Demandes),
         Reduit(net'[<<q, a>>], net[<<q, a>>], Accuse),
         a \in Vivants' => (EnRonde(a)' <=> EnRonde(a)),
         EnRonde(a)' => UNCHANGED <<frames, suite, liste>>,
         pc'[a] = "parti" => pc[a] = "parti"
  PROVE  Duo(a, q)'
<1>1. liste'[q] = liste[q] /\ (EnRonde(a)' => a \in Vivants') /\ (a \in Vivants' => a \in Vivants)
  BY DEF Seul, EnRonde, Vivants
<1>2. (Actif(a)' => Actif(a)) /\ Actif(q)' = Actif(q)
  BY ActifReste
<1>3. EnRonde(a)' => EnRonde(a) /\ Sommet(a)' = Sommet(a) /\ Autres(a)' = Autres(a) /\ suite'[a] = suite[a]
  BY <1>1 DEF Sommet, Profondeur, Autres
<1>4. Aucun(net[<<q, a>>], Accuse) => Aucun(net'[<<q, a>>], Accuse)
  BY ReduitAucun
<1>5. Aucun(net[<<a, q>>], {13}) => Aucun(net'[<<a, q>>], {13})
  <2>1. {13} \subseteq Demandes
    BY DEF Demandes
  <2>. QED BY <2>1, ReduitAucun
<1>6. RetourExact(a, q)'
  BY <1>1, <1>3, <1>4 DEF Duo, RetourExact, Reduit
<1>7. AllerExact(a, q)'
  BY <1>1, <1>2, <1>3, <1>4 DEF Duo, AllerExact, Reduit
<1>8. EnRonde(a)' /\ Repondu(a, q)' => Repondu(a, q)
  BY <1>3, <1>4 DEF Repondu
<1>9. DepartExact(a, q)'
  BY <1>1, <1>2, <1>3, <1>5, <1>8 DEF Duo, DepartExact
<1>. QED BY <1>6, <1>7, <1>9 DEF Duo
-----------------------------------------------------------------------------
(* The steps.                                                                *)
Etape(p) ==
    \/ Commande(p) \/ Lecture(p) \/ Ecriture(p) \/ Temps(p)
    \/ Attente(p) \/ Relance(p) \/ Termine(p)
    \/ Panne(p) \/ \E d \in Lisibles(p) : Perte(p, d)

\* What a peer reads leaves its channel, and what it sends is added at the end.
Lu1(a) == \E d \in Lisibles(a) : net' = Lu(a, d)
Accuse1(a) == \E d \in Lisibles(a) : net' = LuEtAccuse(a, d)
Diffuse1(a) == \E m : net' = Diffuse(a, m)

LEMMA ReseauEtape ==
  ASSUME Coherence, NEW a \in Pairs, net' = net \/ Lu1(a) \/ Accuse1(a) \/ Diffuse1(a)
  PROVE  \A p, q \in Pairs : p # a /\ q # a => net'[<<p, q>>] = net[<<p, q>>]
<1>1. CASE net' = net
  BY <1>1
<1>0. ASSUME NEW d \in Lisibles(a)
      PROVE  \A p, q \in Pairs : p # a /\ q # a => Lu(a, d)[<<p, q>>] = net[<<p, q>>]
  <2>1. \A q, r \in Pairs : q # d.src \/ r # a => Lu(a, d)[<<q, r>>] = net[<<q, r>>]
    BY ReseauLu
  <2>. QED BY <2>1
<1>2. CASE Lu1(a)
  BY <1>0, <1>2 DEF Lu1
<1>3. CASE Accuse1(a)
  <2>. PICK d \in Lisibles(a) : net' = LuEtAccuse(a, d)
    BY <1>3 DEF Accuse1
  <2>1. \A p, q \in Pairs : p # a /\ q # a => net'[<<p, q>>] = Lu(a, d)[<<p, q>>]
    BY ReseauAccuse
  <2>2. \A p, q \in Pairs : p # a /\ q # a => Lu(a, d)[<<p, q>>] = net[<<p, q>>]
    BY <1>0
  <2>. QED BY <2>1, <2>2
<1>4. CASE Diffuse1(a)
  BY <1>4 DEF Diffuse1, Diffuse, Envoye
<1>. QED BY <1>1, <1>2, <1>3, <1>4

LEMMA SeulDe ==
  ASSUME Coherence, NEW a \in Pairs,
         net' = net \/ Lu1(a) \/ Accuse1(a) \/ Diffuse1(a),
         NEW e, pc' = [pc EXCEPT ![a] = e],
         \A p \in Pairs \ {a} :
            /\ ventes'[p] = ventes[p] /\ copie'[p] = copie[p]
            /\ liste'[p] = liste[p] /\ frames'[p] = frames[p] /\ suite'[p] = suite[p],
         annonces \subseteq annonces',
         a \in Vivants, e \notin Sorties => (suite[a].but = "depart" => suite'[a].but = "depart")
  PROVE  Seul(a)
<1>1. \A p \in Pairs \ {a} : pc'[p] = pc[p]
  BY DEF Coherence, Types
<1>2. pc'[a] = e
  BY DEF Coherence, Types
<1>3. (Actif(a)' => Actif(a)) /\ (a \in Vivants' => a \in Vivants)
  BY <1>2 DEF Actif, Vivants, Sorties
<1>. QED BY <1>1, <1>3, ReseauEtape DEF Seul

LEMMA Vivant ==
  ASSUME NEW a \in Pairs, pc[a] \in {"boucle", "lu", "ecrit", "attente", "relance"}
  PROVE  a \in Vivants /\ a \in Pairs
BY DEF Vivants

\* A peer that returns from its round is not leaving, unless it left.
LEMMA SeulCommande ==
  ASSUME Coherence, Rondes, NEW a \in Pairs, Commande(a)
  PROVE  Seul(a)
<1>1. pc[a] = "boucle" /\ a \in Vivants
  BY DEF Commande, sale_start, encherir, quitter_enchere, Tape, Vivants
<1>2. suite[a].but = "rien"
  BY <1>1 DEF Rondes, RondeExacte, HorsConsensus
<1>3. ASSUME NEW prix \in Bases, sale_start(a, prix) PROVE Seul(a)
  <2>1. CASE peer_list_find(liste[a], a)
    <3>1. pc' = [pc EXCEPT ![a] = "lu"] /\ Diffuse1(a)
      BY <1>3, <2>1 DEF sale_start, Diffuse1
    <3>2. \A p \in Pairs \ {a} : ventes'[p] = ventes[p]
      BY <1>3, <2>1 DEF sale_start, Coherence, Types
    <3>3. UNCHANGED <<copie, liste, frames, suite, annonces>>
      BY <1>3 DEF sale_start
    <3>. QED BY <1>1, <1>2, <3>1, <3>2, <3>3, SeulDe
  <2>2. CASE ~peer_list_find(liste[a], a)
    BY <1>1, <1>2, <1>3, <2>2, SeulDe DEF sale_start
  <2>. QED BY <2>1, <2>2
<1>4. ASSUME NEW numv \in Numeros, NEW prix \in Prix, encherir(a, numv, prix) PROVE Seul(a)
  <2>1. Diffuse1(a) /\ UNCHANGED <<ventes, copie, liste, frames, suite, annonces>>
        /\ pc' = [pc EXCEPT ![a] = Apres(vente[a], "lu")]
    BY <1>4 DEF encherir, Diffuse1, boucle
  <2>. QED BY <1>1, <1>2, <2>1, SeulDe
<1>5. ASSUME quitter_enchere(a) PROVE Seul(a)
  <2>1. /\ UNCHANGED <<ventes, copie, liste, annonces>> /\ pc' = [pc EXCEPT ![a] = "attente"]
        /\ net' = net \/ Diffuse1(a)
    BY <1>5 DEF quitter_enchere, consensus, Envoi, Diffuse1
  <2>2. \A p \in Pairs \ {a} : frames'[p] = frames[p] /\ suite'[p] = suite[p]
    BY <1>5 DEF quitter_enchere, consensus, Coherence, Types
  <2>. QED BY <1>1, <1>2, <2>1, <2>2, SeulDe
<1>. QED BY <1>3, <1>4, <1>5 DEF Commande

LEMMA SeulLecture ==
  ASSUME Coherence, Rondes, NEW a \in Pairs, Lecture(a)
  PROVE  Seul(a)
<1>. PICK d \in Lisibles(a) :
        \/ handle_sale_init(a, d) \/ handle_bid(a, d) \/ handle_new_bid(a, d)
        \/ handle_closure(a, d) \/ handle_peer_departure(a, d)
        \/ handle_disparition(a, d) \/ OublieAck(a, d)
  BY DEF Lecture
<1>1. /\ pc[a] \in {"boucle", "lu"} /\ \E v : pc' = [pc EXCEPT ![a] = Apres(v, "ecrit")]
      /\ UNCHANGED <<frames, suite, annonces>>
  BY DEF handle_sale_init, handle_bid, handle_new_bid, handle_closure, handle_peer_departure,
     handle_disparition, OublieAck, boucle, histoire, Lit, PeutLire
<1>2. PICK v : pc' = [pc EXCEPT ![a] = Apres(v, "ecrit")]
  BY <1>1
<1>3. Lu1(a) \/ Accuse1(a)
  BY DEF handle_sale_init, handle_bid, handle_new_bid, handle_closure, handle_peer_departure,
     handle_disparition, OublieAck, Lu1, Accuse1
<1>4. \A p \in Pairs \ {a} : ventes'[p] = ventes[p]
  BY DEF handle_sale_init, handle_bid, handle_new_bid, handle_closure, handle_peer_departure,
     handle_disparition, OublieAck, boucle, Coherence, Types
<1>5. \A p \in Pairs \ {a} : liste'[p] = liste[p]
  BY DEF handle_sale_init, handle_bid, handle_new_bid, handle_closure, handle_peer_departure,
     handle_disparition, OublieAck, boucle, Coherence, Types
<1>6. \A p \in Pairs \ {a} : copie'[p] = copie[p]
  BY DEF handle_sale_init, handle_bid, handle_new_bid, handle_closure, handle_peer_departure,
     handle_disparition, OublieAck, boucle, Coherence, Types
<1>7. a \in Vivants
  BY <1>1 DEF Vivants
<1>. QED BY <1>1, <1>2, <1>3, <1>4, <1>5, <1>6, <1>7, SeulDe

LEMMA SeulEcriture ==
  ASSUME Coherence, Rondes, NEW a \in Pairs, Ecriture(a)
  PROVE  Seul(a)
<1>1. a \in Vivants /\ suite[a].but = "rien"
  <2>1. pc[a] \in {"boucle", "lu", "ecrit"}
    BY DEF Ecriture, alerte_fin_enchere, finalisation_enchere, verifier_enchere, RienAFaire,
       PeutEcrire
  <2>. QED BY <2>1 DEF Vivants, Rondes, RondeExacte, HorsConsensus
<1>2. \E e : pc' = [pc EXCEPT ![a] = e]
  BY DEF Ecriture, alerte_fin_enchere, finalisation_enchere, verifier_enchere, RienAFaire,
     consensus
<1>3. PICK e : pc' = [pc EXCEPT ![a] = e]
  BY <1>2
<1>4. net' = net \/ Diffuse1(a)
  BY DEF Ecriture, alerte_fin_enchere, finalisation_enchere, verifier_enchere, RienAFaire,
     consensus, Envoi, Diffuse1
<1>5. UNCHANGED <<ventes, liste>> /\ annonces \subseteq annonces'
  BY DEF Ecriture, alerte_fin_enchere, finalisation_enchere, verifier_enchere, RienAFaire,
     boucle, histoire
<1>6. \A p \in Pairs \ {a} : frames'[p] = frames[p] /\ suite'[p] = suite[p]
  BY DEF Ecriture, alerte_fin_enchere, finalisation_enchere, verifier_enchere, RienAFaire,
     consensus, boucle, Coherence, Types
<1>7. \A p \in Pairs \ {a} : copie'[p] = copie[p]
  BY DEF Ecriture, alerte_fin_enchere, finalisation_enchere, verifier_enchere, RienAFaire,
     boucle, Coherence, Types
<1>. QED BY <1>1, <1>3, <1>4, <1>5, <1>6, <1>7, SeulDe

LEMMA SeulAttente ==
  ASSUME Coherence, NEW a \in Pairs, Attente(a)
  PROVE  Seul(a)
<1>1. pc[a] = "attente" /\ a \in Vivants
  BY DEF Attente, RecoitAck, RefuseEnchere, RecoitAutre, Expire, Attend, Vivants
<1>2. \E e : pc' = [pc EXCEPT ![a] = e]
  <2>1. pc = [pc EXCEPT ![a] = "attente"]
    BY <1>1 DEF Coherence, Types
  <2>. QED BY <2>1 DEF Attente, RecoitAck, RefuseEnchere, RecoitAutre, Expire, EntreSectionG
<1>3. PICK e : pc' = [pc EXCEPT ![a] = e]
  BY <1>2
<1>4. net' = net \/ Lu1(a)
  BY DEF Attente, RecoitAck, RefuseEnchere, RecoitAutre, Expire, Lu1
<1>5. UNCHANGED <<ventes, liste, suite, copie, annonces>>
  BY DEF Attente, RecoitAck, RefuseEnchere, RecoitAutre, Expire, boucle, histoire
<1>6. \A p \in Pairs \ {a} : frames'[p] = frames[p]
  BY DEF Attente, RecoitAck, RefuseEnchere, RecoitAutre, Expire, Coherence, Types
<1>. QED BY <1>1, <1>3, <1>4, <1>5, <1>6, SeulDe

\* What ends a round changes one sale at most.
LEMMA TermineVentes ==
  ASSUME Coherence, NEW a \in Pairs, Termine(a)
  PROVE  /\ pc[a] = "attente" /\ Complet(Sommet(a)) /\ Len(frames[a]) = 1
         /\ frames' = [frames EXCEPT ![a] = <<>>] /\ suite' = [suite EXCEPT ![a] = Rien]
         /\ UNCHANGED <<copie, liste, net, perdus, annonces>>
         /\ \/ ventes' = ventes /\ pc' = [pc EXCEPT ![a] = "sorti"]
            \/ /\ suite[a].but = "enchere" /\ pc' = [pc EXCEPT ![a] = "boucle"]
               /\ ventes' = [ventes EXCEPT ![a][suite[a].rang] =
                                sale_update(@, copie[a].prix, copie[a].id)]
            \/ /\ suite[a].but = "cloture" /\ pc' = [pc EXCEPT ![a] = "boucle"]
               /\ ventes' = [ventes EXCEPT ![a][suite[a].rang] = sale_close(@)]
            \/ /\ suite[a].but = "depart" /\ pc' = [pc EXCEPT ![a] = "parti"]
               /\ ventes' = ventes
<1>1. pc[a] = "attente" /\ Complet(Sommet(a)) /\ Len(frames[a]) = 1
  BY DEF Termine, Coherence, PairSur, RondeSure, EnRonde
<1>2. \/ suite[a].but = "enchere" /\ ApresEnchere(a, IF Sommet(a).totalPeer < 1 THEN -1 ELSE 0)
      \/ suite[a].but = "cloture" /\ ApresCloture(a)
      \/ suite[a].but = "depart" /\ ApresDepart(a)
  BY <1>1 DEF Termine, Profondeur
<1>3. /\ frames' = [frames EXCEPT ![a] = <<>>] /\ suite' = [suite EXCEPT ![a] = Rien]
      /\ UNCHANGED <<copie, liste, net, perdus, annonces>>
  BY <1>1 DEF Termine, Profondeur, histoire
<1>. QED BY <1>1, <1>2, <1>3 DEF ApresEnchere, ApresCloture, ApresDepart

LEMMA SeulTermine ==
  ASSUME Coherence, NEW a \in Pairs, Termine(a)
  PROVE  Seul(a)
<1>1. /\ pc[a] = "attente" /\ a \in Vivants
      /\ frames' = [frames EXCEPT ![a] = <<>>] /\ suite' = [suite EXCEPT ![a] = Rien]
      /\ UNCHANGED <<copie, liste, net, perdus, annonces>>
  BY TermineVentes DEF Vivants
<1>2. \A p \in Pairs \ {a} : ventes'[p] = ventes[p]
  <2>1. \/ ventes' = ventes
        \/ \E v : ventes' = [ventes EXCEPT ![a] = v]
    BY TermineVentes
  <2>2. ventes \in [Pairs -> Seq(Fiches)]
    BY DEF Coherence, Types
  <2>. QED BY <2>1, <2>2
<1>3. \A p \in Pairs \ {a} : frames'[p] = frames[p] /\ suite'[p] = suite[p]
  BY <1>1 DEF Coherence, Types
<1>4. PICK e \in {"sorti", "boucle", "parti"} :
        pc' = [pc EXCEPT ![a] = e] /\ (suite[a].but = "depart" => e \in {"sorti", "parti"})
  BY TermineVentes
<1>5. e \notin Sorties => suite[a].but # "depart"
  BY <1>4 DEF Sorties
<1>. QED BY <1>1, <1>2, <1>3, <1>4, <1>5, SeulDe

LEMMA SeulToujours ==
  ASSUME Coherence, Rondes, NEW a \in Pairs, Etape(a), perdus' = {}
  PROVE  Seul(a)
<1>1. CASE Temps(a)
  <2>1. /\ pc[a] = "boucle" /\ UNCHANGED <<pc, ventes, copie, liste, frames, suite, net, annonces>>
    BY <1>1 DEF Temps, histoire
  <2>2. pc' = [pc EXCEPT ![a] = "boucle"] /\ a \in Vivants
    BY <2>1 DEF Coherence, Types, Vivants
  <2>. QED BY <2>1, <2>2, SeulDe
<1>2. CASE Relance(a)
  <2>1. RelanceRepondue(a)
    BY <1>2, disparitionPerd DEF Relance
  <2>2. /\ pc[a] = "relance" /\ pc' = [pc EXCEPT ![a] = "plante"]
        /\ UNCHANGED <<ventes, copie, liste, frames, suite, net, annonces>>
    BY <2>1 DEF RelanceRepondue, boucle, histoire
  <2>3. a \in Vivants
    BY <2>2 DEF Vivants
  <2>. QED BY <2>2, <2>3, SeulDe
<1>3. CASE Panne(a)
  <2>1. /\ a \in Vivants /\ pc' = [pc EXCEPT ![a] = "plante"]
        /\ UNCHANGED <<ventes, copie, liste, frames, suite, net, annonces>>
    BY <1>3 DEF Panne, boucle
  <2>. QED BY <2>1, SeulDe
<1>4. ASSUME NEW d \in Lisibles(a), Perte(a, d) PROVE Seul(a)
  <2>1. /\ Lu1(a) /\ UNCHANGED <<pc, ventes, copie, liste, frames, suite, annonces>>
    BY <1>4 DEF Perte, Lu1, boucle
  <2>2. \A p, q \in Pairs : p # a /\ q # a => net'[<<p, q>>] = net[<<p, q>>]
    BY <2>1, ReseauEtape
  <2>. QED BY <2>1, <2>2 DEF Seul, Actif, Vivants
<1>. QED BY <1>1, <1>2, <1>3, <1>4, SeulCommande, SeulLecture, SeulEcriture, SeulAttente,
         SeulTermine DEF Etape
-----------------------------------------------------------------------------
(* The rounds, step by step.                                                 *)

\* A step that neither starts nor ends a round, and answers nothing.
LEMMA RondesSansReponse ==
  ASSUME Rondes, NEW a \in Pairs, Seul(a), UNCHANGED <<frames, suite, liste>>,
         \A q \in Pairs : q # a =>
            /\ Reduit(net'[<<q, a>>], net[<<q, a>>], Demandes)
            /\ Reduit(net'[<<q, a>>], net[<<q, a>>], Accuse)
            /\ Reduit(net'[<<a, q>>], net[<<a, q>>], Demandes)
            /\ Reduit(net'[<<a, q>>], net[<<a, q>>], Accuse),
         a \in Vivants' => (EnRonde(a)' <=> EnRonde(a)),
         HorsConsensus(a)' => HorsConsensus(a), pc'[a] = "parti" => pc[a] = "parti",
         EnRonde(a)' => UNCHANGED <<ventes, copie>>
  PROVE  Rondes'
<1>1. ListeExacte(a)'
  <2>1. ListeExacte(a) /\ \A q \in Pairs : Actif(q)' => Actif(q)
    BY ActifReste DEF Rondes
  <2>. QED BY <2>1 DEF ListeExacte, Ids
<1>2. RondeExacte(a)'
  <2>1. RondeExacte(a)
    BY DEF Rondes
  <2>2. EnRonde(a)' => EnRonde(a)
    BY DEF EnRonde, Vivants
  <2>3. Sommet(a)' = Sommet(a) /\ Autres(a)' = Autres(a) /\ annonces \subseteq annonces'
    BY DEF Sommet, Profondeur, Autres, Seul, Ids
  <2>. QED BY <2>1, <2>2, <2>3 DEF RondeExacte
<1>3. ASSUME NEW q \in Pairs, q # a PROVE Duo(a, q)' /\ Duo(q, a)'
  <2>1. Duo(a, q) /\ Duo(q, a)
    BY <1>3 DEF Rondes, Duo
  <2>2. Duo(a, q)'
    BY <1>3, <2>1, DuoDemande
  <2>3. Ids(liste[a])' \subseteq Ids(liste[a])
    BY DEF Ids
  <2>4. Duo(q, a)'
    BY <1>3, <2>1, <2>3, DuoReponse
  <2>. QED BY <2>2, <2>4
<1>. QED BY <1>1, <1>2, <1>3, RondesEnsemble

\* A new round asks everybody who is there, and nobody answered yet.
LEMMA RondesAppel ==
  ASSUME Coherence, Coherence', Rondes, NEW a \in Pairs, Seul(a), HorsConsensus(a),
         NEW m \in Messages, m.code \in Demandes,
         NEW s \in [but : {"enchere", "cloture", "depart"}, rang : Nat],
         consensus(a, m, s), UNCHANGED <<ventes, liste>>,
         s.but = "depart" <=> m.code = 13,
         s.but = "enchere" => m = copie'[a] /\ m.code = 10 /\ ventes[a][s.rang].sup = a,
         s.but = "cloture" => m.code = 12
            /\ \E x \in annonces' : x.auteur = a /\ x.numv = ventes[a][s.rang].numv,
         s.but # "depart" => ventes[a][s.rang].numv = m.numv
  PROVE  Rondes'
<1>. DEFINE f == consensus_frame(m, liste[a].count)
<1>1. /\ pc'[a] = "attente" /\ suite'[a] = s /\ frames'[a] = <<f>>
      /\ net' = Envoi(a, m, liste[a].count)
  BY DEF consensus, Coherence, Types
<1>2. /\ EnRonde(a)' /\ ~HorsConsensus(a)' /\ Sommet(a)' = f /\ ~EnRonde(a)
      /\ f.m = m /\ f.totalPeer = liste[a].count /\ f.ids = {} /\ f.total = 0
  BY <1>1 DEF EnRonde, HorsConsensus, Sommet, Profondeur, consensus_frame
<1>. HIDE DEF f
<1>3. ListeExacte(a)'
  <2>1. ListeExacte(a) /\ \A q \in Pairs : Actif(q)' => Actif(q)
    BY ActifReste DEF Rondes
  <2>. QED BY <2>1 DEF ListeExacte, Ids
<1>4. RondeExacte(a)'
  <2>1. Cardinality({}) = 0
    BY FS_EmptySet
  <2>. QED BY <1>1, <1>2, <2>1 DEF RondeExacte
<1>5. ASSUME NEW q \in Pairs, q # a PROVE Duo(a, q)' /\ Duo(q, a)'
  <2>1. Duo(a, q) /\ Duo(q, a) /\ a \in Vivants /\ q # a
    BY <1>5 DEF Rondes, Duo, HorsConsensus, Vivants
  <2>2. /\ net[<<a, q>>] \in Seq(Messages) /\ net'[<<q, a>>] = net[<<q, a>>]
        /\ \/ net'[<<a, q>>] = net[<<a, q>>]
           \/ net'[<<a, q>>] = Append(net[<<a, q>>], m)
    BY <1>1, <1>5 DEF Envoi, Diffuse, Envoye, Coherence, ReseauSur
  <2>3. Aucun(net[<<q, a>>], Accuse) /\ (Actif(q) => Aucun(net[<<a, q>>], Demandes))
    BY <1>2, <2>1 DEF Duo, RetourExact, AllerExact, Aucun
  <2>4. /\ Reduit(net'[<<a, q>>], net[<<a, q>>], Accuse)
        /\ Reduit(net'[<<q, a>>], net[<<q, a>>], Demandes)
    <3>1. m.code \notin Accuse
      BY DEF Demandes, Accuse
    <3>2. Reduit(Append(net[<<a, q>>], m), net[<<a, q>>], Accuse)
      BY <2>2, <3>1, AjoutReduit
    <3>. QED BY <2>2, <3>2, ReduitSoi
  <2>5. Duo(q, a)'
    <3>1. Ids(liste[a])' \subseteq Ids(liste[a])
      BY DEF Ids
    <3>. QED BY <1>5, <2>1, <2>4, <3>1, DuoReponse
  <2>6. Aucun(net'[<<q, a>>], Accuse) /\ ~Repondu(a, q)'
    BY <1>2, <2>2, <2>3 DEF Repondu
  <2>7. Actif(q)' => Actif(q)
    BY ActifReste
  <2>8. AllerExact(a, q)'
    <3>. SUFFICES ASSUME Actif(q) PROVE AllerExact(a, q)'
      BY <2>7 DEF AllerExact
    <3>1. AuPlusUn(net'[<<a, q>>], Demandes)
      <4>1. AuPlusUn(Append(net[<<a, q>>], m), Demandes)
        BY <2>2, <2>3, AjoutReduit
      <4>. QED BY <2>2, <2>3, <4>1 DEF Aucun, AuPlusUn
    <3>2. \A k \in 1..Len(net'[<<a, q>>]) :
            net'[<<a, q>>][k].code \in Demandes => net'[<<a, q>>][k] = m
      <4>1. \A k \in 1..Len(Append(net[<<a, q>>], m)) :
                \/ Append(net[<<a, q>>], m)[k] = m
                \/ \E i \in 1..Len(net[<<a, q>>]) :
                        i = k /\ Append(net[<<a, q>>], m)[k] = net[<<a, q>>][i]
        BY <2>2, AjoutReduit
      <4>. QED BY <2>2, <2>3, <4>1 DEF Aucun
    <3>. QED BY <1>2, <2>6, <3>1, <3>2 DEF AllerExact
  <2>9. DepartExact(a, q)'
    <3>1. Actif(a)' => m.code # 13 /\ Actif(a)
      BY <1>1 DEF Actif, Seul
    <3>2. Actif(a)' => Aucun(net'[<<a, q>>], {13})
      <4>1. Actif(a)' => Aucun(net[<<a, q>>], {13})
        BY <2>1, <3>1 DEF Duo, DepartExact
      <4>2. m.code # 13 /\ Aucun(net[<<a, q>>], {13}) => Aucun(Append(net[<<a, q>>], m), {13})
        BY <2>2, AjoutReduit
      <4>. QED BY <2>2, <3>1, <4>1, <4>2
    <3>. QED BY <1>1, <2>6, <3>2 DEF DepartExact
  <2>10. RetourExact(a, q)'
    BY <2>6 DEF RetourExact
  <2>. QED BY <2>5, <2>8, <2>9, <2>10 DEF Duo
<1>. QED BY <1>3, <1>4, <1>5, RondesEnsemble

\* A list without a peer names the others, each once as before.
LEMMA ListeSans ==
  ASSUME NEW g \in [slots : Seq(Pairs), count : Nat], NEW id \in Pairs,
         g.count <= Len(g.slots),
         \A i, j \in 1..g.count : g.slots[i] = g.slots[j] => i = j
  PROVE  LET h == peer_list_remove(g, id) IN
         /\ Ids(h) = Ids(g) \ {id}
         /\ \A i, j \in 1..h.count : h.slots[i] = h.slots[j] => i = j
<1>. DEFINE h == peer_list_remove(g, id)
            R == Rangs(g, id)
            r == Premier(R)
            s == g.slots
            c == g.count
            t == [s EXCEPT ![r] = s[c]]
<1>1. CASE ~peer_list_find(g, id)
  <2>1. h = g /\ id \notin Ids(g)
    BY <1>1 DEF peer_list_remove, peer_list_find, Rangs, Ids
  <2>. QED BY <2>1
<1>2. CASE peer_list_find(g, id)
  <2>1. R # {} /\ R \subseteq 1..c /\ (\A j \in R : s[j] = id) /\ R \subseteq Nat
    BY <1>2 DEF peer_list_find, Rangs
  <2>2. r \in R
    BY <2>1, Minimum, Zenon
  <2>3. r \in 1..c /\ s[r] = id
    BY <2>1, <2>2
  <2>4. Len(s) \in Nat /\ c \in 1..Len(s) /\ s \in Seq(Pairs) /\ \A j \in 1..c : s[j] \in Pairs
    BY <2>3, LenProperties, ElementOfSeq
  <2>5. h.slots = t /\ h.count = c - 1
    BY <1>2 DEF peer_list_remove
  <2>6. \A i, j \in 1..c : s[i] = s[j] => i = j
    OBVIOUS
  <2>7. \A j \in 1..c : t[j] = IF j = r THEN s[c] ELSE s[j]
    BY <2>3, <2>4
  <2>. HIDE DEF r, s, c, t, h, R
  <2>8. \A j \in 1..(c - 1) : t[j] # id /\ \E i \in 1..c : t[j] = s[i]
    BY <2>3, <2>4, <2>6, <2>7
  <2>9. ASSUME NEW j \in 1..c, s[j] # id PROVE \E i \in 1..(c - 1) : t[i] = s[j]
    <3>1. CASE j = c
      BY <2>3, <2>4, <2>6, <2>7, <2>9, <3>1
    <3>2. CASE j # c
      BY <2>3, <2>4, <2>7, <2>9, <3>2
    <3>. QED BY <3>1, <3>2
  <2>10. \A i, j \in 1..(c - 1) : t[i] = t[j] => i = j
    BY <2>3, <2>4, <2>6, <2>7
  <2>11. Ids(g) = {s[i] : i \in 1..c} /\ Ids(h) = {t[i] : i \in 1..(c - 1)}
    BY <2>5 DEF Ids, s, c
  <2>12. Ids(h) = Ids(g) \ {id}
    BY <2>8, <2>9, <2>11
  <2>. QED BY <2>5, <2>10, <2>12 DEF h
<1>. QED BY <1>1, <1>2

\* A peer in the list of p is not past the slots of the list, which p begins.
LEMMA AutresBornes ==
  ASSUME Coherence, NEW p \in Pairs, liste[p].count > 0
  PROVE  /\ IsFiniteSet(Autres(p)) /\ Cardinality(Autres(p)) <= liste[p].count - 1
         /\ Autres(p) \subseteq Pairs
<1>. DEFINE c == liste[p].count
            s == liste[p].slots
            T == {s[i] : i \in 2..c}
            f == [i \in 2..c |-> s[i]]
<1>1. c \in Nat /\ c > 0 /\ s[1] = p /\ c <= Len(s) /\ s \in Seq(Pairs)
  BY DEF Coherence, Types, PairSur, EnTete, Moi
<1>2. \A i \in 1..c : s[i] \in Pairs
  BY <1>1, ElementOfSeq, LenProperties
<1>3. Autres(p) = {s[i] : i \in 1..c} \ {p}
  BY DEF Autres, Ids
<1>. HIDE DEF s, c
<1>4. IsFiniteSet(2..c) /\ Cardinality(2..c) <= c - 1
  <2>1. 2 \in Int /\ c \in Int
    BY <1>1
  <2>2. IsFiniteSet(2..c) /\ Cardinality(2..c) = IF 2 > c THEN 0 ELSE c - 2 + 1
    BY <2>1, FS_Interval, Zenon
  <2>. QED BY <1>1, <2>2
<1>5. f \in Surjection(2..c, T)
  BY DEF Surjection
<1>. HIDE DEF f
<1>6. IsFiniteSet(T) /\ Cardinality(T) <= Cardinality(2..c)
  BY <1>4, <1>5, FS_Surjection
<1>7. Autres(p) \subseteq T
  <2>1. \A i \in 1..c : i = 1 \/ i \in 2..c
    BY <1>1
  <2>. QED BY <1>1, <1>3, <2>1
<1>. HIDE DEF T
<1>8. IsFiniteSet(Autres(p)) /\ Cardinality(Autres(p)) <= Cardinality(T)
  BY <1>6, <1>7, FS_Subset
<1>9. Cardinality(Autres(p)) \in Nat /\ Cardinality(T) \in Nat /\ Cardinality(2..c) \in Nat
  BY <1>4, <1>6, <1>8, FS_CardinalityType
<1>. QED BY <1>1, <1>2, <1>3, <1>4, <1>6, <1>8, <1>9 DEF c

\* An answer is counted once, from a peer that had not answered.
LEMMA RondesAck ==
  ASSUME Coherence, Rondes, NEW a \in Pairs, Seul(a), NEW d \in Lisibles(a), RecoitAck(a, d)
  PROVE  Rondes'
<1>. DEFINE f == Sommet(a)
            b == d.src
<1>1. /\ pc[a] = "attente" /\ d.m.code = 1 /\ net' = Lu(a, d) /\ frames[a] = <<f>>
      /\ frames' = [frames EXCEPT ![a] = <<Compte(f, b)>>]
      /\ UNCHANGED <<pc, ventes, copie, liste, suite, annonces>>
  <2>1. pc[a] = "attente" /\ Len(frames[a]) = 1 /\ frames[a] \in Seq(Activations)
    BY DEF RecoitAck, Attend, Coherence, PairSur, RondeSure, EnRonde, Types
  <2>2. frames[a] = <<frames[a][1]>> /\ f = frames[a][1]
    BY <2>1 DEF Sommet, Profondeur
  <2>3. frames' = [frames EXCEPT ![a] = [frames[a] EXCEPT ![1] = Compte(frames[a][1], b)]]
    BY <2>1 DEF RecoitAck, Profondeur
  <2>4. [frames[a] EXCEPT ![1] = Compte(frames[a][1], b)] = <<Compte(frames[a][1], b)>>
    BY <2>2
  <2>. QED BY <2>1, <2>2, <2>3, <2>4 DEF RecoitAck, boucle, histoire
<1>2. EnRonde(a) /\ EnRonde(a)' /\ ~HorsConsensus(a) /\ ~HorsConsensus(a)' /\ a \in Vivants
  BY <1>1 DEF EnRonde, HorsConsensus, Vivants
<1>3. f \in Activations
  <2>1. frames[a] \in Seq(Activations)
    BY DEF Coherence, Types
  <2>. QED BY <1>1, <2>1
<1>4. /\ Sommet(a)' = Compte(f, b) /\ Compte(f, b).ids = f.ids \cup {b}
      /\ Compte(f, b).total = f.total + 1 /\ Compte(f, b).m = f.m
      /\ Compte(f, b).totalPeer = f.totalPeer
  <2>1. frames'[a] = <<Compte(f, b)>>
    BY <1>1 DEF Coherence, Types
  <2>. HIDE DEF f
  <2>2. /\ Compte(f, b).ids = f.ids \cup {b} /\ Compte(f, b).total = f.total + 1
        /\ Compte(f, b).m = f.m /\ Compte(f, b).totalPeer = f.totalPeer
    BY <1>3 DEF Compte, Activations
  <2>. QED BY <2>1, <2>2 DEF Sommet, Profondeur
<1>5. /\ b \in Pairs /\ b # a /\ d.m.code \in Accuse /\ Autres(a)' = Autres(a)
  BY <1>1, ReseauLu DEF Autres, Accuse
<1>e. \A q, r \in Pairs : q # b \/ r # a => net'[<<q, r>>] = net[<<q, r>>]
  BY <1>1, LuAilleurs DEF b
<1>r. \A q, r \in Pairs : /\ Reduit(net'[<<q, r>>], net[<<q, r>>], Demandes)
                         /\ Reduit(net'[<<q, r>>], net[<<q, r>>], Accuse)
  BY <1>1, LuReduit
<1>6. RondeExacte(a) /\ ListeExacte(a) /\ Duo(a, b)
  BY <1>5 DEF Rondes, Duo
<1>. HIDE DEF f, b
<1>7. /\ ~Aucun(net[<<b, a>>], Accuse) /\ AuPlusUn(net[<<b, a>>], Accuse)
      /\ b \in Autres(a) \ f.ids
  BY <1>2, <1>5, <1>6, LuReduit DEF Duo, RetourExact, f, b
<1>8. ListeExacte(a)'
  <2>1. \A q \in Pairs : Actif(q)' => Actif(q)
    BY ActifReste
  <2>. QED BY <1>1, <1>6, <2>1 DEF ListeExacte, Ids
<1>9. RondeExacte(a)'
  <2>1. f.ids \subseteq Autres(a) /\ f.total = Cardinality(f.ids)
    BY <1>2, <1>6 DEF RondeExacte, f
  <2>2. IsFiniteSet(f.ids)
    BY <1>6, <2>1, AutresBornes, FS_Subset DEF ListeExacte
  <2>3. Cardinality(f.ids \cup {b}) = f.total + 1
    BY <1>7, <2>1, <2>2, FS_AddElement
  <2>. QED BY <1>1, <1>2, <1>4, <1>5, <1>6, <1>7, <2>1, <2>3 DEF RondeExacte, f
<1>10. ASSUME NEW q \in Pairs, q # a PROVE Duo(a, q)' /\ Duo(q, a)'
  <2>1. Duo(a, q) /\ Duo(q, a)
    BY <1>10 DEF Rondes, Duo
  <2>2. /\ Reduit(net'[<<q, a>>], net[<<q, a>>], Demandes)
        /\ Reduit(net'[<<q, a>>], net[<<q, a>>], Accuse)
        /\ net'[<<a, q>>] = net[<<a, q>>]
    BY <1>5, <1>10, <1>e, <1>r
  <2>3. Duo(q, a)'
    <3>1. Ids(liste[a])' \subseteq Ids(liste[a])
      BY <1>1 DEF Ids
    <3>2. Reduit(net'[<<a, q>>], net[<<a, q>>], Accuse)
      BY <2>2, ReduitSoi
    <3>. QED BY <1>10, <2>1, <2>2, <3>1, <3>2, DuoReponse
  <2>4. /\ (Actif(q)' <=> Actif(q)) /\ (Actif(a)' => Actif(a)) /\ liste'[q] = liste[q]
    BY <1>10, ActifReste DEF Seul
  <2>5. Aucun(net[<<q, a>>], Accuse) => Aucun(net'[<<q, a>>], Accuse)
    BY <2>2, ReduitAucun
  <2>6. Repondu(a, q)' => Repondu(a, q)
    BY <1>4, <1>7, <2>5 DEF Repondu, f
  <2>7. DepartExact(a, q)'
    BY <1>1, <1>2, <2>1, <2>2, <2>4, <2>6 DEF Duo, DepartExact, EnRonde
  <2>8. CASE q = b
    <3>1. Aucun(net'[<<q, a>>], Accuse)
      BY <1>1, <1>5, <1>7, <2>8, LuReduit DEF b
    <3>2. Actif(q) => Aucun(net[<<a, q>>], Demandes)
      BY <1>2, <1>7, <2>1, <2>8 DEF Duo, AllerExact, Aucun
    <3>3. AllerExact(a, q)'
      BY <2>1, <2>2, <2>4, <3>2 DEF Duo, AllerExact, Aucun
    <3>. QED BY <2>3, <2>7, <3>1, <3>3 DEF Duo, RetourExact
  <2>9. CASE q # b
    <3>1. net'[<<q, a>>] = net[<<q, a>>]
      BY <1>10, <2>9, <1>e
    <3>2. RetourExact(a, q)'
      BY <1>2, <1>4, <1>5, <2>1, <2>2, <2>9, <3>1 DEF Duo, RetourExact, f
    <3>3. AllerExact(a, q)'
      BY <1>2, <1>4, <2>1, <2>2, <2>4, <2>9, <3>1 DEF Duo, AllerExact, f
    <3>. QED BY <2>3, <2>7, <3>2, <3>3 DEF Duo
  <2>. QED BY <2>8, <2>9
<1>. QED BY <1>8, <1>9, <1>10, RondesEnsemble

\* A round that is complete has the answers of everybody in the list.
LEMMA ToutLeMonde ==
  ASSUME Coherence, Rondes, NEW a \in Pairs, EnRonde(a), Complet(Sommet(a))
  PROVE  Sommet(a).ids = Autres(a)
<1>. DEFINE f == Sommet(a)
            n == liste[a].count
<1>1. /\ f.totalPeer = n /\ f.ids \subseteq Autres(a) /\ f.total = Cardinality(f.ids)
      /\ n > 0 /\ n \in Nat
  BY DEF Rondes, RondeExacte, ListeExacte, Coherence, Types
<1>2. f.total >= n - 1
  BY <1>1 DEF Complet
<1>3. IsFiniteSet(Autres(a)) /\ Cardinality(Autres(a)) <= n - 1
  BY <1>1, AutresBornes
<1>. HIDE DEF f, n
<1>4. /\ Cardinality(f.ids) <= Cardinality(Autres(a))
      /\ (Cardinality(Autres(a)) = Cardinality(f.ids) => Autres(a) = f.ids)
      /\ IsFiniteSet(f.ids)
  BY <1>1, <1>3, FS_Subset
<1>5. Cardinality(f.ids) \in Nat /\ Cardinality(Autres(a)) \in Nat
  BY <1>3, <1>4, FS_CardinalityType
<1>. QED BY <1>1, <1>2, <1>3, <1>4, <1>5 DEF f

LEMMA RondesTermine ==
  ASSUME Coherence, Coherence', Rondes, NEW a \in Pairs, Seul(a), Termine(a)
  PROVE  Rondes'
<1>1. /\ pc[a] = "attente" /\ frames' = [frames EXCEPT ![a] = <<>>]
      /\ suite' = [suite EXCEPT ![a] = Rien] /\ UNCHANGED <<copie, liste, net, annonces>>
      /\ Complet(Sommet(a))
  BY TermineVentes
<1>2. /\ pc'[a] \in {"boucle", "sorti", "parti"} /\ suite'[a] = Rien
      /\ (suite[a].but = "depart" => pc'[a] # "boucle")
      /\ (pc'[a] = "parti" => suite[a].but = "depart")
  <2>1. PICK e \in {"boucle", "sorti", "parti"} :
            /\ pc' = [pc EXCEPT ![a] = e] /\ (suite[a].but = "depart" => e # "boucle")
            /\ (e = "parti" => suite[a].but = "depart")
    BY TermineVentes
  <2>. QED BY <1>1, <2>1 DEF Coherence, Types
<1>3. EnRonde(a) /\ ~EnRonde(a)' /\ Sommet(a).ids = Autres(a) /\ a \in Vivants
  BY <1>1, <1>2, ToutLeMonde DEF EnRonde, Vivants
<1>4. ListeExacte(a) /\ RondeExacte(a) /\ \A q \in Pairs : Actif(q)' => Actif(q)
  BY ActifReste DEF Rondes
<1>5. ListeExacte(a)'
  BY <1>1, <1>4 DEF ListeExacte, Ids
<1>6. RondeExacte(a)'
  BY <1>2, <1>3 DEF RondeExacte, Rien
<1>7. ASSUME NEW q \in Pairs, q # a PROVE Duo(a, q)' /\ Duo(q, a)'
  <2>1. Duo(a, q) /\ Duo(q, a)
    BY <1>7 DEF Rondes, Duo
  <2>2. Duo(q, a)'
    <3>1. Ids(liste[a])' \subseteq Ids(liste[a])
      BY <1>1 DEF Ids
    <3>. QED BY <1>1, <1>7, <2>1, <3>1, DuoReponse, ReduitSoi
  <2>3. Actif(q) => q \in Sommet(a).ids
    BY <1>3, <1>4, <1>7 DEF ListeExacte, Autres
  <2>4. Aucun(net[<<q, a>>], Accuse)
    BY <1>3, <2>1 DEF Duo, RetourExact
  <2>5. RetourExact(a, q)'
    BY <1>1, <2>4 DEF RetourExact
  <2>6. Actif(q) => Aucun(net[<<a, q>>], Demandes)
    BY <1>3, <2>1, <2>3 DEF Duo, AllerExact, Aucun
  <2>7. AllerExact(a, q)'
    BY <1>1, <1>4, <1>7, <2>6 DEF AllerExact, Aucun, AuPlusUn
  <2>8. DepartExact(a, q)'
    <3>1. Actif(a)' => Aucun(net'[<<a, q>>], {13})
      BY <1>1, <1>4, <2>1 DEF Duo, DepartExact
    <3>2. pc'[a] = "parti" /\ Actif(q) => a \notin Ids(liste[q])
      BY <1>2, <1>3, <2>1, <2>3 DEF Duo, DepartExact, Repondu
    <3>3. liste'[q] = liste[q]
      BY <1>1
    <3>. QED BY <1>3, <1>4, <3>1, <3>2, <3>3 DEF DepartExact
  <2>. QED BY <2>2, <2>5, <2>7, <2>8 DEF Duo
<1>. QED BY <1>5, <1>6, <1>7, RondesEnsemble

\* An answer goes back to the peer that asked, which is forgotten if it leaves.
LEMMA RondesAccuse ==
  ASSUME Coherence, Coherence', Rondes, NEW a \in Pairs, Seul(a), NEW d \in Lisibles(a),
         HorsConsensus(a), HorsConsensus(a)', d.m.code \in Demandes,
         net' = LuEtAccuse(a, d), UNCHANGED <<frames, suite>>,
         \/ d.m.code # 13 /\ UNCHANGED liste
         \/ d.m.code = 13 /\ liste' = [liste EXCEPT ![a] = peer_list_remove(@, d.m.id)]
  PROVE  Rondes'
<1>. DEFINE b == d.src
<1>1. b \in Pairs /\ b # a /\ DeLuiMeme(b, d.m)
  BY ReseauLu
<1>2. Actif(a) /\ suite[a].but = "rien" /\ a \in Vivants /\ ~EnRonde(a) /\ ~EnRonde(a)'
      /\ ListeExacte(a) /\ Duo(a, b) /\ Duo(b, a) /\ RondeExacte(b)
  BY <1>1 DEF Rondes, Duo, RondeExacte, HorsConsensus, Actif, Vivants, EnRonde
<1>3. /\ \A q, r \in Pairs : Reduit(net'[<<q, r>>], net[<<q, r>>], Demandes)
      /\ \A q, r \in Pairs : ~(q = a /\ r = b) => Reduit(net'[<<q, r>>], net[<<q, r>>], Accuse)
  <2>1. 1 \notin Demandes
    BY DEF Demandes
  <2>2. \A q, r \in Pairs : Reduit(LuEtAccuse(a, d)[<<q, r>>], net[<<q, r>>], Demandes)
    BY <2>1, AccuseReduit
  <2>3. \A q, r \in Pairs : ~(q = a /\ r = b) => LuEtAccuse(a, d)[<<q, r>>] = Lu(a, d)[<<q, r>>]
    BY ReseauAccuse
  <2>4. \A q, r \in Pairs : Reduit(Lu(a, d)[<<q, r>>], net[<<q, r>>], Accuse)
    BY LuReduit
  <2>. QED BY <2>2, <2>3, <2>4
<1>4. /\ net[<<a, b>>] \in Seq(Messages) /\ [code |-> 1] \in Messages
      /\ net'[<<a, b>>] = IF b \in Vivants THEN Append(net[<<a, b>>], [code |-> 1]) ELSE net[<<a, b>>]
  <2>0. \A q, r \in Pairs : q # d.src \/ r # a => Lu(a, d)[<<q, r>>] = net[<<q, r>>]
    BY ReseauLu
  <2>1. Lu(a, d)[<<a, b>>] = net[<<a, b>>]
    BY <1>1, <2>0
  <2>2. LuEtAccuse(a, d)[<<a, b>>] =
            IF b \in Vivants THEN Append(net[<<a, b>>], [code |-> 1]) ELSE Lu(a, d)[<<a, b>>]
    BY <1>1, ReseauAccuse
  <2>. QED BY <1>1, <2>1, <2>2 DEF Messages, Coherence, ReseauSur
<1>. HIDE DEF b
\* the question that is read is the one of the round of b
<1>5. AuPlusUn(net[<<b, a>>], Demandes) /\ Aucun(net'[<<b, a>>], Demandes)
  <2>1. AuPlusUn(net[<<b, a>>], Demandes)
    BY <1>2 DEF Duo, AllerExact
  <2>2. Aucun(Lu(a, d)[<<b, a>>], Demandes)
    BY <2>1, LuReduit DEF b
  <2>3. LuEtAccuse(a, d)[<<b, a>>] = Lu(a, d)[<<b, a>>]
    BY <1>1, ReseauAccuse
  <2>. QED BY <2>1, <2>2, <2>3
<1>6. b \in Vivants => EnRonde(b) /\ d.m = Sommet(b).m /\ b # a /\ a \notin Sommet(b).ids
                       /\ Aucun(net[<<a, b>>], Accuse)
  <2>1. d.k \in 1..Len(net[<<b, a>>]) /\ d.m = net[<<b, a>>][d.k]
    BY ReseauLu DEF b
  <2>. QED BY <1>1, <1>2, <2>1 DEF Duo, AllerExact
<1>7. d.m.code = 13 => ~Actif(b) /\ d.m.id = b
  <2>1. ~Aucun(net[<<b, a>>], {13}) \/ d.m.code # 13
    BY LuReduit DEF b
  <2>. QED BY <1>1, <1>2, <2>1 DEF Duo, DepartExact, DeLuiMeme
<1>8. /\ Ids(liste[a])' = IF d.m.code = 13 THEN Ids(liste[a]) \ {b} ELSE Ids(liste[a])
      /\ \A i, j \in 1..liste'[a].count : liste'[a].slots[i] = liste'[a].slots[j] => i = j
      /\ liste'[a].count \in Nat
  <2>1. liste[a] \in [slots : Seq(Pairs), count : Nat] /\ liste[a].count <= Len(liste[a].slots)
    BY DEF Coherence, Types, PairSur, EnTete
  <2>2. liste'[a].count \in Nat
    BY DEF Coherence, Types
  <2>3. CASE d.m.code # 13
    BY <1>2, <2>2, <2>3 DEF ListeExacte
  <2>4. CASE d.m.code = 13
    <3>1. liste'[a] = peer_list_remove(liste[a], b)
      BY <1>7, <2>4 DEF Coherence, Types
    <3>2. \A i, j \in 1..liste[a].count : liste[a].slots[i] = liste[a].slots[j] => i = j
      BY <1>2 DEF ListeExacte
    <3>. QED BY <1>1, <2>1, <2>2, <2>4, <3>1, <3>2, ListeSans
  <2>. QED BY <2>3, <2>4
<1>9. \A q \in Pairs : Actif(q)' => Actif(q)
  BY ActifReste
<1>10. ListeExacte(a)'
  <2>1. \A q \in Pairs : Actif(q) => q \in Ids(liste[a])
    BY <1>2 DEF ListeExacte
  <2>2. \A q \in Pairs : Actif(q) => q \in Ids(liste[a])'
    BY <1>7, <1>8, <2>1
  <2>3. a \in Ids(liste[a])'
    BY <1>2, <2>2
  <2>4. liste'[a].count > 0
    BY <1>8, <2>3 DEF Ids
  <2>. QED BY <1>8, <1>9, <2>2, <2>4 DEF ListeExacte
<1>11. RondeExacte(a)'
  BY <1>2 DEF RondeExacte
<1>12. ASSUME NEW q \in Pairs, q # a PROVE Duo(a, q)' /\ Duo(q, a)'
  <2>1. Duo(a, q) /\ Duo(q, a)
    BY <1>12 DEF Rondes, Duo
  <2>2. Duo(a, q)'
    <3>1. pc'[a] # "parti" /\ (EnRonde(a)' <=> EnRonde(a)) /\ ~EnRonde(a)'
      BY <1>2 DEF HorsConsensus
    <3>2. Reduit(net'[<<q, a>>], net[<<q, a>>], Accuse)
      BY <1>1, <1>3, <1>12
    <3>3. Reduit(net'[<<a, q>>], net[<<a, q>>], Demandes)
      BY <1>3, <1>12
    <3>4. EnRonde(a)' => UNCHANGED <<frames, suite, liste>>
      BY <3>1
    <3>. QED BY <1>12, <2>1, <3>1, <3>2, <3>3, <3>4, DuoDemande
  <2>3. CASE q # b
    <3>1. Ids(liste[a])' \subseteq Ids(liste[a])
      BY <1>8
    <3>2. Reduit(net'[<<a, q>>], net[<<a, q>>], Accuse)
      BY <1>3, <1>12, <2>3
    <3>. QED BY <1>3, <1>12, <2>1, <2>2, <3>1, <3>2, DuoReponse
  <2>4. CASE q = b
    <3>1. /\ pc'[b] = pc[b] /\ liste'[b] = liste[b] /\ frames'[b] = frames[b] /\ suite'[b] = suite[b]
      BY <1>1 DEF Seul
    <3>2. /\ EnRonde(b)' = EnRonde(b) /\ Sommet(b)' = Sommet(b) /\ Autres(b)' = Autres(b)
          /\ (b \in Vivants' <=> b \in Vivants) /\ Actif(b)' = Actif(b)
      BY <1>1, <3>1, ActifReste DEF EnRonde, Sommet, Profondeur, Autres
    <3>3. RetourExact(b, a)'
      <4>. SUFFICES ASSUME b \in Vivants PROVE RetourExact(b, a)'
        BY <3>2 DEF RetourExact
      <4>1. AuPlusUn(net'[<<a, b>>], Accuse)
        BY <1>4, <1>6, AjoutReduit
      <4>2. a \in Autres(b)
        BY <1>1, <1>2 DEF Rondes, ListeExacte, Autres
      <4>. QED BY <1>6, <3>2, <4>1, <4>2 DEF RetourExact
    <3>4. AllerExact(b, a)'
      BY <1>5 DEF AllerExact, Aucun, AuPlusUn
    <3>5. Actif(b)' => Aucun(net'[<<b, a>>], {13})
      BY <1>5 DEF Aucun, Demandes
    <3>6. EnRonde(b) /\ suite[b].but = "depart" => b \notin Ids(liste[a])'
      <4>. SUFFICES ASSUME EnRonde(b), suite[b].but = "depart" PROVE d.m.code = 13
        BY <1>8
      <4>1. b \in Vivants
        BY <1>1 DEF EnRonde, Vivants
      <4>. QED BY <1>2, <1>6, <4>1 DEF RondeExacte
    <3>7. pc[b] = "parti" => b \notin Ids(liste[a])'
      BY <1>2, <1>8 DEF Duo, DepartExact
    <3>8. DepartExact(b, a)'
      BY <3>1, <3>2, <3>5, <3>6, <3>7 DEF DepartExact
    <3>. QED BY <2>2, <2>4, <3>3, <3>4, <3>8 DEF Duo
  <2>. QED BY <2>3, <2>4
<1>. QED BY <1>10, <1>11, <1>12, RondesEnsemble
-----------------------------------------------------------------------------
(* The forms of a step.                                                      *)

\* A datagram less, or a bid more.
Extrait(t, s) == t = s \/ \E k \in 1..Len(s) : (Desordre \/ k = 1) /\ t = RemoveAt(s, k)
Mise(t, s) ==
    t = s \/ \E m \in Messages : m.code = 9 /\ Connu(m.numv) /\ t = Append(s, m)

LEMMA ExtraitReduit ==
  ASSUME NEW s \in Seq(Messages), NEW t, Extrait(t, s), NEW C
  PROVE  Reduit(t, s, C)
BY RetraitReduit, ReduitSoi DEF Extrait

LEMMA ExtraitVient ==
  ASSUME NEW s \in Seq(Messages), NEW t, Extrait(t, s)
  PROVE  \A j \in 1..Len(t) : \E i \in 1..Len(s) : t[j] = s[i]
<1>1. CASE t = s
  BY <1>1
<1>2. ASSUME NEW k \in 1..Len(s), t = RemoveAt(s, k)
      PROVE  \A j \in 1..Len(t) : \E i \in 1..Len(s) : t[j] = s[i]
  <2>1. /\ Len(s) \in Nat /\ Len(t) = Len(s) - 1
        /\ \A j \in 1..(Len(s) - 1) : t[j] = IF j < k THEN s[j] ELSE s[j + 1]
    BY <1>2, RetraitExact, LenProperties
  <2>. QED BY <2>1
<1>. QED BY <1>1, <1>2 DEF Extrait

LEMMA MiseReduit ==
  ASSUME NEW s \in Seq(Messages), NEW t, Mise(t, s), NEW C, 9 \notin C
  PROVE  Reduit(t, s, C)
<1>1. \A m \in Messages : m.code = 9 => Reduit(Append(s, m), s, C)
  BY AjoutReduit
<1>. QED BY <1>1, ReduitSoi DEF Mise

LEMMA MiseVient ==
  ASSUME NEW s \in Seq(Messages), NEW t, Mise(t, s)
  PROVE  \A j \in 1..Len(t) :
            (t[j].code = 9 /\ Connu(t[j].numv)) \/ \E i \in 1..Len(s) : i = j /\ t[j] = s[i]
<1>1. CASE t = s
  BY <1>1
<1>2. ASSUME NEW m \in Messages, t = Append(s, m), m.code = 9, Connu(m.numv)
      PROVE  \A j \in 1..Len(t) :
                (t[j].code = 9 /\ Connu(t[j].numv)) \/ \E i \in 1..Len(s) : i = j /\ t[j] = s[i]
  <2>1. \A j \in 1..Len(t) : t[j] = m \/ \E i \in 1..Len(s) : i = j /\ t[j] = s[i]
    BY <1>2, AjoutReduit
  <2>. QED BY <1>2, <2>1
<1>. QED BY <1>1, <1>2 DEF Mise

\* What is read, or lost, is taken from one channel to a.
LEMMA LuExtrait ==
  ASSUME Coherence, NEW a \in Pairs, NEW d \in Lisibles(a)
  PROVE  /\ \A q, r \in Pairs : Extrait(Lu(a, d)[<<q, r>>], net[<<q, r>>])
         /\ \A q, r \in Pairs : r # a => Lu(a, d)[<<q, r>>] = net[<<q, r>>]
<1>1. /\ d.src \in Pairs /\ d.k \in 1..Len(net[<<d.src, a>>])
      /\ Lu(a, d)[<<d.src, a>>] = RemoveAt(net[<<d.src, a>>], d.k)
      /\ (~Desordre => d.k = 1)
  BY ReseauLu
<1>2. \A q, r \in Pairs : q # d.src \/ r # a => Lu(a, d)[<<q, r>>] = net[<<q, r>>]
  BY ReseauLu
<1>3. ASSUME NEW q \in Pairs, NEW r \in Pairs
      PROVE  Extrait(Lu(a, d)[<<q, r>>], net[<<q, r>>])
  <2>1. CASE q = d.src /\ r = a
    BY <1>1, <2>1 DEF Extrait
  <2>2. CASE q # d.src \/ r # a
    BY <1>2, <2>2 DEF Extrait
  <2>. QED BY <2>1, <2>2
<1>. QED BY <1>2, <1>3

\* A step that changes no sale and no list, starts no round and ends none.
Calme(a) ==
    /\ UNCHANGED <<ventes, liste, frames, suite, annonces>>
    /\ EnRonde(a)' => UNCHANGED copie
    /\ a \in Vivants' => (EnRonde(a)' <=> EnRonde(a))
    /\ HorsConsensus(a)' => HorsConsensus(a)
    /\ pc'[a] = "parti" => pc[a] = "parti"
    /\ \A q \in Pairs : q # a =>
        Extrait(net'[<<q, a>>], net[<<q, a>>]) /\ Mise(net'[<<a, q>>], net[<<a, q>>])

LEMMA CalmeDe ==
  ASSUME Coherence, NEW a \in Pairs, NEW e, pc' = [pc EXCEPT ![a] = e],
         e = "parti" => pc[a] = "parti",
         \/ e \in Sorties
         \/ pc[a] \in {"boucle", "lu", "ecrit"} /\ e \in {"boucle", "lu", "ecrit"}
         \/ pc[a] \in {"attente", "relance"} /\ e \in {"attente", "relance"},
         UNCHANGED <<ventes, liste, frames, suite, annonces>>,
         e \in {"attente", "relance"} => UNCHANGED copie,
         \/ net' = net \/ Lu1(a)
         \/ \E m \in Messages : m.code = 9 /\ Connu(m.numv) /\ net' = Diffuse(a, m)
  PROVE  Calme(a)
<1>1. pc'[a] = e
  BY DEF Coherence, Types
<1>2. /\ a \in Vivants' => (EnRonde(a)' <=> EnRonde(a))
      /\ HorsConsensus(a)' => HorsConsensus(a)
      /\ EnRonde(a)' => UNCHANGED copie
      /\ pc'[a] = "parti" => pc[a] = "parti"
  BY <1>1 DEF Vivants, EnRonde, HorsConsensus, Sorties
<1>3. ASSUME NEW q \in Pairs, q # a
      PROVE  Extrait(net'[<<q, a>>], net[<<q, a>>]) /\ Mise(net'[<<a, q>>], net[<<a, q>>])
  <2>1. CASE net' = net
    BY <2>1 DEF Extrait, Mise
  <2>2. CASE Lu1(a)
    <3>. PICK d \in Lisibles(a) : net' = Lu(a, d)
      BY <2>2 DEF Lu1
    <3>1. Extrait(Lu(a, d)[<<q, a>>], net[<<q, a>>]) /\ Lu(a, d)[<<a, q>>] = net[<<a, q>>]
      BY <1>3, LuExtrait
    <3>. QED BY <3>1 DEF Mise
  <2>3. ASSUME NEW m \in Messages, m.code = 9, Connu(m.numv), net' = Diffuse(a, m)
        PROVE  Extrait(net'[<<q, a>>], net[<<q, a>>]) /\ Mise(net'[<<a, q>>], net[<<a, q>>])
    <3>1. \A u, r \in Pairs : Diffuse(a, m)[<<u, r>>] =
            IF u = a /\ r # a /\ r \in Vivants THEN Append(net[<<u, r>>], m) ELSE net[<<u, r>>]
      BY DEF Diffuse, Envoye
    <3>2. /\ Diffuse(a, m)[<<q, a>>] = net[<<q, a>>]
          /\ \/ Diffuse(a, m)[<<a, q>>] = net[<<a, q>>]
             \/ Diffuse(a, m)[<<a, q>>] = Append(net[<<a, q>>], m)
      BY <1>3, <3>1
    <3>. QED BY <2>3, <3>2 DEF Extrait, Mise
  <2>. QED BY <2>1, <2>2, <2>3
<1>. QED BY <1>2, <1>3 DEF Calme
\* The other forms: a sale starts, or is heard of; a question is read; a round
\* starts.
Debut(a) == \E prix \in Bases : peer_list_find(liste[a], a) /\ sale_start(a, prix)
Reception(a) == \E d \in Lisibles(a) : handle_sale_init(a, d)
Ouverture(a) == \E d \in Lisibles(a) : ventes[a] = <<>> /\ handle_bid(a, d)
Question(a, d) ==
    \/ find_sale(d.m.numv, ventes[a]) # 0 /\ handle_new_bid(a, d)
    \/ handle_closure(a, d) \/ handle_peer_departure(a, d)
Mise10(a) ==
    LET i == find_sale(copie[a].numv, ventes[a]) IN
    /\ copie[a] # Aucune /\ i # 0 /\ ventes[a][i].sup = a
    /\ copie[a].prix > ventes[a][i].prix
    /\ copie' = [copie EXCEPT ![a].code = 10] /\ UNCHANGED annonces
    /\ consensus(a, copie'[a], [but |-> "enchere", rang |-> i])
Fin12(a) ==
    LET i == ACloturer(a) IN
    /\ i # 0 /\ UNCHANGED copie
    /\ annonces' = annonces \cup
            {[auteur |-> a, numv |-> ventes[a][i].numv, gagnant |-> Cloture(a, i).id]}
    /\ consensus(a, Cloture(a, i), [but |-> "cloture", rang |-> i])
Depart13(a) ==
    /\ UNCHANGED <<copie, annonces>>
    /\ consensus(a, Depart(a), [but |-> "depart", rang |-> 0])
Appel(a) ==
    /\ HorsConsensus(a) /\ UNCHANGED <<ventes, liste>>
    /\ Mise10(a) \/ Fin12(a) \/ Depart13(a)

LEMMA FormeCommande ==
  ASSUME Coherence, Numerotation, NEW a \in Pairs, Commande(a)
  PROVE  Calme(a) \/ Debut(a) \/ Appel(a)
<1>1. pc[a] = "boucle"
  BY DEF Commande, sale_start, encherir, quitter_enchere, Tape
<1>2. ASSUME NEW prix \in Bases, sale_start(a, prix) PROVE Calme(a) \/ Debut(a)
  <2>1. CASE ~peer_list_find(liste[a], a)
    <3>1. pc' = [pc EXCEPT ![a] = "plante"]
          /\ UNCHANGED <<ventes, liste, frames, suite, annonces, copie, net>>
      BY <1>2, <2>1 DEF sale_start
    <3>. QED BY <3>1, CalmeDe DEF Sorties
  <2>. QED BY <1>2, <2>1 DEF Debut
<1>3. ASSUME NEW numv \in Numeros, NEW prix \in Prix, encherir(a, numv, prix) PROVE Calme(a)
  <2>. DEFINE m == [code |-> 9, id |-> a, numv |-> numv, prix |-> prix]
              i == find_sale(numv, ventes[a])
  <2>1. m \in Messages /\ m.code = 9 /\ m.numv = numv
    BY DEF Messages, Corps
  <2>2. i # 0 /\ net' = Diffuse(a, m) /\ UNCHANGED <<ventes, liste, frames, suite, annonces, copie>>
        /\ pc' = [pc EXCEPT ![a] = Apres(vente[a], "lu")]
    BY <1>3 DEF encherir, boucle
  <2>3. i \in 1..Len(ventes[a]) /\ ventes[a][i].numv = numv
    BY <2>2, Inchangees, RangTrouve, Trouvee
  <2>4. Connu(numv)
    BY <2>3 DEF Numerotation
  <2>. HIDE DEF m, i
  <2>. QED BY <1>1, <2>1, <2>2, <2>4, CalmeDe DEF Apres
<1>4. ASSUME quitter_enchere(a) PROVE Appel(a)
  BY <1>1, <1>4 DEF quitter_enchere, Appel, Depart13, HorsConsensus
<1>. QED BY <1>2, <1>3, <1>4 DEF Commande

LEMMA FormeLecture ==
  ASSUME Coherence, NEW a \in Pairs, Lecture(a)
  PROVE  Calme(a) \/ Reception(a) \/ Ouverture(a) \/ \E d \in Lisibles(a) : Question(a, d)
<1>. PICK d \in Lisibles(a) :
        \/ handle_sale_init(a, d) \/ handle_bid(a, d) \/ handle_new_bid(a, d)
        \/ handle_closure(a, d) \/ handle_peer_departure(a, d)
        \/ handle_disparition(a, d) \/ OublieAck(a, d)
  BY DEF Lecture
<1>1. CASE handle_bid(a, d) /\ ventes[a] # <<>>
  <2>1. PICK v : pc' = [pc EXCEPT ![a] = Apres(v, "ecrit")]
    BY <1>1 DEF handle_bid, Lit
  <2>2. pc[a] \in {"boucle", "lu"} /\ UNCHANGED <<ventes, liste, frames, suite, annonces>> /\ Lu1(a)
    BY <1>1 DEF handle_bid, Lit, PeutLire, histoire, Lu1
  <2>. QED BY <2>1, <2>2, CalmeDe DEF Apres
<1>2. CASE OublieAck(a, d)
  <2>1. PICK v : pc' = [pc EXCEPT ![a] = Apres(v, "ecrit")]
    BY <1>2 DEF OublieAck, Lit
  <2>2. pc[a] \in {"boucle", "lu"} /\ UNCHANGED <<ventes, liste, frames, suite, annonces>> /\ Lu1(a)
    BY <1>2 DEF OublieAck, Lit, PeutLire, histoire, boucle, Lu1
  <2>. QED BY <2>1, <2>2, CalmeDe DEF Apres
<1>3. CASE handle_new_bid(a, d) /\ find_sale(d.m.numv, ventes[a]) = 0
  <2>1. PICK v : pc' = [pc EXCEPT ![a] = Apres(v, "ecrit")]
    BY <1>3 DEF handle_new_bid, Lit
  <2>2. pc[a] \in {"boucle", "lu"} /\ UNCHANGED <<ventes, liste, frames, suite, annonces>> /\ Lu1(a)
    BY <1>3 DEF handle_new_bid, Lit, PeutLire, histoire, Lu1
  <2>. QED BY <2>1, <2>2, CalmeDe DEF Apres
<1>4. CASE handle_disparition(a, d)
  BY <1>4, handle_disparitionJamais
<1>. QED BY <1>1, <1>2, <1>3, <1>4 DEF Reception, Ouverture, Question

LEMMA FormeEcriture ==
  ASSUME Coherence, NEW a \in Pairs, Ecriture(a)
  PROVE  Calme(a) \/ Appel(a)
<1>1. pc[a] \in {"boucle", "lu", "ecrit"} /\ Moi(a) = a
  BY Inchangees DEF Ecriture, alerte_fin_enchere, finalisation_enchere, verifier_enchere, RienAFaire,
     PeutEcrire
<1>2. ASSUME alerte_fin_enchere(a) \/ RienAFaire(a) PROVE Calme(a)
  <2>1. pc' = [pc EXCEPT ![a] = "boucle"]
        /\ UNCHANGED <<ventes, liste, frames, suite, annonces, copie, net>>
    BY <1>2 DEF alerte_fin_enchere, RienAFaire, boucle, histoire
  <2>. QED BY <1>1, <2>1, CalmeDe
<1>3. ASSUME finalisation_enchere(a) PROVE Calme(a) \/ Appel(a)
  <2>1. CASE ACloturer(a) = 0
    <3>1. pc' = [pc EXCEPT ![a] = "boucle"]
          /\ UNCHANGED <<ventes, liste, frames, suite, annonces, copie, net>>
      BY <1>3, <2>1 DEF finalisation_enchere
    <3>. QED BY <1>1, <3>1, CalmeDe
  <2>2. CASE ACloturer(a) # 0
    BY <1>1, <1>3, <2>2 DEF finalisation_enchere, Appel, Fin12, HorsConsensus
  <2>. QED BY <2>1, <2>2
<1>4. ASSUME verifier_enchere(a) PROVE Calme(a) \/ Appel(a)
  <2>1. ASSUME NEW e \in {"sorti", "boucle"}, pc' = [pc EXCEPT ![a] = e],
               UNCHANGED <<copie, frames, suite, net>>
        PROVE  Calme(a)
    <3>1. UNCHANGED <<ventes, liste, annonces>>
      BY <1>4 DEF verifier_enchere, histoire
    <3>. QED BY <1>1, <2>1, <3>1, CalmeDe DEF Sorties
  <2>2. copie[a] # Aucune => copie[a] \in Corps
    BY DEF Coherence, Types
  <2>3. CASE \/ pc' = [pc EXCEPT ![a] = "sorti"] /\ UNCHANGED <<copie, frames, suite, net>>
             \/ pc' = [pc EXCEPT ![a] = "boucle"] /\ UNCHANGED <<copie, frames, suite, net>>
    BY <2>1, <2>3
  <2>. QED BY <1>1, <1>4, <2>2, <2>3 DEF verifier_enchere, Appel, Mise10, Acceptee, HorsConsensus, histoire
<1>. QED BY <1>2, <1>3, <1>4 DEF Ecriture

LEMMA FormeAttente ==
  ASSUME Coherence, NEW a \in Pairs, Attente(a)
  PROVE  Calme(a) \/ \E d \in Lisibles(a) : RecoitAck(a, d)
<1>1. pc[a] = "attente"
  BY DEF Attente, RecoitAck, RefuseEnchere, RecoitAutre, Expire, Attend
<1>2. pc = [pc EXCEPT ![a] = "attente"]
  BY <1>1 DEF Coherence, Types
<1>3. ASSUME NEW d \in Lisibles(a), RefuseEnchere(a, d) \/ RecoitAutre(a, d)
      PROVE  Calme(a)
  <2>1. \E e \in {"attente", "relance", "plante"} : pc' = [pc EXCEPT ![a] = e]
    BY <1>2, <1>3 DEF RefuseEnchere, RecoitAutre, EntreSectionG
  <2>2. Lu1(a) /\ UNCHANGED <<ventes, liste, frames, suite, annonces, copie>>
    BY <1>3 DEF RefuseEnchere, RecoitAutre, Lu1, boucle, histoire
  <2>. QED BY <1>1, <2>1, <2>2, CalmeDe DEF Sorties
<1>4. ASSUME Expire(a) PROVE Calme(a)
  <2>1. \E e \in {"attente", "relance", "plante"} : pc' = [pc EXCEPT ![a] = e]
    BY <1>4 DEF Expire, EntreSectionG
  <2>2. UNCHANGED <<ventes, liste, frames, suite, annonces, copie, net>>
    BY <1>4 DEF Expire, boucle, histoire
  <2>. QED BY <1>1, <2>1, <2>2, CalmeDe DEF Sorties
<1>. QED BY <1>3, <1>4 DEF Attente

\* Whatever a does as long as it gives nobody up has one of the forms.
LEMMA Formes ==
  ASSUME Coherence, Numerotation, NEW a \in Pairs, Etape(a), perdus' = {}
  PROVE  \/ Calme(a) \/ Debut(a) \/ Reception(a) \/ Ouverture(a)
         \/ \E d \in Lisibles(a) : Question(a, d)
         \/ Appel(a) \/ (\E d \in Lisibles(a) : RecoitAck(a, d)) \/ Termine(a)
<1>1. ASSUME Temps(a) PROVE Calme(a)
  <2>1. /\ pc[a] = "boucle" /\ UNCHANGED <<pc, ventes, copie, liste, frames, suite, net, annonces>>
    BY <1>1 DEF Temps, histoire
  <2>2. pc' = [pc EXCEPT ![a] = "boucle"]
    BY <2>1 DEF Coherence, Types
  <2>. QED BY <2>1, <2>2, CalmeDe
<1>2. ASSUME Relance(a) PROVE Calme(a)
  <2>1. RelanceRepondue(a)
    BY <1>2, disparitionPerd DEF Relance
  <2>2. pc' = [pc EXCEPT ![a] = "plante"]
        /\ UNCHANGED <<ventes, copie, liste, frames, suite, net, annonces>>
    BY <2>1 DEF RelanceRepondue, boucle, histoire
  <2>. QED BY <2>2, CalmeDe DEF Sorties
<1>3. ASSUME Panne(a) PROVE Calme(a)
  <2>1. pc' = [pc EXCEPT ![a] = "plante"]
        /\ UNCHANGED <<ventes, copie, liste, frames, suite, net, annonces>>
    BY <1>3 DEF Panne, boucle
  <2>. QED BY <2>1, CalmeDe DEF Sorties
<1>4. ASSUME NEW d \in Lisibles(a), Perte(a, d) PROVE Calme(a)
  <2>1. Lu1(a) /\ UNCHANGED <<pc, ventes, copie, liste, frames, suite, annonces>>
    BY <1>4 DEF Perte, Lu1, boucle
  <2>2. pc' = [pc EXCEPT ![a] = pc[a]]
        /\ pc[a] \in {"boucle", "lu", "ecrit", "attente", "relance"} \cup Sorties
    BY <2>1 DEF Coherence, Types
  <2>. QED BY <2>1, <2>2, CalmeDe
<1>. QED BY <1>1, <1>2, <1>3, <1>4, FormeCommande, FormeLecture, FormeEcriture, FormeAttente
     DEF Etape
\* What is known of the round that starts.
AppelDe(a, m, s) ==
    /\ HorsConsensus(a) /\ UNCHANGED <<ventes, liste>> /\ consensus(a, m, s)
    /\ m.code \in Demandes /\ (s.but = "depart" <=> m.code = 13)
    /\ s.but = "enchere" =>
        /\ m = copie'[a] /\ m.code = 10 /\ m \in Corps /\ UNCHANGED annonces
        /\ ventes[a][s.rang].sup = a /\ ventes[a][s.rang].prix < m.prix
    /\ s.but = "cloture" =>
        /\ m.code = 12 /\ UNCHANGED copie /\ ventes[a][s.rang].active
        /\ annonces' = annonces \cup
            {[auteur |-> a, numv |-> ventes[a][s.rang].numv, gagnant |-> Cloture(a, s.rang).id]}
    /\ s.but = "depart" => UNCHANGED <<copie, annonces>>
    /\ s.but # "depart" => s.rang \in 1..Len(ventes[a]) /\ ventes[a][s.rang].numv = m.numv

LEMMA AppelDonnees ==
  ASSUME Coherence, NEW a \in Pairs, Appel(a)
  PROVE  \E m \in Messages, s \in [but : {"enchere", "cloture", "depart"}, rang : Nat] :
            AppelDe(a, m, s)
<1>. DEFINE l == ventes[a]
<1>1. HorsConsensus(a) /\ UNCHANGED <<ventes, liste>> /\ l \in Seq(Fiches) /\ Len(l) \in Nat
  BY Inchangees, LenProperties DEF Appel
<1>2. ASSUME Mise10(a)
      PROVE  \E m \in Messages, s \in [but : {"enchere", "cloture", "depart"}, rang : Nat] :
                AppelDe(a, m, s)
  <2>. DEFINE c == copie[a]
              i == find_sale(c.numv, l)
              b == [c EXCEPT !.code = 10]
              s == [but |-> "enchere", rang |-> i]
  <2>1. /\ c # Aucune /\ i # 0 /\ l[i].sup = a /\ c.prix > l[i].prix
        /\ copie' = [copie EXCEPT ![a].code = 10] /\ UNCHANGED annonces
        /\ consensus(a, copie'[a], s)
    BY <1>2 DEF Mise10
  <2>2. c \in Corps
    BY <2>1 DEF Coherence, Types
  <2>3. copie'[a] = b
    BY <2>1 DEF Coherence, Types
  <2>4. i \in 1..Len(l) /\ l[i] \in Fiches /\ l[i].numv = c.numv
    BY <1>1, <2>1, RangTrouve, Trouvee
  <2>5. b \in Corps /\ b.code = 10 /\ b.numv = c.numv /\ b.prix = c.prix
    BY <2>2 DEF Corps
  <2>6. l[i].prix < c.prix
    BY <2>1, <2>2, <2>4, PrixAssumption DEF Fiches, Corps
  <2>7. b \in Messages
    BY <2>5 DEF Messages
  <2>. HIDE DEF b, i, c
  <2>8. s \in [but : {"enchere", "cloture", "depart"}, rang : Nat] /\ s.but = "enchere" /\ s.rang = i
    BY <1>1, <2>4
  <2>9. b.code \in Demandes /\ b.code # 13
    BY <2>5 DEF Demandes
  <2>. HIDE DEF s
  <2>10. AppelDe(a, b, s)
    BY <1>1, <2>1, <2>3, <2>4, <2>5, <2>6, <2>8, <2>9 DEF AppelDe
  <2>. QED BY <2>7, <2>8, <2>10
<1>3. ASSUME Fin12(a)
      PROVE  \E m \in Messages, s \in [but : {"enchere", "cloture", "depart"}, rang : Nat] :
                AppelDe(a, m, s)
  <2>. DEFINE i == ACloturer(a)
              m == Cloture(a, i)
              s == [but |-> "cloture", rang |-> i]
  <2>1. /\ i # 0 /\ UNCHANGED copie /\ consensus(a, m, s)
        /\ annonces' = annonces \cup {[auteur |-> a, numv |-> l[i].numv, gagnant |-> m.id]}
    BY <1>3 DEF Fin12
  <2>2. i \in 1..Len(l) /\ l[i] \in Fiches
    BY <1>1, <2>1, RangTrouve, RangActive DEF ACloturer
  <2>3. l[i].active
    <3>. DEFINE S == {j \in DOMAIN l : l[j].active}
    <3>1. CASE i = PremiereActive(l)
      <4>1. DOMAIN l = 1..Len(l) /\ S \subseteq Nat
        BY <1>1, LenProperties
      <4>2. S # {} /\ PremiereActive(l) = Premier(S)
        BY <2>1, <3>1 DEF PremiereActive, PremierRang, Premier
      <4>3. Premier(S) \in S
        BY <4>1, <4>2, Minimum, Zenon
      <4>. QED BY <3>1, <4>2, <4>3
    <3>. QED BY <3>1 DEF ACloturer
  <2>4. m \in Messages /\ m.code = 12 /\ m.numv = l[i].numv
    BY <2>2 DEF Cloture, Messages, Fiches
  <2>5. m = Cloture(a, i)
    OBVIOUS
  <2>. HIDE DEF i, m
  <2>6. s \in [but : {"enchere", "cloture", "depart"}, rang : Nat] /\ s.but = "cloture" /\ s.rang = i
    BY <1>1, <2>2
  <2>7. m.code \in Demandes /\ m.code # 13
    BY <2>4 DEF Demandes
  <2>. HIDE DEF s
  <2>8. AppelDe(a, m, s)
    BY <1>1, <2>1, <2>2, <2>3, <2>4, <2>5, <2>6, <2>7 DEF AppelDe
  <2>. QED BY <2>4, <2>6, <2>8
<1>4. ASSUME Depart13(a)
      PROVE  \E m \in Messages, s \in [but : {"enchere", "cloture", "depart"}, rang : Nat] :
                AppelDe(a, m, s)
  <2>. DEFINE m == Depart(a)
              s == [but |-> "depart", rang |-> 0]
  <2>1. m \in Messages /\ m.code = 13
    BY DEF Depart, Messages
  <2>2. s \in [but : {"enchere", "cloture", "depart"}, rang : Nat] /\ s.but = "depart"
    OBVIOUS
  <2>3. UNCHANGED <<copie, annonces>> /\ consensus(a, m, s) /\ m.code \in Demandes
    BY <1>4, <2>1 DEF Depart13, Demandes
  <2>. HIDE DEF m, s
  <2>4. AppelDe(a, m, s)
    BY <1>1, <2>1, <2>2, <2>3 DEF AppelDe
  <2>. QED BY <2>1, <2>2, <2>4
<1>. QED BY <1>2, <1>3, <1>4 DEF Appel

\* A question that is read comes from a round; it is answered or not.
LEMMA QuestionLue ==
  ASSUME Coherence, NEW a \in Pairs, NEW d \in Lisibles(a), Question(a, d)
  PROVE  /\ HorsConsensus(a) /\ HorsConsensus(a)' /\ d.m.code \in Demandes
         /\ UNCHANGED <<frames, suite, copie, annonces>>
         /\ \/ net' = Lu(a, d) /\ UNCHANGED liste
            \/ /\ net' = LuEtAccuse(a, d)
               /\ \/ d.m.code # 13 /\ UNCHANGED liste
                  \/ d.m.code = 13 /\ liste' = [liste EXCEPT ![a] = peer_list_remove(@, d.m.id)]
<1>1. HorsConsensus(a) /\ HorsConsensus(a)'
  <2>1. pc[a] \in {"boucle", "lu"} /\ \E v : pc' = [pc EXCEPT ![a] = Apres(v, "ecrit")]
    BY DEF Question, handle_new_bid, handle_closure, handle_peer_departure, Lit, PeutLire
  <2>2. pc'[a] \in {"boucle", "ecrit"}
    BY <2>1 DEF Coherence, Types, Apres
  <2>. QED BY <2>1, <2>2 DEF HorsConsensus
<1>2. UNCHANGED <<frames, suite, copie, annonces>>
  BY DEF Question, handle_new_bid, handle_closure, handle_peer_departure, histoire
<1>3. CASE handle_new_bid(a, d) \/ handle_closure(a, d)
  <2>1. d.m.code \in {10, 12} /\ UNCHANGED liste /\ (net' = Lu(a, d) \/ net' = LuEtAccuse(a, d))
    BY <1>3 DEF handle_new_bid, handle_closure
  <2>. QED BY <1>1, <1>2, <2>1 DEF Demandes
<1>4. CASE handle_peer_departure(a, d)
  <2>1. /\ d.m.code = 13 /\ liste' = [liste EXCEPT ![a] = peer_list_remove(@, d.m.id)]
        /\ net' = IF peer_list_find(liste[a], d.m.id) /\ liste'[a].slots[1] # d.m.id
                  THEN LuEtAccuse(a, d) ELSE Lu(a, d)
    BY <1>4 DEF handle_peer_departure
  <2>2. CASE ~peer_list_find(liste[a], d.m.id)
    <3>1. liste' = liste
      BY <2>1, <2>2, Inchangees DEF peer_list_remove
    <3>. QED BY <1>1, <1>2, <2>1, <2>2, <3>1 DEF Demandes
  <2>3. CASE peer_list_find(liste[a], d.m.id)
    <3>1. d.m.id = d.src /\ d.src # a
      BY <2>1, ReseauLu DEF DeLuiMeme
    <3>2. liste'[a].slots[1] = a
      <4>1. /\ liste[a] \in [slots : Seq(Pairs), count : Nat]
            /\ liste[a].count <= Len(liste[a].slots) /\ liste[a].slots # <<>>
            /\ liste[a].slots[1] = a
        BY DEF Coherence, Types, PairSur, EnTete, Moi
      <4>2. liste'[a] = peer_list_remove(liste[a], d.m.id)
        BY <2>1 DEF Coherence, Types
      <4>3. d.m.id \in Pairs /\ liste[a].slots[1] # d.m.id
        BY <3>1, <4>1, ReseauLu
      <4>. QED BY <4>1, <4>2, <4>3, DepartDeListe
    <3>. QED BY <1>1, <1>2, <2>1, <2>3, <3>1, <3>2 DEF Demandes
  <2>. QED BY <2>2, <2>3
<1>. QED BY <1>3, <1>4 DEF Question
\* The number of a sale that starts is the next one of its supervisor.
LEMMA DebutMessage ==
  ASSUME Coherence, NEW a \in Pairs, NEW prix \in Bases, sale_start(a, prix)
  PROVE  LET n == <<a, Cardinality(Ventes(a)) + 1>>
             m == [code |-> 8, id |-> a, numv |-> n, prix |-> prix]
         IN  n \in Numeros /\ m \in Messages /\ Cardinality(Ventes(a)) \in Nat
<1>. DEFINE c == Cardinality(Ventes(a))
            n == <<a, c + 1>>
<1>1. IsFiniteSet(Ventes(a))
  <2>1. ventes[a] \in Seq(Fiches)
    BY Inchangees
  <2>2. DOMAIN ventes[a] = 1..Len(ventes[a]) /\ Len(ventes[a]) \in Nat
    BY <2>1, LenProperties
  <2>3. IsFiniteSet(1..Len(ventes[a]))
    BY <2>2, IntervalleFini
  <2>. QED BY <2>2, <2>3, FS_Subset DEF Ventes
<1>2. c \in Nat
  BY <1>1, FS_CardinalityType
<1>3. a \in Superviseurs /\ c < MaxVentes /\ MaxVentes \in Nat
  BY BornesAssumption DEF sale_start
<1>. HIDE DEF c
<1>4. n \in Numeros
  BY <1>2, <1>3 DEF Numeros
<1>. QED BY <1>2, <1>4 DEF Messages, Corps, c

\* The rounds of a step that reads without answering.
LEMMA RondesLu ==
  ASSUME Coherence, Rondes, NEW a \in Pairs, Seul(a), NEW d \in Lisibles(a), net' = Lu(a, d),
         UNCHANGED <<frames, suite, liste>>, HorsConsensus(a), HorsConsensus(a)'
  PROVE  Rondes'
<1>1. ~EnRonde(a) /\ ~EnRonde(a)' /\ pc'[a] # "parti"
  BY DEF HorsConsensus, EnRonde
<1>2. /\ \A q, r \in Pairs : Reduit(Lu(a, d)[<<q, r>>], net[<<q, r>>], Demandes)
      /\ \A q, r \in Pairs : Reduit(Lu(a, d)[<<q, r>>], net[<<q, r>>], Accuse)
  BY LuReduit
<1>3. \A q \in Pairs : q # a =>
            /\ Reduit(net'[<<q, a>>], net[<<q, a>>], Demandes)
            /\ Reduit(net'[<<q, a>>], net[<<q, a>>], Accuse)
            /\ Reduit(net'[<<a, q>>], net[<<a, q>>], Demandes)
            /\ Reduit(net'[<<a, q>>], net[<<a, q>>], Accuse)
  BY <1>2
<1>. QED BY <1>1, <1>3, RondesSansReponse

\* The bookkeeping of the rounds, whatever a does.
LEMMA RondesEtape ==
  ASSUME Coherence, Coherence', Rondes, Numerotation, NEW a \in Pairs, Etape(a), perdus' = {}
  PROVE  Rondes'
<1>0. Seul(a) /\ \A q, r \in Pairs : net[<<q, r>>] \in Seq(Messages)
  BY SeulToujours DEF Coherence, ReseauSur
<1>c. 9 \notin Demandes /\ 9 \notin Accuse /\ 8 \notin Demandes /\ 8 \notin Accuse
  BY DEF Demandes, Accuse
<1>1. CASE Calme(a)
  <2>1. \A q \in Pairs : q # a =>
            /\ Reduit(net'[<<q, a>>], net[<<q, a>>], Demandes)
            /\ Reduit(net'[<<q, a>>], net[<<q, a>>], Accuse)
            /\ Reduit(net'[<<a, q>>], net[<<a, q>>], Demandes)
            /\ Reduit(net'[<<a, q>>], net[<<a, q>>], Accuse)
    <3>. SUFFICES ASSUME NEW q \in Pairs, q # a
         PROVE  /\ Reduit(net'[<<q, a>>], net[<<q, a>>], Demandes)
                /\ Reduit(net'[<<q, a>>], net[<<q, a>>], Accuse)
                /\ Reduit(net'[<<a, q>>], net[<<a, q>>], Demandes)
                /\ Reduit(net'[<<a, q>>], net[<<a, q>>], Accuse)
      OBVIOUS
    <3>1. Extrait(net'[<<q, a>>], net[<<q, a>>]) /\ Mise(net'[<<a, q>>], net[<<a, q>>])
      BY <1>1 DEF Calme
    <3>2. net[<<q, a>>] \in Seq(Messages) /\ net[<<a, q>>] \in Seq(Messages)
      BY <1>0
    <3>. QED BY <1>c, <3>1, <3>2, ExtraitReduit, MiseReduit
  <2>. QED BY <1>0, <1>1, <2>1, RondesSansReponse DEF Calme
<1>2. CASE Debut(a)
  <2>1. PICK prix \in Bases : peer_list_find(liste[a], a) /\ sale_start(a, prix)
    BY <1>2 DEF Debut
  <2>. DEFINE m == [code |-> 8, id |-> a, numv |-> <<a, Cardinality(Ventes(a)) + 1>>, prix |-> prix]
  <2>2. /\ net' = Diffuse(a, m) /\ pc[a] = "boucle" /\ pc' = [pc EXCEPT ![a] = "lu"]
        /\ UNCHANGED <<frames, suite, liste>>
    BY <2>1 DEF sale_start, Tape
  <2>3. m.code = 8
    OBVIOUS
  <2>. HIDE DEF m
  <2>4. ASSUME NEW C, 8 \notin C, NEW q \in Pairs, NEW r \in Pairs
        PROVE  Reduit(net'[<<q, r>>], net[<<q, r>>], C)
    <3>1. m \in Messages
      BY <2>1, DebutMessage DEF m
    <3>2. \A u, v \in Pairs : Reduit(Diffuse(a, m)[<<u, v>>], net[<<u, v>>], C)
      BY <2>3, <2>4, <3>1, DiffuseReduit
    <3>. QED BY <2>2, <3>2
  <2>5. pc'[a] = "lu"
    BY <2>2 DEF Coherence, Types
  <2>6. ~EnRonde(a) /\ ~EnRonde(a)' /\ HorsConsensus(a)
    BY <2>2, <2>5 DEF EnRonde, HorsConsensus
  <2>. QED BY <1>0, <1>c, <2>2, <2>4, <2>5, <2>6, RondesSansReponse
<1>3. CASE Reception(a) \/ Ouverture(a)
  <2>1. PICK d \in Lisibles(a) : handle_sale_init(a, d) \/ handle_bid(a, d)
    BY <1>3 DEF Reception, Ouverture
  <2>2. /\ net' = Lu(a, d) /\ UNCHANGED <<frames, suite, liste>>
        /\ pc[a] \in {"boucle", "lu"} /\ \E v : pc' = [pc EXCEPT ![a] = Apres(v, "ecrit")]
    BY <2>1 DEF handle_sale_init, handle_bid, Lit, PeutLire
  <2>3. pc'[a] \in {"boucle", "ecrit"}
    BY <2>2 DEF Coherence, Types, Apres
  <2>4. HorsConsensus(a) /\ HorsConsensus(a)'
    BY <2>2, <2>3 DEF HorsConsensus
  <2>. QED BY <1>0, <2>2, <2>4, RondesLu
<1>4. ASSUME NEW d \in Lisibles(a), Question(a, d) PROVE Rondes'
  <2>1. /\ HorsConsensus(a) /\ HorsConsensus(a)' /\ d.m.code \in Demandes
        /\ UNCHANGED <<frames, suite, copie, annonces>>
        /\ \/ net' = Lu(a, d) /\ UNCHANGED liste
           \/ /\ net' = LuEtAccuse(a, d)
              /\ \/ d.m.code # 13 /\ UNCHANGED liste
                 \/ d.m.code = 13 /\ liste' = [liste EXCEPT ![a] = peer_list_remove(@, d.m.id)]
    BY <1>4, QuestionLue
  <2>2. CASE net' = Lu(a, d) /\ UNCHANGED liste
    BY <1>0, <2>1, <2>2, RondesLu
  <2>3. CASE /\ net' = LuEtAccuse(a, d)
             /\ \/ d.m.code # 13 /\ UNCHANGED liste
                \/ d.m.code = 13 /\ liste' = [liste EXCEPT ![a] = peer_list_remove(@, d.m.id)]
    BY <1>0, <2>1, <2>3, RondesAccuse
  <2>. QED BY <2>1, <2>2, <2>3
<1>5. CASE Appel(a)
  <2>1. PICK m \in Messages, s \in [but : {"enchere", "cloture", "depart"}, rang : Nat] :
            AppelDe(a, m, s)
    BY <1>5, AppelDonnees
  <2>2. s.but = "cloture" =>
            \E x \in annonces' : x.auteur = a /\ x.numv = ventes[a][s.rang].numv
    <3>. SUFFICES ASSUME s.but = "cloture"
         PROVE \E x \in annonces' : x.auteur = a /\ x.numv = ventes[a][s.rang].numv
      OBVIOUS
    <3>. DEFINE x == [auteur |-> a, numv |-> ventes[a][s.rang].numv, gagnant |-> Cloture(a, s.rang).id]
    <3>1. x \in annonces'
      BY <2>1 DEF AppelDe
    <3>. QED BY <3>1
  <2>. QED BY <1>0, <2>1, <2>2, RondesAppel DEF AppelDe
<1>6. ASSUME NEW d \in Lisibles(a), RecoitAck(a, d) PROVE Rondes'
  BY <1>0, <1>6, RondesAck
<1>7. CASE Termine(a)
  BY <1>0, <1>7, RondesTermine
<1>. QED BY <1>1, <1>2, <1>3, <1>4, <1>5, <1>6, <1>7, Formes
-----------------------------------------------------------------------------
(* The numbers.                                                              *)

\* What a step of a takes from the network and adds to it.
Courrier(a, m) == \A q \in Pairs : q # a =>
    /\ Extrait(net'[<<q, a>>], net[<<q, a>>])
    /\ net'[<<a, q>>] = net[<<a, q>>] \/ net'[<<a, q>>] = Append(net[<<a, q>>], m)

LEMMA CourrierLu ==
  ASSUME Coherence, NEW a \in Pairs, NEW d \in Lisibles(a), net' = Lu(a, d), NEW m
  PROVE  Courrier(a, m)
<1>1. /\ \A q, r \in Pairs : Extrait(Lu(a, d)[<<q, r>>], net[<<q, r>>])
      /\ \A q, r \in Pairs : r # a => Lu(a, d)[<<q, r>>] = net[<<q, r>>]
  BY LuExtrait
<1>. QED BY <1>1 DEF Courrier

LEMMA CourrierAccuse ==
  ASSUME Coherence, NEW a \in Pairs, NEW d \in Lisibles(a), net' = LuEtAccuse(a, d)
  PROVE  Courrier(a, [code |-> 1])
<1>1. /\ \A q, r \in Pairs : Extrait(Lu(a, d)[<<q, r>>], net[<<q, r>>])
      /\ \A q, r \in Pairs : r # a => Lu(a, d)[<<q, r>>] = net[<<q, r>>]
  BY LuExtrait
<1>2. \A q, r \in Pairs : LuEtAccuse(a, d)[<<q, r>>] =
            IF q = a /\ r = d.src /\ r \in Vivants THEN Append(net[<<q, r>>], [code |-> 1])
            ELSE Lu(a, d)[<<q, r>>]
  BY ReseauAccuse
<1>3. ASSUME NEW q \in Pairs, q # a
      PROVE  /\ Extrait(net'[<<q, a>>], net[<<q, a>>])
             /\ \/ net'[<<a, q>>] = net[<<a, q>>]
                \/ net'[<<a, q>>] = Append(net[<<a, q>>], [code |-> 1])
  <2>1. LuEtAccuse(a, d)[<<q, a>>] = Lu(a, d)[<<q, a>>]
    BY <1>2, <1>3
  <2>2. \/ LuEtAccuse(a, d)[<<a, q>>] = Append(net[<<a, q>>], [code |-> 1])
        \/ LuEtAccuse(a, d)[<<a, q>>] = Lu(a, d)[<<a, q>>]
    BY <1>2
  <2>3. Extrait(Lu(a, d)[<<q, a>>], net[<<q, a>>]) /\ Lu(a, d)[<<a, q>>] = net[<<a, q>>]
    BY <1>1, <1>3
  <2>. QED BY <2>1, <2>2, <2>3
<1>. QED BY <1>3 DEF Courrier

LEMMA CourrierDiffuse ==
  ASSUME NEW a \in Pairs, NEW m, net' = net \/ net' = Diffuse(a, m)
  PROVE  Courrier(a, m)
<1>1. CASE net' = net
  BY <1>1 DEF Courrier, Extrait
<1>2. CASE net' = Diffuse(a, m)
  BY <1>2 DEF Courrier, Extrait, Diffuse, Envoye
<1>. QED BY <1>1, <1>2

\* The sales of a keep their numbers and their supervisors, in the same places.
Suite(a) ==
    /\ Len(ventes[a]) <= Len(ventes'[a])
    /\ \A i \in 1..Len(ventes[a]) :
        ventes'[a][i].numv = ventes[a][i].numv /\ ventes'[a][i].sup = ventes[a][i].sup
Ajoute(a, v) == ventes' = [ventes EXCEPT ![a] = Append(@, v)]
Change1(a, i, v) ==
    /\ i \in 1..Len(ventes[a]) /\ ventes' = [ventes EXCEPT ![a] = [@ EXCEPT ![i] = v]]
    /\ v = sale_close(ventes[a][i]) \/ \E m \in Corps : v = sale_update(ventes[a][i], m.prix, m.id)

LEMMA SuiteAjoute ==
  ASSUME Coherence, NEW a \in Pairs, NEW v \in Fiches, Ajoute(a, v)
  PROVE  /\ Suite(a) /\ Len(ventes'[a]) = Len(ventes[a]) + 1 /\ Len(ventes[a]) \in Nat
         /\ ventes'[a][Len(ventes[a]) + 1] = v
         /\ \A i \in 1..Len(ventes[a]) : ventes'[a][i] = ventes[a][i]
<1>1. ventes[a] \in Seq(Fiches) /\ ventes'[a] = Append(ventes[a], v)
  BY DEF Ajoute, Coherence, Types
<1>2. /\ Len(ventes[a]) \in Nat /\ Len(ventes'[a]) = Len(ventes[a]) + 1
      /\ \A i \in 1..Len(ventes[a]) : ventes'[a][i] = ventes[a][i]
      /\ ventes'[a][Len(ventes[a]) + 1] = v
  BY <1>1, AppendProperties, LenProperties
<1>. QED BY <1>2 DEF Suite

LEMMA SuiteChange ==
  ASSUME Coherence, NEW a \in Pairs, NEW i, NEW v, Change1(a, i, v)
  PROVE  /\ Suite(a) /\ Len(ventes'[a]) = Len(ventes[a]) /\ v \in Fiches
         /\ i \in 1..Len(ventes[a]) /\ ventes[a][i] \in Fiches
         /\ \A j \in 1..Len(ventes[a]) : ventes'[a][j] = IF j = i THEN v ELSE ventes[a][j]
         /\ \A n : find_sale(n, ventes'[a]) = find_sale(n, ventes[a])
<1>. DEFINE l == ventes[a]
            k == [l EXCEPT ![i] = v]
<1>1. l \in Seq(Fiches) /\ ventes'[a] = k /\ i \in 1..Len(l)
  BY DEF Change1, Coherence, Types
<1>2. l[i] \in Fiches
  BY <1>1, ElementOfSeq
<1>3. v \in Fiches /\ v.numv = l[i].numv /\ v.sup = l[i].sup
  BY <1>2, FicheMiseAJour DEF Change1
<1>. HIDE DEF l
<1>4. /\ Len(k) = Len(l) /\ \A j \in 1..Len(l) : k[j] = IF j = i THEN v ELSE l[j]
      /\ \A n : find_sale(n, k) = find_sale(n, l)
  BY <1>1, <1>3, Change
<1>5. Len(l) \in Nat
  BY <1>1, LenProperties
<1>. HIDE DEF k
<1>. QED BY <1>1, <1>2, <1>3, <1>4, <1>5 DEF Suite, l

ConnuApres(n) ==
    n[2] <= Cardinality({i \in DOMAIN ventes'[n[1]] : ventes'[n[1]][i].numv[1] = n[1]})

LEMMA NumeroDe ==
  ASSUME NEW n \in Numeros
  PROVE  n[1] \in Pairs /\ n[2] \in Nat /\ n[2] >= 1 /\ n = <<n[1], n[2]>>
<1>1. MaxVentes \in Nat
  BY BornesAssumption
<1>2. PICK s \in Superviseurs, k \in 1..MaxVentes : n = <<s, k>>
  BY DEF Numeros
<1>3. k \in Nat /\ k >= 1
  BY <1>1
<1>4. s \in Pairs
  BY PairsAssumption
<1>. QED BY <1>2, <1>3, <1>4

\* What a question and the end of a round do to the sales.
LEMMA QuestionVentes ==
  ASSUME Coherence, NEW a \in Pairs, NEW d \in Lisibles(a), Question(a, d)
  PROVE  UNCHANGED ventes \/ \E i, v : Change1(a, i, v)
<1>1. ventes[a] \in Seq(Fiches) /\ d.m \in Messages
  BY Inchangees, ReseauLu
<1>2. CASE find_sale(d.m.numv, ventes[a]) # 0 /\ handle_new_bid(a, d)
  <2>. DEFINE i == find_sale(d.m.numv, ventes[a])
  <2>1. i \in 1..Len(ventes[a]) /\ d.m \in Corps
    BY <1>1, <1>2, RangTrouve DEF handle_new_bid, Messages
  <2>2. ventes' = [ventes EXCEPT ![a] = [@ EXCEPT ![i] = sale_update(ventes[a][i], d.m.prix, d.m.id)]]
    BY <1>2 DEF handle_new_bid
  <2>. QED BY <2>1, <2>2 DEF Change1
<1>3. CASE handle_closure(a, d)
  <2>. DEFINE i == find_sale(d.m.numv, ventes[a])
  <2>1. CASE i # 0
    <3>1. i \in 1..Len(ventes[a])
      BY <1>1, <2>1, RangTrouve
    <3>2. ventes' = [ventes EXCEPT ![a] = [@ EXCEPT ![i] = sale_close(ventes[a][i])]]
      BY <1>3, <2>1 DEF handle_closure
    <3>. QED BY <3>1, <3>2 DEF Change1
  <2>. QED BY <1>3, <2>1 DEF handle_closure
<1>4. CASE handle_peer_departure(a, d)
  <2>. DEFINE i == is_superv(d.m.id, ventes[a])
  <2>1. CASE i # 0
    <3>1. i \in 1..Len(ventes[a])
      BY <1>1, <2>1, RangSuperviseur
    <3>2. ventes' = [ventes EXCEPT ![a] = [@ EXCEPT ![i] = sale_close(ventes[a][i])]]
      BY <1>4, <2>1 DEF handle_peer_departure
    <3>. QED BY <3>1, <3>2 DEF Change1
  <2>. QED BY <1>4, <2>1 DEF handle_peer_departure
<1>. QED BY <1>2, <1>3, <1>4 DEF Question

LEMMA TermineChange ==
  ASSUME Coherence, NEW a \in Pairs, Termine(a)
  PROVE  UNCHANGED ventes \/ \E i, v : Change1(a, i, v)
<1>1. CASE suite[a].but \in {"enchere", "cloture"} /\ ventes' # ventes
  <2>1. suite[a].rang \in 1..Len(ventes[a]) /\ (suite[a].but = "enchere" => copie[a] \in Corps)
    BY <1>1, TermineVentes DEF Coherence, PairSur, SujetSur, EnRonde
  <2>2. \/ /\ suite[a].but = "enchere"
           /\ ventes' = [ventes EXCEPT ![a] = [@ EXCEPT ![suite[a].rang] =
                    sale_update(ventes[a][suite[a].rang], copie[a].prix, copie[a].id)]]
        \/ ventes' = [ventes EXCEPT ![a] = [@ EXCEPT ![suite[a].rang] =
                    sale_close(ventes[a][suite[a].rang])]]
    BY <1>1, TermineVentes
  <2>. QED BY <2>1, <2>2 DEF Change1
<1>. QED BY <1>1, TermineVentes

\* A number that was given stays given.
LEMMA VentesFinies ==
  ASSUME Coherence, NEW p \in Pairs
  PROVE  IsFiniteSet(Ventes(p)) /\ Cardinality(Ventes(p)) \in Nat
<1>1. ventes[p] \in Seq(Fiches)
  BY Inchangees
<1>2. DOMAIN ventes[p] = 1..Len(ventes[p]) /\ Len(ventes[p]) \in Nat
  BY <1>1, LenProperties
<1>3. IsFiniteSet(1..Len(ventes[p]))
  BY <1>2, IntervalleFini
<1>4. IsFiniteSet(Ventes(p))
  BY <1>2, <1>3, FS_Subset DEF Ventes
<1>. QED BY <1>4, FS_CardinalityType

LEMMA ConnuReste ==
  ASSUME Coherence, Coherence', NEW a \in Pairs, Seul(a), Suite(a)
  PROVE  \A n \in Numeros : Connu(n) => ConnuApres(n)
<1>1. \A p \in Pairs : ventes[p] \in Seq(Fiches) /\ ventes'[p] \in Seq(Fiches)
  BY DEF Coherence, Types
<1>2. ASSUME NEW p \in Pairs
      PROVE  /\ Cardinality(Ventes(p)) <= Cardinality(Ventes(p)')
             /\ Cardinality(Ventes(p)') \in Nat
  <2>1. Ventes(p) \subseteq Ventes(p)'
    <3>1. /\ DOMAIN ventes[p] = 1..Len(ventes[p]) /\ DOMAIN ventes'[p] = 1..Len(ventes'[p])
          /\ Len(ventes[p]) \in Nat /\ Len(ventes'[p]) \in Nat
      BY <1>1, LenProperties
    <3>2. CASE p = a
      BY <3>1, <3>2 DEF Ventes, Suite
    <3>3. CASE p # a
      BY <3>3 DEF Ventes, Seul
    <3>. QED BY <3>2, <3>3
  <2>2. IsFiniteSet(Ventes(p)')
    <3>1. DOMAIN ventes'[p] = 1..Len(ventes'[p]) /\ Len(ventes'[p]) \in Nat
      BY <1>1, LenProperties
    <3>2. IsFiniteSet(1..Len(ventes'[p]))
      BY <3>1, IntervalleFini
    <3>. QED BY <3>1, <3>2, FS_Subset DEF Ventes
  <2>. QED BY <2>1, <2>2, FS_Subset, FS_CardinalityType
<1>3. ASSUME NEW n \in Numeros, Connu(n) PROVE ConnuApres(n)
  <2>1. n[1] \in Pairs /\ n[2] \in Nat
    BY NumeroDe
  <2>2. Cardinality(Ventes(n[1])) <= Cardinality(Ventes(n[1])') /\ Cardinality(Ventes(n[1])') \in Nat
    BY <1>2, <2>1
  <2>3. Cardinality(Ventes(n[1])) \in Nat
    BY <2>1, VentesFinies
  <2>. QED BY <1>3, <2>1, <2>2, <2>3 DEF Connu, ConnuApres, Ventes
<1>. QED BY <1>3
\* What a may put on the network, and add to its list.
Dicible(a, m) ==
    /\ m.code \in {8, 9, 10, 12} => ConnuApres(m.numv)
    /\ m.code = 12 => \E x \in annonces' : x.auteur = a /\ x.numv = m.numv
Nouvelle(a, v) ==
    /\ ConnuApres(v.numv)
    /\ v.numv[1] = a => v.sup = a /\ \A j \in 1..Len(ventes[a]) : ventes[a][j].numv # v.numv

LEMMA MessageNumv ==
  ASSUME NEW m \in Messages, m.code \in {8, 9, 10, 12}
  PROVE  m.numv \in Numeros
BY DEF Messages, Corps

LEMMA NumEnsemble ==
  ASSUME Coherence, Coherence', Numerotation, NEW a \in Pairs, Seul(a), Suite(a),
         Len(ventes'[a]) = Len(ventes[a])
            \/ (Len(ventes'[a]) = Len(ventes[a]) + 1
                    /\ Nouvelle(a, ventes'[a][Len(ventes[a]) + 1])),
         \A q \in Pairs : q # a =>
            /\ Extrait(net'[<<q, a>>], net[<<q, a>>])
            /\ \A j \in 1..Len(net'[<<a, q>>]) :
                \/ \E i \in 1..Len(net[<<a, q>>]) : net'[<<a, q>>][j] = net[<<a, q>>][i]
                \/ Dicible(a, net'[<<a, q>>][j])
  PROVE  Numerotation'
<1>1. \A n \in Numeros : Connu(n) => ConnuApres(n)
  BY ConnuReste
<1>2. /\ \A p \in Pairs : ventes[p] \in Seq(Fiches)
      /\ \A p, q \in Pairs : net[<<p, q>>] \in Seq(Messages)
      /\ \A p, q \in Pairs : \A k \in 1..Len(net'[<<p, q>>]) : p # q
  BY DEF Coherence, Types, ReseauSur
<1>3. ASSUME NEW p \in Pairs, NEW i \in 1..Len(ventes[p]) PROVE ventes[p][i].numv \in Numeros
  <2>1. ventes[p][i] \in Fiches
    BY <1>2, ElementOfSeq
  <2>. QED BY <2>1 DEF Fiches
<1>4. ASSUME NEW p \in Pairs, NEW i \in 1..Len(ventes[p])
      PROVE  /\ ConnuApres(ventes[p][i].numv)
             /\ (ventes[p][i].numv[1] = p => ventes[p][i].sup = p)
             /\ \A j \in 1..Len(ventes[p]) :
                    ventes[p][i].numv[1] = p /\ ventes[p][j].numv = ventes[p][i].numv => i = j
  BY <1>1, <1>3 DEF Numerotation
<1>5. ASSUME NEW p \in Pairs, NEW i \in 1..Len(ventes'[p])
      PROVE  /\ ConnuApres(ventes'[p][i].numv)
             /\ (ventes'[p][i].numv[1] = p => ventes'[p][i].sup = p)
             /\ \A j \in 1..Len(ventes'[p]) :
                    ventes'[p][i].numv[1] = p /\ ventes'[p][j].numv = ventes'[p][i].numv => i = j
  <2>1. CASE p # a
    <3>1. ventes'[p] = ventes[p]
      BY <2>1 DEF Seul
    <3>. QED BY <1>4, <3>1
  <2>2. CASE p = a
    <3>. DEFINE l == ventes[a]
                k == ventes'[a]
                n == Len(l)
    <3>1. n \in Nat
      BY <1>2, LenProperties
    <3>2. \A j \in 1..n : k[j].numv = l[j].numv /\ k[j].sup = l[j].sup
      BY DEF Suite
    <3>3. \A j \in 1..n : /\ ConnuApres(l[j].numv) /\ (l[j].numv[1] = a => l[j].sup = a)
                          /\ \A h \in 1..n : l[j].numv[1] = a /\ l[h].numv = l[j].numv => j = h
      BY <1>4
    <3>4. Len(k) = n \/ (Len(k) = n + 1 /\ Nouvelle(a, k[n + 1]))
      OBVIOUS
    <3>. DEFINE Bonne(j) == /\ ConnuApres(k[j].numv) /\ (k[j].numv[1] = a => k[j].sup = a)
    <3>5. \A j \in 1..n : Bonne(j)
      BY <3>2, <3>3
    <3>6. Len(k) = n + 1 => Bonne(n + 1) /\ (k[n + 1].numv[1] = a => \A j \in 1..n : l[j].numv # k[n + 1].numv)
      BY <3>1, <3>4 DEF Nouvelle
    <3>7. \A j \in 1..Len(k) : j \in 1..n \/ (j = n + 1 /\ Len(k) = n + 1)
      BY <3>1, <3>4
    <3>8. \A j \in 1..Len(k) : Bonne(j)
      BY <3>5, <3>6, <3>7
    <3>9. \A j, h \in 1..Len(k) : k[j].numv[1] = a /\ k[h].numv = k[j].numv => j = h
      BY <3>2, <3>3, <3>6, <3>7
    <3>. QED BY <2>2, <3>8, <3>9
  <2>. QED BY <2>1, <2>2
<1>6. ASSUME NEW p \in Pairs, NEW q \in Pairs, NEW k \in 1..Len(net[<<p, q>>])
      PROVE  LET m == net[<<p, q>>][k] IN
             /\ m.code \in {8, 9, 10, 12} => ConnuApres(m.numv)
             /\ m.code = 12 => \E x \in annonces' : x.auteur = p /\ x.numv = m.numv
  <2>. DEFINE m == net[<<p, q>>][k]
  <2>1. m \in Messages
    BY <1>2, ElementOfSeq
  <2>2. m.code \in {8, 9, 10, 12} => Connu(m.numv)
    BY DEF Numerotation
  <2>3. m.code = 12 => \E x \in annonces : x.auteur = p /\ x.numv = m.numv
    BY DEF Numerotation
  <2>. HIDE DEF m
  <2>4. m.code \in {8, 9, 10, 12} => ConnuApres(m.numv)
    BY <1>1, <2>1, <2>2, MessageNumv
  <2>. QED BY <2>3, <2>4 DEF Seul, m
<1>7. ASSUME NEW p \in Pairs, NEW q \in Pairs, NEW k \in 1..Len(net'[<<p, q>>])
      PROVE  LET m == net'[<<p, q>>][k] IN
             /\ m.code \in {8, 9, 10, 12} => ConnuApres(m.numv)
             /\ m.code = 12 => \E x \in annonces' : x.auteur = p /\ x.numv = m.numv
  <2>. DEFINE m == net'[<<p, q>>][k]
  <2>0. p # q
    BY <1>2
  <2>1. (\E i \in 1..Len(net[<<p, q>>]) : m = net[<<p, q>>][i]) \/ (p = a /\ Dicible(a, m))
    <3>1. CASE p # a /\ q # a
      BY <3>1 DEF Seul
    <3>2. CASE p # a /\ q = a
      <4>1. Extrait(net'[<<p, a>>], net[<<p, a>>]) /\ net[<<p, a>>] \in Seq(Messages)
        BY <1>2, <3>2
      <4>2. \A j \in 1..Len(net'[<<p, a>>]) :
                \E i \in 1..Len(net[<<p, a>>]) : net'[<<p, a>>][j] = net[<<p, a>>][i]
        <5>. DEFINE t == net'[<<p, a>>]
                    r == net[<<p, a>>]
        <5>1. Extrait(t, r) /\ r \in Seq(Messages)
          BY <4>1
        <5>. HIDE DEF t, r
        <5>2. \A j \in 1..Len(t) : \E i \in 1..Len(r) : t[j] = r[i]
          BY <5>1, ExtraitVient
        <5>. QED BY <5>2 DEF t, r
      <4>. QED BY <3>2, <4>2
    <3>3. CASE p = a
      BY <2>0, <3>3
    <3>. QED BY <3>1, <3>2, <3>3
  <2>2. CASE \E i \in 1..Len(net[<<p, q>>]) : m = net[<<p, q>>][i]
    BY <1>6, <2>2
  <2>3. CASE p = a /\ Dicible(a, m)
    BY <2>3 DEF Dicible
  <2>. QED BY <2>1, <2>2, <2>3
<1>8. \A n : ConnuApres(n) => Connu(n)'
  BY DEF Connu, ConnuApres, Ventes
<1>. QED BY <1>5, <1>7, <1>8 DEF Numerotation
LEMMA CourrierVient ==
  ASSUME Coherence, NEW a \in Pairs, NEW m \in Messages, Courrier(a, m), NEW q \in Pairs, q # a
  PROVE  \A j \in 1..Len(net'[<<a, q>>]) :
            \/ \E i \in 1..Len(net[<<a, q>>]) : i = j /\ net'[<<a, q>>][j] = net[<<a, q>>][i]
            \/ net'[<<a, q>>][j] = m
<1>. DEFINE s == net[<<a, q>>]
            t == net'[<<a, q>>]
<1>1. s \in Seq(Messages) /\ (t = s \/ t = Append(s, m))
  BY DEF Courrier, Coherence, ReseauSur
<1>. HIDE DEF s, t
<1>2. \A j \in 1..Len(Append(s, m)) :
            Append(s, m)[j] = m \/ \E i \in 1..Len(s) : i = j /\ Append(s, m)[j] = s[i]
  BY <1>1, AjoutReduit
<1>3. \A j \in 1..Len(t) : (\E i \in 1..Len(s) : i = j /\ t[j] = s[i]) \/ t[j] = m
  BY <1>1, <1>2
<1>. QED BY <1>3 DEF s, t

LEMMA NumCourrier ==
  ASSUME Coherence, Coherence', Numerotation, NEW a \in Pairs, Seul(a), Suite(a),
         Len(ventes'[a]) = Len(ventes[a])
            \/ (Len(ventes'[a]) = Len(ventes[a]) + 1
                    /\ Nouvelle(a, ventes'[a][Len(ventes[a]) + 1])),
         NEW m \in Messages, Courrier(a, m), Dicible(a, m)
  PROVE  Numerotation'
<1>1. ASSUME NEW q \in Pairs, q # a
      PROVE  /\ Extrait(net'[<<q, a>>], net[<<q, a>>])
             /\ \A j \in 1..Len(net'[<<a, q>>]) :
                \/ \E i \in 1..Len(net[<<a, q>>]) : net'[<<a, q>>][j] = net[<<a, q>>][i]
                \/ Dicible(a, net'[<<a, q>>][j])
  <2>1. \A j \in 1..Len(net'[<<a, q>>]) :
            \/ \E i \in 1..Len(net[<<a, q>>]) : i = j /\ net'[<<a, q>>][j] = net[<<a, q>>][i]
            \/ net'[<<a, q>>][j] = m
    BY <1>1, CourrierVient
  <2>. QED BY <1>1, <2>1 DEF Courrier
<1>. QED BY <1>1, NumEnsemble

LEMMA NumSansVente ==
  ASSUME Coherence, Coherence', Numerotation, NEW a \in Pairs, Seul(a), UNCHANGED ventes,
         NEW m \in Messages, Courrier(a, m), Dicible(a, m)
  PROVE  Numerotation'
<1>1. Suite(a) /\ Len(ventes'[a]) = Len(ventes[a])
  <2>1. ventes[a] \in Seq(Fiches)
    BY Inchangees
  <2>2. Len(ventes[a]) \in Nat
    BY <2>1, LenProperties
  <2>. QED BY <2>2 DEF Suite
<1>. QED BY <1>1, NumCourrier

LEMMA NumCalme ==
  ASSUME Coherence, Coherence', Numerotation, NEW a \in Pairs, Seul(a), Calme(a)
  PROVE  Numerotation'
<1>1. Suite(a) /\ Len(ventes'[a]) = Len(ventes[a])
  <2>1. ventes[a] \in Seq(Fiches)
    BY Inchangees
  <2>2. Len(ventes[a]) \in Nat
    BY <2>1, LenProperties
  <2>. QED BY <2>2 DEF Suite, Calme
<1>2. \A n \in Numeros : Connu(n) => ConnuApres(n)
  BY <1>1, ConnuReste
<1>3. ASSUME NEW q \in Pairs, q # a
      PROVE  /\ Extrait(net'[<<q, a>>], net[<<q, a>>])
             /\ \A j \in 1..Len(net'[<<a, q>>]) :
                \/ \E i \in 1..Len(net[<<a, q>>]) : net'[<<a, q>>][j] = net[<<a, q>>][i]
                \/ Dicible(a, net'[<<a, q>>][j])
  <2>. DEFINE s == net[<<a, q>>]
              t == net'[<<a, q>>]
  <2>1. Extrait(net'[<<q, a>>], net[<<q, a>>]) /\ Mise(t, s) /\ s \in Seq(Messages)
        /\ t \in Seq(Messages)
    BY <1>3 DEF Calme, Coherence, ReseauSur
  <2>. HIDE DEF s, t
  <2>2. \A j \in 1..Len(t) :
            (t[j].code = 9 /\ Connu(t[j].numv)) \/ \E i \in 1..Len(s) : i = j /\ t[j] = s[i]
    BY <2>1, MiseVient
  <2>3. \A j \in 1..Len(t) : t[j] \in Messages
    BY <2>1, ElementOfSeq
  <2>4. ASSUME NEW j \in 1..Len(t), t[j].code = 9, Connu(t[j].numv) PROVE Dicible(a, t[j])
    <3>1. t[j].numv \in Numeros
      BY <2>3, <2>4, MessageNumv
    <3>. QED BY <1>2, <2>4, <3>1 DEF Dicible
  <2>5. \A j \in 1..Len(t) : (\E i \in 1..Len(s) : t[j] = s[i]) \/ Dicible(a, t[j])
    BY <2>2, <2>4
  <2>. QED BY <2>1, <2>5 DEF s, t
<1>. QED BY <1>1, <1>3, NumEnsemble

\* What is read was said of a sale that started.
LEMMA LuConnu ==
  ASSUME Coherence, Numerotation, NEW a \in Pairs, NEW d \in Lisibles(a),
         d.m.code \in {8, 9, 10, 12}
  PROVE  d.m.numv \in Numeros /\ Connu(d.m.numv)
<1>1. /\ d.src \in Pairs /\ d.m \in Messages /\ d.k \in 1..Len(net[<<d.src, a>>])
      /\ d.m = net[<<d.src, a>>][d.k]
  BY ReseauLu
<1>. QED BY <1>1, MessageNumv DEF Numerotation

LEMMA NumEtape ==
  ASSUME Coherence, Coherence', Rondes, Numerotation, NEW a \in Pairs, Etape(a), perdus' = {}
  PROVE  Numerotation'
<1>0. Seul(a) /\ ventes[a] \in Seq(Fiches) /\ Len(ventes[a]) \in Nat
  BY SeulToujours, Inchangees, LenProperties
<1>u. [code |-> 1] \in Messages /\ Dicible(a, [code |-> 1])
  BY DEF Messages, Dicible
<1>1. CASE Calme(a)
  BY <1>0, <1>1, NumCalme
<1>2. CASE Debut(a)
  <2>1. PICK prix \in Bases : peer_list_find(liste[a], a) /\ sale_start(a, prix)
    BY <1>2 DEF Debut
  <2>. DEFINE c == Cardinality(Ventes(a))
              n == <<a, c + 1>>
              v == sale_init(n, prix, a, Personne)
              m == [code |-> 8, id |-> a, numv |-> n, prix |-> prix]
  <2>2. Ajoute(a, v) /\ net' = Diffuse(a, m)
    BY <2>1 DEF sale_start, Ajoute
  <2>3. n \in Numeros /\ m \in Messages /\ c \in Nat
    BY <2>1, DebutMessage
  <2>4. v \in Fiches /\ v.numv = n /\ v.sup = a
    BY <2>3 DEF sale_init, Fiches
  <2>5. /\ Suite(a) /\ Len(ventes'[a]) = Len(ventes[a]) + 1
        /\ ventes'[a][Len(ventes[a]) + 1] = v
        /\ \A i \in 1..Len(ventes[a]) : ventes'[a][i] = ventes[a][i]
    <3>. HIDE DEF v
    <3>. QED BY <2>2, <2>4, SuiteAjoute
  <2>6. ConnuApres(n)
    <3>. DEFINE S == Ventes(a)
                T == {i \in DOMAIN ventes'[a] : ventes'[a][i].numv[1] = a}
                x == Len(ventes[a]) + 1
    <3>1. DOMAIN ventes[a] = 1..Len(ventes[a])
      BY <1>0, LenProperties
    <3>2. ventes'[a] \in Seq(Fiches)
      BY DEF Coherence, Types
    <3>3. DOMAIN ventes'[a] = 1..x
      BY <2>5, <3>2, LenProperties
    <3>. HIDE DEF v
    <3>4. \A i \in 1..x : i \in 1..Len(ventes[a]) \/ i = x
      BY <1>0
    <3>5. ventes'[a][x].numv[1] = a
      BY <2>4, <2>5
    <3>6. S \cup {x} \subseteq T /\ x \notin S
      BY <1>0, <2>5, <3>1, <3>3, <3>5 DEF Ventes
    <3>7. T \subseteq S \cup {x}
      BY <2>5, <3>1, <3>3, <3>4 DEF Ventes
    <3>8. T = S \cup {x}
      BY <3>6, <3>7
    <3>9. IsFiniteSet(S)
      BY VentesFinies
    <3>. HIDE DEF S, T
    <3>10. Cardinality(T) = Cardinality(S) + 1
      BY <3>6, <3>8, <3>9, FS_AddElement
    <3>11. Cardinality({i \in DOMAIN ventes'[a] : ventes'[a][i].numv[1] = a}) = c + 1
      BY <3>10 DEF S, T
    <3>. QED BY <2>3, <3>11 DEF ConnuApres
  <2>7. \A j \in 1..Len(ventes[a]) : ventes[a][j].numv # n
    <3>. SUFFICES ASSUME NEW j \in 1..Len(ventes[a]), ventes[a][j].numv = n PROVE FALSE
      OBVIOUS
    <3>1. Connu(n)
      BY DEF Numerotation
    <3>. QED BY <2>3, <3>1 DEF Connu
  <2>8. Dicible(a, m) /\ Courrier(a, m)
    BY <2>2, <2>6, CourrierDiffuse DEF Dicible
  <2>9. Nouvelle(a, v)
    BY <2>4, <2>6, <2>7 DEF Nouvelle
  <2>. HIDE DEF v, m
  <2>. QED BY <1>0, <2>3, <2>5, <2>8, <2>9, NumCourrier
<1>3. CASE Reception(a) \/ Ouverture(a)
  <2>1. PICK d \in Lisibles(a) :
            handle_sale_init(a, d) \/ (ventes[a] = <<>> /\ handle_bid(a, d))
    BY <1>3 DEF Reception, Ouverture
  <2>2. d.m.code \in {8, 9} /\ d.m \in Messages /\ DeLuiMeme(d.src, d.m) /\ d.src \in Pairs /\ d.src # a
        /\ net' = Lu(a, d)
    BY <2>1, ReseauLu DEF handle_sale_init, handle_bid
  <2>3. d.m \in Corps
    BY <2>2 DEF Messages
  <2>4. d.m.numv \in Numeros /\ Connu(d.m.numv)
    BY <2>2, LuConnu
  <2>5. Courrier(a, [code |-> 1])
    BY <2>2, CourrierLu
  <2>6. ASSUME NEW v \in Fiches, Ajoute(a, v), v.numv = d.m.numv, v.numv[1] # a
        PROVE  Numerotation'
    <3>1. /\ Suite(a) /\ Len(ventes'[a]) = Len(ventes[a]) + 1
          /\ ventes'[a][Len(ventes[a]) + 1] = v
      BY <2>6, SuiteAjoute
    <3>2. ConnuApres(v.numv)
      BY <1>0, <2>4, <2>6, <3>1, ConnuReste
    <3>3. Nouvelle(a, v)
      BY <2>6, <3>2 DEF Nouvelle
    <3>. QED BY <1>0, <1>u, <2>5, <3>1, <3>3, NumCourrier
  <2>7. CASE handle_sale_init(a, d)
    <3>. DEFINE v == sale_init(d.m.numv, d.m.prix, d.m.id, Personne)
    <3>1. Ajoute(a, v) /\ d.m.code = 8
      BY <2>7 DEF handle_sale_init, Ajoute
    <3>2. v \in Fiches /\ v.numv = d.m.numv
      BY <2>3 DEF sale_init, Fiches, Corps
    <3>3. v.numv[1] # a
      BY <2>2, <3>1, <3>2 DEF DeLuiMeme
    <3>. QED BY <2>6, <3>1, <3>2, <3>3
  <2>8. CASE ventes[a] = <<>> /\ handle_bid(a, d)
    <3>. DEFINE v == sale_init(d.m.numv, d.m.prix, Personne, Personne)
    <3>1. Ajoute(a, v)
      <4>1. ventes' = [ventes EXCEPT ![a] = <<v>>]
        BY <2>8 DEF handle_bid
      <4>2. Append(ventes[a], v) = <<v>>
        BY <2>8
      <4>. HIDE DEF v
      <4>. QED BY <4>1, <4>2 DEF Ajoute
    <3>2. v \in Fiches /\ v.numv = d.m.numv
      BY <2>3 DEF sale_init, Fiches, Corps
    <3>3. v.numv[1] # a
      <4>1. Cardinality(Ventes(a)) = 0
        <5>1. DOMAIN ventes[a] = {}
          BY <2>8
        <5>2. Ventes(a) = {}
          BY <5>1 DEF Ventes
        <5>. QED BY <5>2, FS_EmptySet
      <4>. QED BY <2>4, <3>2, <4>1, NumeroDe DEF Connu
    <3>. QED BY <2>6, <3>1, <3>2, <3>3
  <2>. QED BY <2>1, <2>7, <2>8
<1>4. ASSUME NEW d \in Lisibles(a), Question(a, d) PROVE Numerotation'
  <2>1. Courrier(a, [code |-> 1])
    BY <1>4, QuestionLue, CourrierLu, CourrierAccuse
  <2>2. CASE UNCHANGED ventes
    BY <1>0, <1>u, <2>1, <2>2, NumSansVente
  <2>3. ASSUME NEW i, NEW v, Change1(a, i, v) PROVE Numerotation'
    <3>1. Suite(a) /\ Len(ventes'[a]) = Len(ventes[a])
      BY <2>3, SuiteChange
    <3>. QED BY <1>0, <1>u, <2>1, <3>1, NumCourrier
  <2>. QED BY <1>4, <2>2, <2>3, QuestionVentes
<1>5. CASE Appel(a)
  <2>1. PICK m \in Messages, s \in [but : {"enchere", "cloture", "depart"}, rang : Nat] :
            AppelDe(a, m, s)
    BY <1>5, AppelDonnees
  <2>2. UNCHANGED ventes /\ Courrier(a, m)
    BY <2>1, CourrierDiffuse DEF AppelDe, consensus, Envoi
  <2>3. Dicible(a, m)
    <3>1. CASE s.but = "depart"
      BY <2>1, <3>1 DEF AppelDe, Dicible
    <3>2. CASE s.but # "depart"
      <4>1. Connu(m.numv) /\ ventes[a][s.rang].numv = m.numv /\ m.numv \in Numeros
        <5>1. s.rang \in 1..Len(ventes[a]) /\ ventes[a][s.rang].numv = m.numv
          BY <2>1, <3>2 DEF AppelDe
        <5>2. ventes[a][s.rang] \in Fiches
          BY <1>0, <5>1, ElementOfSeq
        <5>. QED BY <5>1, <5>2 DEF Numerotation, Fiches
      <4>2. ConnuApres(m.numv)
        <5>1. Suite(a)
          BY <1>0, <2>2 DEF Suite
        <5>. QED BY <1>0, <4>1, <5>1, ConnuReste
      <4>3. m.code = 12 => \E x \in annonces' : x.auteur = a /\ x.numv = m.numv
        <5>. SUFFICES ASSUME m.code = 12 PROVE \E x \in annonces' : x.auteur = a /\ x.numv = m.numv
          OBVIOUS
        <5>. DEFINE x == [auteur |-> a, numv |-> ventes[a][s.rang].numv, gagnant |-> Cloture(a, s.rang).id]
        <5>1. s.but = "cloture"
          BY <2>1, <3>2 DEF AppelDe
        <5>2. x \in annonces'
          BY <2>1, <5>1 DEF AppelDe
        <5>. QED BY <4>1, <5>2
      <4>. QED BY <4>2, <4>3 DEF Dicible
    <3>. QED BY <3>1, <3>2
  <2>. QED BY <1>0, <2>2, <2>3, NumSansVente
<1>6. ASSUME NEW d \in Lisibles(a), RecoitAck(a, d) PROVE Numerotation'
  <2>1. UNCHANGED ventes /\ net' = Lu(a, d)
    BY <1>6 DEF RecoitAck, boucle
  <2>. QED BY <1>0, <1>u, <2>1, CourrierLu, NumSansVente
<1>7. CASE Termine(a)
  <2>1. Courrier(a, [code |-> 1])
    BY <1>7, TermineVentes, CourrierDiffuse
  <2>2. CASE UNCHANGED ventes
    BY <1>0, <1>u, <2>1, <2>2, NumSansVente
  <2>3. ASSUME NEW i, NEW v, Change1(a, i, v) PROVE Numerotation'
    <3>1. Suite(a) /\ Len(ventes'[a]) = Len(ventes[a])
      BY <2>3, SuiteChange
    <3>. QED BY <1>0, <1>u, <2>1, <3>1, NumCourrier
  <2>. QED BY <1>7, <2>2, <2>3, TermineChange
<1>. QED BY <1>1, <1>2, <1>3, <1>4, <1>5, <1>6, <1>7, Formes
-----------------------------------------------------------------------------
(* The winner.                                                               *)

\* No sale of a reopens.
Fermees(a) == \A i \in 1..Len(ventes[a]) : ventes'[a][i].active => ventes[a][i].active

LEMMA FermeesDe ==
  ASSUME Coherence, NEW a \in Pairs,
         \/ UNCHANGED ventes \/ (\E v \in Fiches : Ajoute(a, v)) \/ \E i, v : Change1(a, i, v)
  PROVE  Fermees(a) /\ Suite(a)
<1>1. CASE UNCHANGED ventes
  <2>1. Len(ventes[a]) \in Nat
    BY Inchangees, LenProperties
  <2>. QED BY <1>1, <2>1 DEF Fermees, Suite
<1>2. ASSUME NEW v \in Fiches, Ajoute(a, v) PROVE Fermees(a) /\ Suite(a)
  BY <1>2, SuiteAjoute DEF Fermees
<1>3. ASSUME NEW i, NEW v, Change1(a, i, v) PROVE Fermees(a) /\ Suite(a)
  <2>1. /\ Suite(a) /\ ventes[a][i] \in Fiches
        /\ \A j \in 1..Len(ventes[a]) : ventes'[a][j] = IF j = i THEN v ELSE ventes[a][j]
    BY <1>3, SuiteChange
  <2>2. v.active => ventes[a][i].active
    BY <1>3, <2>1, FicheMiseAJour DEF Change1
  <2>. QED BY <2>1, <2>2 DEF Fermees
<1>. QED BY <1>1, <1>2, <1>3

\* Every step keeps the sales of its peer, and closes rather than reopens.
LEMMA VentesEtape ==
  ASSUME Coherence, Coherence', Rondes, Numerotation, NEW a \in Pairs, Etape(a), perdus' = {}
  PROVE  \/ UNCHANGED ventes \/ (\E v \in Fiches : Ajoute(a, v)) \/ \E i, v : Change1(a, i, v)
<1>1. CASE Calme(a)
  BY <1>1 DEF Calme
<1>2. CASE Debut(a)
  <2>1. PICK prix \in Bases : peer_list_find(liste[a], a) /\ sale_start(a, prix)
    BY <1>2 DEF Debut
  <2>. DEFINE n == <<a, Cardinality(Ventes(a)) + 1>>
              v == sale_init(n, prix, a, Personne)
  <2>2. Ajoute(a, v)
    BY <2>1 DEF sale_start, Ajoute
  <2>3. n \in Numeros
    BY <2>1, DebutMessage
  <2>4. v \in Fiches
    BY <2>3 DEF sale_init, Fiches
  <2>. QED BY <2>2, <2>4
<1>3. CASE Reception(a) \/ Ouverture(a)
  <2>1. PICK d \in Lisibles(a) :
            handle_sale_init(a, d) \/ (ventes[a] = <<>> /\ handle_bid(a, d))
    BY <1>3 DEF Reception, Ouverture
  <2>2. d.m \in Corps
    <3>1. d.m \in Messages
      BY ReseauLu
    <3>2. d.m.code \in {8, 9}
      BY <2>1 DEF handle_sale_init, handle_bid
    <3>. QED BY <3>1, <3>2 DEF Messages
  <2>3. CASE handle_sale_init(a, d)
    <3>. DEFINE v == sale_init(d.m.numv, d.m.prix, d.m.id, Personne)
    <3>1. Ajoute(a, v)
      BY <2>3 DEF handle_sale_init, Ajoute
    <3>2. v \in Fiches
      BY <2>2 DEF sale_init, Fiches, Corps
    <3>. QED BY <3>1, <3>2
  <2>4. CASE ventes[a] = <<>> /\ handle_bid(a, d)
    <3>. DEFINE v == sale_init(d.m.numv, d.m.prix, Personne, Personne)
    <3>1. ventes' = [ventes EXCEPT ![a] = <<v>>]
      BY <2>4 DEF handle_bid
    <3>2. v \in Fiches
      BY <2>2 DEF sale_init, Fiches, Corps
    <3>. HIDE DEF v
    <3>3. Append(ventes[a], v) = <<v>>
      BY <2>4
    <3>. QED BY <3>1, <3>2, <3>3 DEF Ajoute
  <2>. QED BY <2>1, <2>3, <2>4
<1>4. ASSUME NEW d \in Lisibles(a), Question(a, d)
      PROVE  UNCHANGED ventes \/ \E i, v : Change1(a, i, v)
  BY <1>4, QuestionVentes
<1>5. CASE Appel(a)
  BY <1>5 DEF Appel
<1>6. ASSUME NEW d \in Lisibles(a), RecoitAck(a, d) PROVE UNCHANGED ventes
  BY <1>6 DEF RecoitAck, boucle
<1>7. CASE Termine(a)
  BY <1>7, TermineChange
<1>. QED BY <1>1, <1>2, <1>3, <1>4, <1>5, <1>6, <1>7, Formes

LEMMA AnnonceeReste ==
  ASSUME Coherence, NEW a \in Pairs, Seul(a), Suite(a), Fermees(a),
         EnRonde(a) /\ suite[a].but = "cloture" =>
            \/ pc'[a] \in Sorties \/ (EnRonde(a)' /\ suite'[a] = suite[a])
            \/ ~ventes'[a][suite[a].rang].active,
         Coherence', NEW s \in Pairs, NEW n, Annoncee(s, n)
  PROVE  Annoncee(s, n)'
<1>1. CASE s # a
  <2>1. /\ pc'[s] = pc[s] /\ ventes'[s] = ventes[s] /\ suite'[s] = suite[s]
    BY <1>1 DEF Seul
  <2>. QED BY <2>1 DEF Annoncee, EnRonde
<1>2. CASE s = a /\ pc[a] \in Sorties
  <2>1. pc'[a] \in Sorties
    <3>1. a \notin Vivants'
      BY <1>2 DEF Seul, Vivants, Sorties
    <3>. QED BY <3>1 DEF Vivants, Sorties
  <2>. QED BY <1>2, <2>1 DEF Annoncee
<1>3. ASSUME s = a, NEW j \in 1..Len(ventes[a]), ventes[a][j].numv = n, ~ventes[a][j].active
      PROVE  Annoncee(a, n)'
  <2>1. j \in 1..Len(ventes'[a]) /\ ventes'[a][j].numv = n /\ ~ventes'[a][j].active
    <3>1. Len(ventes[a]) \in Nat /\ Len(ventes'[a]) \in Nat
      BY LenProperties DEF Coherence, Types
    <3>. QED BY <1>3, <3>1 DEF Suite, Fermees
  <2>. QED BY <2>1 DEF Annoncee
<1>4. CASE s = a /\ EnRonde(a) /\ suite[a].but = "cloture" /\ ventes[a][suite[a].rang].numv = n
  <2>. DEFINE j == suite[a].rang
  <2>1. j \in 1..Len(ventes[a])
    BY <1>4 DEF Coherence, PairSur, SujetSur
  <2>2. j \in 1..Len(ventes'[a]) /\ ventes'[a][j].numv = n
    <3>1. Len(ventes[a]) \in Nat /\ Len(ventes'[a]) \in Nat
      BY LenProperties DEF Coherence, Types
    <3>. QED BY <1>4, <2>1, <3>1 DEF Suite
  <2>3. CASE pc'[a] \in Sorties
    BY <1>4, <2>3 DEF Annoncee
  <2>4. CASE EnRonde(a)' /\ suite'[a] = suite[a]
    BY <1>4, <2>2, <2>4 DEF Annoncee
  <2>5. CASE ~ventes'[a][j].active
    BY <1>4, <2>2, <2>5 DEF Annoncee
  <2>. QED BY <1>4, <2>3, <2>4, <2>5
<1>. QED BY <1>1, <1>2, <1>3, <1>4 DEF Annoncee

\* A closure that started ends in the closing of the sale, or the peer stops.
LEMMA ClotureSuit ==
  ASSUME Coherence, Coherence', Rondes, Numerotation, NEW a \in Pairs, Etape(a), perdus' = {},
         EnRonde(a), suite[a].but = "cloture"
  PROVE  \/ pc'[a] \in Sorties \/ (EnRonde(a)' /\ suite'[a] = suite[a])
         \/ ~ventes'[a][suite[a].rang].active
<1>0. ~HorsConsensus(a) /\ Seul(a) /\ a \in Pairs
  BY SeulToujours DEF HorsConsensus, EnRonde
<1>1. CASE Calme(a)
  <2>1. a \in Vivants' => EnRonde(a)'
    BY <1>1 DEF Calme
  <2>2. a \notin Vivants' => pc'[a] \in Sorties
    BY DEF Vivants, Sorties
  <2>. QED BY <1>1, <2>1, <2>2 DEF Calme
<1>2. CASE Debut(a) \/ Reception(a) \/ Ouverture(a) \/ \E d \in Lisibles(a) : Question(a, d)
  <2>1. pc[a] \in {"boucle", "lu"}
    BY <1>2 DEF Debut, Reception, Ouverture, Question, sale_start, Tape, handle_sale_init, handle_bid,
       handle_new_bid, handle_closure, handle_peer_departure, Lit, PeutLire
  <2>. QED BY <1>0, <2>1 DEF HorsConsensus
<1>3. CASE Appel(a)
  BY <1>0, <1>3 DEF Appel
<1>4. ASSUME NEW d \in Lisibles(a), RecoitAck(a, d)
      PROVE  EnRonde(a)' /\ suite'[a] = suite[a]
  BY <1>4 DEF RecoitAck, EnRonde, boucle
<1>5. CASE Termine(a)
  <2>1. \/ pc' = [pc EXCEPT ![a] = "sorti"]
        \/ ventes' = [ventes EXCEPT ![a][suite[a].rang] = sale_close(@)]
    BY <1>5, TermineVentes
  <2>2. CASE pc' = [pc EXCEPT ![a] = "sorti"]
    BY <2>2 DEF Sorties, Coherence, Types
  <2>3. CASE ventes' = [ventes EXCEPT ![a][suite[a].rang] = sale_close(@)]
    <3>. DEFINE j == suite[a].rang
                v == sale_close(ventes[a][j])
    <3>1. j \in 1..Len(ventes[a])
      BY DEF Coherence, PairSur, SujetSur
    <3>2. Change1(a, j, v)
      BY <2>3, <3>1 DEF Change1
    <3>3. ventes'[a][j] = v /\ ventes[a][j] \in Fiches
      <4>. HIDE DEF v, j
      <4>. QED BY <3>1, <3>2, SuiteChange
    <3>. QED BY <3>3, FicheMiseAJour
  <2>. QED BY <2>1, <2>2, <2>3
<1>. QED BY <1>1, <1>2, <1>3, <1>4, <1>5, Formes

\* Only the end of a sale is announced.
LEMMA AnnoncesEtape ==
  ASSUME Coherence, Coherence', Rondes, Numerotation, AnnoncesSures,
         NEW a \in Pairs, Etape(a), perdus' = {}
  PROVE  AnnoncesSures'
<1>1. Seul(a) /\ Suite(a) /\ Fermees(a)
  BY SeulToujours, VentesEtape, FermeesDe
<1>2. ASSUME NEW s \in Pairs, NEW n, Annoncee(s, n) PROVE Annoncee(s, n)'
  BY <1>1, <1>2, ClotureSuit, AnnonceeReste
<1>3. \A x \in annonces : x.auteur \in Pairs /\ Annoncee(x.auteur, x.numv)
  BY DEF AnnoncesSures
<1>4. \A x \in annonces : x.auteur \in Pairs /\ \E s \in Pairs : \E n :
            s = x.auteur /\ n = x.numv /\ Annoncee(s, n)'
  BY <1>2, <1>3
<1>5. CASE annonces' = annonces
  <2>1. \A x \in annonces' : x.auteur \in Pairs /\ Annoncee(x.auteur, x.numv)'
    BY <1>4, <1>5 DEF Annoncee
  <2>. QED BY <1>5, <2>1 DEF AnnoncesSures
<1>6. CASE annonces' # annonces
  <2>1. Appel(a)
    <3>1. Debut(a) => annonces' = annonces
      BY DEF Debut, sale_start
    <3>2. Reception(a) \/ Ouverture(a) => annonces' = annonces
      BY DEF Reception, Ouverture, handle_sale_init, handle_bid, histoire
    <3>3. (\E d \in Lisibles(a) : Question(a, d)) => annonces' = annonces
      BY DEF Question, handle_new_bid, handle_closure, handle_peer_departure, histoire
    <3>4. (\E d \in Lisibles(a) : RecoitAck(a, d)) => annonces' = annonces
      BY DEF RecoitAck, histoire
    <3>5. Termine(a) => annonces' = annonces
      BY TermineVentes
    <3>. QED BY <1>6, <3>1, <3>2, <3>3, <3>4, <3>5, Formes DEF Calme
  <2>2. PICK m \in Messages, s \in [but : {"enchere", "cloture", "depart"}, rang : Nat] :
            AppelDe(a, m, s)
    BY <2>1, AppelDonnees
  <2>. DEFINE n == ventes[a][s.rang].numv
              y == [auteur |-> a, numv |-> n, gagnant |-> Cloture(a, s.rang).id]
  <2>3. /\ HorsConsensus(a) /\ UNCHANGED ventes /\ s.but = "cloture" /\ ventes[a][s.rang].active
        /\ annonces' = annonces \cup {y} /\ s.rang \in 1..Len(ventes[a])
        /\ consensus(a, m, s)
    BY <1>6, <2>2 DEF AppelDe
  <2>4. Annoncee(a, n)'
    <3>1. EnRonde(a)' /\ suite'[a] = s
      BY <2>3 DEF consensus, EnRonde, Coherence, Types
    <3>. QED BY <2>3, <3>1 DEF Annoncee
  <2>5. \A x \in annonces' : x.auteur \in Pairs /\ \E t \in Pairs : \E k :
            t = x.auteur /\ k = x.numv /\ Annoncee(t, k)'
    <3>1. Annoncee(a, n)' <=> \E t \in Pairs : \E k : t = a /\ k = n /\ Annoncee(t, k)'
      BY <2>3 DEF Annoncee
    <3>. QED BY <1>4, <2>3, <2>4, <3>1
  <2>6. \A x \in annonces' : x.auteur \in Pairs /\ Annoncee(x.auteur, x.numv)'
    BY <2>5 DEF Annoncee
  <2>7. ASSUME NEW x \in annonces, x.auteur = a, x.numv = n, n[1] = a PROVE FALSE
    <3>1. Annoncee(a, n)
      BY <1>3, <2>7
    <3>2. PICK j \in 1..Len(ventes[a]) : ventes[a][j].numv = n /\ ~ventes[a][j].active
      BY <2>3, <3>1 DEF Annoncee, HorsConsensus, EnRonde, Sorties
    <3>3. j = s.rang
      BY <2>3, <2>7, <3>2 DEF Numerotation
    <3>. QED BY <2>3, <3>2, <3>3
  <2>8. \A x, z \in annonces' :
            x.auteur = x.numv[1] /\ z.auteur = z.numv[1] /\ x.numv = z.numv => x.gagnant = z.gagnant
    <3>1. \A x, z \in annonces :
            x.auteur = x.numv[1] /\ z.auteur = z.numv[1] /\ x.numv = z.numv => x.gagnant = z.gagnant
      BY DEF AnnoncesSures
    <3>2. y.auteur = a /\ y.numv = n
      OBVIOUS
    <3>. HIDE DEF y, n
    <3>. QED BY <2>3, <2>7, <3>1, <3>2
  <2>. QED BY <2>6, <2>8 DEF AnnoncesSures
<1>. QED BY <1>5, <1>6
-----------------------------------------------------------------------------
(* The first state, and every step.                                          *)

\* The order of arrival names every peer once.
LEMMA OrdreSansDouble ==
  ASSUME NEW i \in 1..Len(Ordre), NEW j \in 1..Len(Ordre), Ordre[i] = Ordre[j]
  PROVE  i = j
<1>. DEFINE f == [k \in 1..Len(Ordre) |-> Ordre[k]]
<1>1. Ordre \in Seq(Pairs) /\ Len(Ordre) \in Nat /\ \A k \in 1..Len(Ordre) : Ordre[k] \in Pairs
  BY PairsAssumption, LenProperties, ElementOfSeq
<1>2. \A q \in Pairs : \E k \in 1..Len(Ordre) : Ordre[k] = q
  <2>1. Pairs = {Ordre[k] : k \in 1..Len(Ordre)}
    BY PairsAssumption
  <2>. QED BY <2>1, Zenon
<1>3. f \in Surjection(1..Len(Ordre), Pairs)
  BY <1>1, <1>2 DEF Surjection
<1>4. IsFiniteSet(1..Len(Ordre)) /\ Cardinality(1..Len(Ordre)) = Len(Ordre)
  <2>. DEFINE n == Len(Ordre)
  <2>1. n \in Int /\ n >= 0
    BY <1>1
  <2>. HIDE DEF n
  <2>2. IsFiniteSet(1..n) /\ Cardinality(1..n) = IF 1 > n THEN 0 ELSE n - 1 + 1
    <3>1. 1 \in Int
      OBVIOUS
    <3>. QED BY <2>1, <3>1, FS_Interval, Zenon
  <2>3. IsFiniteSet(1..n) /\ Cardinality(1..n) = n
    BY <2>1, <2>2
  <2>. QED BY <2>3 DEF n
<1>5. Cardinality(1..Len(Ordre)) = Cardinality(Pairs)
  BY <1>4, PairsAssumption
<1>6. f \in Injection(1..Len(Ordre), Pairs)
  BY <1>3, <1>4, <1>5, FS_SurjSameCardinalityImpliesInj
<1>. QED BY <1>6 DEF Injection, IsInjective

\* The list that main builds holds every peer once.
LEMMA ListeComplete ==
  ASSUME NEW p \in Pairs
  PROVE  /\ ListeDe(p).count > 0 /\ Ids(ListeDe(p)) = Pairs
         /\ \A i, j \in 1..ListeDe(p).count :
                ListeDe(p).slots[i] = ListeDe(p).slots[j] => i = j
<1>. DEFINE S == {i \in 1..Len(Ordre) : Ordre[i] = p}
            r == Premier(S)
            u == RemoveAt(Ordre, r)
            s == <<p>> \o u
<1>1. Ordre \in Seq(Pairs) /\ Len(Ordre) \in Nat /\ \A k \in 1..Len(Ordre) : Ordre[k] \in Pairs
  BY PairsAssumption, LenProperties, ElementOfSeq
<1>2. \A q \in Pairs : \E k \in 1..Len(Ordre) : Ordre[k] = q
  <2>1. Pairs = {Ordre[k] : k \in 1..Len(Ordre)}
    BY PairsAssumption
  <2>. QED BY <2>1, Zenon
<1>3. S # {} /\ S \subseteq Nat
  <2>1. PICK k \in 1..Len(Ordre) : Ordre[k] = p
    BY <1>2
  <2>2. k \in S
    BY <2>1
  <2>3. 1..Len(Ordre) \subseteq Nat
    BY <1>1
  <2>. QED BY <2>2, <2>3, Zenon
<1>4. r \in S
  BY <1>3, Minimum, Zenon
<1>5. r \in 1..Len(Ordre) /\ Ordre[r] = p
  BY <1>4
<1>6. ListeDe(p) = [slots |-> s, count |-> Len(Ordre)]
  BY DEF ListeDe
<1>. HIDE DEF r
<1>7. /\ u \in Seq(Pairs) /\ Len(u) = Len(Ordre) - 1
      /\ \A j \in 1..(Len(Ordre) - 1) : u[j] = IF j < r THEN Ordre[j] ELSE Ordre[j + 1]
  BY <1>1, <1>5, RetraitExact
<1>. HIDE DEF u
<1>8. <<p>> \in Seq(Pairs) /\ Len(<<p>>) = 1 /\ <<p>>[1] = p
  OBVIOUS
<1>9. \A i \in 1..Len(Ordre) : s[i] = IF i = 1 THEN p ELSE u[i - 1]
  <2>1. \A i \in 1..(1 + (Len(Ordre) - 1)) : s[i] = IF i <= 1 THEN <<p>>[i] ELSE u[i - 1]
    BY <1>7, <1>8, ConcatProperties
  <2>2. <<p>>[1] = p /\ 1 + (Len(Ordre) - 1) = Len(Ordre)
    BY <1>1, <1>8
  <2>. HIDE DEF s
  <2>3. \A i \in 1..Len(Ordre) : s[i] = IF i <= 1 THEN <<p>>[i] ELSE u[i - 1]
    BY <2>1, <2>2
  <2>4. ASSUME NEW i \in 1..Len(Ordre) PROVE s[i] = IF i = 1 THEN p ELSE u[i - 1]
    <3>1. CASE i = 1
      BY <2>2, <2>3, <3>1
    <3>2. CASE i # 1
      BY <1>1, <2>3, <3>2
    <3>. QED BY <3>1, <3>2
  <2>. QED BY <2>4
<1>. HIDE DEF s
<1>10. \A i \in 1..Len(Ordre) :
          s[i] = IF i = 1 THEN p ELSE IF i - 1 < r THEN Ordre[i - 1] ELSE Ordre[i]
  BY <1>1, <1>5, <1>7, <1>9
<1>11. ASSUME NEW i \in 1..Len(Ordre), NEW j \in 1..Len(Ordre), s[i] = s[j] PROVE i = j
  BY <1>1, <1>5, <1>10, <1>11, OrdreSansDouble
<1>12. ASSUME NEW q \in Pairs PROVE \E i \in 1..Len(Ordre) : s[i] = q
  <2>1. PICK k \in 1..Len(Ordre) : Ordre[k] = q
    BY <1>2
  <2>2. CASE k = r
    <3>1. 1 \in 1..Len(Ordre) /\ s[1] = q
      BY <1>1, <1>5, <1>10, <2>1, <2>2
    <3>. QED BY <3>1
  <2>3. CASE k < r
    <3>1. k + 1 \in 1..Len(Ordre) /\ s[k + 1] = q
      BY <1>1, <1>5, <1>10, <2>1, <2>3
    <3>. QED BY <3>1
  <2>4. CASE k > r
    <3>1. k \in 1..Len(Ordre) /\ s[k] = q
      BY <1>1, <1>5, <1>10, <2>1, <2>4
    <3>. QED BY <3>1
  <2>. QED BY <1>1, <1>5, <2>2, <2>3, <2>4
<1>13. \A i \in 1..Len(Ordre) : s[i] \in Pairs
  BY <1>1, <1>5, <1>10
<1>14. Ids(ListeDe(p)) = Pairs
  BY <1>6, <1>12, <1>13 DEF Ids
<1>. QED BY <1>1, <1>5, <1>6, <1>11, <1>14

LEMMA AccordInit ==
  ASSUME Init
  PROVE  Accord
<1>. USE DEF Init
<1>1. ASSUME NEW p \in Pairs PROVE ListeExacte(p) /\ RondeExacte(p)
  <2>1. liste[p] = ListeDe(p) /\ pc[p] = "boucle" /\ suite[p] = Rien
    OBVIOUS
  <2>. QED BY <2>1, ListeComplete DEF ListeExacte, RondeExacte, EnRonde, Rien
<1>2. \A p, q \in Pairs : net[<<p, q>>] = <<>> /\ pc[p] = "boucle"
  OBVIOUS
<1>3. Rondes
  BY <1>1, <1>2 DEF Rondes, RetourExact, AllerExact, DepartExact, Aucun, AuPlusUn, EnRonde
<1>4. Numerotation
  BY <1>2 DEF Numerotation
<1>5. AnnoncesSures
  BY DEF AnnoncesSures
<1>. QED BY <1>3, <1>4, <1>5 DEF Accord

\* Nothing changes when nothing happens.
LEMMA AccordReste ==
  ASSUME Accord, UNCHANGED vars
  PROVE  Accord'
<1>. USE DEF vars
<1>1. Rondes'
  <2>1. ASSUME NEW p \in Pairs PROVE (ListeExacte(p) /\ RondeExacte(p))'
    <3>1. ListeExacte(p) /\ RondeExacte(p)
      BY <2>1 DEF Accord, Rondes
    <3>2. ListeExacte(p)'
      BY <3>1 DEF ListeExacte, Actif, Vivants
    <3>. QED BY <3>1, <3>2 DEF RondeExacte, EnRonde, Sommet, Profondeur, Autres, HorsConsensus
  <2>2. ASSUME NEW p \in Pairs, NEW q \in Pairs, p # q
        PROVE  (RetourExact(p, q) /\ AllerExact(p, q) /\ DepartExact(p, q))'
    <3>1. RetourExact(p, q) /\ AllerExact(p, q) /\ DepartExact(p, q)
      BY <2>2 DEF Accord, Rondes
    <3>. USE DEF Actif, Vivants, EnRonde, Sommet, Profondeur, Autres
    <3>2. RetourExact(p, q)'
      BY <3>1 DEF RetourExact
    <3>3. AllerExact(p, q)'
      BY <3>1 DEF AllerExact
    <3>4. DepartExact(p, q)'
      BY <3>1 DEF DepartExact, Repondu
    <3>. QED BY <3>2, <3>3, <3>4
  <2>. QED BY <2>1, <2>2 DEF Rondes
<1>2. Numerotation'
  <2>1. Numerotation /\ UNCHANGED <<ventes, net, annonces>>
    BY DEF Accord
  <2>2. \A n : Connu(n) => ConnuApres(n)
    BY <2>1 DEF Connu, ConnuApres, Ventes
  <2>3. \A p \in Pairs : \A i \in 1..Len(ventes'[p]) :
          /\ ConnuApres(ventes'[p][i].numv) /\ (ventes'[p][i].numv[1] = p => ventes'[p][i].sup = p)
          /\ \A j \in 1..Len(ventes'[p]) :
                ventes'[p][i].numv[1] = p /\ ventes'[p][j].numv = ventes'[p][i].numv => i = j
    BY <2>1, <2>2 DEF Numerotation
  <2>4. \A p, q \in Pairs : \A k \in 1..Len(net'[<<p, q>>]) :
          /\ net'[<<p, q>>][k].code \in {8, 9, 10, 12} => ConnuApres(net'[<<p, q>>][k].numv)
          /\ net'[<<p, q>>][k].code = 12 =>
                \E x \in annonces' : x.auteur = p /\ x.numv = net'[<<p, q>>][k].numv
    <3>. SUFFICES ASSUME NEW p \in Pairs, NEW q \in Pairs, NEW k \in 1..Len(net'[<<p, q>>])
                  PROVE  /\ net'[<<p, q>>][k].code \in {8, 9, 10, 12} =>
                                ConnuApres(net'[<<p, q>>][k].numv)
                         /\ net'[<<p, q>>][k].code = 12 =>
                                \E x \in annonces' : x.auteur = p /\ x.numv = net'[<<p, q>>][k].numv
      OBVIOUS
    <3>. DEFINE m == net'[<<p, q>>][k]
    <3>1. k \in 1..Len(net[<<p, q>>]) /\ m = net[<<p, q>>][k]
      BY <2>1
    <3>. HIDE DEF m
    <3>2. /\ m.code \in {8, 9, 10, 12} => Connu(m.numv)
          /\ m.code = 12 => \E x \in annonces : x.auteur = p /\ x.numv = m.numv
      BY <2>1, <3>1 DEF Numerotation
    <3>3. annonces' = annonces
      BY <2>1
    <3>. QED BY <2>2, <3>2, <3>3 DEF m
  <2>5. \A n : ConnuApres(n) => Connu(n)'
    BY DEF Connu, ConnuApres, Ventes
  <2>. QED BY <2>3, <2>4, <2>5 DEF Numerotation
<1>3. AnnoncesSures'
  BY DEF Accord, AnnoncesSures, Annoncee, EnRonde
<1>. QED BY <1>1, <1>2, <1>3 DEF Accord

\* The rounds, the numbers of the sales and the announcements stay consistent
\* from peer to peer as long as no round gave one up, whatever is lost,
\* reordered or killed: an answer on its way is one that a round still waits
\* for, who answered a departure forgot the peer that leaves, and a sale that
\* was announced is closed or about to be (consensus.c:143, sale_process.c:260,
\* udp_message_recv.c:176-254).
THEOREM ToujoursAccord == Spec => []IInvAccord
<1>1. Init => IInvAccord
  BY AccordInit DEF IInvAccord
<1>2. IInv /\ IInv' /\ IInvAccord /\ [Next]_vars => IInvAccord'
  <2>1. ASSUME Coherence, Coherence', Accord, Next, perdus' = {} PROVE Accord'
    <3>1. PICK p \in Pairs : Etape(p)
      BY <2>1 DEF Next, Etape
    <3>. QED BY <2>1, <3>1, RondesEtape, NumEtape, AnnoncesEtape DEF Accord
  <2>2. ASSUME IInv, IInv', IInvAccord, Next PROVE IInvAccord'
    BY <2>1, <2>2, PerdusRestent DEF IInv, IInvAccord
  <2>3. ASSUME IInvAccord, UNCHANGED vars PROVE IInvAccord'
    BY <2>3, AccordReste DEF IInvAccord, vars
  <2>. QED BY <2>2, <2>3
<1>. QED BY <1>1, <1>2, ToujoursIInv, PTL DEF Spec
-----------------------------------------------------------------------------
\* While no round gave a peer up, a peer that left through exit is in the list
\* of no peer that stays (main.c:119-131, udp_message_recv.c:232-254).
THEOREM DepartToujoursConnu == Spec => []DepartConnu
<1>1. IInvAccord => DepartConnu
  <2>. SUFFICES ASSUME Rondes, NEW p \in Pairs, NEW q \in Vivants, pc[p] = "parti",
                       suite[q].but # "depart"
                PROVE  p \notin Ids(liste[q])
    BY DEF IInvAccord, Accord, DepartConnu
  <2>1. q \in Pairs /\ p # q /\ Actif(q)
    BY DEF Actif, Vivants
  <2>2. DepartExact(p, q)
    BY <2>1 DEF Rondes
  <2>. QED BY <2>1, <2>2 DEF DepartExact
<1>. QED BY <1>1, ToujoursAccord, PTL

\* While no round gave a peer up, a supervisor never announces one of its own
\* sales with two different winners (sale_process.c:260-317).
THEOREM GagnantUnique == Spec => [](perdus = {} => UnSeulGagnant)
<1>1. IInvAccord => (perdus = {} => UnSeulGagnant)
  BY DEF IInvAccord, Accord, AnnoncesSures, UnSeulGagnant
<1>. QED BY <1>1, ToujoursAccord, PTL
-----------------------------------------------------------------------------
(* The prices of the others.                                                 *)

\* A round goes on as it is, or is over.
LEMMA RondeSuit ==
  ASSUME Coherence, Numerotation, NEW a \in Pairs, Etape(a), perdus' = {}, EnRonde(a)
  PROVE  \/ pc'[a] \in Sorties \/ (EnRonde(a)' /\ UNCHANGED <<ventes, copie, suite>>)
         \/ Termine(a)
<1>0. ~HorsConsensus(a)
  BY DEF HorsConsensus, EnRonde
<1>1. CASE Calme(a)
  <2>1. a \in Vivants' => EnRonde(a)'
    BY <1>1 DEF Calme
  <2>2. a \notin Vivants' => pc'[a] \in Sorties
    BY DEF Vivants, Sorties
  <2>. QED BY <1>1, <2>1, <2>2 DEF Calme
<1>2. CASE Debut(a) \/ Reception(a) \/ Ouverture(a) \/ \E d \in Lisibles(a) : Question(a, d)
  <2>1. pc[a] \in {"boucle", "lu"}
    BY <1>2 DEF Debut, Reception, Ouverture, Question, sale_start, Tape, handle_sale_init, handle_bid,
       handle_new_bid, handle_closure, handle_peer_departure, Lit, PeutLire
  <2>. QED BY <1>0, <2>1 DEF HorsConsensus
<1>3. CASE Appel(a)
  BY <1>0, <1>3 DEF Appel
<1>4. ASSUME NEW d \in Lisibles(a), RecoitAck(a, d)
      PROVE  EnRonde(a)' /\ UNCHANGED <<ventes, copie, suite>>
  BY <1>4 DEF RecoitAck, EnRonde, boucle
<1>. QED BY <1>1, <1>2, <1>3, <1>4, Formes

\* What a peer lets the others hear of its own sales only goes up.
LEMMA PrixConnuMonte ==
  ASSUME Coherence, Coherence', Rondes, Numerotation, NEW a \in Pairs, Etape(a), perdus' = {},
         a \in Vivants', NEW j \in 1..Len(ventes[a]), ventes[a][j].sup = a
  PROVE  PrixConnu(a, j) \in Nat /\ PrixConnu(a, j)' \in Nat /\ PrixConnu(a, j) <= PrixConnu(a, j)'
<1>1. Seul(a) /\ Suite(a) /\ Len(ventes[a]) \in Nat /\ Len(ventes'[a]) \in Nat
  BY SeulToujours, VentesEtape, FermeesDe, LenProperties DEF Coherence, Types
<1>2. j \in 1..Len(ventes'[a])
  BY <1>1 DEF Suite
<1>3. ventes[a][j].prix \in Nat /\ ventes'[a][j].prix \in Nat
  <2>1. ventes[a][j] \in Fiches /\ ventes'[a][j] \in Fiches
    BY <1>2, ElementOfSeq DEF Coherence, Types
  <2>. QED BY <2>1, PrixAssumption DEF Fiches
<1>4. ventes[a][j].prix <= ventes'[a][j].prix
  <2>1. Next
    BY DEF Next, Etape
  <2>2. PrixPropres(a)
    BY <2>1, PrixPropresEtape
  <2>3. DOMAIN ventes[a] = 1..Len(ventes[a])
    BY LenProperties DEF Coherence, Types
  <2>. QED BY <1>3, <2>2, <2>3 DEF PrixPropres, PrixGarde
<1>5. ASSUME EnRonde(a), suite[a].but = "enchere", suite[a].rang = j
      PROVE  copie[a].prix \in Nat /\ ventes[a][j].prix < copie[a].prix
  <2>1. copie[a] \in Corps /\ ventes[a][j].prix < copie[a].prix
    BY <1>5 DEF Coherence, PairSur, SujetSur
  <2>. QED BY <2>1, PrixAssumption DEF Corps
<1>6. ASSUME EnRonde(a)', suite'[a].but = "enchere", suite'[a].rang = j
      PROVE  copie'[a].prix \in Nat /\ ventes'[a][j].prix < copie'[a].prix
  <2>1. copie'[a] \in Corps /\ ventes'[a][j].prix < copie'[a].prix
    BY <1>6 DEF Coherence, PairSur, SujetSur
  <2>. QED BY <2>1, PrixAssumption DEF Corps
<1>7. CASE ~(EnRonde(a) /\ suite[a].but = "enchere" /\ suite[a].rang = j)
  BY <1>3, <1>4, <1>6, <1>7 DEF PrixConnu
<1>8. CASE EnRonde(a) /\ suite[a].but = "enchere" /\ suite[a].rang = j
  <2>1. pc'[a] \notin Sorties
    BY DEF Vivants, Sorties
  <2>2. CASE EnRonde(a)' /\ UNCHANGED <<ventes, copie, suite>>
    BY <1>5, <1>8, <2>2 DEF PrixConnu
  <2>3. CASE Termine(a)
    <3>. DEFINE v == sale_update(ventes[a][j], copie[a].prix, copie[a].id)
    <3>1. /\ pc' = [pc EXCEPT ![a] = "boucle"]
          /\ ventes' = [ventes EXCEPT ![a][suite[a].rang] = sale_update(@, copie[a].prix, copie[a].id)]
      <4>1. pc'[a] # "sorti"
        BY <2>1 DEF Sorties
      <4>2. pc' # [pc EXCEPT ![a] = "sorti"]
        BY <4>1 DEF Coherence, Types
      <4>. QED BY <1>8, <2>3, <4>2, TermineVentes
    <3>2. copie[a] \in Corps
      BY <1>8 DEF Coherence, PairSur, SujetSur
    <3>3. Change1(a, j, v)
      BY <1>8, <3>1, <3>2 DEF Change1
    <3>4. ventes'[a][j] = v /\ ventes[a][j] \in Fiches
      <4>. HIDE DEF v
      <4>. QED BY <3>3, SuiteChange
    <3>5. v.prix = copie[a].prix
      BY <3>2, <3>4, FicheMiseAJour
    <3>6. ~EnRonde(a)'
      BY <3>1 DEF EnRonde, Coherence, Types
    <3>. HIDE DEF v
    <3>. QED BY <1>5, <1>8, <3>4, <3>5, <3>6 DEF PrixConnu
  <2>. QED BY <1>8, <2>1, <2>2, <2>3, RondeSuit
<1>. QED BY <1>7, <1>8

\* What a may add to the channels that leave it.
Emis(a, m) ==
    \/ m.code \in {1, 9}
    \/ /\ m.code = 8 /\ m.numv = <<a, Cardinality(Ventes(a)) + 1>>
       /\ Ajoute(a, sale_init(m.numv, m.prix, a, Personne)) /\ m \in Corps
       /\ HorsConsensus(a) /\ HorsConsensus(a)'
    \/ \E s \in [but : {"enchere", "cloture", "depart"}, rang : Nat] : AppelDe(a, m, s)
Depuis(a) == \A q \in Pairs : q # a =>
    /\ Extrait(net'[<<q, a>>], net[<<q, a>>])
    /\ \A j \in 1..Len(net'[<<a, q>>]) :
        \/ \E i \in 1..Len(net[<<a, q>>]) : i = j /\ net'[<<a, q>>][j] = net[<<a, q>>][i]
        \/ Emis(a, net'[<<a, q>>][j])

LEMMA DepuisCourrier ==
  ASSUME Coherence, NEW a \in Pairs, NEW m \in Messages, Courrier(a, m), Emis(a, m)
  PROVE  Depuis(a)
<1>. SUFFICES ASSUME NEW q \in Pairs, q # a
              PROVE  /\ Extrait(net'[<<q, a>>], net[<<q, a>>])
                     /\ \A j \in 1..Len(net'[<<a, q>>]) :
                        \/ \E i \in 1..Len(net[<<a, q>>]) : i = j /\ net'[<<a, q>>][j] = net[<<a, q>>][i]
                        \/ Emis(a, net'[<<a, q>>][j])
  BY DEF Depuis
<1>1. Extrait(net'[<<q, a>>], net[<<q, a>>])
  BY DEF Courrier
<1>2. \A j \in 1..Len(net'[<<a, q>>]) :
            \/ \E i \in 1..Len(net[<<a, q>>]) : i = j /\ net'[<<a, q>>][j] = net[<<a, q>>][i]
            \/ net'[<<a, q>>][j] = m
  BY CourrierVient
<1>. QED BY <1>1, <1>2

LEMMA DepuisEtape ==
  ASSUME Coherence, Coherence', Numerotation, NEW a \in Pairs, Etape(a), perdus' = {}
  PROVE  Depuis(a)
<1>0. [code |-> 1] \in Messages /\ Emis(a, [code |-> 1])
  BY DEF Messages, Emis
<1>1. CASE Calme(a)
  <2>. SUFFICES ASSUME NEW q \in Pairs, q # a
                PROVE  \A j \in 1..Len(net'[<<a, q>>]) :
                        \/ \E i \in 1..Len(net[<<a, q>>]) : i = j /\ net'[<<a, q>>][j] = net[<<a, q>>][i]
                        \/ Emis(a, net'[<<a, q>>][j])
    BY <1>1 DEF Calme, Depuis
  <2>. DEFINE s == net[<<a, q>>]
              t == net'[<<a, q>>]
  <2>1. Mise(t, s) /\ s \in Seq(Messages)
    BY <1>1 DEF Calme, Coherence, ReseauSur
  <2>. HIDE DEF s, t
  <2>2. \A j \in 1..Len(t) : t[j].code = 9 \/ \E i \in 1..Len(s) : i = j /\ t[j] = s[i]
    BY <2>1, MiseVient
  <2>3. \A j \in 1..Len(t) : Emis(a, t[j]) \/ \E i \in 1..Len(s) : i = j /\ t[j] = s[i]
    BY <2>2 DEF Emis
  <2>. QED BY <2>3 DEF s, t
<1>2. CASE Debut(a)
  <2>1. PICK prix \in Bases : peer_list_find(liste[a], a) /\ sale_start(a, prix)
    BY <1>2 DEF Debut
  <2>. DEFINE n == <<a, Cardinality(Ventes(a)) + 1>>
              m == [code |-> 8, id |-> a, numv |-> n, prix |-> prix]
  <2>2. net' = Diffuse(a, m) /\ Ajoute(a, sale_init(n, prix, a, Personne))
    BY <2>1 DEF sale_start, Ajoute
  <2>3. n \in Numeros /\ m \in Messages /\ m \in Corps
    <3>1. n \in Numeros /\ m \in Messages
      BY <2>1, DebutMessage
    <3>. QED BY <3>1 DEF Corps
  <2>4. HorsConsensus(a) /\ HorsConsensus(a)'
    BY <2>1 DEF sale_start, Tape, HorsConsensus, Coherence, Types
  <2>5. Emis(a, m)
    BY <2>2, <2>3, <2>4 DEF Emis
  <2>. HIDE DEF m
  <2>. QED BY <2>2, <2>3, <2>5, CourrierDiffuse, DepuisCourrier
<1>3. CASE Reception(a) \/ Ouverture(a)
  <2>1. PICK d \in Lisibles(a) : net' = Lu(a, d)
    BY <1>3 DEF Reception, Ouverture, handle_sale_init, handle_bid
  <2>. QED BY <1>0, <2>1, CourrierLu, DepuisCourrier
<1>4. ASSUME NEW d \in Lisibles(a), Question(a, d) PROVE Depuis(a)
  <2>1. Courrier(a, [code |-> 1])
    BY <1>4, QuestionLue, CourrierLu, CourrierAccuse
  <2>. QED BY <1>0, <2>1, DepuisCourrier
<1>5. CASE Appel(a)
  <2>1. PICK m \in Messages, s \in [but : {"enchere", "cloture", "depart"}, rang : Nat] :
            AppelDe(a, m, s)
    BY <1>5, AppelDonnees
  <2>2. Courrier(a, m)
    BY <2>1, CourrierDiffuse DEF AppelDe, consensus, Envoi
  <2>3. Emis(a, m)
    BY <2>1 DEF Emis
  <2>. QED BY <2>2, <2>3, DepuisCourrier
<1>6. ASSUME NEW d \in Lisibles(a), RecoitAck(a, d) PROVE Depuis(a)
  <2>1. net' = Lu(a, d)
    BY <1>6 DEF RecoitAck
  <2>. QED BY <1>0, <2>1, CourrierLu, DepuisCourrier
<1>7. CASE Termine(a)
  <2>1. Courrier(a, [code |-> 1])
    BY <1>7, TermineVentes, CourrierDiffuse
  <2>. QED BY <1>0, <2>1, DepuisCourrier
<1>. QED BY <1>1, <1>2, <1>3, <1>4, <1>5, <1>6, <1>7, Formes

\* Every message on its way was already there, or a just sent it.
LEMMA Provient ==
  ASSUME Coherence, Coherence', Numerotation, NEW a \in Pairs, Seul(a), Depuis(a),
         NEW s \in Pairs, NEW q \in Pairs, s # q, NEW j \in 1..Len(net'[<<s, q>>])
  PROVE  /\ net'[<<s, q>>][j] \in Messages
         /\ \/ \E i \in 1..Len(net[<<s, q>>]) : net'[<<s, q>>][j] = net[<<s, q>>][i]
            \/ s = a /\ Emis(a, net'[<<s, q>>][j])
<1>. DEFINE t == net'[<<s, q>>]
            r == net[<<s, q>>]
<1>1. t \in Seq(Messages) /\ r \in Seq(Messages)
  BY DEF Coherence, ReseauSur
<1>2. t[j] \in Messages
  BY <1>1, ElementOfSeq
<1>3. CASE s # a /\ q # a
  BY <1>2, <1>3 DEF Seul
<1>4. CASE s = a
  BY <1>2, <1>4 DEF Depuis
<1>5. CASE q = a
  <2>1. Extrait(t, r)
    BY <1>5 DEF Depuis
  <2>2. j \in 1..Len(t)
    OBVIOUS
  <2>. HIDE DEF t, r
  <2>3. \E i \in 1..Len(r) : t[j] = r[i]
    BY <1>1, <2>1, <2>2, ExtraitVient
  <2>. QED BY <1>2, <2>3 DEF t, r
<1>. QED BY <1>3, <1>4, <1>5

\* What reading d makes of the sale that it is about.
Rang(a, m) == IF m.code = 13 THEN is_superv(m.id, ventes[a]) ELSE find_sale(m.numv, ventes[a])
Suivie(v, m) == IF m.code = 10 THEN sale_update(v, m.prix, m.id) ELSE sale_close(v)

LEMMA QuestionFiche ==
  ASSUME Coherence, NEW a \in Pairs, NEW d \in Lisibles(a), Question(a, d)
  PROVE  \/ UNCHANGED ventes /\ d.m.code # 10 /\ Rang(a, d.m) = 0
         \/ /\ Rang(a, d.m) # 0
            /\ Change1(a, Rang(a, d.m), Suivie(ventes[a][Rang(a, d.m)], d.m))
<1>1. ventes[a] \in Seq(Fiches) /\ d.m \in Messages
  BY Inchangees, ReseauLu
<1>2. CASE find_sale(d.m.numv, ventes[a]) # 0 /\ handle_new_bid(a, d)
  <2>. DEFINE i == find_sale(d.m.numv, ventes[a])
  <2>1. i \in 1..Len(ventes[a]) /\ d.m \in Corps /\ d.m.code = 10
    BY <1>1, <1>2, RangTrouve DEF handle_new_bid, Messages
  <2>2. ventes' = [ventes EXCEPT ![a] = [@ EXCEPT ![i] = sale_update(ventes[a][i], d.m.prix, d.m.id)]]
    BY <1>2 DEF handle_new_bid
  <2>3. Rang(a, d.m) = i /\ Suivie(ventes[a][i], d.m) = sale_update(ventes[a][i], d.m.prix, d.m.id)
    BY <2>1 DEF Rang, Suivie
  <2>. QED BY <1>2, <2>1, <2>2, <2>3 DEF Change1
<1>3. CASE handle_closure(a, d)
  <2>. DEFINE i == find_sale(d.m.numv, ventes[a])
  <2>0. d.m.code = 12
    BY <1>3 DEF handle_closure
  <2>1. Rang(a, d.m) = i /\ \A v : Suivie(v, d.m) = sale_close(v)
    BY <2>0 DEF Rang, Suivie
  <2>2. CASE i # 0
    <3>1. i \in 1..Len(ventes[a])
      BY <1>1, <2>2, RangTrouve
    <3>2. ventes' = [ventes EXCEPT ![a] = [@ EXCEPT ![i] = sale_close(ventes[a][i])]]
      BY <1>3, <2>2 DEF handle_closure
    <3>. QED BY <2>1, <2>2, <3>1, <3>2 DEF Change1
  <2>. QED BY <1>3, <2>0, <2>1, <2>2 DEF handle_closure
<1>4. CASE handle_peer_departure(a, d)
  <2>. DEFINE i == is_superv(d.m.id, ventes[a])
  <2>0. d.m.code = 13
    BY <1>4 DEF handle_peer_departure
  <2>1. Rang(a, d.m) = i /\ \A v : Suivie(v, d.m) = sale_close(v)
    BY <2>0 DEF Rang, Suivie
  <2>2. CASE i # 0
    <3>1. i \in 1..Len(ventes[a])
      BY <1>1, <2>2, RangSuperviseur
    <3>2. ventes' = [ventes EXCEPT ![a] = [@ EXCEPT ![i] = sale_close(ventes[a][i])]]
      BY <1>4, <2>2 DEF handle_peer_departure
    <3>. QED BY <2>1, <2>2, <3>1, <3>2 DEF Change1
  <2>. QED BY <1>4, <2>0, <2>1, <2>2 DEF handle_peer_departure
<1>. QED BY <1>2, <1>3, <1>4 DEF Question

\* Where the price that a peer has for a sale comes from.
Ancienne(q, v) == \E i \in 1..Len(ventes[q]) :
    ventes[q][i].numv = v.numv /\ ventes[q][i].prix = v.prix /\ ventes[q][i].sup = v.sup

LEMMA Origine ==
  ASSUME Coherence, Coherence', Rondes, Numerotation, NEW a \in Pairs, Etape(a), perdus' = {},
         NEW j \in 1..Len(ventes'[a])
  PROVE  \/ Ancienne(a, ventes'[a][j]) \/ ventes'[a][j].sup \in {a, Personne}
         \/ \E d \in Lisibles(a) :
                /\ d.m.code = 8 \/ (d.m.code = 10 /\ Question(a, d))
                /\ ventes'[a][j].numv = d.m.numv /\ ventes'[a][j].prix = d.m.prix
                /\ d.m.code = 8 => ventes'[a][j].sup = d.m.id
<1>. DEFINE But(w) == \/ Ancienne(a, w) \/ w.sup \in {a, Personne}
                      \/ \E d \in Lisibles(a) :
                            /\ d.m.code = 8 \/ (d.m.code = 10 /\ Question(a, d))
                            /\ w.numv = d.m.numv /\ w.prix = d.m.prix
                            /\ d.m.code = 8 => w.sup = d.m.id
<1>0. ventes[a] \in Seq(Fiches) /\ Len(ventes[a]) \in Nat
  BY Inchangees, LenProperties
<1>1. CASE UNCHANGED ventes
  BY <1>1 DEF Ancienne
<1>2. ASSUME NEW v \in Fiches, Ajoute(a, v), But(v) PROVE But(ventes'[a][j])
  <2>1. /\ Len(ventes'[a]) = Len(ventes[a]) + 1 /\ ventes'[a][Len(ventes[a]) + 1] = v
        /\ \A i \in 1..Len(ventes[a]) : ventes'[a][i] = ventes[a][i]
    BY <1>2, SuiteAjoute
  <2>2. CASE j \in 1..Len(ventes[a])
    <3>1. Ancienne(a, ventes'[a][j])
      BY <2>1, <2>2 DEF Ancienne
    <3>. QED BY <3>1
  <2>3. CASE j \notin 1..Len(ventes[a])
    <3>1. j = Len(ventes[a]) + 1
      BY <1>0, <2>1, <2>3
    <3>2. ventes'[a][j] = v
      BY <2>1, <3>1
    <3>. QED BY <1>2, <3>2
  <2>. QED BY <2>2, <2>3
<1>3. ASSUME NEW i, NEW v, Change1(a, i, v), But(v) PROVE But(ventes'[a][j])
  <2>1. /\ Len(ventes'[a]) = Len(ventes[a])
        /\ \A k \in 1..Len(ventes[a]) : ventes'[a][k] = IF k = i THEN v ELSE ventes[a][k]
    BY <1>3, SuiteChange
  <2>2. CASE j = i
    <3>1. ventes'[a][j] = v
      BY <2>1, <2>2
    <3>. QED BY <1>3, <3>1
  <2>3. CASE j # i
    <3>1. Ancienne(a, ventes'[a][j])
      BY <2>1, <2>3 DEF Ancienne
    <3>. QED BY <3>1
  <2>. QED BY <2>2, <2>3
<1>4. CASE Debut(a)
  <2>1. PICK prix \in Bases : peer_list_find(liste[a], a) /\ sale_start(a, prix)
    BY <1>4 DEF Debut
  <2>. DEFINE n == <<a, Cardinality(Ventes(a)) + 1>>
              v == sale_init(n, prix, a, Personne)
  <2>2. Ajoute(a, v) /\ n \in Numeros
    BY <2>1, DebutMessage DEF sale_start, Ajoute
  <2>3. v \in Fiches /\ v.sup = a
    BY <2>2 DEF sale_init, Fiches
  <2>. HIDE DEF v
  <2>4. But(v)
    BY <2>3
  <2>. HIDE DEF But
  <2>5. But(ventes'[a][j])
    BY <1>2, <2>2, <2>3, <2>4
  <2>. QED BY <2>5 DEF But
<1>5. CASE Reception(a) \/ Ouverture(a)
  <2>1. PICK d \in Lisibles(a) :
            handle_sale_init(a, d) \/ (ventes[a] = <<>> /\ handle_bid(a, d))
    BY <1>5 DEF Reception, Ouverture
  <2>2. d.m \in Corps
    <3>1. d.m \in Messages
      BY ReseauLu
    <3>2. d.m.code \in {8, 9}
      BY <2>1 DEF handle_sale_init, handle_bid
    <3>. QED BY <3>1, <3>2 DEF Messages
  <2>3. CASE handle_sale_init(a, d)
    <3>. DEFINE v == sale_init(d.m.numv, d.m.prix, d.m.id, Personne)
    <3>1. Ajoute(a, v) /\ d.m.code = 8
      BY <2>3 DEF handle_sale_init, Ajoute
    <3>2. v \in Fiches /\ v.numv = d.m.numv /\ v.prix = d.m.prix /\ v.sup = d.m.id
      BY <2>2 DEF sale_init, Fiches, Corps
    <3>. HIDE DEF v
    <3>3. But(v)
      BY <3>1, <3>2
    <3>. HIDE DEF But
    <3>4. But(ventes'[a][j])
      BY <1>2, <3>1, <3>2, <3>3
    <3>. QED BY <3>4 DEF But
  <2>4. CASE ventes[a] = <<>> /\ handle_bid(a, d)
    <3>. DEFINE v == sale_init(d.m.numv, d.m.prix, Personne, Personne)
    <3>1. ventes' = [ventes EXCEPT ![a] = <<v>>]
      BY <2>4 DEF handle_bid
    <3>2. v \in Fiches /\ v.sup = Personne
      BY <2>2 DEF sale_init, Fiches, Corps
    <3>. HIDE DEF v
    <3>3. Append(ventes[a], v) = <<v>>
      BY <2>4
    <3>4. Ajoute(a, v) /\ But(v)
      BY <3>1, <3>2, <3>3 DEF Ajoute
    <3>. HIDE DEF But
    <3>5. But(ventes'[a][j])
      BY <1>2, <3>2, <3>4
    <3>. QED BY <3>5 DEF But
  <2>. QED BY <2>1, <2>3, <2>4
<1>6. ASSUME NEW d \in Lisibles(a), Question(a, d) PROVE But(ventes'[a][j])
  <2>. DEFINE i == Rang(a, d.m)
              v == Suivie(ventes[a][i], d.m)
  <2>1. CASE UNCHANGED ventes
    BY <1>1, <2>1
  <2>2. CASE i # 0 /\ Change1(a, i, v)
    <3>1. i \in 1..Len(ventes[a]) /\ ventes[a][i] \in Fiches
      <4>. HIDE DEF v, i
      <4>. QED BY <2>2, SuiteChange
    <3>2. d.m \in Messages /\ d.m.code \in Demandes
      BY <1>6, ReseauLu, QuestionLue
    <3>3. CASE d.m.code = 10
      <4>1. d.m \in Corps
        BY <3>2, <3>3 DEF Messages
      <4>2. ventes[a][i].numv = d.m.numv
        BY <1>0, <2>2, <3>3, Trouvee DEF Rang
      <4>3. v.numv = d.m.numv /\ v.prix = d.m.prix
        BY <3>1, <3>3, <4>1, <4>2, FicheMiseAJour DEF Suivie
      <4>. HIDE DEF v, i
      <4>4. But(v)
        BY <1>6, <3>3, <4>3
      <4>. HIDE DEF But
      <4>. QED BY <1>3, <2>2, <4>4
    <3>4. CASE d.m.code # 10
      <4>1. v.numv = ventes[a][i].numv /\ v.prix = ventes[a][i].prix /\ v.sup = ventes[a][i].sup
        BY <3>1, <3>4, FicheMiseAJour DEF Suivie
      <4>. HIDE DEF v, i
      <4>2. But(v)
        BY <3>1, <4>1 DEF Ancienne
      <4>. HIDE DEF But
      <4>. QED BY <1>3, <2>2, <4>2
    <3>. QED BY <3>3, <3>4
  <2>. QED BY <1>6, <2>1, <2>2, QuestionFiche
<1>7. CASE Calme(a) \/ Appel(a) \/ \E d \in Lisibles(a) : RecoitAck(a, d)
  <2>1. UNCHANGED ventes
    BY <1>7 DEF Calme, Appel, RecoitAck, boucle
  <2>. QED BY <1>1, <2>1
<1>8. CASE Termine(a)
  <2>. DEFINE i == suite[a].rang
              v == IF suite[a].but = "enchere" THEN sale_update(ventes[a][i], copie[a].prix, copie[a].id)
                   ELSE sale_close(ventes[a][i])
  <2>1. CASE UNCHANGED ventes
    BY <1>1, <2>1
  <2>2. CASE ventes' # ventes
    <3>1. i \in 1..Len(ventes[a]) /\ suite[a].but \in {"enchere", "cloture"} /\ EnRonde(a)
          /\ (suite[a].but = "enchere" => copie[a] \in Corps)
      BY <1>8, <2>2, TermineVentes DEF Coherence, PairSur, SujetSur, EnRonde
    <3>2. \/ /\ suite[a].but = "enchere"
             /\ ventes' = [ventes EXCEPT ![a] = [@ EXCEPT ![i] =
                        sale_update(ventes[a][i], copie[a].prix, copie[a].id)]]
          \/ /\ suite[a].but = "cloture"
             /\ ventes' = [ventes EXCEPT ![a] = [@ EXCEPT ![i] = sale_close(ventes[a][i])]]
      BY <1>8, <2>2, TermineVentes
    <3>3. Change1(a, i, v)
      BY <3>1, <3>2 DEF Change1
    <3>4. ventes[a][i] \in Fiches
      BY <1>0, <3>1, ElementOfSeq
    <3>5. suite[a].but = "enchere" => ventes[a][i].sup = a
      BY <3>1 DEF Rondes, RondeExacte
    <3>6. \/ v.sup = a
          \/ v.numv = ventes[a][i].numv /\ v.prix = ventes[a][i].prix /\ v.sup = ventes[a][i].sup
      BY <3>1, <3>4, <3>5, FicheMiseAJour
    <3>. HIDE DEF v, i
    <3>7. But(v)
      BY <3>1, <3>6 DEF Ancienne
    <3>. HIDE DEF But
    <3>8. But(ventes'[a][j])
      BY <1>3, <3>3, <3>7
    <3>. QED BY <3>8 DEF But
  <2>. QED BY <2>1, <2>2
<1>. QED BY <1>4, <1>5, <1>6, <1>7, <1>8, Formes

\* What is known after the step of a price that q has for the sale n of s.
TenuApres(s, q, n, prix) ==
    /\ s \in Vivants' => \E j \in 1..Len(ventes'[s]) :
            ventes'[s][j].numv = n /\ prix <= PrixConnu(s, j)'
    /\ Actif(q)' => \A k \in 1..Len(net'[<<s, q>>]) :
            net'[<<s, q>>][k].code = 10 /\ net'[<<s, q>>][k].numv = n => prix <= net'[<<s, q>>][k].prix

LEMMA TenuReste ==
  ASSUME Coherence, Coherence', Rondes, Numerotation, NEW a \in Pairs, Etape(a), perdus' = {},
         NEW s \in Pairs, NEW q \in Pairs, s # q, NEW n, n[1] = s, NEW prix \in Nat,
         Tenu(s, q, n, prix)
  PROVE  TenuApres(s, q, n, prix)
<1>1. Seul(a) /\ Suite(a) /\ Depuis(a)
  BY SeulToujours, VentesEtape, FermeesDe, DepuisEtape
<1>2. (s \in Vivants' => s \in Vivants) /\ (Actif(q)' => Actif(q))
  <2>1. s # a => (s \in Vivants' <=> s \in Vivants)
    BY <1>1, ActifReste
  <2>. QED BY <1>1, <2>1, ActifReste DEF Seul
<1>3. ASSUME s \in Vivants'
      PROVE  \E j \in 1..Len(ventes'[s]) : ventes'[s][j].numv = n /\ prix <= PrixConnu(s, j)'
  <2>1. PICK j \in 1..Len(ventes[s]) : ventes[s][j].numv = n /\ prix <= PrixConnu(s, j)
    BY <1>2, <1>3 DEF Tenu
  <2>2. CASE s # a
    <3>1. UNCHANGED <<pc[s], ventes[s], suite[s], copie[s]>>
      BY <1>1, <2>2 DEF Seul
    <3>2. PrixConnu(s, j)' = PrixConnu(s, j)
      BY <3>1 DEF PrixConnu, EnRonde
    <3>. QED BY <2>1, <3>1, <3>2
  <2>3. CASE s = a
    <3>1. ventes[a][j].sup = a
      BY <2>1, <2>3 DEF Numerotation
    <3>2. PrixConnu(a, j) \in Nat /\ PrixConnu(a, j)' \in Nat /\ PrixConnu(a, j) <= PrixConnu(a, j)'
      BY <1>3, <2>1, <2>3, <3>1, PrixConnuMonte
    <3>3. prix <= PrixConnu(a, j)'
      BY <2>1, <2>3, <3>2
    <3>4. j \in 1..Len(ventes'[a]) /\ ventes'[a][j].numv = n
      <4>1. Len(ventes[a]) \in Nat /\ Len(ventes'[a]) \in Nat
        BY LenProperties DEF Coherence, Types
      <4>. QED BY <1>1, <2>1, <2>3, <4>1 DEF Suite
    <3>. QED BY <2>3, <3>3, <3>4
  <2>. QED BY <2>2, <2>3
<1>4. ASSUME Actif(q)', NEW k \in 1..Len(net'[<<s, q>>]),
             net'[<<s, q>>][k].code = 10, net'[<<s, q>>][k].numv = n
      PROVE  prix <= net'[<<s, q>>][k].prix
  <2>. DEFINE m == net'[<<s, q>>][k]
  <2>1. \/ \E i \in 1..Len(net[<<s, q>>]) : m = net[<<s, q>>][i]
        \/ s = a /\ Emis(a, m)
    BY <1>1, Provient
  <2>2. CASE \E i \in 1..Len(net[<<s, q>>]) : m = net[<<s, q>>][i]
    BY <1>2, <1>4, <2>2 DEF Tenu
  <2>3. CASE s = a /\ Emis(a, m)
    <3>0. m.code = 10 /\ m.numv = n
      BY <1>4
    <3>. HIDE DEF m
    <3>1. PICK t \in [but : {"enchere", "cloture", "depart"}, rang : Nat] : AppelDe(a, m, t)
      BY <2>3, <3>0 DEF Emis
    <3>2. t.but = "enchere"
      <4>1. t.but \in {"enchere", "cloture", "depart"}
        OBVIOUS
      <4>2. t.but # "depart" /\ t.but # "cloture"
        BY <3>0, <3>1 DEF AppelDe
      <4>. QED BY <4>1, <4>2
    <3>3. /\ HorsConsensus(a) /\ t.rang \in 1..Len(ventes[a]) /\ ventes[a][t.rang].numv = n
          /\ ventes[a][t.rang].prix < m.prix /\ m \in Corps
      BY <3>0, <3>1, <3>2 DEF AppelDe
    <3>4. a \in Vivants /\ ~EnRonde(a)
      BY <3>3 DEF HorsConsensus, Vivants, EnRonde
    <3>5. PICK j \in 1..Len(ventes[a]) : ventes[a][j].numv = n /\ prix <= PrixConnu(a, j)
      BY <2>3, <3>4 DEF Tenu
    <3>6. j = t.rang
      BY <2>3, <3>3, <3>5 DEF Numerotation
    <3>7. prix <= ventes[a][t.rang].prix
      BY <3>4, <3>5, <3>6 DEF PrixConnu
    <3>8. ventes[a][t.rang].prix \in Nat /\ m.prix \in Nat
      BY <3>3, PrixEntiers, PrixAssumption DEF Corps
    <3>9. prix <= m.prix
      BY <3>3, <3>7, <3>8
    <3>. QED BY <3>9 DEF m
  <2>. QED BY <2>1, <2>2, <2>3
<1>. QED BY <1>3, <1>4 DEF TenuApres

\* The numbers that a sale and its start bear.
LEMMA NumeroDuSuperviseur ==
  ASSUME Coherence, NEW q \in Pairs, NEW i \in 1..Len(ventes[q])
  PROVE  /\ ventes[q][i] \in Fiches /\ ventes[q][i].prix \in Nat
         /\ ventes[q][i].sup \in Pairs => ventes[q][i].numv[1] = ventes[q][i].sup
<1>1. ventes[q][i] \in Fiches /\ VenteSure(ventes[q][i])
  BY Inchangees, ElementOfSeq DEF Coherence, PairSur, VentesSures
<1>2. ventes[q][i].prix \in Nat
  BY <1>1, PrixAssumption DEF Fiches
<1>3. Personne \notin Pairs
  BY PairsAssumption
<1>. QED BY <1>1, <1>2, <1>3 DEF VenteSure

\* The same after a step.
LEMMA NumeroApres ==
  ASSUME Coherence', NEW q \in Pairs, NEW i \in 1..Len(ventes'[q])
  PROVE  /\ ventes'[q][i] \in Fiches /\ ventes'[q][i].prix \in Nat
         /\ ventes'[q][i].sup \in Pairs => ventes'[q][i].numv[1] = ventes'[q][i].sup
<1>1. ventes'[q][i] \in Fiches
  BY ElementOfSeq DEF Coherence, Types
<1>2. VenteSure(ventes'[q][i])
  BY DEF Coherence, PairSur, VentesSures, VenteSure
<1>3. ventes'[q][i].prix \in Nat
  BY <1>1, PrixAssumption DEF Fiches
<1>4. Personne \notin Pairs
  BY PairsAssumption
<1>. QED BY <1>1, <1>2, <1>3, <1>4 DEF VenteSure

LEMMA PrixEtape ==
  ASSUME Coherence, Coherence', Rondes, Numerotation, PrixSuivis,
         NEW a \in Pairs, Etape(a), perdus' = {}
  PROVE  PrixSuivis'
<1>1. Seul(a) /\ Depuis(a)
  BY SeulToujours, DepuisEtape
<1>2. ASSUME NEW s \in Pairs, NEW q \in Pairs, s # q, NEW i \in 1..Len(ventes[q]), ventes[q][i].sup = s
      PROVE  TenuApres(s, q, ventes[q][i].numv, ventes[q][i].prix)
  <2>1. Tenu(s, q, ventes[q][i].numv, ventes[q][i].prix)
    BY <1>2 DEF PrixSuivis
  <2>2. ventes[q][i].numv[1] = s /\ ventes[q][i].prix \in Nat
    BY <1>2, NumeroDuSuperviseur
  <2>. QED BY <1>2, <2>1, <2>2, TenuReste
<1>3. ASSUME NEW s \in Pairs, NEW q \in Pairs, s # q, NEW l \in 1..Len(net[<<s, q>>]),
             net[<<s, q>>][l].code = 8
      PROVE  TenuApres(s, q, net[<<s, q>>][l].numv, net[<<s, q>>][l].prix)
  <2>. DEFINE m == net[<<s, q>>][l]
  <2>1. Tenu(s, q, m.numv, m.prix)
    BY <1>3 DEF PrixSuivis
  <2>2. m \in Messages /\ DeLuiMeme(s, m) /\ m.code = 8
    BY <1>3, ElementOfSeq DEF Coherence, ReseauSur
  <2>. HIDE DEF m
  <2>3. m \in Corps /\ m.numv[1] = s
    BY <2>2 DEF Messages, DeLuiMeme
  <2>4. m.prix \in Nat
    BY <2>3, PrixAssumption DEF Corps
  <2>5. TenuApres(s, q, m.numv, m.prix)
    BY <1>3, <2>1, <2>3, <2>4, TenuReste
  <2>. QED BY <2>5 DEF m
<1>4. ASSUME NEW s \in Pairs, NEW q \in Pairs, s # q, NEW j \in 1..Len(ventes'[q]), ventes'[q][j].sup = s
      PROVE  TenuApres(s, q, ventes'[q][j].numv, ventes'[q][j].prix)
  <2>1. CASE q # a
    <3>1. ventes'[q] = ventes[q]
      BY <1>1, <2>1 DEF Seul
    <3>. QED BY <1>2, <1>4, <3>1
  <2>2. CASE q = a
    <3>. DEFINE v == ventes'[q][j]
    <3>1. CASE Ancienne(a, v)
      <4>1. PICK i \in 1..Len(ventes[q]) :
                ventes[q][i].numv = v.numv /\ ventes[q][i].prix = v.prix /\ ventes[q][i].sup = v.sup
        BY <2>2, <3>1 DEF Ancienne
      <4>2. TenuApres(s, q, ventes[q][i].numv, ventes[q][i].prix)
        BY <1>2, <1>4, <4>1
      <4>. QED BY <4>1, <4>2
    <3>2. ASSUME NEW d \in Lisibles(a), d.m.code = 8,
                 v.numv = d.m.numv, v.prix = d.m.prix, v.sup = d.m.id
          PROVE  TenuApres(s, q, v.numv, v.prix)
      <4>1. /\ d.src \in Pairs /\ d.k \in 1..Len(net[<<d.src, a>>]) /\ d.m = net[<<d.src, a>>][d.k]
            /\ DeLuiMeme(d.src, d.m)
        BY ReseauLu
      <4>2. d.src = s
        BY <1>4, <3>2, <4>1 DEF DeLuiMeme
      <4>3. TenuApres(s, q, net[<<s, q>>][d.k].numv, net[<<s, q>>][d.k].prix)
        BY <1>3, <1>4, <2>2, <3>2, <4>1, <4>2
      <4>. QED BY <2>2, <3>2, <4>1, <4>2, <4>3
    <3>3. ASSUME NEW d \in Lisibles(a), d.m.code = 10, Question(a, d),
                 v.numv = d.m.numv, v.prix = d.m.prix
          PROVE  TenuApres(s, q, v.numv, v.prix)
      <4>0. /\ d.src \in Pairs /\ d.src # a /\ d.k \in 1..Len(net[<<d.src, a>>])
            /\ d.m = net[<<d.src, a>>][d.k] /\ DeLuiMeme(d.src, d.m)
        BY ReseauLu
      <4>1. d.src = s
        <5>1. v.numv[1] = s
          BY <1>4, NumeroApres
        <5>. QED BY <3>3, <4>0, <5>1 DEF DeLuiMeme
      <4>2. HorsConsensus(a) /\ HorsConsensus(a)' /\ (net' = Lu(a, d) \/ net' = LuEtAccuse(a, d))
        BY <3>3, QuestionLue
      <4>3. Actif(a)
        BY <4>2 DEF Actif, Rondes, RondeExacte, HorsConsensus, Vivants
      <4>4. net'[<<s, a>>] = Lu(a, d)[<<s, a>>]
        BY <4>0, <4>1, <4>2, ReseauAccuse
      <4>5. AllerExact(s, a)
        BY <4>0, <4>1 DEF Rondes
      <4>6. Aucun(net'[<<s, a>>], Demandes)
        <5>1. AuPlusUn(net[<<s, a>>], Demandes) /\ d.m.code \in Demandes
          BY <3>3, <4>3, <4>5 DEF AllerExact, Demandes
        <5>2. Aucun(Lu(a, d)[<<s, a>>], Demandes)
          BY <4>1, <5>1, LuReduit
        <5>. QED BY <4>4, <5>2
      <4>7. ASSUME s \in Vivants'
            PROVE  \E r \in 1..Len(ventes'[s]) : ventes'[s][r].numv = v.numv /\ v.prix <= PrixConnu(s, r)'
        <5>1. s \in Vivants /\ UNCHANGED <<pc[s], ventes[s], suite[s], copie[s]>>
          BY <1>1, <4>0, <4>1, <4>7, ActifReste DEF Seul
        <5>2. EnRonde(s) /\ d.m = Sommet(s).m
          BY <3>3, <4>0, <4>1, <4>3, <4>5, <5>1 DEF AllerExact, Demandes
        <5>. DEFINE r == suite[s].rang
        <5>3. suite[s].but = "enchere" /\ d.m = copie[s] /\ ventes[s][r].numv = d.m.numv
          <6>1. RondeExacte(s) /\ suite[s].but \in {"rien", "enchere", "cloture", "depart"}
            BY DEF Rondes, Coherence, Types
          <6>. QED BY <3>3, <5>2, <6>1 DEF RondeExacte
        <5>4. r \in 1..Len(ventes[s])
          BY <5>2, <5>3 DEF Coherence, PairSur, SujetSur
        <5>5. PrixConnu(s, r)' = v.prix
          BY <3>3, <5>1, <5>2, <5>3 DEF PrixConnu, EnRonde
        <5>6. v.prix \in Nat
          BY NumeroApres
        <5>. QED BY <3>3, <5>1, <5>3, <5>4, <5>5, <5>6
      <4>. QED BY <2>2, <4>6, <4>7 DEF TenuApres, Aucun, Demandes
    <3>4. v.sup \notin {a, Personne}
      BY <1>4, <2>2, PairsAssumption
    <3>. QED BY <2>2, <3>1, <3>2, <3>3, <3>4, Origine
  <2>. QED BY <2>1, <2>2
<1>5. ASSUME NEW s \in Pairs, NEW q \in Pairs, s # q, NEW l \in 1..Len(net'[<<s, q>>]),
             net'[<<s, q>>][l].code = 8
      PROVE  TenuApres(s, q, net'[<<s, q>>][l].numv, net'[<<s, q>>][l].prix)
  <2>. DEFINE m == net'[<<s, q>>][l]
  <2>1. m \in Messages /\ m.code = 8
        /\ ((\E i \in 1..Len(net[<<s, q>>]) : m = net[<<s, q>>][i]) \/ (s = a /\ Emis(a, m)))
    BY <1>1, <1>5, Provient
  <2>2. CASE \E i \in 1..Len(net[<<s, q>>]) : m = net[<<s, q>>][i]
    BY <1>3, <1>5, <2>2
  <2>3. CASE s = a /\ Emis(a, m)
    <3>. HIDE DEF m
    <3>. DEFINE v == sale_init(m.numv, m.prix, a, Personne)
                c == Cardinality(Ventes(a))
    <3>1. m.numv = <<a, c + 1>> /\ Ajoute(a, v) /\ m \in Corps /\ HorsConsensus(a)' /\ HorsConsensus(a)
      <4>1. ~(\E t \in [but : {"enchere", "cloture", "depart"}, rang : Nat] : AppelDe(a, m, t))
        BY <2>1 DEF AppelDe, Demandes
      <4>. QED BY <2>1, <2>3, <4>1 DEF Emis
    <3>2. m.numv \in Numeros /\ m.prix \in Nat
      BY <3>1, PrixAssumption DEF Corps
    <3>3. v \in Fiches /\ v.numv = m.numv /\ v.prix = m.prix
      BY <3>1 DEF Corps, Fiches, sale_init
    <3>. HIDE DEF v
    <3>4. Len(ventes'[a]) = Len(ventes[a]) + 1 /\ Len(ventes[a]) \in Nat
          /\ ventes'[a][Len(ventes[a]) + 1] = v
      BY <3>1, <3>3, SuiteAjoute
    <3>. PICK r \in Nat : r = Len(ventes[a]) + 1
      BY <3>4
    <3>5. r \in 1..Len(ventes'[a]) /\ ventes'[a][r].numv = m.numv /\ m.prix <= PrixConnu(a, r)'
      <4>1. ~EnRonde(a)'
        BY <3>1 DEF HorsConsensus, EnRonde
      <4>2. PrixConnu(a, r)' = m.prix
        BY <3>3, <3>4, <4>1 DEF PrixConnu
      <4>. QED BY <3>2, <3>3, <3>4, <4>2
    <3>6. ASSUME NEW k \in 1..Len(net'[<<s, q>>]), net'[<<s, q>>][k].code = 10,
                 net'[<<s, q>>][k].numv = m.numv
          PROVE  FALSE
      <4>. DEFINE x == net'[<<s, q>>][k]
      <4>1. (\E i \in 1..Len(net[<<s, q>>]) : x = net[<<s, q>>][i]) \/ Emis(a, x)
        BY <1>1, <1>5, Provient
      <4>2. x.code = 10 /\ x.numv = m.numv
        BY <3>6
      <4>3. ~Connu(m.numv)
        <5>1. c \in Nat
          BY VentesFinies
        <5>. QED BY <3>1, <5>1 DEF Connu
      <4>4. CASE \E i \in 1..Len(net[<<s, q>>]) : x = net[<<s, q>>][i]
        <5>1. PICK i \in 1..Len(net[<<s, q>>]) : x = net[<<s, q>>][i]
          BY <4>4
        <5>2. Connu(x.numv)
          BY <4>2, <5>1 DEF Numerotation
        <5>. QED BY <4>2, <4>3, <5>2
      <4>5. CASE Emis(a, x)
        <5>. HIDE DEF x
        <5>1. \E t \in [but : {"enchere", "cloture", "depart"}, rang : Nat] : AppelDe(a, x, t)
          BY <4>2, <4>5 DEF Emis
        <5>2. EnRonde(a)'
          BY <5>1 DEF AppelDe, consensus, EnRonde, Coherence, Types
        <5>. QED BY <3>1, <5>2 DEF HorsConsensus, EnRonde
      <4>. QED BY <4>1, <4>4, <4>5
    <3>7. TenuApres(s, q, m.numv, m.prix)
      BY <2>3, <3>5, <3>6 DEF TenuApres
    <3>. QED BY <3>7 DEF m
  <2>. QED BY <2>1, <2>2, <2>3
<1>. QED BY <1>4, <1>5 DEF PrixSuivis, Tenu, TenuApres

\* As long as no round gave a peer up, no price that a peer has or is about to
\* have for a sale of another is above what its supervisor knows, or above a bid
\* on that sale that the peer is about to hear of (sale_process.c:178-231,
\* udp_message_recv.c:176-201).
THEOREM ToujoursPrix == Spec => []IInvPrix
<1>1. Init => IInvPrix
  <2>. SUFFICES ASSUME Init PROVE PrixSuivis
    BY DEF IInvPrix
  <2>1. \A p, q \in Pairs : Len(ventes[p]) = 0 /\ Len(net[<<p, q>>]) = 0
    BY DEF Init
  <2>2. 1..0 = {}
    OBVIOUS
  <2>. QED BY <2>1, <2>2 DEF PrixSuivis
<1>2. IInv /\ IInv' /\ IInvAccord /\ IInvPrix /\ [Next]_vars => IInvPrix'
  <2>1. ASSUME Coherence, Coherence', Accord, PrixSuivis, Next, perdus' = {} PROVE PrixSuivis'
    <3>1. PICK p \in Pairs : Etape(p)
      BY <2>1 DEF Next, Etape
    <3>. QED BY <2>1, <3>1, PrixEtape DEF Accord
  <2>2. ASSUME IInv, IInv', IInvAccord, IInvPrix, Next PROVE IInvPrix'
    BY <2>1, <2>2, PerdusRestent DEF IInv, IInvAccord, IInvPrix
  <2>3. ASSUME IInvPrix, UNCHANGED vars PROVE IInvPrix'
    <3>1. ASSUME PrixSuivis PROVE PrixSuivis'
      <4>1. \A s \in Pairs : /\ s \in Vivants' <=> s \in Vivants
                             /\ Actif(s)' <=> Actif(s)
                             /\ \A j : PrixConnu(s, j)' = PrixConnu(s, j)
        BY <2>3 DEF vars, Vivants, Actif, PrixConnu, EnRonde
      <4>2. ventes' = ventes /\ net' = net
        BY <2>3 DEF vars
      <4>3. ASSUME NEW s \in Pairs, NEW q \in Pairs, NEW n, NEW prix, Tenu(s, q, n, prix)
            PROVE  TenuApres(s, q, n, prix)
        BY <4>1, <4>2, <4>3 DEF Tenu, TenuApres
      <4>4. ASSUME NEW s \in Pairs, NEW q \in Pairs, s # q
            PROVE  /\ \A i \in 1..Len(ventes[q]) :
                        ventes[q][i].sup = s => TenuApres(s, q, ventes[q][i].numv, ventes[q][i].prix)
                   /\ \A l \in 1..Len(net[<<s, q>>]) : net[<<s, q>>][l].code = 8 =>
                        TenuApres(s, q, net[<<s, q>>][l].numv, net[<<s, q>>][l].prix)
        BY <3>1, <4>3, <4>4 DEF PrixSuivis
      <4>5. ASSUME NEW s \in Pairs, NEW q \in Pairs, s # q
            PROVE  /\ \A i \in 1..Len(ventes'[q]) :
                        ventes'[q][i].sup = s => TenuApres(s, q, ventes'[q][i].numv, ventes'[q][i].prix)
                   /\ \A l \in 1..Len(net'[<<s, q>>]) : net'[<<s, q>>][l].code = 8 =>
                        TenuApres(s, q, net'[<<s, q>>][l].numv, net'[<<s, q>>][l].prix)
        BY <4>2, <4>4, <4>5
      <4>. QED BY <4>5 DEF PrixSuivis, Tenu, TenuApres
    <3>. QED BY <2>3, <3>1 DEF IInvPrix, vars
  <2>. QED BY <2>2, <2>3
<1>. QED BY <1>1, <1>2, ToujoursIInv, ToujoursAccord, PTL DEF Spec

\* Giving peers up changes no sale.
LEMMA AbandonSansVente ==
  ASSUME NEW a \in Pairs, Etape(a), perdus' # perdus
  PROVE  UNCHANGED ventes
<1>1. CASE Commande(a)
  BY <1>1 DEF Commande, sale_start, encherir, quitter_enchere
<1>2. CASE Lecture(a)
  BY <1>2 DEF Lecture, handle_sale_init, handle_bid, handle_new_bid, handle_closure,
     handle_peer_departure, handle_disparition, OublieAck
<1>3. CASE Ecriture(a)
  BY <1>3 DEF Ecriture, alerte_fin_enchere, finalisation_enchere, verifier_enchere, RienAFaire
<1>4. CASE Attente(a)
  BY <1>4 DEF Attente, RecoitAck, RefuseEnchere, RecoitAutre, Expire
<1>5. CASE Relance(a)
  BY <1>5 DEF Relance, RelanceRepondue, disparition_peer_lambda, boucle
<1>6. CASE Temps(a) \/ Termine(a) \/ Panne(a) \/ \E d \in Lisibles(a) : Perte(a, d)
  BY <1>6 DEF Temps, Termine, Panne, Perte
<1>. QED BY <1>1, <1>2, <1>3, <1>4, <1>5, <1>6 DEF Etape

\* A bid that a peer reads is not below what it knows.
LEMMA PrixDesAutres ==
  ASSUME Coherence, Coherence', Rondes, Numerotation, PrixSuivis,
         NEW a \in Pairs, Etape(a), perdus' = {},
         NEW i \in 1..Len(ventes[a]), ventes[a][i].sup \in Pairs \ {a}
  PROVE  PrixGarde(ventes[a][i], ventes'[a][i])
<1>0. /\ Fermees(a) /\ i \in DOMAIN ventes[a] /\ ventes[a] \in Seq(Fiches)
      /\ ventes[a][i] \in Fiches /\ ventes[a][i].prix \in Nat
      /\ ventes[a][i].numv[1] = ventes[a][i].sup
  BY VentesEtape, FermeesDe, Inchangees, LenProperties, NumeroDuSuperviseur
<1>. DEFINE s == ventes[a][i].sup
<1>1. ASSUME ventes'[a][i].prix >= ventes[a][i].prix PROVE PrixGarde(ventes[a][i], ventes'[a][i])
  BY <1>0, <1>1 DEF PrixGarde, Fermees
<1>2. CASE UNCHANGED ventes
  <2>1. ventes'[a][i].prix >= ventes[a][i].prix
    BY <1>0, <1>2
  <2>. QED BY <1>1, <2>1
<1>3. ASSUME NEW r, NEW v, Change1(a, r, v), r = i => v.prix >= ventes[a][i].prix
      PROVE  PrixGarde(ventes[a][i], ventes'[a][i])
  <2>1. ventes'[a][i] = IF i = r THEN v ELSE ventes[a][i]
    BY <1>3, SuiteChange
  <2>2. ventes'[a][i].prix >= ventes[a][i].prix
    BY <1>0, <1>3, <2>1
  <2>. QED BY <1>1, <2>2
<1>4. CASE Debut(a) \/ Reception(a) \/ Ouverture(a)
  <2>1. UNCHANGED ventes \/ \E v \in Fiches : Ajoute(a, v)
    <3>1. UNCHANGED ventes \/ (\E v \in Fiches : Ajoute(a, v)) \/ \E r, v : Change1(a, r, v)
      BY VentesEtape
    <3>2. ASSUME NEW r, NEW v, Change1(a, r, v) PROVE FALSE
      <4>1. Len(ventes'[a]) = Len(ventes[a]) /\ Len(ventes[a]) \in Nat
        BY <1>0, <3>2, SuiteChange, LenProperties
      <4>2. \E w : ventes'[a] = Append(ventes[a], w)
        <5>1. CASE Debut(a)
          BY <5>1 DEF Debut, sale_start, Coherence, Types
        <5>2. CASE Reception(a)
          BY <5>2 DEF Reception, handle_sale_init, Coherence, Types
        <5>3. CASE Ouverture(a)
          <6>1. ventes[a] = <<>>
            BY <5>3 DEF Ouverture
          <6>. QED BY <1>0, <6>1
        <5>. QED BY <1>4, <5>1, <5>2, <5>3
      <4>. QED BY <1>0, <4>1, <4>2
    <3>. QED BY <3>1, <3>2
  <2>2. ASSUME NEW v \in Fiches, Ajoute(a, v) PROVE PrixGarde(ventes[a][i], ventes'[a][i])
    <3>1. ventes'[a][i] = ventes[a][i]
      BY <2>2, SuiteAjoute
    <3>2. ventes'[a][i].prix >= ventes[a][i].prix
      BY <1>0, <3>1
    <3>. QED BY <1>1, <3>2
  <2>. QED BY <1>2, <2>1, <2>2
<1>5. ASSUME NEW d \in Lisibles(a), Question(a, d)
      PROVE  PrixGarde(ventes[a][i], ventes'[a][i])
  <2>. DEFINE r == Rang(a, d.m)
              v == Suivie(ventes[a][r], d.m)
  <2>1. CASE r # 0 /\ Change1(a, r, v)
    <3>1. r = i => v.prix >= ventes[a][i].prix
      <4>. SUFFICES ASSUME r = i PROVE v.prix >= ventes[a][i].prix
        OBVIOUS
      <4>1. /\ d.src \in Pairs /\ d.src # a /\ d.k \in 1..Len(net[<<d.src, a>>])
            /\ d.m = net[<<d.src, a>>][d.k] /\ DeLuiMeme(d.src, d.m) /\ d.m \in Messages
        BY ReseauLu
      <4>2. CASE d.m.code = 10
        <5>1. d.m \in Corps
          BY <4>1, <4>2 DEF Messages
        <5>2. ventes[a][i].numv = d.m.numv
          BY <1>0, <2>1, <4>2, Trouvee DEF Rang
        <5>3. v.prix = d.m.prix
          BY <1>0, <4>2, <5>1, FicheMiseAJour DEF Suivie
        <5>4. d.src = s
          BY <1>0, <4>1, <4>2, <5>2 DEF DeLuiMeme
        <5>5. Actif(a)
          <6>1. HorsConsensus(a)
            BY <1>5, QuestionLue
          <6>. QED BY <6>1 DEF Actif, Rondes, RondeExacte, HorsConsensus, Vivants
        <5>6. Tenu(s, a, ventes[a][i].numv, ventes[a][i].prix)
          BY DEF PrixSuivis
        <5>7. ventes[a][i].prix <= d.m.prix /\ d.m.prix \in Nat
          <6>1. ventes[a][i].prix <= net[<<s, a>>][d.k].prix
            BY <4>1, <4>2, <5>2, <5>4, <5>5, <5>6 DEF Tenu
          <6>. QED BY <4>1, <5>1, <5>4, <6>1, PrixAssumption DEF Corps
        <5>. HIDE DEF v
        <5>. QED BY <1>0, <5>3, <5>7
      <4>3. CASE d.m.code # 10
        <5>1. v.prix = ventes[a][i].prix
          BY <1>0, <4>3, FicheMiseAJour DEF Suivie
        <5>. HIDE DEF v
        <5>. QED BY <1>0, <5>1
      <4>. QED BY <4>2, <4>3
    <3>. HIDE DEF r, v
    <3>. QED BY <1>3, <2>1, <3>1
  <2>. QED BY <1>2, <1>5, <2>1, QuestionFiche
<1>6. CASE Calme(a) \/ Appel(a) \/ \E d \in Lisibles(a) : RecoitAck(a, d)
  <2>1. UNCHANGED ventes
    BY <1>6 DEF Calme, Appel, RecoitAck, boucle
  <2>. QED BY <1>2, <2>1
<1>7. CASE Termine(a) /\ ventes' # ventes
  <2>. DEFINE r == suite[a].rang
  <2>1. /\ EnRonde(a) /\ r \in 1..Len(ventes[a]) /\ suite[a].but \in {"enchere", "cloture"}
        /\ suite[a].but = "enchere" => copie[a] \in Corps
    BY <1>7, TermineVentes DEF Coherence, PairSur, SujetSur, EnRonde
  <2>2. CASE suite[a].but = "enchere"
    <3>. DEFINE v == sale_update(ventes[a][r], copie[a].prix, copie[a].id)
    <3>1. Change1(a, r, v)
      BY <1>7, <2>1, <2>2, TermineVentes DEF Change1
    <3>2. r # i
      BY <2>1, <2>2 DEF Rondes, RondeExacte
    <3>. HIDE DEF v, r
    <3>. QED BY <1>3, <3>1, <3>2
  <2>3. CASE suite[a].but = "cloture"
    <3>. DEFINE v == sale_close(ventes[a][r])
    <3>1. Change1(a, r, v)
      BY <1>7, <2>1, <2>3, TermineVentes DEF Change1
    <3>2. r = i => v.prix = ventes[a][i].prix
      BY <1>0, FicheMiseAJour
    <3>3. r = i => v.prix >= ventes[a][i].prix
      <4>. HIDE DEF v
      <4>. QED BY <1>0, <3>2
    <3>. HIDE DEF v, r
    <3>. QED BY <1>3, <3>1, <3>3
  <2>. QED BY <2>1, <2>2, <2>3
<1>. QED BY <1>2, <1>4, <1>5, <1>6, <1>7, Formes

\* As long as no round gave a peer up, no step lowers the price that any peer
\* has for a sale whose supervisor it knows, nor opens the sale again: a bid is
\* never read after a higher one on the same sale, in whatever order datagrams
\* arrive (sale_process.c:189, udp_message_recv.c:176-254).
THEOREM PrixSansAbandon ==
  Spec => [][perdus = {} => \A p \in Pairs : \A i \in DOMAIN ventes[p] :
                ventes[p][i].sup # Personne => PrixGarde(ventes[p][i], ventes'[p][i])]_vars
<1>. DEFINE A == perdus = {} => \A p \in Pairs : \A i \in DOMAIN ventes[p] :
                    ventes[p][i].sup # Personne => PrixGarde(ventes[p][i], ventes'[p][i])
<1>1. IInv /\ IInv' /\ IInvAccord /\ IInvPrix /\ [Next]_vars => [A]_vars
  <2>. SUFFICES ASSUME Coherence, perdus' = {} => Coherence', Rondes, Numerotation, PrixSuivis,
                       Next, perdus = {}, NEW p \in Pairs, NEW i \in 1..Len(ventes[p]),
                       ventes[p][i].sup # Personne
                PROVE  PrixGarde(ventes[p][i], ventes'[p][i])
    <3>1. Coherence => \A p \in Pairs : DOMAIN ventes[p] = 1..Len(ventes[p])
      BY LenProperties DEF Coherence, Types
    <3>. QED BY <3>1 DEF IInv, IInvAccord, IInvPrix, Accord
  <2>1. PICK a \in Pairs : Etape(a)
    BY DEF Next, Etape
  <2>2. ventes[p][i] \in Fiches /\ ventes[p][i].prix \in Nat
    BY NumeroDuSuperviseur
  <2>3. CASE ventes'[p] = ventes[p]
    BY <2>2, <2>3 DEF PrixGarde
  <2>4. CASE perdus' # {}
    BY <2>1, <2>3, <2>4, AbandonSansVente
  <2>5. CASE perdus' = {} /\ p # a
    BY <2>1, <2>3, <2>5, SeulToujours DEF Seul
  <2>6. CASE perdus' = {} /\ p = a /\ ventes[p][i].sup = a
    <3>1. PrixPropres(a)
      BY PrixPropresEtape
    <3>2. i \in DOMAIN ventes[p]
      BY LenProperties DEF Coherence, Types
    <3>. QED BY <2>6, <3>1, <3>2 DEF PrixPropres
  <2>7. CASE perdus' = {} /\ p = a /\ ventes[p][i].sup # a
    <3>1. ventes[p][i].sup \in Pairs \ {a}
      BY <2>2, <2>7 DEF Fiches
    <3>. QED BY <2>1, <2>7, <3>1, PrixDesAutres
  <2>. QED BY <2>4, <2>5, <2>6, <2>7
<1>. QED BY <1>1, ToujoursIInv, ToujoursAccord, ToujoursPrix, PTL DEF Spec
-----------------------------------------------------------------------------
(* The copies.                                                               *)

\* What q finds under the number n.
Voit(q, n, w) == find_sale(n, ventes[q]) # 0 /\ ventes[q][find_sale(n, ventes[q])] = w
VoitApres(q, n, w) == find_sale(n, ventes'[q]) # 0 /\ ventes'[q][find_sale(n, ventes'[q])] = w

LEMMA VoitFiche ==
  ASSUME Coherence, NEW q \in Pairs, NEW n, NEW w, Voit(q, n, w)
  PROVE  /\ w \in Fiches /\ w.numv = n
         /\ find_sale(n, ventes[q]) \in 1..Len(ventes[q])
<1>1. ventes[q] \in Seq(Fiches)
  BY Inchangees
<1>. QED BY <1>1, RangTrouve, Trouvee DEF Voit

\* A new sale hides none, and is seen when it was not known.
LEMMA VueAjoute ==
  ASSUME Coherence, NEW a \in Pairs, NEW v \in Fiches, Ajoute(a, v),
         NEW n, NEW w, VoitApres(a, n, w)
  PROVE  Voit(a, n, w) \/ (w = v /\ v.numv = n)
<1>. DEFINE l == ventes[a]
            k == ventes'[a]
            i == find_sale(n, k)
<1>1. l \in Seq(Fiches) /\ k = Append(l, v)
  BY DEF Ajoute, Coherence, Types
<1>2. Len(l) \in Nat /\ (\A j \in 1..Len(l) : k[j] = l[j]) /\ k[Len(l) + 1] = v /\ k \in Seq(Fiches)
  BY <1>1, AppendProperties, LenProperties
<1>3. i # 0 /\ k[i] = w
  BY DEF VoitApres
<1>. HIDE DEF l
<1>4. IF find_sale(n, l) # 0 THEN find_sale(n, k) = find_sale(n, l)
      ELSE find_sale(n, k) # 0 => find_sale(n, k) = Len(l) + 1
  BY <1>1, TrouveeApresAjout
<1>. HIDE DEF k
<1>5. CASE find_sale(n, l) # 0
  <2>1. i = find_sale(n, l) /\ i \in 1..Len(l)
    BY <1>1, <1>4, <1>5, RangTrouve
  <2>2. l[i] = w
    BY <1>2, <1>3, <2>1
  <2>. QED BY <1>5, <2>1, <2>2 DEF Voit, l
<1>6. CASE find_sale(n, l) = 0
  <2>1. i = Len(l) + 1
    BY <1>3, <1>4, <1>6
  <2>2. w = v /\ w.numv = n
    BY <1>2, <1>3, <2>1, Trouvee
  <2>. QED BY <2>2
<1>. QED BY <1>5, <1>6

\* A change is seen under the number of the sale that changed.
LEMMA VueChange ==
  ASSUME Coherence, NEW a \in Pairs, NEW i, NEW v, Change1(a, i, v),
         NEW n, NEW w, VoitApres(a, n, w)
  PROVE  IF find_sale(n, ventes[a]) = i THEN w = v /\ Voit(a, n, ventes[a][i]) ELSE Voit(a, n, w)
<1>1. /\ \A j \in 1..Len(ventes[a]) : ventes'[a][j] = IF j = i THEN v ELSE ventes[a][j]
      /\ \A m : find_sale(m, ventes'[a]) = find_sale(m, ventes[a])
  BY SuiteChange
<1>2. ventes[a] \in Seq(Fiches)
  BY Inchangees
<1>3. find_sale(n, ventes[a]) \in 1..Len(ventes[a])
  BY <1>1, <1>2, RangTrouve DEF VoitApres
<1>. QED BY <1>1, <1>3 DEF Voit, VoitApres

\* Who closes a sale is its supervisor.
LEMMA ClotureDuSien ==
  ASSUME Coherence, Numerotation, ClotureParSuperviseur, NEW a \in Pairs
  PROVE  /\ \A d \in Lisibles(a) : d.m.code = 12 => d.m.numv[1] = d.src
         /\ \A x \in annonces : x.auteur = a =>
                \A i \in 1..Len(ventes[a]) : ventes[a][i].numv = x.numv => ventes[a][i].sup = a
<1>1. ASSUME NEW d \in Lisibles(a), d.m.code = 12 PROVE d.m.numv[1] = d.src
  <2>1. d.src \in Pairs /\ d.k \in 1..Len(net[<<d.src, a>>]) /\ d.m = net[<<d.src, a>>][d.k]
    BY ReseauLu
  <2>. DEFINE m == net[<<d.src, a>>][d.k]
  <2>2. m.code = 12 => \E x \in annonces : x.auteur = d.src /\ x.numv = m.numv
    BY <2>1 DEF Numerotation
  <2>3. m = d.m
    BY <2>1
  <2>. HIDE DEF m
  <2>4. PICK x \in annonces : x.auteur = d.src /\ x.numv = d.m.numv
    BY <1>1, <2>2, <2>3
  <2>. QED BY <2>4 DEF ClotureParSuperviseur
<1>2. ASSUME NEW x \in annonces, x.auteur = a, NEW i \in 1..Len(ventes[a]), ventes[a][i].numv = x.numv
      PROVE  ventes[a][i].sup = a
  BY <1>2 DEF Numerotation, ClotureParSuperviseur
<1>. QED BY <1>1, <1>2

\* What is read of another peer changes one of its sales, or hides nothing.
LEMMA QuestionDuSien ==
  ASSUME Coherence, Numerotation, ClotureParSuperviseur, NEW a \in Pairs,
         NEW d \in Lisibles(a), Question(a, d), Rang(a, d.m) # 0
  PROVE  /\ Rang(a, d.m) \in 1..Len(ventes[a])
         /\ ventes[a][Rang(a, d.m)].sup \in {d.src, Personne}
         /\ d.m.code \in {10, 12} => /\ ventes[a][Rang(a, d.m)].numv = d.m.numv
                                     /\ Rang(a, d.m) = find_sale(d.m.numv, ventes[a])
                                     /\ d.m.numv[1] = d.src
<1>. DEFINE r == Rang(a, d.m)
<1>0. ventes[a] \in Seq(Fiches) /\ d.m.code \in Demandes /\ DeLuiMeme(d.src, d.m)
  BY Inchangees, QuestionLue, ReseauLu
<1>1. CASE d.m.code \in {10, 12}
  <2>1. r = find_sale(d.m.numv, ventes[a])
    BY <1>1 DEF Rang
  <2>2. r \in 1..Len(ventes[a]) /\ ventes[a][r].numv = d.m.numv
    BY <1>0, <2>1, RangTrouve, Trouvee
  <2>3. d.m.numv[1] = d.src
    BY <1>0, <1>1, ClotureDuSien DEF DeLuiMeme
  <2>4. VenteSure(ventes[a][r])
    BY <2>2 DEF Coherence, PairSur, VentesSures
  <2>. QED BY <2>1, <2>2, <2>3, <2>4 DEF VenteSure
<1>2. CASE d.m.code = 13
  <2>1. r = is_superv(d.m.id, ventes[a])
    BY <1>2 DEF Rang
  <2>2. r \in 1..Len(ventes[a]) /\ ventes[a][r].sup = d.m.id
    BY <1>0, <2>1, RangSuperviseur
  <2>. QED BY <1>0, <1>2, <2>2 DEF DeLuiMeme
<1>. QED BY <1>0, <1>1, <1>2 DEF Demandes

\* What q sees of the sale i of s is w.
Exacte(s, q, i, w) ==
    \/ w = ventes[s][i] /\ ~(EnRonde(s) /\ suite[s].rang = i /\ Repondu(s, q))
    \/ EnRonde(s) /\ suite[s].rang = i /\ w = Effet(s, ventes[s][i])

LEMMA CopieAvant ==
  ASSUME NEW s \in Pairs, NEW q \in Pairs, CopieExacte(s, q), NEW i \in 1..Len(ventes[s]),
         ventes[s][i].sup = s, NEW w, Voit(q, ventes[s][i].numv, w), w.sup = s
  PROVE  Exacte(s, q, i, w)
BY DEF CopieExacte, Exacte, Voit

LEMMA CopieApres ==
  ASSUME NEW s \in Pairs, NEW q \in Pairs,
         \A i \in 1..Len(ventes'[s]) : \A w :
            ventes'[s][i].sup = s /\ VoitApres(q, ventes'[s][i].numv, w) /\ w.sup = s
                => Exacte(s, q, i, w)'
  PROVE  CopieExacte(s, q)'
BY DEF CopieExacte, Exacte, VoitApres

\* The starts of sales in the channel t of p, whose list is l.
Debuts(p, l, t) == \A k \in 1..Len(t) : t[k].code = 8 =>
    /\ \E i \in 1..Len(l) : l[i] = sale_init(t[k].numv, t[k].prix, p, Personne)
    /\ \A j \in 1..(k - 1) : t[j].code \notin Demandes

LEMMA DebutAvant ==
  ASSUME NEW s \in Pairs, NEW q \in Pairs, DebutExact(s, q)
  PROVE  /\ Debuts(s, ventes[s], net[<<s, q>>])
         /\ EnRonde(s) /\ Repondu(s, q) => Aucun(net[<<s, q>>], {8})
BY DEF DebutExact, Debuts

LEMMA DebutApres ==
  ASSUME NEW s \in Pairs, NEW q \in Pairs, Debuts(s, ventes'[s], net'[<<s, q>>]),
         EnRonde(s)' /\ Repondu(s, q)' => Aucun(net'[<<s, q>>], {8})
  PROVE  DebutExact(s, q)'
BY DEF DebutExact, Debuts

LEMMA DebutsRetrait ==
  ASSUME NEW p, NEW l, NEW s \in Seq(Messages), NEW t, Extrait(t, s), ~Desordre, Debuts(p, l, s)
  PROVE  Debuts(p, l, t)
<1>1. CASE t = s
  BY <1>1
<1>2. CASE 1 \in 1..Len(s) /\ t = RemoveAt(s, 1)
  <2>1. /\ Len(s) \in Nat /\ Len(t) = Len(s) - 1
        /\ \A j \in 1..(Len(s) - 1) : t[j] = s[j + 1]
    <3>1. /\ Len(s) \in Nat /\ Len(t) = Len(s) - 1
          /\ \A j \in 1..(Len(s) - 1) : t[j] = IF j < 1 THEN s[j] ELSE s[j + 1]
      BY <1>2, RetraitExact, LenProperties
    <3>. QED BY <3>1
  <2>2. ASSUME NEW k \in 1..Len(t), t[k].code = 8
        PROVE  /\ \E i \in 1..Len(l) : l[i] = sale_init(t[k].numv, t[k].prix, p, Personne)
               /\ \A j \in 1..(k - 1) : t[j].code \notin Demandes
    <3>1. k + 1 \in 1..Len(s) /\ t[k] = s[k + 1]
      BY <2>1
    <3>2. /\ \E i \in 1..Len(l) : l[i] = sale_init(s[k + 1].numv, s[k + 1].prix, p, Personne)
          /\ \A j \in 1..((k + 1) - 1) : s[j].code \notin Demandes
      BY <2>2, <3>1 DEF Debuts
    <3>3. ASSUME NEW j \in 1..(k - 1) PROVE t[j].code \notin Demandes
      <4>1. j + 1 \in 1..((k + 1) - 1) /\ t[j] = s[j + 1]
        BY <2>1
      <4>. QED BY <3>2, <4>1
    <3>. QED BY <3>1, <3>2, <3>3
  <2>. QED BY <2>2 DEF Debuts
<1>. QED BY <1>1, <1>2 DEF Extrait

LEMMA DebutsAjout ==
  ASSUME NEW p, NEW l, NEW s \in Seq(Messages), Debuts(p, l, s), NEW m \in Messages,
         m.code = 8 => /\ \E i \in 1..Len(l) : l[i] = sale_init(m.numv, m.prix, p, Personne)
                       /\ Aucun(s, Demandes)
  PROVE  Debuts(p, l, Append(s, m))
<1>. DEFINE t == Append(s, m)
<1>1. /\ Len(s) \in Nat /\ Len(t) = Len(s) + 1 /\ t[Len(s) + 1] = m
      /\ \A i \in 1..Len(s) : t[i] = s[i]
  BY AppendProperties, LenProperties
<1>. HIDE DEF t
<1>2. ASSUME NEW k \in 1..Len(t), t[k].code = 8
      PROVE  /\ \E i \in 1..Len(l) : l[i] = sale_init(t[k].numv, t[k].prix, p, Personne)
             /\ \A j \in 1..(k - 1) : t[j].code \notin Demandes
  <2>0. \A j \in 1..(k - 1) : j \in 1..Len(s) /\ t[j] = s[j]
    BY <1>1
  <2>1. CASE k \in 1..Len(s)
    <3>1. t[k] = s[k]
      BY <1>1, <2>1
    <3>. QED BY <1>2, <2>0, <2>1, <3>1 DEF Debuts
  <2>2. CASE k = Len(s) + 1
    <3>1. t[k] = m
      BY <1>1, <2>2
    <3>. QED BY <1>2, <2>0, <3>1 DEF Aucun
  <2>. QED BY <1>1, <2>1, <2>2
<1>. QED BY <1>2 DEF Debuts, t

\* The sales of p are those of its list.
LEMMA DebutsVentes ==
  ASSUME NEW p, NEW l, NEW s, Debuts(p, l, s), NEW k,
         \A i \in 1..Len(l) : l[i].sup = p => i \in 1..Len(k) /\ k[i] = l[i]
  PROVE  Debuts(p, k, s)
<1>1. ASSUME NEW n, NEW prix, NEW i \in 1..Len(l), l[i] = sale_init(n, prix, p, Personne)
      PROVE  i \in 1..Len(k) /\ k[i] = sale_init(n, prix, p, Personne)
  BY <1>1 DEF sale_init
<1>. QED BY <1>1 DEF Debuts

\* A step acknowledges nothing but what it reads in a question.
LEMMA SansAccuse ==
  ASSUME Coherence, Numerotation, NEW a \in Pairs, Etape(a), perdus' = {}, NEW r \in Pairs, r # a,
         \A d \in Lisibles(a) : Question(a, d) => d.src # r
  PROVE  Reduit(net'[<<a, r>>], net[<<a, r>>], Accuse)
<1>0. net[<<a, r>>] \in Seq(Messages) /\ Reduit(net[<<a, r>>], net[<<a, r>>], Accuse)
  BY ReduitSoi DEF Coherence, ReseauSur
<1>1. CASE Calme(a)
  <2>. DEFINE s == net[<<a, r>>]
              t == net'[<<a, r>>]
  <2>0. 9 \notin Accuse
    BY DEF Accuse
  <2>1. Mise(t, s)
    BY <1>1 DEF Calme
  <2>2. s \in Seq(Messages)
    BY <1>0
  <2>. HIDE DEF s, t
  <2>3. Reduit(t, s, Accuse)
    BY <2>0, <2>1, <2>2, MiseReduit
  <2>. QED BY <2>3 DEF s, t
<1>2. ASSUME NEW m \in Messages, m.code # 1, net' = Diffuse(a, m)
      PROVE  Reduit(net'[<<a, r>>], net[<<a, r>>], Accuse)
  <2>1. \A q, u \in Pairs : Reduit(Diffuse(a, m)[<<q, u>>], net[<<q, u>>], Accuse)
    BY <1>2, DiffuseReduit DEF Accuse
  <2>. QED BY <1>2, <2>1
<1>3. ASSUME NEW d \in Lisibles(a), net' = Lu(a, d)
      PROVE  Reduit(net'[<<a, r>>], net[<<a, r>>], Accuse)
  <2>1. Lu(a, d)[<<a, r>>] = net[<<a, r>>]
    BY LuExtrait
  <2>. QED BY <1>0, <1>3, <2>1
<1>4. CASE Debut(a)
  <2>1. PICK prix \in Bases : peer_list_find(liste[a], a) /\ sale_start(a, prix)
    BY <1>4 DEF Debut
  <2>. DEFINE n == <<a, Cardinality(Ventes(a)) + 1>>
              m == [code |-> 8, id |-> a, numv |-> n, prix |-> prix]
  <2>2. net' = Diffuse(a, m) /\ m.code # 1
    BY <2>1 DEF sale_start
  <2>3. m \in Messages
    BY <2>1, DebutMessage
  <2>. HIDE DEF m
  <2>. QED BY <1>2, <2>2, <2>3
<1>5. CASE Reception(a) \/ Ouverture(a)
  BY <1>3, <1>5 DEF Reception, Ouverture, handle_sale_init, handle_bid
<1>6. ASSUME NEW d \in Lisibles(a), Question(a, d)
      PROVE  Reduit(net'[<<a, r>>], net[<<a, r>>], Accuse)
  <2>1. net' = Lu(a, d) \/ net' = LuEtAccuse(a, d)
    BY <1>6, QuestionLue
  <2>2. CASE net' = LuEtAccuse(a, d)
    <3>1. d.src # r
      BY <1>6
    <3>2. LuEtAccuse(a, d)[<<a, r>>] = Lu(a, d)[<<a, r>>]
      BY <3>1, ReseauAccuse
    <3>3. Lu(a, d)[<<a, r>>] = net[<<a, r>>]
      BY LuExtrait
    <3>. QED BY <1>0, <2>2, <3>2, <3>3
  <2>. QED BY <1>3, <2>1, <2>2
<1>7. CASE Appel(a)
  <2>1. PICK m \in Messages, s \in [but : {"enchere", "cloture", "depart"}, rang : Nat] :
            AppelDe(a, m, s)
    BY <1>7, AppelDonnees
  <2>2. net' = net \/ net' = Diffuse(a, m)
    BY <2>1 DEF AppelDe, consensus, Envoi
  <2>3. m.code # 1
    BY <2>1 DEF AppelDe, Demandes
  <2>. QED BY <1>0, <1>2, <2>2, <2>3
<1>8. ASSUME NEW d \in Lisibles(a), RecoitAck(a, d)
      PROVE  Reduit(net'[<<a, r>>], net[<<a, r>>], Accuse)
  BY <1>3, <1>8 DEF RecoitAck
<1>9. CASE Termine(a)
  BY <1>0, <1>9, TermineVentes
<1>. QED BY <1>1, <1>4, <1>5, <1>6, <1>7, <1>8, <1>9, Formes

\* A step of the peer that has the copies: what it sees anew is the sale itself,
\* whose start it reads.
LEMMA CopieLue ==
  ASSUME NEW a \in Pairs, Seul(a), NEW s \in Pairs, s # a, CopieExacte(s, a),
         Reduit(net'[<<a, s>>], net[<<a, s>>], Accuse),
         \A i \in 1..Len(ventes[s]) : \A w :
            ventes[s][i].sup = s /\ VoitApres(a, ventes[s][i].numv, w) /\ w.sup = s =>
                \/ Voit(a, ventes[s][i].numv, w)
                \/ w = ventes[s][i] /\ ~(EnRonde(s) /\ Repondu(s, a))
  PROVE  CopieExacte(s, a)'
<1>1. /\ ventes'[s] = ventes[s] /\ suite'[s] = suite[s] /\ copie'[s] = copie[s]
      /\ frames'[s] = frames[s] /\ pc'[s] = pc[s]
  BY DEF Seul
<1>2. Repondu(s, a)' => Repondu(s, a)
  <2>1. Sommet(s)' = Sommet(s)
    BY <1>1 DEF Sommet, Profondeur
  <2>2. Aucun(net[<<a, s>>], Accuse) => Aucun(net'[<<a, s>>], Accuse)
    BY ReduitAucun
  <2>. QED BY <2>1, <2>2 DEF Repondu
<1>3. EnRonde(s)' <=> EnRonde(s)
  BY <1>1 DEF EnRonde
<1>4. ASSUME NEW i \in 1..Len(ventes'[s]), NEW w,
             ventes'[s][i].sup = s, VoitApres(a, ventes'[s][i].numv, w), w.sup = s
      PROVE  Exacte(s, a, i, w)'
  <2>1. /\ i \in 1..Len(ventes[s]) /\ ventes[s][i].sup = s
        /\ VoitApres(a, ventes[s][i].numv, w)
    BY <1>1, <1>4
  <2>2. Effet(s, ventes[s][i])' = Effet(s, ventes[s][i])
    BY <1>1 DEF Effet
  <2>3. Exacte(s, a, i, w) => Exacte(s, a, i, w)'
    BY <1>1, <1>2, <1>3, <2>2 DEF Exacte
  <2>4. CASE Voit(a, ventes[s][i].numv, w)
    BY <1>4, <2>1, <2>3, <2>4, CopieAvant
  <2>5. CASE w = ventes[s][i] /\ ~(EnRonde(s) /\ Repondu(s, a))
    BY <2>3, <2>5 DEF Exacte
  <2>. QED BY <1>4, <2>1, <2>4, <2>5
<1>. QED BY <1>4, CopieApres

LEMMA DebutLu ==
  ASSUME Coherence, ~Desordre, NEW a \in Pairs, Seul(a), NEW s \in Pairs, s # a, DebutExact(s, a),
         Extrait(net'[<<s, a>>], net[<<s, a>>]),
         \/ Reduit(net'[<<a, s>>], net[<<a, s>>], Accuse)
         \/ \E d \in Lisibles(a) : d.src = s /\ d.m.code \in Demandes
  PROVE  DebutExact(s, a)'
<1>1. ventes'[s] = ventes[s] /\ frames'[s] = frames[s] /\ pc'[s] = pc[s]
  BY DEF Seul
<1>. DEFINE c == net[<<s, a>>]
            t == net'[<<s, a>>]
<1>2. c \in Seq(Messages) /\ Debuts(s, ventes[s], c) /\ Extrait(t, c)
      /\ (EnRonde(s) /\ Repondu(s, a) => Aucun(c, {8}))
  BY DebutAvant DEF Coherence, ReseauSur
<1>. HIDE DEF c, t
<1>3. Debuts(s, ventes[s], t)
  BY <1>2, DebutsRetrait
<1>4. Aucun(c, {8}) => Aucun(t, {8})
  <2>1. Reduit(t, c, {8})
    BY <1>2, ExtraitReduit
  <2>. QED BY <2>1, ReduitAucun
<1>5. EnRonde(s)' /\ Repondu(s, a)' => Aucun(c, {8})
  <2>1. CASE Reduit(net'[<<a, s>>], net[<<a, s>>], Accuse)
    <3>1. Sommet(s)' = Sommet(s) /\ (EnRonde(s)' <=> EnRonde(s))
      BY <1>1 DEF Sommet, Profondeur, EnRonde
    <3>2. Aucun(net[<<a, s>>], Accuse) => Aucun(net'[<<a, s>>], Accuse)
      BY <2>1, ReduitAucun
    <3>. QED BY <1>2, <3>1, <3>2 DEF Repondu
  <2>2. ASSUME NEW d \in Lisibles(a), d.src = s, d.m.code \in Demandes PROVE Aucun(c, {8})
    <3>1. 1 \in 1..Len(c) /\ c[1].code \in Demandes
      <4>1. d.k \in 1..Len(c) /\ d.m = c[d.k] /\ d.k = 1
        BY <2>2, ReseauLu DEF c
      <4>. QED BY <2>2, <4>1
    <3>2. ASSUME NEW k \in 1..Len(c), c[k].code = 8 PROVE FALSE
      <4>1. k # 1
        BY <3>1, <3>2 DEF Demandes
      <4>2. 1 \in 1..(k - 1)
        BY <4>1
      <4>. QED BY <1>2, <3>1, <3>2, <4>2 DEF Debuts
    <3>. QED BY <3>2 DEF Aucun
  <2>. QED BY <2>1, <2>2
<1>6. Debuts(s, ventes'[s], net'[<<s, a>>])
      /\ (EnRonde(s)' /\ Repondu(s, a)' => Aucun(net'[<<s, a>>], {8}))
  BY <1>1, <1>3, <1>4, <1>5 DEF t
<1>. QED BY <1>6, DebutApres

\* The sales that a starts, and those that it hears of.
LEMMA VenteDebut ==
  ASSUME Coherence, NEW a \in Pairs, Debut(a)
  PROVE  \E m \in Messages :
            LET v == sale_init(m.numv, m.prix, a, Personne) IN
            /\ m.code = 8 /\ m.numv = <<a, Cardinality(Ventes(a)) + 1>> /\ net' = Diffuse(a, m)
            /\ v \in Fiches /\ Ajoute(a, v)
            /\ HorsConsensus(a) /\ HorsConsensus(a)' /\ UNCHANGED <<frames, suite, copie>>
<1>1. PICK prix \in Bases : peer_list_find(liste[a], a) /\ sale_start(a, prix)
  BY DEF Debut
<1>. DEFINE n == <<a, Cardinality(Ventes(a)) + 1>>
            m == [code |-> 8, id |-> a, numv |-> n, prix |-> prix]
            v == sale_init(n, prix, a, Personne)
<1>2. net' = Diffuse(a, m) /\ Ajoute(a, v) /\ UNCHANGED <<frames, suite, copie>>
  BY <1>1 DEF sale_start, Ajoute
<1>3. n \in Numeros /\ m \in Messages
  BY <1>1, DebutMessage
<1>4. v \in Fiches
  BY <1>3 DEF sale_init, Fiches
<1>5. HorsConsensus(a) /\ HorsConsensus(a)'
  BY <1>1 DEF sale_start, Tape, HorsConsensus, Coherence, Types
<1>6. m.code = 8 /\ m.numv = n /\ v = sale_init(m.numv, m.prix, a, Personne)
  OBVIOUS
<1>. HIDE DEF m, v
<1>. QED BY <1>2, <1>3, <1>4, <1>5, <1>6

LEMMA VenteEntendue ==
  ASSUME Coherence, NEW a \in Pairs, Reception(a) \/ Ouverture(a)
  PROVE  \E d \in Lisibles(a), v \in Fiches :
            /\ net' = Lu(a, d) /\ Ajoute(a, v)
            /\ HorsConsensus(a) /\ HorsConsensus(a)' /\ UNCHANGED <<frames, suite>>
            /\ \/ v.sup = Personne
               \/ d.m.code = 8 /\ v = sale_init(d.m.numv, d.m.prix, d.src, Personne)
<1>1. PICK d \in Lisibles(a) :
          handle_sale_init(a, d) \/ (ventes[a] = <<>> /\ handle_bid(a, d))
  BY DEF Reception, Ouverture
<1>2. d.m \in Corps
  <2>1. d.m \in Messages
    BY ReseauLu
  <2>2. d.m.code \in {8, 9}
    BY <1>1 DEF handle_sale_init, handle_bid
  <2>. QED BY <2>1, <2>2 DEF Messages
<1>3. net' = Lu(a, d) /\ UNCHANGED <<frames, suite>>
  BY <1>1 DEF handle_sale_init, handle_bid
<1>4. HorsConsensus(a) /\ HorsConsensus(a)'
  <2>1. pc[a] \in {"boucle", "lu"} /\ \E e \in {"boucle", "ecrit"} : pc' = [pc EXCEPT ![a] = e]
    BY <1>1 DEF handle_sale_init, handle_bid, Lit, PeutLire, Apres
  <2>. QED BY <2>1 DEF HorsConsensus, Coherence, Types
<1>5. CASE handle_sale_init(a, d)
  <2>. DEFINE v == sale_init(d.m.numv, d.m.prix, d.src, Personne)
  <2>1. d.m.code = 8
    BY <1>5 DEF handle_sale_init
  <2>2. d.m.id = d.src /\ d.src \in Pairs
    BY <2>1, ReseauLu DEF DeLuiMeme
  <2>3. Ajoute(a, v)
    BY <1>5, <2>2 DEF handle_sale_init, Ajoute
  <2>4. v \in Fiches
    BY <1>2, <2>2 DEF sale_init, Fiches, Corps
  <2>. QED BY <1>3, <1>4, <2>1, <2>3, <2>4
<1>6. CASE ventes[a] = <<>> /\ handle_bid(a, d)
  <2>. DEFINE v == sale_init(d.m.numv, d.m.prix, Personne, Personne)
  <2>1. ventes' = [ventes EXCEPT ![a] = <<v>>]
    BY <1>6 DEF handle_bid
  <2>2. v \in Fiches /\ v.sup = Personne
    BY <1>2 DEF sale_init, Fiches, Corps
  <2>. HIDE DEF v
  <2>3. Append(ventes[a], v) = <<v>>
    BY <1>6
  <2>4. Ajoute(a, v)
    BY <2>1, <2>3 DEF Ajoute
  <2>. QED BY <1>3, <1>4, <2>2, <2>4
<1>. QED BY <1>1, <1>5, <1>6

\* A sale of another than s, new or changed, hides none of s.
LEMMA VueEtrangere ==
  ASSUME Coherence, NEW a \in Pairs, NEW s,
         \/ UNCHANGED ventes
         \/ \E v \in Fiches : Ajoute(a, v) /\ v.sup # s
         \/ \E i, v : Change1(a, i, v) /\ ventes[a][i].sup # s,
         NEW n, NEW w, VoitApres(a, n, w), w.sup = s
  PROVE  Voit(a, n, w)
<1>1. CASE UNCHANGED ventes
  BY <1>1 DEF Voit, VoitApres
<1>2. ASSUME NEW v \in Fiches, Ajoute(a, v), v.sup # s PROVE Voit(a, n, w)
  BY <1>2, VueAjoute
<1>3. ASSUME NEW i, NEW v, Change1(a, i, v), ventes[a][i].sup # s PROVE Voit(a, n, w)
  <2>1. v.sup = ventes[a][i].sup
    <3>1. Suite(a) /\ i \in 1..Len(ventes[a]) /\ ventes'[a][i] = v
      BY <1>3, SuiteChange
    <3>. QED BY <3>1 DEF Suite
  <2>2. IF find_sale(n, ventes[a]) = i THEN w = v ELSE Voit(a, n, w)
    BY <1>3, VueChange
  <2>. QED BY <1>3, <2>1, <2>2
<1>. QED BY <1>1, <1>2, <1>3

\* The end of a round changes a sale of its author.
LEMMA TermineDuSien ==
  ASSUME Coherence, Rondes, Numerotation, ClotureParSuperviseur, NEW a \in Pairs, Termine(a)
  PROVE  \/ UNCHANGED ventes /\ ~(Actif(a)')
         \/ /\ Change1(a, suite[a].rang, Effet(a, ventes[a][suite[a].rang]))
            /\ ventes[a][suite[a].rang].sup = a
<1>. DEFINE r == suite[a].rang
<1>1. EnRonde(a)
  BY TermineVentes DEF EnRonde
<1>2. ASSUME NEW e \in {"sorti", "parti"}, UNCHANGED ventes, pc' = [pc EXCEPT ![a] = e]
      PROVE  UNCHANGED ventes /\ ~(Actif(a)')
  <2>1. pc'[a] = e
    BY <1>2 DEF Coherence, Types
  <2>. QED BY <1>2, <2>1 DEF Actif, Vivants
<1>3. CASE /\ suite[a].but = "enchere"
           /\ ventes' = [ventes EXCEPT ![a][r] = sale_update(@, copie[a].prix, copie[a].id)]
  <2>1. r \in 1..Len(ventes[a]) /\ copie[a] \in Corps
    BY <1>1, <1>3 DEF Coherence, PairSur, SujetSur
  <2>2. ventes[a][r].sup = a
    BY <1>1, <1>3 DEF Rondes, RondeExacte
  <2>. QED BY <1>3, <2>1, <2>2 DEF Change1, Effet
<1>4. CASE suite[a].but = "cloture" /\ ventes' = [ventes EXCEPT ![a][r] = sale_close(@)]
  <2>1. r \in 1..Len(ventes[a])
    BY <1>1, <1>4 DEF Coherence, PairSur, SujetSur
  <2>2. \E x \in annonces : x.auteur = a /\ x.numv = ventes[a][r].numv
    BY <1>1, <1>4 DEF Rondes, RondeExacte
  <2>3. ventes[a][r].sup = a
    BY <2>1, <2>2, ClotureDuSien
  <2>. QED BY <1>4, <2>1, <2>3 DEF Change1, Effet
<1>. QED BY <1>2, <1>3, <1>4, TermineVentes

\* What the round of s asks about one of its sales.
LEMMA QuestionDeS ==
  ASSUME Coherence, Rondes, Numerotation, ClotureParSuperviseur, NEW a \in Pairs, Actif(a),
         NEW d \in Lisibles(a), Question(a, d), d.src # a, Actif(d.src)
  PROVE  /\ EnRonde(d.src) /\ suite[d.src].rang \in 1..Len(ventes[d.src])
         /\ d.m.code \in {10, 12}
         /\ ventes[d.src][suite[d.src].rang].numv = d.m.numv
         /\ Rang(a, d.m) = find_sale(d.m.numv, ventes[a])
         /\ \A v : Suivie(v, d.m) = Effet(d.src, v)
<1>. DEFINE s == d.src
            m == net[<<s, a>>][d.k]
<1>0. s \in Pairs /\ d.k \in 1..Len(net[<<s, a>>]) /\ d.m = m /\ m.code \in Demandes
      /\ s \in Vivants
  BY ReseauLu, QuestionLue DEF Actif
<1>1. EnRonde(s) /\ m = Sommet(s).m
  BY <1>0 DEF Rondes, AllerExact
<1>2. m.code # 13
  BY <1>0 DEF Rondes, DepartExact, Aucun
<1>3. m.code \in {10, 12} /\ suite[s].but \in {"enchere", "cloture"}
  <2>1. suite[s].but \in {"rien", "enchere", "cloture", "depart"}
    BY <1>0 DEF Coherence, Types
  <2>2. suite[s].but \notin {"rien", "depart"}
    BY <1>0, <1>1, <1>2 DEF Rondes, RondeExacte
  <2>. QED BY <1>0, <1>2, <2>1, <2>2 DEF Demandes
<1>4. suite[s].rang \in 1..Len(ventes[s]) /\ ventes[s][suite[s].rang].numv = m.numv
  BY <1>0, <1>1, <1>3 DEF Rondes, RondeExacte, Coherence, PairSur, SujetSur
<1>5. /\ suite[s].but = "enchere" => m.code = 10 /\ m = copie[s]
      /\ suite[s].but = "cloture" => m.code = 12
  BY <1>0, <1>1 DEF Rondes, RondeExacte
<1>6. m = d.m
  BY <1>0
<1>. HIDE DEF m
<1>7. \A v : Suivie(v, d.m) = Effet(s, v)
  BY <1>3, <1>5, <1>6 DEF Suivie, Effet
<1>8. Rang(a, d.m) = find_sale(d.m.numv, ventes[a])
  BY <1>3, <1>6 DEF Rang
<1>. QED BY <1>1, <1>3, <1>4, <1>6, <1>7, <1>8

LEMMA EffetDeux ==
  ASSUME Coherence, NEW s \in Pairs, NEW v \in Fiches
  PROVE  Effet(s, Effet(s, v)) = Effet(s, v)
BY DEF Effet, sale_update, sale_close, Fiches

\* A supervisor has a number once.
LEMMA NumeroUnique ==
  ASSUME Coherence, Numerotation, NEW s \in Pairs, NEW i \in 1..Len(ventes[s]),
         NEW j \in 1..Len(ventes[s]), ventes[s][i].sup = s, ventes[s][j].numv = ventes[s][i].numv
  PROVE  i = j
<1>1. ventes[s][i].numv[1] = s
  BY NumeroDuSuperviseur
<1>. QED BY <1>1 DEF Numerotation

\* The round of s changes in one copy the sale that it is about.
LEMMA CopieQuestion ==
  ASSUME Coherence, Rondes, Numerotation, ClotureParSuperviseur, NEW a \in Pairs, Actif(a), Seul(a),
         NEW d \in Lisibles(a), Question(a, d), d.src # a, Actif(d.src), CopieExacte(d.src, a)
  PROVE  CopieExacte(d.src, a)'
<1>. DEFINE s == d.src
            n == d.m.numv
            r == find_sale(n, ventes[a])
            e == suite[s].rang
<1>0. s \in Pairs /\ CopieExacte(s, a)
  BY ReseauLu
<1>1. /\ EnRonde(s) /\ e \in 1..Len(ventes[s]) /\ ventes[s][e].numv = n /\ Rang(a, d.m) = r
      /\ \A v : Suivie(v, d.m) = Effet(s, v)
  BY QuestionDeS
<1>2. /\ ventes'[s] = ventes[s] /\ suite'[s] = suite[s] /\ copie'[s] = copie[s]
      /\ pc'[s] = pc[s]
  BY <1>0 DEF Seul
<1>3. EnRonde(s)' /\ \A v : Effet(s, v)' = Effet(s, v)
  BY <1>1, <1>2 DEF EnRonde, Effet
<1>. HIDE DEF s, n, r, e
<1>4. \/ UNCHANGED ventes /\ r = 0
      \/ r # 0 /\ Change1(a, r, Effet(s, ventes[a][r]))
  BY <1>1, QuestionFiche
<1>5. ASSUME NEW i \in 1..Len(ventes'[s]), NEW w,
             ventes'[s][i].sup = s, VoitApres(a, ventes'[s][i].numv, w), w.sup = s
      PROVE  Exacte(s, a, i, w)'
  <2>. DEFINE v == ventes[s][i]
  <2>1. i \in 1..Len(ventes[s]) /\ v.sup = s /\ VoitApres(a, v.numv, w) /\ v = ventes'[s][i]
    BY <1>2, <1>5
  <2>2. v.numv = n => i = e
    BY <1>0, <1>1, <2>1, NumeroUnique
  <2>. HIDE DEF v
  <2>3. CASE i = e
    <3>1. v.numv = n
      BY <1>1, <2>3 DEF v
    <3>2. r # 0
      <4>1. UNCHANGED ventes => r # 0
        BY <2>1, <3>1 DEF VoitApres, r
      <4>. QED BY <1>4, <4>1
    <3>3. w = Effet(s, ventes[a][r]) /\ Voit(a, n, ventes[a][r])
      <4>1. IF find_sale(n, ventes[a]) = r
            THEN w = Effet(s, ventes[a][r]) /\ Voit(a, n, ventes[a][r]) ELSE Voit(a, n, w)
        BY <1>4, <2>1, <3>1, <3>2, VueChange
      <4>. QED BY <4>1 DEF r
    <3>4. ventes[a][r] \in Fiches /\ ventes[a][r].sup = w.sup
      <4>1. ventes[a][r] \in Fiches /\ Suite(a) /\ r \in 1..Len(ventes[a])
            /\ ventes'[a][r] = Effet(s, ventes[a][r])
        BY <1>4, <3>2, SuiteChange
      <4>. QED BY <3>3, <4>1 DEF Suite
    <3>5. Exacte(s, a, i, ventes[a][r])
      BY <1>0, <1>5, <2>1, <3>1, <3>3, <3>4, CopieAvant DEF v
    <3>6. v \in Fiches
      BY <1>0, <2>1, NumeroDuSuperviseur DEF v
    <3>7. w = Effet(s, v)
      <4>1. ventes[a][r] = v \/ ventes[a][r] = Effet(s, v)
        BY <3>5 DEF Exacte, v
      <4>2. Effet(s, Effet(s, v)) = Effet(s, v)
        BY <1>0, <3>6, EffetDeux
      <4>. QED BY <3>3, <4>1, <4>2
    <3>8. suite'[s].rang = i
      BY <1>2, <2>3 DEF e
    <3>. QED BY <1>2, <1>3, <3>7, <3>8 DEF Exacte, v
  <2>4. CASE i # e
    <3>1. v.numv # n
      BY <2>2, <2>4
    <3>2. Voit(a, v.numv, w)
      <4>1. CASE UNCHANGED ventes
        BY <2>1, <4>1 DEF Voit, VoitApres
      <4>2. CASE r # 0 /\ Change1(a, r, Effet(s, ventes[a][r]))
        <5>1. find_sale(v.numv, ventes[a]) # r
          <6>1. CASE find_sale(v.numv, ventes[a]) = 0
            BY <4>2, <6>1
          <6>2. CASE find_sale(v.numv, ventes[a]) # 0
            <7>1. ventes[a] \in Seq(Fiches)
              BY Inchangees
            <7>2. ventes[a][find_sale(v.numv, ventes[a])].numv = v.numv
              BY <6>2, <7>1, Trouvee
            <7>3. ventes[a][r].numv = n
              BY <4>2, <7>1, Trouvee DEF r
            <7>. QED BY <3>1, <7>2, <7>3
          <6>. QED BY <6>1, <6>2
        <5>. QED BY <2>1, <4>2, <5>1, VueChange
      <4>. QED BY <1>4, <4>1, <4>2
    <3>3. Exacte(s, a, i, w)
      BY <1>0, <1>5, <2>1, <3>2, CopieAvant DEF v
    <3>4. w = v
      BY <2>4, <3>3 DEF Exacte, v, e
    <3>5. suite'[s].rang # i
      BY <1>2, <2>4 DEF e
    <3>. QED BY <1>2, <3>4, <3>5 DEF Exacte, v
  <2>. QED BY <2>3, <2>4
<1>6. CopieExacte(s, a)'
  BY <1>0, <1>5, CopieApres
<1>. QED BY <1>6 DEF s

\* The copies that the peer of the step has.
LEMMA CopiesDuLecteur ==
  ASSUME Coherence, Coherence', Rondes, Numerotation, ClotureParSuperviseur, ~Desordre,
         NEW a \in Pairs, Etape(a), perdus' = {}, Actif(a),
         NEW s \in Pairs, s # a, Actif(s), CopieExacte(s, a), DebutExact(s, a)
  PROVE  CopieExacte(s, a)' /\ DebutExact(s, a)'
<1>1. Seul(a) /\ Extrait(net'[<<s, a>>], net[<<s, a>>])
  BY SeulToujours, DepuisEtape DEF Depuis
<1>2. ASSUME NEW d \in Lisibles(a), Question(a, d), d.src = s
      PROVE  CopieExacte(s, a)' /\ DebutExact(s, a)'
  <2>1. CopieExacte(s, a)'
    <3>1. CopieExacte(d.src, a)'
      BY <1>1, <1>2, CopieQuestion
    <3>. QED BY <1>2, <3>1
  <2>2. d.m.code \in Demandes
    BY <1>2, QuestionLue
  <2>3. DebutExact(s, a)'
    BY <1>1, <1>2, <2>2, DebutLu
  <2>. QED BY <2>1, <2>3
<1>3. CASE \A d \in Lisibles(a) : Question(a, d) => d.src # s
  <2>1. Reduit(net'[<<a, s>>], net[<<a, s>>], Accuse)
    BY <1>3, SansAccuse
  <2>2. DebutExact(s, a)'
    BY <1>1, <2>1, DebutLu
  <2>3. ASSUME NEW i \in 1..Len(ventes[s]), NEW w, ventes[s][i].sup = s,
               VoitApres(a, ventes[s][i].numv, w), w.sup = s
        PROVE  \/ Voit(a, ventes[s][i].numv, w)
               \/ w = ventes[s][i] /\ ~(EnRonde(s) /\ Repondu(s, a))
    <3>. DEFINE n == ventes[s][i].numv
    <3>0. Personne # s
      BY PairsAssumption
    <3>1. ASSUME \/ UNCHANGED ventes
                 \/ \E v \in Fiches : Ajoute(a, v) /\ v.sup # s
                 \/ \E j, v : Change1(a, j, v) /\ ventes[a][j].sup # s
          PROVE  Voit(a, n, w)
      BY <2>3, <3>1, VueEtrangere
    <3>2. CASE Debut(a)
      <4>1. PICK m \in Messages : /\ sale_init(m.numv, m.prix, a, Personne) \in Fiches
                                  /\ Ajoute(a, sale_init(m.numv, m.prix, a, Personne))
        BY <3>2, VenteDebut
      <4>2. sale_init(m.numv, m.prix, a, Personne).sup # s
        BY DEF sale_init
      <4>. QED BY <3>1, <4>1, <4>2
    <3>3. CASE Reception(a) \/ Ouverture(a)
      <4>1. PICK d \in Lisibles(a), v \in Fiches :
                /\ Ajoute(a, v)
                /\ \/ v.sup = Personne
                   \/ d.m.code = 8 /\ v = sale_init(d.m.numv, d.m.prix, d.src, Personne)
        BY <3>3, VenteEntendue
      <4>2. CASE v.sup = s
        <5>0. /\ d.k \in 1..Len(net[<<d.src, a>>]) /\ d.m = net[<<d.src, a>>][d.k]
              /\ d.m.code = 8 /\ v = sale_init(d.m.numv, d.m.prix, d.src, Personne)
          BY <3>0, <4>1, <4>2, ReseauLu
        <5>1. d.src = s
          BY <4>2, <5>0 DEF sale_init
        <5>2. /\ Debuts(s, ventes[s], net[<<s, a>>])
              /\ EnRonde(s) /\ Repondu(s, a) => Aucun(net[<<s, a>>], {8})
          BY DebutAvant
        <5>3. PICK j \in 1..Len(ventes[s]) : ventes[s][j] = v
          <6>. DEFINE t == net[<<s, a>>]
                      k == d.k
          <6>1. Debuts(s, ventes[s], t) /\ k \in 1..Len(t) /\ d.m = t[k] /\ t[k].code = 8
            BY <5>0, <5>1, <5>2
          <6>. HIDE DEF t, k
          <6>2. \E j \in 1..Len(ventes[s]) :
                    ventes[s][j] = sale_init(t[k].numv, t[k].prix, s, Personne)
            BY <6>1 DEF Debuts
          <6>. QED BY <5>0, <5>1, <6>1, <6>2
        <5>4. ~(EnRonde(s) /\ Repondu(s, a))
          BY <5>0, <5>1, <5>2 DEF Aucun
        <5>5. Voit(a, n, w) \/ (w = v /\ v.numv = n)
          BY <2>3, <4>1, VueAjoute
        <5>6. v.numv = n => i = j
          BY <2>3, <5>3, NumeroUnique
        <5>. QED BY <5>3, <5>4, <5>5, <5>6
      <4>3. CASE v.sup # s
        BY <3>1, <4>1, <4>3
      <4>. QED BY <4>2, <4>3
    <3>4. ASSUME NEW d \in Lisibles(a), Question(a, d) PROVE Voit(a, n, w)
      <4>. DEFINE r == Rang(a, d.m)
                  v == Suivie(ventes[a][r], d.m)
      <4>1. d.src # s
        BY <1>3, <3>4
      <4>2. UNCHANGED ventes \/ (r # 0 /\ Change1(a, r, v))
        BY <3>4, QuestionFiche
      <4>3. r # 0 => ventes[a][r].sup # s
        BY <3>0, <3>4, <4>1, QuestionDuSien
      <4>. HIDE DEF r, v
      <4>. QED BY <3>1, <4>2, <4>3
    <3>5. CASE Termine(a)
      <4>1. UNCHANGED ventes
            \/ \E j, v : Change1(a, j, v) /\ ventes[a][j].sup = a
        BY <3>5, TermineDuSien
      <4>. QED BY <3>1, <4>1
    <3>6. CASE Calme(a) \/ Appel(a) \/ \E d \in Lisibles(a) : RecoitAck(a, d)
      <4>1. UNCHANGED ventes
        BY <3>6 DEF Calme, Appel, RecoitAck, boucle
      <4>. QED BY <3>1, <4>1
    <3>. QED BY <3>2, <3>3, <3>4, <3>5, <3>6, Formes
  <2>4. CopieExacte(s, a)'
    BY <1>1, <2>1, <2>3, CopieLue
  <2>. QED BY <2>2, <2>4
<1>. QED BY <1>2, <1>3

\* The sales that a supervises are those it supervised, and as they were.
Siennes(a) ==
    /\ \A i \in 1..Len(ventes'[a]) : ventes'[a][i].sup = a =>
            i \in 1..Len(ventes[a]) /\ ventes'[a][i] = ventes[a][i]
    /\ \A i \in 1..Len(ventes[a]) : ventes[a][i].sup = a =>
            i \in 1..Len(ventes'[a]) /\ ventes'[a][i] = ventes[a][i]

LEMMA SiennesGardees ==
  ASSUME Coherence, NEW a \in Pairs,
         \/ UNCHANGED ventes
         \/ \E v \in Fiches : Ajoute(a, v) /\ v.sup # a
         \/ \E i, v : Change1(a, i, v) /\ ventes[a][i].sup # a
  PROVE  Siennes(a)
<1>1. CASE UNCHANGED ventes
  BY <1>1 DEF Siennes
<1>2. ASSUME NEW v \in Fiches, Ajoute(a, v), v.sup # a PROVE Siennes(a)
  <2>1. /\ Len(ventes'[a]) = Len(ventes[a]) + 1 /\ Len(ventes[a]) \in Nat
        /\ ventes'[a][Len(ventes[a]) + 1] = v
        /\ \A i \in 1..Len(ventes[a]) : ventes'[a][i] = ventes[a][i]
    BY <1>2, SuiteAjoute
  <2>. QED BY <1>2, <2>1 DEF Siennes
<1>3. ASSUME NEW i, NEW v, Change1(a, i, v), ventes[a][i].sup # a PROVE Siennes(a)
  <2>1. /\ Len(ventes'[a]) = Len(ventes[a]) /\ i \in 1..Len(ventes[a]) /\ Suite(a)
        /\ \A j \in 1..Len(ventes[a]) : ventes'[a][j] = IF j = i THEN v ELSE ventes[a][j]
    BY <1>3, SuiteChange
  <2>2. ventes'[a][i].sup # a
    BY <1>3, <2>1 DEF Suite
  <2>. QED BY <1>3, <2>1, <2>2 DEF Siennes
<1>. QED BY <1>1, <1>2, <1>3

\* A step of the supervisor that leaves its sales alone.
RondeDeSoi(a, q) ==
    /\ EnRonde(a)' /\ Repondu(a, q)' => EnRonde(a) /\ Repondu(a, q)
    /\ EnRonde(a) => EnRonde(a)' /\ copie'[a] = copie[a] /\ suite'[a] = suite[a]

LEMMA CopieDeSoi ==
  ASSUME NEW a \in Pairs, Seul(a), NEW q \in Pairs, q # a, CopieExacte(a, q), RondeDeSoi(a, q),
         \A i \in 1..Len(ventes'[a]) : ventes'[a][i].sup = a =>
            \/ i \in 1..Len(ventes[a]) /\ ventes'[a][i] = ventes[a][i]
            \/ find_sale(ventes'[a][i].numv, ventes[q]) = 0
  PROVE  CopieExacte(a, q)'
<1>1. ventes'[q] = ventes[q]
  BY DEF Seul
<1>2. ASSUME NEW i \in 1..Len(ventes'[a]), NEW w,
             ventes'[a][i].sup = a, VoitApres(q, ventes'[a][i].numv, w), w.sup = a
      PROVE  Exacte(a, q, i, w)'
  <2>1. Voit(q, ventes'[a][i].numv, w)
    BY <1>1, <1>2 DEF Voit, VoitApres
  <2>2. i \in 1..Len(ventes[a]) /\ ventes'[a][i] = ventes[a][i]
    BY <1>2, <2>1 DEF Voit
  <2>3. Exacte(a, q, i, w)
    BY <1>2, <2>1, <2>2, CopieAvant
  <2>4. CASE w = ventes[a][i] /\ ~(EnRonde(a) /\ suite[a].rang = i /\ Repondu(a, q))
    BY <2>2, <2>4 DEF Exacte, RondeDeSoi
  <2>5. CASE EnRonde(a) /\ suite[a].rang = i /\ w = Effet(a, ventes[a][i])
    <3>1. EnRonde(a)' /\ copie'[a] = copie[a] /\ suite'[a] = suite[a]
      BY <2>5 DEF RondeDeSoi
    <3>2. Effet(a, ventes[a][i])' = Effet(a, ventes[a][i])
      BY <2>2, <3>1 DEF Effet
    <3>. QED BY <2>5, <3>1, <3>2 DEF Exacte
  <2>. QED BY <2>3, <2>4, <2>5 DEF Exacte
<1>. QED BY <1>2, CopieApres

LEMMA DebutDeSoi ==
  ASSUME Coherence, NEW a \in Pairs, NEW q \in Pairs, DebutExact(a, q), RondeDeSoi(a, q), Siennes(a),
         NEW m \in Messages, m.code # 8,
         net'[<<a, q>>] = net[<<a, q>>] \/ net'[<<a, q>>] = Append(net[<<a, q>>], m)
  PROVE  DebutExact(a, q)'
<1>. DEFINE c == net[<<a, q>>]
            t == net'[<<a, q>>]
<1>1. /\ c \in Seq(Messages) /\ Debuts(a, ventes[a], c)
      /\ (EnRonde(a) /\ Repondu(a, q) => Aucun(c, {8})) /\ (t = c \/ t = Append(c, m))
  BY DebutAvant DEF Coherence, ReseauSur
<1>. HIDE DEF c, t
<1>2. Debuts(a, ventes[a], t)
  BY <1>1, DebutsAjout
<1>3. Debuts(a, ventes'[a], t)
  BY <1>2, DebutsVentes DEF Siennes
<1>4. Aucun(c, {8}) => Aucun(t, {8})
  <2>1. Reduit(Append(c, m), c, {8}) /\ Reduit(c, c, {8})
    BY <1>1, AjoutReduit, ReduitSoi
  <2>2. Reduit(t, c, {8})
    BY <1>1, <2>1
  <2>. QED BY <2>2, ReduitAucun
<1>5. Debuts(a, ventes'[a], net'[<<a, q>>])
      /\ (EnRonde(a)' /\ Repondu(a, q)' => Aucun(net'[<<a, q>>], {8}))
  BY <1>1, <1>3, <1>4 DEF RondeDeSoi, t
<1>. QED BY <1>5, DebutApres

\* A new sale is known to nobody else, and its start is the last message.
LEMMA CopieDebut ==
  ASSUME Coherence, Coherence', Rondes, Numerotation, NEW a \in Pairs, Seul(a), Debut(a), Actif(a),
         NEW q \in Pairs, q # a, Actif(q), CopieExacte(a, q), DebutExact(a, q)
  PROVE  CopieExacte(a, q)' /\ DebutExact(a, q)'
<1>1. PICK m \in Messages :
            LET v == sale_init(m.numv, m.prix, a, Personne) IN
            /\ m.code = 8 /\ m.numv = <<a, Cardinality(Ventes(a)) + 1>> /\ net' = Diffuse(a, m)
            /\ v \in Fiches /\ Ajoute(a, v)
            /\ HorsConsensus(a) /\ HorsConsensus(a)' /\ UNCHANGED <<frames, suite, copie>>
  BY VenteDebut
<1>. DEFINE v == sale_init(m.numv, m.prix, a, Personne)
            k == Len(ventes[a]) + 1
<1>2. ~EnRonde(a) /\ ~EnRonde(a)' /\ v.numv = m.numv
  BY <1>1 DEF HorsConsensus, EnRonde, sale_init
<1>3. v \in Fiches /\ Ajoute(a, v)
  BY <1>1
<1>4. RondeDeSoi(a, q)
  BY <1>2 DEF RondeDeSoi
<1>. HIDE DEF v
<1>5. /\ Len(ventes'[a]) = k /\ Len(ventes[a]) \in Nat /\ ventes'[a][k] = v
      /\ \A i \in 1..Len(ventes[a]) : ventes'[a][i] = ventes[a][i]
  BY <1>3, SuiteAjoute
<1>6. find_sale(v.numv, ventes[q]) = 0
  <2>. SUFFICES ASSUME find_sale(v.numv, ventes[q]) # 0 PROVE FALSE
    OBVIOUS
  <2>. DEFINE j == find_sale(v.numv, ventes[q])
  <2>0. ventes[q] \in Seq(Fiches)
    BY Inchangees
  <2>1. j \in 1..Len(ventes[q]) /\ ventes[q][j].numv = v.numv
    BY <2>0, RangTrouve, Trouvee
  <2>. HIDE DEF j
  <2>2. Connu(v.numv)
    BY <2>1 DEF Numerotation
  <2>3. v.numv[1] = a /\ v.numv[2] = Cardinality(Ventes(a)) + 1
    BY <1>1, <1>2
  <2>4. Cardinality(Ventes(a)) \in Nat
    BY VentesFinies
  <2>. QED BY <2>2, <2>3, <2>4 DEF Connu
<1>7. CopieExacte(a, q)'
  <2>1. ASSUME NEW i \in 1..Len(ventes'[a])
        PROVE  \/ i \in 1..Len(ventes[a]) /\ ventes'[a][i] = ventes[a][i]
               \/ find_sale(ventes'[a][i].numv, ventes[q]) = 0
    <3>1. i \in 1..Len(ventes[a]) \/ i = k
      BY <1>5, <2>1
    <3>. QED BY <1>5, <1>6, <3>1
  <2>. QED BY <1>4, <2>1, CopieDeSoi
<1>8. DebutExact(a, q)'
  <2>. DEFINE c == net[<<a, q>>]
              t == net'[<<a, q>>]
  <2>1. c \in Seq(Messages) /\ Debuts(a, ventes[a], c)
    BY DebutAvant DEF Coherence, ReseauSur
  <2>2. Debuts(a, ventes'[a], c)
    <3>1. \A i \in 1..Len(ventes[a]) : i \in 1..Len(ventes'[a]) /\ ventes'[a][i] = ventes[a][i]
      BY <1>5
    <3>. HIDE DEF c
    <3>. QED BY <2>1, <3>1, DebutsVentes
  <2>3. Aucun(c, Demandes)
    <3>1. a \in Vivants
      BY DEF Actif
    <3>. QED BY <1>2, <3>1 DEF Rondes, AllerExact, Aucun
  <2>4. t = Append(c, m)
    <3>1. q \in Vivants
      BY DEF Actif
    <3>2. Diffuse(a, m)[<<a, q>>] = Append(net[<<a, q>>], m)
      BY <3>1, ReseauDiffuse
    <3>. QED BY <1>1, <3>2
  <2>. HIDE DEF c
  <2>5. \E i \in 1..Len(ventes'[a]) : ventes'[a][i] = sale_init(m.numv, m.prix, a, Personne)
    <3>1. k \in 1..Len(ventes'[a])
      BY <1>5
    <3>. QED BY <1>5, <3>1 DEF v
  <2>6. Debuts(a, ventes'[a], Append(c, m))
    BY <2>1, <2>2, <2>3, <2>5, DebutsAjout
  <2>7. Debuts(a, ventes'[a], net'[<<a, q>>])
    BY <2>4, <2>6
  <2>. QED BY <1>2, <2>7, DebutApres
<1>. QED BY <1>7, <1>8

\* The end of a round: everybody has what it makes of the sale.
LEMMA CopieTermine ==
  ASSUME Coherence, Coherence', Rondes, Numerotation, ClotureParSuperviseur,
         NEW a \in Pairs, Seul(a), Termine(a), Actif(a)',
         NEW q \in Pairs, q # a, Actif(q), CopieExacte(a, q), DebutExact(a, q)
  PROVE  CopieExacte(a, q)' /\ DebutExact(a, q)'
<1>. DEFINE r == suite[a].rang
            v == Effet(a, ventes[a][r])
<1>1. Change1(a, r, v)
  BY TermineDuSien
<1>2. EnRonde(a) /\ ~EnRonde(a)' /\ net' = net /\ Complet(Sommet(a))
  <2>1. pc[a] = "attente" /\ net' = net /\ Complet(Sommet(a))
    BY TermineVentes
  <2>2. \E e \in {"sorti", "boucle", "parti"} : pc' = [pc EXCEPT ![a] = e]
    BY TermineVentes
  <2>. QED BY <2>1, <2>2 DEF EnRonde, Coherence, Types
<1>3. Repondu(a, q)
  <2>1. Sommet(a).ids = Autres(a)
    BY <1>2, ToutLeMonde
  <2>2. q \in Ids(liste[a])
    BY DEF Rondes, ListeExacte
  <2>. QED BY <2>1, <2>2 DEF Repondu, Autres
<1>4. ventes'[q] = ventes[q]
  BY DEF Seul
<1>. HIDE DEF r, v
<1>5. /\ Len(ventes'[a]) = Len(ventes[a]) /\ Suite(a)
      /\ \A j \in 1..Len(ventes[a]) : ventes'[a][j] = IF j = r THEN v ELSE ventes[a][j]
  BY <1>1, SuiteChange
<1>6. ASSUME NEW i \in 1..Len(ventes'[a]), NEW w,
             ventes'[a][i].sup = a, VoitApres(q, ventes'[a][i].numv, w), w.sup = a
      PROVE  Exacte(a, q, i, w)'
  <2>1. i \in 1..Len(ventes[a]) /\ ventes[a][i].sup = a /\ ventes[a][i].numv = ventes'[a][i].numv
    BY <1>5, <1>6 DEF Suite
  <2>2. Voit(q, ventes[a][i].numv, w)
    BY <1>4, <1>6, <2>1 DEF Voit, VoitApres
  <2>3. Exacte(a, q, i, w)
    BY <1>6, <2>1, <2>2, CopieAvant
  <2>4. w = ventes'[a][i]
    BY <1>2, <1>3, <1>5, <2>1, <2>3 DEF Exacte, r, v
  <2>. QED BY <1>2, <2>4 DEF Exacte
<1>7. CopieExacte(a, q)'
  BY <1>6, CopieApres
<1>8. DebutExact(a, q)'
  <2>1. Aucun(net[<<a, q>>], {8})
    BY <1>2, <1>3, DebutAvant
  <2>2. Debuts(a, ventes'[a], net'[<<a, q>>])
    BY <1>2, <2>1 DEF Debuts, Aucun
  <2>. QED BY <1>2, <2>2, DebutApres
<1>. QED BY <1>7, <1>8

\* The copies of the sales of the peer of the step.
LEMMA CopiesDuSuperviseur ==
  ASSUME Coherence, Coherence', Rondes, Numerotation, ClotureParSuperviseur,
         NEW a \in Pairs, Etape(a), perdus' = {}, Actif(a), Actif(a)',
         NEW q \in Pairs, q # a, Actif(q), CopieExacte(a, q), DebutExact(a, q)
  PROVE  CopieExacte(a, q)' /\ DebutExact(a, q)'
<1>1. Seul(a) /\ Depuis(a)
  BY SeulToujours, DepuisEtape
<1>2. Aucun(net[<<q, a>>], Accuse) => Aucun(net'[<<q, a>>], Accuse)
  <2>. DEFINE c == net[<<q, a>>]
              t == net'[<<q, a>>]
  <2>1. c \in Seq(Messages) /\ Extrait(t, c)
    BY <1>1 DEF Depuis, Coherence, ReseauSur
  <2>. HIDE DEF c, t
  <2>2. Reduit(t, c, Accuse)
    BY <2>1, ExtraitReduit
  <2>. QED BY <2>2, ReduitAucun DEF c, t
<1>3. ASSUME NEW m \in Messages, m.code # 8, RondeDeSoi(a, q), Siennes(a),
             net'[<<a, q>>] = net[<<a, q>>] \/ net'[<<a, q>>] = Append(net[<<a, q>>], m)
      PROVE  CopieExacte(a, q)' /\ DebutExact(a, q)'
  <2>1. CopieExacte(a, q)'
    BY <1>1, <1>3, CopieDeSoi DEF Siennes
  <2>2. DebutExact(a, q)'
    BY <1>3, DebutDeSoi
  <2>. QED BY <2>1, <2>2
<1>4. [code |-> 1] \in Messages /\ [code |-> 1].code # 8
  BY DEF Messages
<1>5. frames' = frames => (Repondu(a, q)' => Repondu(a, q))
  BY <1>2 DEF Repondu, Sommet, Profondeur
<1>6. HorsConsensus(a) /\ HorsConsensus(a)' => RondeDeSoi(a, q)
  BY DEF HorsConsensus, RondeDeSoi, EnRonde
<1>7. CASE Calme(a)
  <2>1. EnRonde(a)' <=> EnRonde(a)
    BY <1>7 DEF Calme, Actif
  <2>2. RondeDeSoi(a, q)
    BY <1>5, <1>7, <2>1 DEF Calme, RondeDeSoi
  <2>3. Siennes(a)
    BY <1>7 DEF Calme, Siennes
  <2>4. net'[<<a, q>>] = net[<<a, q>>]
        \/ \E m \in Messages : m.code = 9 /\ net'[<<a, q>>] = Append(net[<<a, q>>], m)
    BY <1>7 DEF Calme, Mise
  <2>. QED BY <1>3, <1>4, <2>2, <2>3, <2>4
<1>8. CASE Debut(a)
  BY <1>1, <1>8, CopieDebut
<1>9. CASE Reception(a) \/ Ouverture(a)
  <2>1. PICK d \in Lisibles(a), v \in Fiches :
            /\ net' = Lu(a, d) /\ Ajoute(a, v)
            /\ HorsConsensus(a) /\ HorsConsensus(a)'
            /\ \/ v.sup = Personne
               \/ v = sale_init(d.m.numv, d.m.prix, d.src, Personne)
    BY <1>9, VenteEntendue
  <2>2. v.sup # a
    <3>1. d.src # a /\ Personne # a
      BY ReseauLu, PairsAssumption
    <3>. QED BY <2>1, <3>1 DEF sale_init
  <2>3. Siennes(a)
    BY <2>1, <2>2, SiennesGardees
  <2>4. net'[<<a, q>>] = net[<<a, q>>]
    BY <2>1, LuExtrait
  <2>. QED BY <1>3, <1>4, <1>6, <2>1, <2>3, <2>4
<1>10. ASSUME NEW d \in Lisibles(a), Question(a, d)
       PROVE  CopieExacte(a, q)' /\ DebutExact(a, q)'
  <2>. DEFINE r == Rang(a, d.m)
              v == Suivie(ventes[a][r], d.m)
  <2>1. HorsConsensus(a) /\ HorsConsensus(a)'
    BY <1>10, QuestionLue
  <2>2. UNCHANGED ventes \/ (r # 0 /\ Change1(a, r, v))
    BY <1>10, QuestionFiche
  <2>3. r # 0 => ventes[a][r].sup # a
    <3>1. d.src # a /\ Personne # a
      BY ReseauLu, PairsAssumption
    <3>. QED BY <1>10, <3>1, QuestionDuSien
  <2>4. Siennes(a)
    <3>. HIDE DEF r, v
    <3>. QED BY <2>2, <2>3, SiennesGardees
  <2>5. Courrier(a, [code |-> 1])
    BY <1>10, QuestionLue, CourrierLu, CourrierAccuse
  <2>. QED BY <1>3, <1>4, <1>6, <2>1, <2>4, <2>5 DEF Courrier
<1>11. CASE Appel(a)
  <2>1. PICK m \in Messages, s \in [but : {"enchere", "cloture", "depart"}, rang : Nat] :
            AppelDe(a, m, s)
    BY <1>11, AppelDonnees
  <2>2. UNCHANGED ventes /\ HorsConsensus(a) /\ consensus(a, m, s) /\ m.code # 8
    BY <2>1 DEF AppelDe, Demandes
  <2>3. Siennes(a)
    BY <2>2 DEF Siennes
  <2>4. ~EnRonde(a)
    BY <2>2 DEF HorsConsensus, EnRonde
  <2>5. ~(Repondu(a, q)')
    <3>1. frames'[a] = <<consensus_frame(m, liste[a].count)>>
      BY <2>2 DEF consensus, Coherence, Types
    <3>2. Sommet(a)' = consensus_frame(m, liste[a].count)
      BY <3>1 DEF Sommet, Profondeur
    <3>3. Aucun(net[<<q, a>>], Accuse)
      BY <2>4 DEF Rondes, RetourExact, Actif
    <3>4. Aucun(net'[<<q, a>>], Accuse)
      BY <1>2, <3>3
    <3>. QED BY <3>2, <3>4 DEF Repondu, consensus_frame
  <2>6. RondeDeSoi(a, q)
    BY <2>4, <2>5 DEF RondeDeSoi
  <2>7. Courrier(a, m)
    BY <2>2, CourrierDiffuse DEF consensus, Envoi
  <2>. QED BY <1>3, <2>2, <2>3, <2>6, <2>7 DEF Courrier
<1>12. ASSUME NEW d \in Lisibles(a), RecoitAck(a, d)
       PROVE  CopieExacte(a, q)' /\ DebutExact(a, q)'
  <2>. DEFINE f == Sommet(a)
              b == d.src
  <2>1. /\ pc[a] = "attente" /\ d.m.code = 1 /\ net' = Lu(a, d)
        /\ UNCHANGED <<pc, ventes, copie, suite>>
    BY <1>12 DEF RecoitAck, Attend, boucle
  <2>2. Sommet(a)' = Compte(f, b)
    <3>1. Len(frames[a]) = 1 /\ frames[a] \in Seq(Activations)
      BY <2>1 DEF Coherence, PairSur, RondeSure, EnRonde, Types
    <3>2. frames[a] = <<frames[a][1]>> /\ f = frames[a][1]
      BY <3>1 DEF Sommet, Profondeur
    <3>3. frames' = [frames EXCEPT ![a] = [frames[a] EXCEPT ![1] = Compte(frames[a][1], b)]]
      BY <1>12, <3>1 DEF RecoitAck, Profondeur
    <3>4. frames'[a] = <<Compte(f, b)>>
      BY <3>2, <3>3 DEF Coherence, Types
    <3>. QED BY <3>4 DEF Sommet, Profondeur
  <2>3. Compte(f, b).ids = f.ids \cup {b}
    <3>1. frames[a] \in Seq(Activations) /\ Len(frames[a]) = 1
      BY <2>1 DEF Coherence, PairSur, RondeSure, EnRonde, Types
    <3>2. f \in Activations
      BY <3>1 DEF Sommet, Profondeur
    <3>. QED BY <3>2 DEF Compte, Activations
  <2>4. b = q => ~Aucun(net[<<q, a>>], Accuse)
    <3>1. d.k \in 1..Len(net[<<b, a>>]) /\ d.m = net[<<b, a>>][d.k]
      BY ReseauLu
    <3>. QED BY <2>1, <3>1 DEF Aucun, Accuse
  <2>5. Repondu(a, q)' => Repondu(a, q)
    BY <1>2, <2>2, <2>3, <2>4 DEF Repondu
  <2>6. RondeDeSoi(a, q)
    BY <2>1, <2>5 DEF RondeDeSoi, EnRonde
  <2>7. Siennes(a)
    BY <2>1 DEF Siennes
  <2>8. net'[<<a, q>>] = net[<<a, q>>]
    BY <2>1, LuExtrait
  <2>. QED BY <1>3, <1>4, <2>6, <2>7, <2>8
<1>13. CASE Termine(a)
  BY <1>1, <1>13, CopieTermine
<1>. QED BY <1>7, <1>8, <1>9, <1>10, <1>11, <1>12, <1>13, Formes

\* The copies after any step.
LEMMA CopiesEtape ==
  ASSUME Coherence, Coherence', Rondes, Numerotation, Copies, NEW a \in Pairs, Etape(a), perdus' = {}
  PROVE  Copies'
<1>1. Seul(a)
  BY SeulToujours
<1>2. SUFFICES ASSUME ~Desordre, ClotureParSuperviseur', NEW s \in Pairs, NEW q \in Pairs, s # q,
                      Actif(s)', Actif(q)'
               PROVE  CopieExacte(s, q)' /\ DebutExact(s, q)'
  BY DEF Copies
<1>3. ClotureParSuperviseur
  BY <1>1, <1>2 DEF Seul, ClotureParSuperviseur
<1>4. Actif(s) /\ Actif(q)
  BY <1>1, <1>2, ActifReste
<1>5. CopieExacte(s, q) /\ DebutExact(s, q)
  BY <1>2, <1>3, <1>4 DEF Copies
<1>6. CASE q = a
  BY <1>2, <1>3, <1>4, <1>5, <1>6, CopiesDuLecteur
<1>7. CASE s = a
  BY <1>2, <1>3, <1>4, <1>5, <1>7, CopiesDuSuperviseur
<1>8. CASE s # a /\ q # a
  <2>1. /\ ventes'[s] = ventes[s] /\ ventes'[q] = ventes[q] /\ suite'[s] = suite[s]
        /\ copie'[s] = copie[s] /\ frames'[s] = frames[s] /\ pc'[s] = pc[s]
        /\ net'[<<s, q>>] = net[<<s, q>>] /\ net'[<<q, s>>] = net[<<q, s>>]
    BY <1>1, <1>8 DEF Seul
  <2>2. (EnRonde(s)' <=> EnRonde(s)) /\ (Repondu(s, q)' <=> Repondu(s, q))
    BY <2>1 DEF EnRonde, Repondu, Sommet, Profondeur
  <2>3. ASSUME NEW i \in 1..Len(ventes'[s]), NEW w,
               ventes'[s][i].sup = s, VoitApres(q, ventes'[s][i].numv, w), w.sup = s
        PROVE  Exacte(s, q, i, w)'
    <3>1. i \in 1..Len(ventes[s]) /\ ventes[s][i].sup = s /\ Voit(q, ventes[s][i].numv, w)
      BY <2>1, <2>3 DEF Voit, VoitApres
    <3>2. Exacte(s, q, i, w)
      BY <1>5, <2>3, <3>1, CopieAvant
    <3>3. Effet(s, ventes[s][i])' = Effet(s, ventes[s][i])
      BY <2>1 DEF Effet
    <3>. QED BY <2>1, <2>2, <3>2, <3>3 DEF Exacte
  <2>4. CopieExacte(s, q)'
    BY <2>3, CopieApres
  <2>5. DebutExact(s, q)'
    BY <1>5, <2>1, <2>2 DEF DebutExact
  <2>. QED BY <2>4, <2>5
<1>. QED BY <1>6, <1>7, <1>8

\* As long as no round gave a peer up, and as long as each closes its own sales,
\* the copies of a sale are that of its supervisor or what its round is making
\* of it, and the start of a sale is read before what follows, when datagrams
\* of one sender arrive in order (sale_process.c:178-231, 260-317;
\* udp_message_recv.c:64-95, 176-230).
THEOREM ToujoursCopies == Spec => []IInvCopies
<1>1. Init => IInvCopies
  <2>. SUFFICES ASSUME Init, NEW s \in Pairs, NEW q \in Pairs PROVE CopieExacte(s, q) /\ DebutExact(s, q)
    BY DEF IInvCopies, Copies
  <2>1. Len(ventes[s]) = 0 /\ Len(net[<<s, q>>]) = 0 /\ pc[s] = "boucle"
    BY DEF Init
  <2>2. 1..0 = {} /\ ~EnRonde(s)
    BY <2>1 DEF EnRonde
  <2>. QED BY <2>1, <2>2 DEF CopieExacte, DebutExact
<1>2. IInv /\ IInv' /\ IInvAccord /\ IInvCopies /\ [Next]_vars => IInvCopies'
  <2>1. ASSUME Coherence, Coherence', Accord, Copies, Next, perdus' = {} PROVE Copies'
    <3>1. PICK p \in Pairs : Etape(p)
      BY <2>1 DEF Next, Etape
    <3>. QED BY <2>1, <3>1, CopiesEtape DEF Accord
  <2>2. ASSUME IInv, IInv', IInvAccord, IInvCopies, Next PROVE IInvCopies'
    BY <2>1, <2>2, PerdusRestent DEF IInv, IInvAccord, IInvCopies
  <2>3. ASSUME IInvCopies, UNCHANGED vars PROVE IInvCopies'
    <3>1. ventes' = ventes /\ net' = net /\ pc' = pc /\ frames' = frames /\ suite' = suite
          /\ copie' = copie /\ perdus' = perdus /\ annonces' = annonces
      BY <2>3 DEF vars
    <3>2. ASSUME NEW s \in Pairs, NEW q \in Pairs, CopieExacte(s, q), DebutExact(s, q)
          PROVE  CopieExacte(s, q)' /\ DebutExact(s, q)'
      <4>1. (EnRonde(s)' <=> EnRonde(s)) /\ (Repondu(s, q)' <=> Repondu(s, q))
        BY <3>1 DEF EnRonde, Repondu, Sommet, Profondeur
      <4>2. ASSUME NEW i \in 1..Len(ventes'[s]), NEW w,
                   ventes'[s][i].sup = s, VoitApres(q, ventes'[s][i].numv, w), w.sup = s
            PROVE  Exacte(s, q, i, w)'
        <5>1. /\ i \in 1..Len(ventes[s]) /\ ventes[s][i].sup = s
              /\ Voit(q, ventes[s][i].numv, w)
          BY <3>1, <4>2 DEF Voit, VoitApres
        <5>2. Exacte(s, q, i, w)
          BY <3>2, <4>2, <5>1, CopieAvant
        <5>3. Effet(s, ventes[s][i])' = Effet(s, ventes[s][i])
          BY <3>1 DEF Effet
        <5>. QED BY <3>1, <4>1, <5>2, <5>3 DEF Exacte
      <4>3. CopieExacte(s, q)'
        BY <4>2, CopieApres
      <4>4. DebutExact(s, q)'
        BY <3>1, <3>2, <4>1 DEF DebutExact
      <4>. QED BY <4>3, <4>4
    <3>3. (ClotureParSuperviseur' <=> ClotureParSuperviseur) /\ \A s : Actif(s)' <=> Actif(s)
      BY <3>1 DEF ClotureParSuperviseur, Actif, Vivants
    <3>4. ASSUME Copies PROVE Copies'
      <4>. SUFFICES ASSUME ~Desordre, ClotureParSuperviseur', NEW s \in Pairs, NEW q \in Pairs,
                           s # q, Actif(s)', Actif(q)'
                    PROVE  CopieExacte(s, q)' /\ DebutExact(s, q)'
        BY DEF Copies
      <4>1. CopieExacte(s, q) /\ DebutExact(s, q)
        BY <3>3, <3>4 DEF Copies
      <4>. QED BY <3>2, <4>1
    <3>. QED BY <2>3, <3>1, <3>4 DEF IInvCopies
  <2>. QED BY <2>2, <2>3
<1>. QED BY <1>1, <1>2, ToujoursIInv, ToujoursAccord, PTL DEF Spec

\* A supervisor that is not in a round and everybody that knows its sale agree
\* on the price, the leader and the state of the sale, as long as no round gave
\* a peer up and nobody announced the closure of the sale of another, when the
\* datagrams of one sender arrive in order.
THEOREM CopiesFideles == Spec => [](~Desordre /\ ClotureParSuperviseur => CopieFidele)
<1>1. IInv /\ IInvAccord /\ IInvCopies => (~Desordre /\ ClotureParSuperviseur => CopieFidele)
  <2>. SUFFICES ASSUME Coherence, Accord, Copies, ~Desordre, ClotureParSuperviseur,
                       NEW s \in Vivants, NEW q \in Vivants, HorsConsensus(s), suite[q].but # "depart",
                       NEW i \in DOMAIN ventes[s], ventes[s][i].sup = s,
                       find_sale(ventes[s][i].numv, ventes[q]) # 0,
                       ventes[q][find_sale(ventes[s][i].numv, ventes[q])].sup = s
                PROVE  ventes[q][find_sale(ventes[s][i].numv, ventes[q])] = ventes[s][i]
    BY DEF IInv, IInvAccord, IInvCopies, CopieFidele
  <2>1. s \in Pairs /\ q \in Pairs /\ Actif(q)
    BY DEF Vivants, Actif
  <2>2. i \in 1..Len(ventes[s])
    BY <2>1, LenProperties DEF Coherence, Types
  <2>3. Actif(s) /\ ~EnRonde(s)
    BY <2>1 DEF Accord, Rondes, RondeExacte, HorsConsensus, EnRonde, Actif
  <2>4. CASE s # q
    BY <2>1, <2>2, <2>3, <2>4 DEF Copies, CopieExacte
  <2>5. CASE s = q
    <3>. DEFINE j == find_sale(ventes[s][i].numv, ventes[s])
    <3>1. ventes[s] \in Seq(Fiches)
      BY <2>1, Inchangees
    <3>2. j \in 1..Len(ventes[s]) /\ ventes[s][j].numv = ventes[s][i].numv
      BY <2>5, <3>1, RangTrouve, Trouvee
    <3>. HIDE DEF j
    <3>3. i = j
      BY <2>1, <2>2, <3>2, NumeroUnique DEF Accord
    <3>. QED BY <2>5, <3>3 DEF j
  <2>. QED BY <2>4, <2>5
<1>. QED BY <1>1, ToujoursIInv, ToujoursAccord, ToujoursCopies, PTL

\* What the peers owe each other as long as no round gave one up: the rounds,
\* the prices and the copies, for any number of sales, prices and (model) peers
\* (udp_message_recv.c:140-254, sale_process.c:178-317).
THEOREM ToujoursEntentes == Spec => []Ententes
BY ToujoursAccord, ToujoursPrix, ToujoursCopies, PTL DEF Ententes
=============================================================================
