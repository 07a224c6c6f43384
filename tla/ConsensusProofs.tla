-------------------------- MODULE ConsensusProofs --------------------------
(* Proofs about Consensus: type correctness, the exact count of the answers *)
(* and the refinement of the barrier, for any number of peers.              *)
EXTENDS Consensus, FiniteSetTheorems, SequenceTheorems, TLAPS

USE PeersAssumption, BoundsAssumption

LEMMA PeersFini ==
    /\ IsFiniteSet(Autres)
    /\ Cardinality(Peers) \in Nat
    /\ \A S \in SUBSET Autres : /\ IsFiniteSet(S) /\ Cardinality(S) \in Nat
                                /\ IsFiniteSet(S \cup Peers)
                                /\ Cardinality(S \cup Peers) \in Nat
                                /\ Cardinality(Peers) <= Cardinality(S \cup Peers)
                                /\ Cardinality(S) <= Cardinality(S \cup Peers)
<1>1. IsFiniteSet(Autres) /\ Cardinality(Peers) \in Nat
  BY FS_Union, FS_CardinalityType DEF Autres
<1>2. ASSUME NEW S \in SUBSET Autres
      PROVE  /\ IsFiniteSet(S) /\ Cardinality(S) \in Nat
             /\ IsFiniteSet(S \cup Peers)
             /\ Cardinality(S \cup Peers) \in Nat
             /\ Cardinality(Peers) <= Cardinality(S \cup Peers)
             /\ Cardinality(S) <= Cardinality(S \cup Peers)
  <2>1. S \in SUBSET Autres /\ S \cup Peers \in SUBSET Autres
    BY DEF Autres
  <2>2. IsFiniteSet(S) /\ IsFiniteSet(S \cup Peers)
    BY <1>1, <2>1, FS_Subset
  <2>3. Cardinality(S) \in Nat /\ Cardinality(S \cup Peers) \in Nat
    BY <2>2, FS_CardinalityType
  <2>4. Peers \in SUBSET (S \cup Peers) /\ S \in SUBSET (S \cup Peers)
    OBVIOUS
  <2>. QED BY <2>2, <2>3, <2>4, FS_Subset
<1>. QED BY <1>1, <1>2

\* The peers that section_g gives up complete the answers to the whole list.
LEMMA ComplementCompte ==
    ASSUME NEW S \in SUBSET Autres
    PROVE  Cardinality(S) + Cardinality(Peers \ S) = Cardinality(S \cup Peers)
<1>1. IsFiniteSet(S) /\ IsFiniteSet(Peers \ S)
  BY PeersFini, FS_Subset, FS_Difference
<1>2. S \cap (Peers \ S) = {} /\ S \cup (Peers \ S) = S \cup Peers
  OBVIOUS
<1>3. Cardinality(S \cup (Peers \ S))
        = Cardinality(S) + Cardinality(Peers \ S) - Cardinality(S \cap (Peers \ S))
  BY <1>1, FS_Union
<1>4. Cardinality(S) \in Nat /\ Cardinality(Peers \ S) \in Nat
  BY <1>1, FS_CardinalityType
<1>5. Cardinality(S \cap (Peers \ S)) = 0
  BY <1>2, FS_EmptySet
<1>6. Cardinality(S \cup Peers) = Cardinality(S) + Cardinality(Peers \ S) - 0
  BY <1>2, <1>3, <1>5
<1>. QED BY <1>4, <1>6

LEMMA AjoutCompte ==
    ASSUME NEW S \in SUBSET Autres, NEW p \in Autres, p \notin S
    PROVE  Cardinality(S \cup {p}) = Cardinality(S) + 1
BY PeersFini, FS_AddElement

\* Facts about the stack used in every step.
LEMMA PileNonVide ==
    ASSUME IInvRonde, pc # "oisif"
    PROVE  /\ Profondeur \in Nat /\ Profondeur >= 1
           /\ Profondeur \in 1..Len(frames)
           /\ frames \in Seq(Frames)
           /\ Sommet \in Frames
           /\ FrameActive(Sommet)
<1>1. frames \in Seq(Frames) /\ frames # <<>>
  BY DEF IInvRonde, TypeOK
<1>2. Profondeur \in Nat /\ Profondeur >= 1 /\ Profondeur \in 1..Len(frames)
  BY <1>1, EmptySeq, LenProperties DEF Profondeur
<1>3. Sommet \in Frames
  BY <1>1, <1>2, ElementOfSeq DEF Sommet
<1>4. FrameActive(Sommet)
  BY <1>1 DEF IInvRonde
<1>. QED BY <1>1, <1>2, <1>3, <1>4

LEMMA InitIInv == Init => IInvRonde
BY EmptySeq, PeersFini DEF Init, IInvRonde, TypeOK, Rien, Sujets, Datagrammes, Frames

\* The datagrams that remain after a reception are still datagrams.
LEMMA RetireType ==
    ASSUME net \in SUBSET Datagrammes, NEW d, net' \in Retire(d)
    PROVE  net' \in SUBSET Datagrammes
BY DEF Retire

LEMMA MulticastType ==
    ASSUME NEW m \in Sujets
    PROVE  Multicast(m) \in SUBSET Datagrammes
BY DEF Multicast, Datagrammes

LEMMA AppelIInv == ASSUME IInvRonde, Appel PROVE IInvRonde'
<1> DEFINE m == [tour |-> tour + 1, prof |-> 0]
           f == consensus_frame(m, Cardinality(peers) + 1)
<1>1. /\ TypeOK /\ peers = Peers /\ pc = "oisif" /\ frames = <<>>
      /\ peers' = peers /\ parasites' = parasites /\ faute' = faute
      /\ tour' = tour + 1 /\ tour' \in 0..MaxTours
  BY DEF IInvRonde, Appel, TypeOK
<1>2. m \in Sujets /\ f \in Frames /\ f.ids = {} /\ f.disparus = {} /\ f.total = 0
      /\ f.totalPeer = Cardinality(Peers) + 1
  BY <1>1, PeersFini DEF TypeOK, Sujets, Frames, consensus_frame
<1>3. CASE f.totalPeer = 1
  <2>1. pc' = pc /\ frames' = frames /\ net' = net
        /\ dernier' = [ret |-> 0, ids |-> {}, disparus |-> {}]
    BY <1>3 DEF Appel
  <2>2. TypeOK'
    BY <1>1, <2>1 DEF TypeOK
  <2>. QED BY <1>1, <2>1, <2>2, EmptySeq DEF IInvRonde
<1>4. CASE f.totalPeer # 1
  <2>1. pc' = "attente" /\ frames' = <<f>> /\ net' = net \cup Multicast(m)
        /\ dernier' = dernier
    BY <1>4 DEF Appel
  <2>2. frames' \in Seq(Frames) /\ Len(frames') = 1 /\ frames'[1] = f /\ frames' # <<>>
    BY <2>1, <1>2
  <2>3. TypeOK'
    BY <1>1, <1>2, <2>1, <2>2, MulticastType DEF TypeOK
  <2>4. f.totalPeer >= 2 /\ f.total = Cardinality(f.ids)
    BY <1>2, <1>4, PeersFini, FS_EmptySet
  <2>5. FrameActive(f)
    BY <1>2, <2>4, PeersFini DEF FrameActive, FrameBornee
  <2>6. Sommet' = f
    BY <2>2 DEF Sommet, Profondeur
  <2>. QED BY <1>1, <1>2, <2>1, <2>2, <2>3, <2>5, <2>6 DEF IInvRonde
<1>. QED BY <1>3, <1>4

\* Steps that leave the stack alone and stay inside the call.
LEMMA PileInchangee ==
    ASSUME IInvRonde, pc # "oisif", pc' # "oisif", frames' = frames, peers' = peers, TypeOK',
           pc' = "relance" => ~Complet(Sommet)
    PROVE  IInvRonde'
BY DEF IInvRonde, Sommet, Profondeur

\* A step that changes the innermost activation only.
LEMMA SommetRemplace ==
    ASSUME IInvRonde, pc # "oisif", NEW f \in Frames, FrameActive(f),
           f.totalPeer = Sommet.totalPeer,
           frames' = Remplace(f), peers' = peers, pc' = "attente",
           frames' \in Seq(Frames) => TypeOK'
    PROVE  IInvRonde'
<1>1. /\ frames' \in Seq(Frames) /\ Len(frames') = Len(frames)
      /\ \A j \in 1..Len(frames) : frames'[j] = IF j = Profondeur THEN f ELSE frames[j]
  BY PileNonVide, ExceptSeq DEF Remplace
<1>2. TypeOK' /\ frames' # <<>>
  BY <1>1, PileNonVide, EmptySeq DEF Profondeur
<1>3. Sommet' = f
  BY <1>1, PileNonVide DEF Sommet, Profondeur
<1>4. \A k \in 1..(Len(frames') - 1) : FrameSuspendue(frames'[k])
  BY <1>1, PileNonVide DEF IInvRonde, Profondeur
<1>5. frames'[1].totalPeer = Cardinality(Peers) + 1
  BY <1>1, PileNonVide DEF IInvRonde, Profondeur, Sommet
<1>. QED BY <1>1, <1>2, <1>3, <1>4, <1>5 DEF IInvRonde

LEMMA CompteType ==
    ASSUME NEW f \in Frames, NEW id \in Autres
    PROVE  /\ Compte(f, id) \in Frames
           /\ Compte(f, id).ids = f.ids \cup {id}
           /\ Compte(f, id).total = f.total + 1
           /\ Compte(f, id).disparus = f.disparus
           /\ Compte(f, id).totalPeer = f.totalPeer
<1> DEFINE n == f.total + 1
           i == f.ids \cup {id}
<1>1. n \in Nat /\ i \in SUBSET Autres
  BY DEF Frames
<1>2. Compte(f, id) = [f EXCEPT !.ids = i, !.total = n]
  BY DEF Compte
<1>. HIDE DEF n, i
<1>3. Compte(f, id) \in Frames /\ Compte(f, id).ids = i /\ Compte(f, id).total = n
      /\ Compte(f, id).disparus = f.disparus /\ Compte(f, id).totalPeer = f.totalPeer
  BY <1>1, <1>2 DEF Frames
<1>. QED BY <1>3 DEF n, i

LEMMA CompteDisparusType ==
    ASSUME NEW f \in Frames, Cardinality(f.disparus) \in Nat
    PROVE  /\ CompteDisparus(f) \in Frames
           /\ CompteDisparus(f).ids = f.ids
           /\ CompteDisparus(f).total = f.total + Cardinality(f.disparus)
           /\ CompteDisparus(f).disparus = f.disparus
           /\ CompteDisparus(f).totalPeer = f.totalPeer
<1> DEFINE n == f.total + Cardinality(f.disparus)
<1>1. n \in Nat
  BY DEF Frames
<1>2. CompteDisparus(f) = [f EXCEPT !.total = n]
  BY DEF CompteDisparus
<1>. HIDE DEF n
<1>3. CompteDisparus(f) \in Frames /\ CompteDisparus(f).ids = f.ids
      /\ CompteDisparus(f).total = n
      /\ CompteDisparus(f).disparus = f.disparus
      /\ CompteDisparus(f).totalPeer = f.totalPeer
  BY <1>1, <1>2 DEF Frames
<1>. QED BY <1>3 DEF n

\* An activation that has given someone up has reached its bound.
LEMMA AbandonComplet ==
    ASSUME NEW f \in Frames, FrameActive(f), ~Complet(f)
    PROVE  f.disparus = {} /\ f.total = Cardinality(f.ids)
BY PeersFini DEF FrameActive, FrameBornee, Complet, Frames

LEMMA RecoitAckIInv == ASSUME IInvRonde, NEW d, RecoitAck(d) PROVE IInvRonde'
<1> DEFINE f == Compte(Sommet, d.src)
<1>1. /\ TypeOK /\ pc = "attente" /\ ~Complet(Sommet) /\ d \in net
      /\ frames' = Remplace(f) /\ pc' = pc /\ peers' = peers
      /\ d.src \notin Sommet.ids /\ net' \in Retire(d)
  BY DEF IInvRonde, RecoitAck, Acceptable, pas_encore_rep
<1>2. Sommet \in Frames /\ FrameActive(Sommet)
  BY <1>1, PileNonVide
<1>3. d.src \in Autres
  BY <1>1 DEF TypeOK, Datagrammes
<1>4. Sommet.disparus = {} /\ Sommet.total = Cardinality(Sommet.ids)
  BY <1>1, <1>2, AbandonComplet
<1>5. /\ f \in Frames /\ f.totalPeer = Sommet.totalPeer /\ f.disparus = {}
      /\ f.ids = Sommet.ids \cup {d.src} /\ f.total = Sommet.total + 1
  BY <1>2, <1>3, <1>4, CompteType
<1>6. f.total = Cardinality(f.ids)
  BY <1>1, <1>2, <1>3, <1>4, <1>5, AjoutCompte DEF Frames
<1>7. FrameActive(f)
  BY <1>2, <1>5, <1>6 DEF FrameActive, FrameBornee
<1>8. frames' \in Seq(Frames) => TypeOK'
  BY <1>1, RetireType DEF RecoitAck, TypeOK
<1>. QED BY <1>1, <1>5, <1>7, <1>8, SommetRemplace

LEMMA RecoitEnchereIInv == ASSUME IInvRonde, NEW d, RecoitEnchere(d) PROVE IInvRonde'
<1>1. TypeOK'
  BY RetireType DEF IInvRonde, RecoitEnchere, TypeOK
<1>. QED BY <1>1, PileInchangee DEF RecoitEnchere

LEMMA EntreSectionGIInv ==
    ASSUME IInvRonde, pc = "attente", ~Complet(Sommet), EntreSectionG,
           net' \in SUBSET Datagrammes,
           UNCHANGED <<frames, peers, tour, parasites, dernier>>
    PROVE  IInvRonde'
<1>1. pc' \in {"attente", "relance", "plante"} /\ faute' \in SUBSET {"relance", "tas"}
  BY DEF EntreSectionG, IInvRonde, TypeOK
<1>2. TypeOK'
  BY <1>1 DEF IInvRonde, TypeOK
<1>. QED BY <1>1, <1>2, PileInchangee

LEMMA RecoitAutreIInv == ASSUME IInvRonde, NEW d, RecoitAutre(d) PROVE IInvRonde'
<1>1. net' \in SUBSET Datagrammes
  BY RetireType DEF RecoitAutre, IInvRonde, TypeOK
<1>. QED BY <1>1, EntreSectionGIInv DEF RecoitAutre

LEMMA ExpireIInv == ASSUME IInvRonde, Expire PROVE IInvRonde'
<1>1. net' \in SUBSET Datagrammes
  BY DEF Expire, IInvRonde, TypeOK
<1>. QED BY <1>1, EntreSectionGIInv DEF Expire

LEMMA RelanceRepondueIInv == ASSUME IInvRonde, NEW d, RelanceRepondue(d) PROVE IInvRonde'
<1>1. TypeOK'
  BY DEF IInvRonde, RelanceRepondue, TypeOK
<1>. QED BY <1>1, PileInchangee DEF RelanceRepondue

LEMMA PushIInv ==
    ASSUME IInvRonde, pc = "relance", NEW f \in Frames, FrameSuspendue(f),
           f.totalPeer = Sommet.totalPeer, NEW g \in Frames, FrameActive(g),
           frames' = Append(Remplace(f), g), peers' = peers, pc' = "attente",
           frames' \in Seq(Frames) => TypeOK'
    PROVE  IInvRonde'
<1> DEFINE r == Remplace(f)
<1>1. /\ r \in Seq(Frames) /\ Len(r) = Len(frames)
      /\ \A j \in 1..Len(frames) : r[j] = IF j = Profondeur THEN f ELSE frames[j]
  BY PileNonVide, ExceptSeq DEF Remplace
<1>2. /\ frames' \in Seq(Frames) /\ frames' # <<>> /\ Len(frames') = Len(frames) + 1
      /\ \A i \in 1..Len(frames) : frames'[i] = r[i]
      /\ frames'[Len(frames) + 1] = g
  <2> HIDE DEF r
  <2>1. r \in Seq(Frames) /\ Len(r) = Len(frames) /\ frames' = Append(r, g)
    BY <1>1 DEF r
  <2>2. /\ Append(r, g) \in Seq(Frames)
        /\ Append(r, g) # << >>
        /\ Len(Append(r, g)) = Len(r)+1
        /\ \A i \in 1.. Len(r) : Append(r, g)[i] = r[i]
        /\ Append(r, g)[Len(r)+1] = g
    BY <2>1, AppendProperties
  <2>. QED BY <2>1, <2>2
<1>3. TypeOK'
  BY <1>2
<1>4. Sommet' = g
  BY <1>2 DEF Sommet, Profondeur
<1>5. \A k \in 1..(Len(frames') - 1) : FrameSuspendue(frames'[k])
  BY <1>1, <1>2, PileNonVide DEF IInvRonde, Profondeur
<1>6. frames'[1].totalPeer = Cardinality(Peers) + 1
  BY <1>1, <1>2, PileNonVide DEF IInvRonde, Profondeur, Sommet
<1>. QED BY <1>2, <1>3, <1>4, <1>5, <1>6 DEF IInvRonde

\* The frame that gives up every silent peer.
LEMMA AbandonFrame ==
    ASSUME IInvRonde, pc = "relance",
           NEW f, f = [Sommet EXCEPT !.disparus = doit_rep(Sommet, peers)]
    PROVE  /\ f \in Frames /\ FrameSuspendue(f) /\ f.totalPeer = Sommet.totalPeer
           /\ Cardinality(f.disparus) \in Nat
           /\ CompteDisparus(f) \in Frames /\ FrameActive(CompteDisparus(f))
           /\ CompteDisparus(f).totalPeer = Sommet.totalPeer
<1>1. /\ Sommet \in Frames /\ FrameActive(Sommet) /\ ~Complet(Sommet)
      /\ peers = Peers
  BY PileNonVide DEF IInvRonde
<1>2. Sommet.disparus = {} /\ Sommet.total = Cardinality(Sommet.ids)
  BY <1>1, AbandonComplet
<1>3. doit_rep(Sommet, peers) = Peers \ Sommet.ids
  BY <1>1 DEF doit_rep, pas_encore_rep
<1>4. /\ f \in Frames /\ f.disparus = Peers \ f.ids /\ f.ids = Sommet.ids
      /\ f.total = Cardinality(f.ids) /\ f.totalPeer = Sommet.totalPeer
  BY <1>1, <1>2, <1>3 DEF Frames
<1>5. FrameSuspendue(f)
  BY <1>1, <1>4 DEF FrameSuspendue, FrameActive, FrameBornee
<1>6. Cardinality(f.disparus) \in Nat
  BY <1>4, PeersFini, FS_Subset, FS_CardinalityType DEF Frames, Autres
<1>7. Cardinality(f.ids) + Cardinality(f.disparus) = Cardinality(f.ids \cup Peers)
  BY <1>4, ComplementCompte DEF Frames
<1>8. /\ CompteDisparus(f) \in Frames /\ CompteDisparus(f).ids = f.ids
      /\ CompteDisparus(f).disparus = f.disparus
      /\ CompteDisparus(f).totalPeer = f.totalPeer
      /\ CompteDisparus(f).total = f.total + Cardinality(f.disparus)
  BY <1>4, <1>6, CompteDisparusType
<1>9. FrameActive(CompteDisparus(f))
  BY <1>1, <1>4, <1>7, <1>8 DEF FrameActive, FrameBornee
<1>. QED BY <1>4, <1>5, <1>6, <1>8, <1>9

LEMMA RelanceSilencieuseIInv == ASSUME IInvRonde, RelanceSilencieuse PROVE IInvRonde'
<1> DEFINE f == [Sommet EXCEPT !.disparus = doit_rep(Sommet, peers)]
           attendu == f.totalPeer - Cardinality(f.disparus)
           m == [tour |-> tour, prof |-> Profondeur]
           g == consensus_frame(m, attendu)
<1>1. /\ TypeOK /\ pc = "relance" /\ pc' = "attente" /\ peers' = peers
      /\ disparition_peer_lambda(f)
      /\ UNCHANGED <<tour, parasites, dernier, faute>>
  BY DEF IInvRonde, RelanceSilencieuse
<1>2. /\ f \in Frames /\ FrameSuspendue(f) /\ f.totalPeer = Sommet.totalPeer
      /\ Cardinality(f.disparus) \in Nat
      /\ CompteDisparus(f) \in Frames /\ FrameActive(CompteDisparus(f))
      /\ CompteDisparus(f).totalPeer = Sommet.totalPeer
  BY <1>1, AbandonFrame
<1>3. m \in Sujets /\ tour \in Nat
  BY <1>1, PileNonVide DEF Sujets, TypeOK
<1>4. f.totalPeer \in Int /\ f.totalPeer <= Cardinality(Peers) + 1
  BY <1>2 DEF Frames, FrameSuspendue, FrameBornee
<1>. HIDE DEF f, m
<1>5. attendu \in Int /\ attendu <= Cardinality(Peers) + 1
  BY <1>2, <1>4, PeersFini
<1>6. net' \in SUBSET Datagrammes
  BY <1>1, <1>3, MulticastType DEF disparition_peer_lambda, TypeOK, m, f
<1>7. frames' \in Seq(Frames) => TypeOK'
  BY <1>1, <1>6 DEF TypeOK
<1>8. CASE attendu > 1
  <2>1. frames' = Append(Remplace(f), g)
    BY <1>1, <1>8 DEF disparition_peer_lambda, m, f
  <2>2. g \in Frames /\ g.ids = {} /\ g.disparus = {} /\ g.total = 0 /\ g.totalPeer = attendu
    BY <1>3, <1>5 DEF consensus_frame, Frames
  <2>3. g.total = Cardinality(g.ids)
    BY <2>2, FS_EmptySet
  <2>4. FrameActive(g)
    BY <1>5, <1>8, <2>2, <2>3 DEF FrameActive, FrameBornee
  <2>. HIDE DEF g
  <2>. QED BY <1>1, <1>2, <1>7, <2>1, <2>2, <2>4, PushIInv
<1>9. CASE ~(attendu > 1)
  <2>1. frames' = Remplace(CompteDisparus(f))
    BY <1>1, <1>9 DEF disparition_peer_lambda, m, f
  <2>. QED BY <1>1, <1>2, <1>7, <2>1, SommetRemplace
<1>. QED BY <1>8, <1>9

\* What a nested call leaves on the stack.
LEMMA RetourImbrique ==
    ASSUME IInvRonde, pc = "attente", Profondeur # 1, NEW r \in {-1, 0}, Retourne(r)
    PROVE  /\ frames' \in Seq(Frames) /\ Len(frames') = Len(frames) - 1
           /\ Len(frames) >= 2
           /\ frames'[Len(frames) - 1] = CompteDisparus(frames[Len(frames) - 1])
           /\ frames[Len(frames) - 1] \in Frames
           /\ FrameActive(CompteDisparus(frames[Len(frames) - 1]))
           /\ CompteDisparus(frames[Len(frames) - 1]).totalPeer
                    = frames[Len(frames) - 1].totalPeer
           /\ CompteDisparus(frames[Len(frames) - 1]).ids = frames[Len(frames) - 1].ids
           /\ CompteDisparus(frames[Len(frames) - 1]).disparus
                    = frames[Len(frames) - 1].disparus
           /\ \A k \in 1..(Len(frames) - 2) : frames'[k] = frames[k]
           /\ peers' = peers /\ pc' = pc /\ dernier' = dernier
<1> DEFINE n == Len(frames)
           g == frames[n - 1]
<1>0. Profondeur \in Nat /\ Profondeur >= 1 /\ frames \in Seq(Frames)
  BY PileNonVide
<1>1. n \in Nat /\ n >= 2 /\ frames \in Seq(Frames) /\ Profondeur = n
  <2>1. Profondeur = n
    BY DEF Profondeur
  <2>2. n # 1
    BY <2>1
  <2>. HIDE DEF n
  <2>. QED BY <1>0, <2>1, <2>2
<1>2. /\ frames' = [Appelants EXCEPT ![n - 1] = CompteDisparus(g)]
      /\ peers' = peers /\ pc' = pc /\ dernier' = dernier
  BY <1>1 DEF Retourne, RemoveDisparus
<1>3. n - 1 \in 1..n /\ g \in Frames
  BY <1>1, ElementOfSeq
<1>4. \A i \in 1..(n - 1) : frames[i] \in Frames
  BY <1>1, ElementOfSeq
<1>5. /\ Appelants \in Seq(Frames) /\ Len(Appelants) = n - 1
      /\ \A i \in 1..(n - 1) : Appelants[i] = frames[i]
  BY <1>1, <1>4, SubSeqProperties DEF Appelants
<1>6. FrameSuspendue(g)
  BY <1>1 DEF IInvRonde
<1>7. g.disparus = Peers \ g.ids /\ g.ids \in SUBSET Autres /\ g.total = Cardinality(g.ids)
  BY <1>3, <1>6 DEF FrameSuspendue, Frames
<1>8. Cardinality(g.disparus) \in Nat
  BY <1>7, FS_Subset, FS_CardinalityType
<1>9. Cardinality(g.ids) + Cardinality(g.disparus) = Cardinality(g.ids \cup Peers)
  BY <1>7, ComplementCompte
<1>10. /\ CompteDisparus(g) \in Frames /\ CompteDisparus(g).ids = g.ids
       /\ CompteDisparus(g).disparus = g.disparus
       /\ CompteDisparus(g).totalPeer = g.totalPeer
       /\ CompteDisparus(g).total = g.total + Cardinality(g.disparus)
  BY <1>3, <1>8, CompteDisparusType
<1>11. FrameActive(CompteDisparus(g))
  BY <1>6, <1>7, <1>9, <1>10 DEF FrameActive, FrameSuspendue, FrameBornee
<1>. HIDE DEF g
<1>12. /\ frames' \in Seq(Frames) /\ Len(frames') = n - 1
       /\ \A i \in 1..(n - 1) :
             frames'[i] = IF i = n - 1 THEN CompteDisparus(g) ELSE Appelants[i]
  <2>1. n - 1 \in 1..Len(Appelants)
    BY <1>1, <1>5
  <2>. QED BY <1>2, <1>5, <1>10, <2>1, ExceptSeq
<1>13. frames'[n - 1] = CompteDisparus(g) /\ \A k \in 1..(n - 2) : frames'[k] = frames[k]
  BY <1>1, <1>5, <1>12
<1>. QED BY <1>1, <1>2, <1>3, <1>10, <1>11, <1>12, <1>13 DEF g

LEMMA RetourneIInv ==
    ASSUME IInvRonde, pc = "attente", NEW r \in {-1, 0}, Retourne(r),
           frames' \in Seq(Frames) /\ pc' \in {"oisif", "attente"}
             /\ dernier' \in [ret : {-1, 0, 1}, ids : SUBSET Autres, disparus : SUBSET Peers]
             /\ peers' = peers
             => TypeOK'
    PROVE  IInvRonde'
<1>1. Sommet \in Frames /\ TypeOK
  BY PileNonVide DEF IInvRonde
<1>2. CASE Profondeur = 1
  <2>1. /\ pc' = "oisif" /\ frames' = <<>> /\ peers' = peers
        /\ dernier' = [ret |-> r, ids |-> Sommet.ids, disparus |-> Sommet.disparus]
    BY <1>2 DEF Retourne
  <2>2. frames' \in Seq(Frames) /\ Len(frames') = 0
    BY <2>1, EmptySeq
  <2>3. dernier' \in [ret : {-1, 0, 1}, ids : SUBSET Autres, disparus : SUBSET Peers]
    BY <1>1, <2>1 DEF Frames
  <2>4. TypeOK'
    BY <2>1, <2>2, <2>3
  <2>. QED BY <2>1, <2>2, <2>4 DEF IInvRonde
<1>3. CASE Profondeur # 1
  <2>1. /\ frames' \in Seq(Frames) /\ Len(frames') = Len(frames) - 1 /\ Len(frames) >= 2
        /\ FrameActive(frames'[Len(frames')])
        /\ frames'[Len(frames')].totalPeer = frames[Len(frames) - 1].totalPeer
        /\ \A k \in 1..(Len(frames) - 2) : frames'[k] = frames[k]
        /\ peers' = peers /\ pc' = "attente" /\ dernier' = dernier
    BY <1>3, RetourImbrique
  <2>2. TypeOK'
    BY <1>1, <2>1 DEF TypeOK
  <2>3. Len(frames) \in Nat /\ frames # <<>>
    BY PileNonVide DEF Profondeur, IInvRonde
  <2>4. frames' # <<>>
    BY <2>1, <2>3, EmptySeq
  <2>5. FrameActive(Sommet)'
    BY <2>1 DEF Sommet, Profondeur
  <2>6. frames'[1].totalPeer = Cardinality(Peers) + 1
    <3>1. CASE Len(frames) = 2
      BY <2>1, <2>3, <3>1 DEF IInvRonde
    <3>2. CASE Len(frames) > 2
      BY <2>1, <2>3, <3>2 DEF IInvRonde
    <3>. QED BY <2>1, <2>3, <3>1, <3>2
  <2>7. \A k \in 1..(Len(frames') - 1) : FrameSuspendue(frames'[k])
    BY <2>1, <2>3 DEF IInvRonde
  <2>. QED BY <2>1, <2>2, <2>4, <2>5, <2>6, <2>7 DEF IInvRonde
<1>. QED BY <1>2, <1>3

LEMMA TermineIInv == ASSUME IInvRonde, Termine PROVE IInvRonde'
<1>1. pc = "attente" /\ Retourne(0) /\ UNCHANGED <<net, tour, parasites, faute>>
  BY DEF Termine
<1>2. ASSUME frames' \in Seq(Frames), pc' \in {"oisif", "attente"}, peers' = peers,
             dernier' \in [ret : {-1, 0, 1}, ids : SUBSET Autres, disparus : SUBSET Peers]
      PROVE  TypeOK'
  BY <1>1, <1>2 DEF IInvRonde, TypeOK
<1>. QED BY <1>1, <1>2, RetourneIInv

LEMMA TermineSansSignaturesIInv == ASSUME IInvRonde, TermineSansSignatures PROVE IInvRonde'
<1>1. /\ pc = "attente" /\ UNCHANGED <<net, tour, parasites>>
      /\ faute' \in SUBSET {"relance", "tas"}
  BY DEF TermineSansSignatures, IInvRonde, TypeOK
<1>2. ASSUME frames' \in Seq(Frames), pc' \in {"oisif", "attente"}, peers' = peers,
             dernier' \in [ret : {-1, 0, 1}, ids : SUBSET Autres, disparus : SUBSET Peers]
      PROVE  TypeOK'
  BY <1>1, <1>2 DEF IInvRonde, TypeOK
<1>3. CASE pc' = "plante" /\ UNCHANGED <<frames, peers, dernier>>
  <2>1. TypeOK'
    BY <1>1, <1>3 DEF IInvRonde, TypeOK
  <2>. QED BY <1>1, <1>3, <2>1, PileInchangee
<1>4. CASE Retourne(-1)
  BY <1>1, <1>2, <1>4, RetourneIInv
<1>5. CASE Retourne(0)
  BY <1>1, <1>2, <1>5, RetourneIInv
<1>. QED BY <1>3, <1>4, <1>5 DEF TermineSansSignatures

LEMMA DraineIInv == ASSUME IInvRonde, NEW d, Draine(d) PROVE IInvRonde'
<1>1. TypeOK'
  BY DEF IInvRonde, Draine, TypeOK
<1>. QED BY <1>1 DEF IInvRonde, Draine, Sommet, Profondeur, Complet

LEMMA PairParleIInv ==
    ASSUME IInvRonde, NEW p \in Autres, NEW code \in {"enchere", "autre"}, PairParle(p, code)
    PROVE  IInvRonde'
<1>1. [src |-> p, code |-> code, sujet |-> [tour |-> 0, prof |-> parasites]] \in Datagrammes
  BY DEF Datagrammes, Sujets, IInvRonde, TypeOK
<1>2. TypeOK'
  BY <1>1 DEF IInvRonde, PairParle, TypeOK
<1>. QED BY <1>2 DEF IInvRonde, PairParle, Sommet, Profondeur, Complet

LEMMA NextIInv == ASSUME IInvRonde, [Next]_vars PROVE IInvRonde'
<1>1. CASE Appel
  BY <1>1, AppelIInv
<1>2. CASE Reception
  BY <1>2, RecoitAckIInv, RecoitEnchereIInv, RecoitAutreIInv DEF Reception
<1>3. CASE Expire
  BY <1>3, ExpireIInv
<1>4. CASE Relance
  BY <1>4, RelanceRepondueIInv, RelanceSilencieuseIInv DEF Relance
<1>5. CASE Conclusion
  BY <1>5, TermineIInv, TermineSansSignaturesIInv DEF Conclusion
<1>6. CASE \E d \in net : Draine(d)
  BY <1>6, DraineIInv
<1>7. CASE Pairs
  BY <1>7, PairParleIInv DEF Pairs
<1>8. CASE UNCHANGED vars
  BY <1>8 DEF vars, IInvRonde, TypeOK, Sommet, Profondeur, Complet
<1>. QED BY <1>1, <1>2, <1>3, <1>4, <1>5, <1>6, <1>7, <1>8 DEF Next, Initiateur

\* At every depth of the recursion the counters of consensus() say what its
\* sets hold: the outermost activation waits for the whole list, those that
\* wait for a nested one have given up exactly the peers they did not hear, and
\* the innermost one is counting or has just done so; a reminder is never
\* pending once everybody is counted (consensus.c:100-322).
THEOREM ToujoursIInv == Spec => []IInvRonde
BY InitIInv, NextIInv, PTL DEF Spec

\* Every variable of the caller keeps its type: the stack only ever holds
\* activations over the peers that exist, with counters that never go negative.
THEOREM TypeCorrect == Spec => []TypeOK
<1>1. IInvRonde => TypeOK
  BY DEF IInvRonde
<1>. QED BY <1>1, ToujoursIInv, PTL

\* However the network duplicates and reorders the answers, no activation of
\* consensus() counts more peers than it heard or gave up (consensus.c:234-240).
THEOREM CompteExact == Spec => []DecompteExact
<1>1. ASSUME IInvRonde PROVE DecompteExact
  <2>1. SUFFICES ASSUME NEW k \in 1..Len(frames)
                 PROVE  frames[k].total <= Cardinality(frames[k].ids \cup frames[k].disparus)
    BY DEF DecompteExact
  <2>2. frames \in Seq(Frames) /\ frames[k] \in Frames /\ Len(frames) \in Nat
    BY <1>1, ElementOfSeq, LenProperties DEF IInvRonde, TypeOK
  <2>3. frames # <<>>
    BY <2>1, <2>2, EmptySeq
  <2>4. FrameActive(frames[k]) \/ FrameSuspendue(frames[k])
    BY <1>1, <2>2, <2>3 DEF IInvRonde, Sommet, Profondeur
  <2>5. frames[k].ids \in SUBSET Autres
    BY <2>2 DEF Frames
  <2>6. CASE frames[k].disparus = {} /\ frames[k].total = Cardinality(frames[k].ids)
    <3>1. frames[k].ids \cup frames[k].disparus = frames[k].ids
      BY <2>6
    <3>2. Cardinality(frames[k].ids \cup frames[k].disparus) = Cardinality(frames[k].ids)
      BY <3>1
    <3>3. Cardinality(frames[k].ids) \in Nat
      BY <2>5, PeersFini
    <3>. QED BY <2>6, <3>2, <3>3
  <2>7. CASE /\ frames[k].disparus = Peers \ frames[k].ids
             /\ frames[k].total \in {Cardinality(frames[k].ids),
                                    Cardinality(frames[k].ids \cup Peers)}
    <3>1. frames[k].ids \cup frames[k].disparus = frames[k].ids \cup Peers
      BY <2>7
    <3>2. Cardinality(frames[k].ids \cup frames[k].disparus)
            = Cardinality(frames[k].ids \cup Peers)
      BY <3>1
    <3>3. /\ Cardinality(frames[k].ids) \in Nat
          /\ Cardinality(frames[k].ids \cup Peers) \in Nat
          /\ Cardinality(frames[k].ids) <= Cardinality(frames[k].ids \cup Peers)
      BY <2>5, PeersFini
    <3>4. \/ frames[k].total = Cardinality(frames[k].ids)
          \/ frames[k].total = Cardinality(frames[k].ids \cup Peers)
      BY <2>7
    <3> DEFINE a == Cardinality(frames[k].ids)
               b == Cardinality(frames[k].ids \cup Peers)
               c == Cardinality(frames[k].ids \cup frames[k].disparus)
               t == frames[k].total
    <3>5. c = b /\ a \in Nat /\ b \in Nat /\ a <= b /\ (t = a \/ t = b)
      BY <3>2, <3>3, <3>4
    <3>. HIDE DEF a, b, c, t
    <3>6. t <= c
      BY <3>5
    <3>. QED BY <3>6 DEF t, c
  <2>. QED BY <2>4, <2>6, <2>7 DEF FrameActive, FrameSuspendue
<1>. QED BY <1>1, ToujoursIInv, PTL

\* The outermost activation after a change of the innermost one.
LEMMA BasRemplace ==
    ASSUME IInvRonde, pc # "oisif", NEW f \in Frames
    PROVE  /\ Remplace(f) \in Seq(Frames) /\ Remplace(f) # <<>>
           /\ Remplace(f)[1] = IF Profondeur = 1 THEN f ELSE frames[1]
           /\ Profondeur = 1 => Sommet = frames[1]
<1>1. /\ Remplace(f) \in Seq(Frames) /\ Len(Remplace(f)) = Len(frames)
      /\ \A j \in 1..Len(frames) : Remplace(f)[j] = IF j = Profondeur THEN f ELSE frames[j]
  BY PileNonVide, ExceptSeq DEF Remplace
<1>2. Remplace(f) # <<>> /\ 1 \in 1..Len(frames)
  BY <1>1, PileNonVide, EmptySeq DEF Profondeur
<1>. QED BY <1>1, <1>2 DEF Sommet

\* A step of the call that leaves the outermost activation's answers alone.
LEMMA VueInchangee ==
    ASSUME Phase' = Phase, Entendus' = Entendus, Perdus' = Perdus
    PROVE  UNCHANGED Promesse!barriereVars
BY DEF Promesse!barriereVars

LEMMA AppelBarriere == ASSUME IInvRonde, Appel PROVE Promesse!Lance
<1>1. pc = "oisif" /\ frames = <<>> /\ peers = Peers /\ Phase = "repos"
  BY DEF Appel, IInvRonde, Phase
<1> DEFINE m == [tour |-> tour + 1, prof |-> 0]
           f == consensus_frame(m, Cardinality(peers) + 1)
<1>2. f.totalPeer = Cardinality(Peers) + 1 /\ f.ids = {} /\ f.disparus = {}
  BY <1>1 DEF consensus_frame
<1>3. CASE f.totalPeer = 1
  <2>1. Peers = {}
    BY <1>2, <1>3, PeersFini, FS_EmptySet
  <2>2. /\ pc' = "oisif" /\ frames' = <<>>
        /\ dernier' = [ret |-> 0, ids |-> {}, disparus |-> {}]
    BY <1>1, <1>3 DEF Appel
  <2>3. Phase' = "repos" /\ Entendus' = {} /\ Perdus' = {}
    BY <2>2 DEF Phase, Entendus, Perdus
  <2>. QED BY <1>1, <2>1, <2>3 DEF Promesse!Lance
<1>4. CASE f.totalPeer # 1
  <2>1. Peers # {}
    BY <1>2, <1>4, FS_EmptySet
  <2>2. pc' = "attente" /\ frames' = <<f>>
    BY <1>4 DEF Appel
  <2>3. Phase' = "collecte"
    BY <2>2 DEF Phase
  <2>4. Entendus' = {} /\ Perdus' = {}
    <3>. HIDE DEF f
    <3>. QED BY <1>2, <2>2 DEF Entendus, Perdus
  <2>. QED BY <1>1, <2>1, <2>3, <2>4 DEF Promesse!Lance
<1>. QED BY <1>3, <1>4

LEMMA RecoitAckBarriere ==
    ASSUME Outsiders = {}, IInvRonde, NEW d, RecoitAck(d)
    PROVE  Promesse!Entend \/ UNCHANGED Promesse!barriereVars
<1> DEFINE f == Compte(Sommet, d.src)
<1>1. /\ TypeOK /\ pc = "attente" /\ pc' = "attente" /\ d \in net /\ frames' = Remplace(f)
      /\ d.src \notin Sommet.ids /\ dernier' = dernier
  BY DEF IInvRonde, RecoitAck, Acceptable, pas_encore_rep
<1>2. Sommet \in Frames /\ d.src \in Autres /\ frames # <<>>
  BY <1>1, PileNonVide DEF TypeOK, Datagrammes, IInvRonde
<1>3. f \in Frames /\ f.ids = Sommet.ids \cup {d.src} /\ f.disparus = Sommet.disparus
  BY <1>2, CompteType
<1>4. Phase = "collecte" /\ Phase' = "collecte"
  BY <1>1 DEF Phase
<1>. HIDE DEF f
<1>5. /\ frames' # <<>> /\ frames'[1] = IF Profondeur = 1 THEN f ELSE frames[1]
      /\ Profondeur = 1 => Sommet = frames[1]
  BY <1>1, <1>3, BasRemplace
<1>6. CASE Profondeur = 1
  <2>1. /\ Entendus = Sommet.ids /\ Perdus = Sommet.disparus
        /\ Entendus' = Sommet.ids \cup {d.src} /\ Perdus' = Perdus
    BY <1>2, <1>3, <1>5, <1>6 DEF Entendus, Perdus
  <2>2. d.src \in Peers \ Entendus
    BY <1>1, <1>2, <2>1 DEF Autres
  <2>. QED BY <1>4, <2>1, <2>2 DEF Promesse!Entend
<1>7. CASE Profondeur # 1
  <2>1. Entendus' = Entendus /\ Perdus' = Perdus
    BY <1>2, <1>5, <1>7 DEF Entendus, Perdus
  <2>. QED BY <1>4, <2>1, VueInchangee
<1>. QED BY <1>6, <1>7

\* Waiting, and dying while waiting.
LEMMA AttenteBarriere ==
    ASSUME IInvRonde, pc \in {"attente", "relance"}, pc' \in {"attente", "relance", "plante"},
           frames' = frames, dernier' = dernier
    PROVE  Promesse!Rompt \/ UNCHANGED Promesse!barriereVars
<1>1. Entendus' = Entendus /\ Perdus' = Perdus
  BY DEF Entendus, Perdus
<1>2. Phase = "collecte" /\ Phase' \in {"collecte", "rompu"}
  BY DEF Phase
<1>. QED BY <1>1, <1>2, VueInchangee DEF Promesse!Rompt

LEMMA RelanceSilencieuseBarriere ==
    ASSUME Outsiders = {}, IInvRonde, RelanceSilencieuse
    PROVE  Promesse!Abandonne \/ UNCHANGED Promesse!barriereVars
<1> DEFINE f == [Sommet EXCEPT !.disparus = doit_rep(Sommet, peers)]
           g == consensus_frame([tour |-> tour, prof |-> Profondeur],
                                f.totalPeer - Cardinality(f.disparus))
<1>1. /\ pc = "relance" /\ pc' = "attente" /\ dernier' = dernier /\ peers = Peers
      /\ \/ frames' = Append(Remplace(f), g)
         \/ frames' = Remplace(CompteDisparus(f))
  BY DEF RelanceSilencieuse, disparition_peer_lambda, IInvRonde
<1>2. /\ f \in Frames /\ FrameSuspendue(f) /\ Cardinality(f.disparus) \in Nat
      /\ CompteDisparus(f) \in Frames
  BY <1>1, AbandonFrame
<1>3. Sommet \in Frames
  BY <1>1, PileNonVide
<1>4. f.ids = Sommet.ids /\ f.disparus = Peers \ Sommet.ids
  BY <1>2, <1>3 DEF FrameSuspendue, Frames
<1>. HIDE DEF f, g
<1>5. CompteDisparus(f).ids = f.ids /\ CompteDisparus(f).disparus = f.disparus
  BY <1>2, CompteDisparusType
<1>6. /\ frames # <<>> /\ frames' # <<>>
      /\ Profondeur = 1 => /\ Sommet = frames[1]
                           /\ frames'[1].ids = f.ids /\ frames'[1].disparus = f.disparus
      /\ Profondeur # 1 => frames'[1] = frames[1]
  <2>1. frames # <<>>
    BY <1>1 DEF IInvRonde
  <2>2. CASE frames' = Append(Remplace(f), g)
    <3>1. /\ Remplace(f) \in Seq(Frames) /\ Remplace(f) # <<>>
          /\ Remplace(f)[1] = IF Profondeur = 1 THEN f ELSE frames[1]
          /\ Profondeur = 1 => Sommet = frames[1]
      BY <1>1, <1>2, BasRemplace
    <3> DEFINE r == Remplace(f)
    <3>. HIDE DEF r
    <3>2. r \in Seq(Frames) /\ r # <<>>
      BY <3>1 DEF r
    <3>3. Append(r, g) # <<>> /\ Append(r, g)[1] = r[1]
      BY <3>2
    <3>4. frames' # <<>> /\ frames'[1] = Remplace(f)[1]
      BY <2>2, <3>3 DEF r
    <3>. QED BY <2>1, <3>1, <3>4
  <2>3. CASE frames' = Remplace(CompteDisparus(f))
    BY <1>1, <1>2, <1>5, <2>1, <2>3, BasRemplace
  <2>. QED BY <1>1, <2>2, <2>3
<1>7. Phase = "collecte" /\ Phase' = "collecte"
  BY <1>1 DEF Phase
<1>8. CASE Profondeur = 1
  <2>1. /\ Entendus = Sommet.ids /\ Entendus' = Entendus
        /\ Perdus' = Peers \ Entendus
    BY <1>4, <1>6, <1>8 DEF Entendus, Perdus
  <2>. QED BY <1>7, <2>1 DEF Promesse!Abandonne
<1>9. CASE Profondeur # 1
  BY <1>6, <1>7, <1>9, VueInchangee DEF Entendus, Perdus
<1>. QED BY <1>8, <1>9

\* An outermost activation that is complete has heard or given up everyone.
LEMMA CompletCouvre ==
    ASSUME Outsiders = {}, IInvRonde, pc # "oisif", Profondeur = 1, Complet(Sommet)
    PROVE  Sommet.ids \cup Sommet.disparus = Peers
<1>1. Sommet \in Frames /\ FrameActive(Sommet) /\ Sommet = frames[1] /\ frames # <<>>
  BY PileNonVide DEF IInvRonde, Sommet
<1>2. Sommet.totalPeer = Cardinality(Peers) + 1
  BY <1>1 DEF IInvRonde
<1>3. Sommet.ids \in SUBSET Peers
  BY <1>1 DEF Frames, Autres
<1>4. CASE Sommet.disparus = {} /\ Sommet.total = Cardinality(Sommet.ids)
  <2>1. Cardinality(Sommet.ids) >= Cardinality(Peers)
    BY <1>2, <1>4, PeersFini DEF Complet
  <2>2. /\ Cardinality(Sommet.ids) <= Cardinality(Peers)
        /\ Cardinality(Sommet.ids) = Cardinality(Peers) => Sommet.ids = Peers
    BY <1>3, FS_Subset
  <2>3. Cardinality(Sommet.ids) \in Nat /\ Cardinality(Peers) \in Nat
    BY <1>3, PeersFini DEF Autres
  <2>4. Sommet.ids = Peers
    BY <2>1, <2>2, <2>3
  <2>. QED BY <1>4, <2>4
<1>5. CASE Sommet.disparus = Peers \ Sommet.ids
  BY <1>3, <1>5
<1>. QED BY <1>1, <1>4, <1>5 DEF FrameActive

LEMMA RetourneBarriere ==
    ASSUME Outsiders = {}, IInvRonde, pc = "attente", Complet(Sommet),
           NEW r \in {-1, 0}, Retourne(r)
    PROVE  Promesse!Conclut \/ UNCHANGED Promesse!barriereVars
<1>1. frames # <<>> /\ Phase = "collecte"
  BY DEF IInvRonde, Phase
<1>2. CASE Profondeur = 1
  <2>1. /\ pc' = "oisif" /\ frames' = <<>> /\ Sommet = frames[1]
        /\ dernier' = [ret |-> r, ids |-> Sommet.ids, disparus |-> Sommet.disparus]
    BY <1>2 DEF Retourne, Sommet
  <2>2. /\ Entendus = Sommet.ids /\ Perdus = Sommet.disparus
        /\ Entendus' = Entendus /\ Perdus' = Perdus /\ Phase' = "repos"
    BY <1>1, <2>1 DEF Entendus, Perdus, Phase
  <2>3. Sommet.ids \cup Sommet.disparus = Peers
    BY <1>2, CompletCouvre
  <2>. QED BY <1>1, <2>2, <2>3 DEF Promesse!Conclut
<1>3. CASE Profondeur # 1
  <2> DEFINE n == Len(frames)
  <2>1. /\ frames' \in Seq(Frames) /\ Len(frames') = n - 1 /\ n >= 2
        /\ frames'[n - 1].ids = frames[n - 1].ids
        /\ frames'[n - 1].disparus = frames[n - 1].disparus
        /\ \A k \in 1..(n - 2) : frames'[k] = frames[k]
        /\ pc' = "attente" /\ dernier' = dernier
    BY <1>3, RetourImbrique
  <2>2. n \in Nat
    BY PileNonVide DEF Profondeur
  <2>3. frames' # <<>>
    BY <2>1, <2>2, EmptySeq
  <2>4. frames'[1].ids = frames[1].ids /\ frames'[1].disparus = frames[1].disparus
    <3>. HIDE DEF n
    <3>. QED BY <2>1, <2>2
  <2>5. Phase' = "collecte"
    BY <2>1 DEF Phase
  <2>. QED BY <1>1, <2>3, <2>4, <2>5, VueInchangee DEF Entendus, Perdus
<1>. QED BY <1>2, <1>3

LEMMA TermineSansSignaturesBarriere ==
    ASSUME Outsiders = {}, IInvRonde, TermineSansSignatures
    PROVE  Promesse!Conclut \/ Promesse!Rompt \/ UNCHANGED Promesse!barriereVars
<1>1. pc = "attente" /\ Complet(Sommet)
  BY DEF TermineSansSignatures
<1>2. CASE pc' = "plante" /\ UNCHANGED <<frames, peers, dernier>>
  BY <1>1, <1>2, AttenteBarriere
<1>3. CASE Retourne(-1)
  BY <1>1, <1>3, RetourneBarriere
<1>4. CASE Retourne(0)
  BY <1>1, <1>4, RetourneBarriere
<1>. QED BY <1>2, <1>3, <1>4 DEF TermineSansSignatures

LEMMA EtapeBarriere ==
    ASSUME Outsiders = {}, IInvRonde, [Next]_vars
    PROVE  [Promesse!BNext]_(Promesse!barriereVars)
<1>1. CASE Appel
  BY <1>1, AppelBarriere DEF Promesse!BNext
<1>2. ASSUME NEW d \in net, RecoitAck(d) PROVE [Promesse!BNext]_(Promesse!barriereVars)
  BY <1>2, RecoitAckBarriere DEF Promesse!BNext
<1>3. CASE \/ \E d \in net : RecoitEnchere(d) \/ RecoitAutre(d)
           \/ Expire \/ \E d \in net : RelanceRepondue(d)
  <2>1. /\ pc \in {"attente", "relance"} /\ pc' \in {"attente", "relance", "plante"}
        /\ frames' = frames /\ dernier' = dernier
    BY <1>3 DEF RecoitEnchere, RecoitAutre, Expire, RelanceRepondue, EntreSectionG
  <2>. QED BY <2>1, AttenteBarriere DEF Promesse!BNext
<1>4. CASE RelanceSilencieuse
  BY <1>4, RelanceSilencieuseBarriere DEF Promesse!BNext
<1>5. CASE Termine
  BY <1>5, RetourneBarriere DEF Termine, Promesse!BNext
<1>6. CASE TermineSansSignatures
  BY <1>6, TermineSansSignaturesBarriere DEF Promesse!BNext
<1>7. CASE (\E d \in net : Draine(d)) \/ Pairs \/ UNCHANGED vars
  <2>1. pc' = pc /\ frames' = frames /\ dernier' = dernier
    BY <1>7 DEF Draine, Pairs, PairParle, vars
  <2>. QED BY <2>1, VueInchangee DEF Phase, Entendus, Perdus
<1>. QED BY <1>1, <1>2, <1>3, <1>4, <1>5, <1>6, <1>7
     DEF Next, Initiateur, Reception, Relance, Conclusion

\* When only the peers of the caller's list receive its multicast, consensus()
\* implements the barrier for every number of peers, whatever the network loses,
\* delays or duplicates (consensus.c:100-323).
THEOREM ImplementeBarriere == ASSUME Outsiders = {} PROVE Spec => EstUneBarriere
<1>1. Init => Promesse!BInit
  BY DEF Init, Rien, Phase, Entendus, Perdus, Promesse!BInit
<1>2. IInvRonde /\ [Next]_vars => [Promesse!BNext]_(Promesse!barriereVars)
  BY EtapeBarriere
<1>. QED BY <1>1, <1>2, ToujoursIInv, PTL DEF Spec, EstUneBarriere, Promesse!BSpec
=============================================================================
