----------------------------- MODULE Consensus -----------------------------
(* One peer, self, calls consensus() again and again: it multicasts a       *)
(* message, counts the acknowledgements of the other peers, sends reminders *)
(* when an answer is missing and declares the silent peers vanished through *)
(* a nested consensus.  The datagrams can be lost, delayed, reordered and   *)
(* duplicated.                                                              *)
EXTENDS ConsensusFrames, Sequences

CONSTANTS
    Peers,          \* the other peers of self's list when it starts
    Outsiders,      \* peers that got the multicast but are not in that list
    MaxTours,       \* bound on the number of top-level calls
    MaxParasites,   \* bound on the datagrams that are no acknowledgement
    Duplication     \* whether the network may deliver a datagram twice

ASSUME PeersAssumption ==
    /\ IsFiniteSet(Peers)
    /\ IsFiniteSet(Outsiders)
    /\ Outsiders \cap Peers = {}
ASSUME BoundsAssumption ==
    /\ MaxTours \in Nat
    /\ MaxParasites \in Nat
    /\ Duplication \in BOOLEAN

Autres == Peers \cup Outsiders

\* The message of a round: the round and the depth of the nested call.
Sujets == [tour : Nat, prof : Nat]
Datagrammes == [src : Autres, code : {"ack", "enchere", "autre"}, sujet : Sujets]
Frames == [m : Sujets, totalPeer : Int, ids : SUBSET Autres, total : Nat,
           disparus : SUBSET Peers]

VARIABLES
    pc,         \* where self is: main loop, in select, in section_g, or dead
    frames,     \* the activations of consensus(), the innermost one last
    peers,      \* the other peers of self's list
    net,        \* the datagrams on their way to self
    tour,       \* the number of top-level calls so far
    parasites,  \* the number of parasite datagrams so far
    dernier,    \* the outcome of the last top-level call
    faute       \* what went wrong in memory (history)

vars == <<pc, frames, peers, net, tour, parasites, dernier, faute>>

Rien == [ret |-> 1, ids |-> {}, disparus |-> {}]

TypeOK ==
    /\ pc \in {"oisif", "attente", "relance", "plante"}
    /\ frames \in Seq(Frames)
    /\ peers \in SUBSET Peers
    /\ net \in SUBSET Datagrammes
    /\ tour \in 0..MaxTours
    /\ parasites \in 0..MaxParasites
    /\ dernier \in [ret : {-1, 0, 1}, ids : SUBSET Autres, disparus : SUBSET Peers]
    /\ faute \in SUBSET {"relance", "tas"}

Init ==
    /\ pc = "oisif"
    /\ frames = <<>>
    /\ peers = Peers
    /\ net = {}
    /\ tour = 0
    /\ parasites = 0
    /\ dernier = Rien
    /\ faute = {}
-----------------------------------------------------------------------------
\* A peer that handles the message acknowledges it (codes 10, 12, 13 and 18) and
\* keeps nothing that matters here, so the multicast and its answer are one
\* datagram on its way to self.  If either is lost, or if the peer does not
\* answer (it is gone, or does not know the sale, or takes itself for the
\* supervisor), that datagram is never delivered.
Multicast(m) == {[src |-> p, code |-> "ack", sujet |-> m] : p \in Autres}
Retire(d) == {net \ {d}} \cup (IF Duplication THEN {net} ELSE {})

Profondeur == Len(frames)
Sommet == frames[Profondeur]
Remplace(f) == [frames EXCEPT ![Profondeur] = f]
Appelants == SubSeq(frames, 1, Profondeur - 1)

\* consensus() is called from the main loop with peers->count peers.
Appel ==
    /\ pc = "oisif"
    /\ tour < MaxTours
    /\ tour' = tour + 1
    /\ LET m == [tour |-> tour + 1, prof |-> 0]
           f == consensus_frame(m, Cardinality(peers) + 1)
       IN  IF f.totalPeer = 1
           THEN /\ dernier' = [ret |-> 0, ids |-> {}, disparus |-> {}]
                /\ UNCHANGED <<pc, frames, net>>
           ELSE /\ pc' = "attente"
                /\ frames' = <<f>>
                /\ net' = net \cup Multicast(m)
                /\ UNCHANGED dernier
    /\ UNCHANGED <<peers, parasites, faute>>

\* A new acknowledgement, whatever the message it answers.
RecoitAck(d) ==
    /\ pc = "attente" /\ ~Complet(Sommet)
    /\ d \in net /\ d.code = "ack"
    /\ Acceptable(Sommet, d.src)
    /\ frames' = Remplace(Compte(Sommet, d.src))
    /\ net' \in Retire(d)
    /\ UNCHANGED <<pc, peers, tour, parasites, dernier, faute>>

\* A bid is refused with code 14, which no peer answers.
RecoitEnchere(d) ==
    /\ pc = "attente" /\ ~Complet(Sommet)
    /\ d \in net /\ d.code = "enchere"
    /\ net' \in Retire(d)
    /\ UNCHANGED <<pc, frames, peers, tour, parasites, dernier, faute>>

\* The array of the peers to remind is filled before section_g runs; past its
\* end the write lands in the heap, and the program goes on or dies.
EntreSectionG ==
    LET attendus == doit_rep(Sommet, peers) IN
    IF Debordement(Sommet, peers)
    THEN /\ faute' = faute \cup {"tas"}
         /\ pc' \in {"relance", "plante"}
    ELSE /\ UNCHANGED faute
         /\ pc' = IF attendus = {} THEN "attente" ELSE "relance"

\* Any other datagram sends self to section_g, like a timeout.
RecoitAutre(d) ==
    /\ pc = "attente" /\ ~Complet(Sommet)
    /\ d \in net
    /\ d.code = "autre" \/ (d.code = "ack" /\ ~Acceptable(Sommet, d.src))
    /\ net' \in Retire(d)
    /\ EntreSectionG
    /\ UNCHANGED <<frames, peers, tour, parasites, dernier>>

Expire ==
    /\ pc = "attente" /\ ~Complet(Sommet)
    /\ EntreSectionG
    /\ UNCHANGED <<frames, peers, net, tour, parasites, dernier>>

\* relance() stores what it receives in its own copy of the pointer, and
\* section_g then reads through the null pointer it kept.
RelanceRepondue(d) ==
    /\ pc = "relance"
    /\ d \in net
    /\ net' = net \ {d}
    /\ pc' = "plante"
    /\ faute' = faute \cup {"relance"}
    /\ UNCHANGED <<frames, peers, tour, parasites, dernier>>
-----------------------------------------------------------------------------
\* The reminders leave for a wrong address (inet_pton on sixteen raw bytes), so
\* no peer sees them.  The peers still silent are the disparus of this frame
\* and a nested consensus announces them: it returns at once when it expects
\* one peer, fails on its malloc when it expects fewer, loops otherwise.  Its
\* result is 0 or -1, never above 0, so nobody leaves the list.
disparition_peer_lambda(f) ==
    LET attendu == f.totalPeer - Cardinality(f.disparus)
        m == [tour |-> tour, prof |-> Profondeur]
    IN  /\ IF attendu > 1
           THEN frames' = Append(Remplace(f), consensus_frame(m, attendu))
           ELSE frames' = Remplace(CompteDisparus(f))
        /\ net' = IF attendu = 1 THEN net ELSE net \cup Multicast(m)

RelanceSilencieuse ==
    /\ pc = "relance"
    /\ disparition_peer_lambda([Sommet EXCEPT !.disparus = doit_rep(Sommet, peers)])
    /\ pc' = "attente"
    /\ UNCHANGED <<peers, tour, parasites, dernier, faute>>

\* The innermost call returns r to its caller.
RemoveDisparus(cc, disparus) == IF cc > 0 THEN peers \ disparus ELSE peers

Retourne(r) ==
    IF Profondeur = 1
    THEN /\ pc' = "oisif"
         /\ frames' = <<>>
         /\ dernier' = [ret |-> r, ids |-> Sommet.ids, disparus |-> Sommet.disparus]
         /\ UNCHANGED peers
    ELSE LET g == frames[Profondeur - 1] IN
         /\ frames' = [Appelants EXCEPT ![Profondeur - 1] = CompteDisparus(g)]
         /\ peers' = RemoveDisparus(r, g.disparus)
         /\ UNCHANGED <<pc, dernier>>

\* Everyone is counted: the certificate (code 2, or an empty datagram when
\* nobody signed) is multicast; no peer answers it.
Termine ==
    /\ pc = "attente" /\ Complet(Sommet)
    /\ CertificatRempli(Cardinality(Sommet.ids))
    /\ Retourne(0)
    /\ UNCHANGED <<net, tour, parasites, faute>>

\* Past three signatures structs2buf follows an uninitialised pointer: the
\* program dies, or the garbage is refused (-1), or it is sent (0).
TermineSansSignatures ==
    /\ pc = "attente" /\ Complet(Sommet)
    /\ ~CertificatRempli(Cardinality(Sommet.ids))
    /\ \/ /\ pc' = "plante"
          /\ UNCHANGED <<frames, peers, dernier>>
       \/ Retourne(-1)
       \/ Retourne(0)
    /\ UNCHANGED <<net, tour, parasites, faute>>

\* Back in the main loop, what is left in the socket is read and forgotten.
Draine(d) ==
    /\ pc = "oisif"
    /\ d \in net
    /\ net' = net \ {d}
    /\ UNCHANGED <<pc, frames, peers, tour, parasites, dernier, faute>>
-----------------------------------------------------------------------------
\* A peer multicasts a bid or another message of its own.
PairParle(p, code) ==
    /\ parasites < MaxParasites
    /\ parasites' = parasites + 1
    /\ net' = net \cup {[src |-> p, code |-> code, sujet |-> [tour |-> 0, prof |-> parasites]]}
    /\ UNCHANGED <<pc, frames, peers, tour, dernier, faute>>

Reception == \E d \in net : \/ RecoitAck(d) \/ RecoitEnchere(d) \/ RecoitAutre(d)
Relance == (\E d \in net : RelanceRepondue(d)) \/ RelanceSilencieuse
Conclusion == Termine \/ TermineSansSignatures
Initiateur == Appel \/ Reception \/ Expire \/ Relance \/ Conclusion \/ (\E d \in net : Draine(d))
Pairs == \E p \in Autres, code \in {"enchere", "autre"} : PairParle(p, code)

Next == Initiateur \/ Pairs

Spec == Init /\ [][Next]_vars

\* select() returns after five seconds at the latest, and a function that is
\* not waiting runs on: self always takes its next step in a call.
FairSpec == Spec /\ WF_vars(Reception \/ Expire) /\ WF_vars(Relance) /\ WF_vars(Conclusion)
-----------------------------------------------------------------------------
\* The activations that wait for a nested one have given up every silent peer;
\* the innermost one is either counting or has just counted those it gave up.
FrameBornee(f) == f.totalPeer >= 2 /\ f.totalPeer <= Cardinality(Peers) + 1

FrameSuspendue(f) ==
    /\ FrameBornee(f)
    /\ f.disparus = Peers \ f.ids
    /\ f.total = Cardinality(f.ids)

FrameActive(f) ==
    /\ FrameBornee(f)
    /\ \/ f.disparus = {} /\ f.total = Cardinality(f.ids)
       \/ f.disparus = Peers \ f.ids /\ f.total = Cardinality(f.ids \cup Peers)

\* The inductive invariant behind the theorems: at every depth of the recursion
\* the counters say what the sets hold (consensus.c:100-322).
IInvRonde ==
    /\ TypeOK
    /\ peers = Peers
    /\ (pc = "oisif") = (frames = <<>>)
    /\ frames # <<>> => frames[1].totalPeer = Cardinality(Peers) + 1
    /\ frames # <<>> => FrameActive(Sommet)
    /\ \A k \in 1..(Len(frames) - 1) : FrameSuspendue(frames[k])
    /\ pc = "relance" => ~Complet(Sommet)

\* Nobody is counted twice by one activation, not even when the network
\* duplicates its acknowledgement: the loop counter never exceeds the number of
\* different peers heard or given up (consensus.c:143-299).
DecompteExact ==
    \A k \in 1..Len(frames) :
        frames[k].total <= Cardinality(frames[k].ids \cup frames[k].disparus)

\* The barrier's view of a call: the peers heard and given up by its outermost
\* activation, or by the last one once it has returned.
Phase ==
    CASE pc = "oisif" -> "repos" [] pc = "plante" -> "rompu" [] OTHER -> "collecte"
Entendus == IF frames = <<>> THEN dernier.ids ELSE frames[1].ids
Perdus == IF frames = <<>> THEN dernier.disparus ELSE frames[1].disparus
Promesse == INSTANCE Barriere WITH
    Membres <- Peers, phase <- Phase, entendus <- Entendus, perdus <- Perdus

\* consensus() is a barrier over the peers of the caller's list: it returns
\* only when each of them was heard or declared vanished (consensus.c:143).
EstUneBarriere == Promesse!BSpec

\* Every call comes back to the main loop unless it kills the program, however
\* many datagrams are lost: a silent peer never blocks it (consensus.c:143-299).
AppelTermine == (pc # "oisif") ~> (pc \in {"oisif", "plante"})

\* The array of the peers to remind has room for them in every activation, the
\* nested ones included: consensus.h:77 says that total_Peer, its size, is the
\* total number of peers.
TableauSuffit == "tas" \notin faute
=============================================================================
