-------------------------- MODULE ConsensusFrames --------------------------
(* The local variables of one activation of consensus() and the operators  *)
(* on them.  consensus() calls itself through disparition_peer_lambda(), so *)
(* a caller keeps a stack of these frames.                                  *)
EXTENDS Integers, FiniteSets

\* m is m_pair_Q[0], totalPeer the parameter total_Peer, ids the array of the
\* peers already counted (cmp_rep is its length), total the loop counter and
\* disparus the array handed to the disappearance call that is in progress.
consensus_frame(m, totalPeer) ==
    [m |-> m, totalPeer |-> totalPeer, ids |-> {}, total |-> 0, disparus |-> {}]

pas_encore_rep(f, id) == id \notin f.ids

\* Mutant: the id of an acknowledgement is not looked up.
AcceptableSansFiltre(f, id) == TRUE

\* An acknowledgement is counted when its sender is not in ids.  The memcmp of
\* its content spans lmess = 0 bytes, so it never refuses one.
Acceptable(f, id) == pas_encore_rep(f, id)
Compte(f, id) == [f EXCEPT !.ids = @ \cup {id}, !.total = @ + 1]

\* The peers of the list that have not answered yet.
doit_rep(f, autres) == {p \in autres : pas_encore_rep(f, p)}

\* Mutant: the loop stops one answer early.
CompletTropTot(f) == f.total >= f.totalPeer - 2

\* The while loop has reached its bound.
Complet(f) == f.total >= f.totalPeer - 1

\* Mutants: the vanished peers are not counted, or counted off.
CompteDisparusOublie(f) == f
CompteDisparusNegatif(f) == [f EXCEPT !.total = @ - Cardinality(f.disparus)]

\* What disparition_peer_lambda leaves behind in the frame that called it.
CompteDisparus(f) == [f EXCEPT !.total = @ + Cardinality(f.disparus)]

\* The array doit_rep has totalPeer slots.
Debordement(f, autres) == Cardinality(doit_rep(f, autres)) > f.totalPeer

\* processus_consensus_mess4 builds nb individual signatures only up to three;
\* beyond, structs2buf reads slots of the array that were never filled.
CertificatRempli(nb) == nb <= 3
=============================================================================
