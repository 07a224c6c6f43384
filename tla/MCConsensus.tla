---------------------------- MODULE MCConsensus ----------------------------
EXTENDS Consensus, TLC

\* The other peers are interchangeable.
Symetrie == Permutations(Peers)
=============================================================================
