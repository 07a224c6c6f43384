---------------------------- MODULE MCMembership ----------------------------
EXTENDS MembershipAccord

CONSTANTS a, b, n1, n2

\* No network, a network of one peer, a network of two.
Reseaux == {<<>>, <<a>>, <<a, b>>}

\* n1 draws the identifier of a; its sponsor gives it the one that n2 draws, or
\* another one if it is b.
Tires == [p \in {a, b, n1, n2} |-> CASE p = n1 -> {1} [] p = b -> {4} [] OTHER -> {3}]

\* In the place of an entry, one under an identifier of somebody else, or one
\* of an address where nobody may be.
Epaves == {Pair(1, n2), Pair(0, b)}
=============================================================================
