----------------------------- MODULE Classement -----------------------------
(* What the players of a guessing game are promised: the winners are ranked  *)
(* 1, 2, 3... in the order in which they won, each of them once.             *)
EXTENDS Naturals

CONSTANT Joueurs

VARIABLES
    rangs,      \* the rank of each winner, else 0
    suivant     \* the rank of the next one

vars == <<rangs, suivant>>

Init == rangs = [t \in Joueurs |-> 0] /\ suivant = 1

Gagne(t) ==
    /\ rangs[t] = 0
    /\ rangs' = [rangs EXCEPT ![t] = suivant] /\ suivant' = suivant + 1

Next == \E t \in Joueurs : Gagne(t)
Spec == Init /\ [][Next]_vars
-----------------------------------------------------------------------------
TypeOK == rangs \in [Joueurs -> Nat] /\ suivant \in Nat \ {0}

\* Two winners never share a rank, and none is skipped.
SansExAequo == \A t, u \in Joueurs : rangs[t] # 0 /\ rangs[t] = rangs[u] => t = u
SansTrou == \A r \in 1..(suivant - 1) : \E t \in Joueurs : rangs[t] = r
Borne == \A t \in Joueurs : rangs[t] < suivant
Exact == TypeOK /\ SansExAequo /\ SansTrou /\ Borne
=============================================================================
