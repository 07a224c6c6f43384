------------------------------ MODULE Barriere ------------------------------
(* What a caller of consensus() relies on: a barrier.  A round ends only    *)
(* when every member of the list was heard or given up as vanished.         *)
CONSTANT Membres

VARIABLES phase, entendus, perdus

barriereVars == <<phase, entendus, perdus>>

BInit == phase = "repos" /\ entendus = {} /\ perdus = {}

\* A round begins; with no other member it is over at once.
Lance ==
    /\ phase = "repos"
    /\ phase' = IF Membres = {} THEN "repos" ELSE "collecte"
    /\ entendus' = {} /\ perdus' = {}

Entend ==
    /\ phase = "collecte"
    /\ \E p \in Membres \ entendus : entendus' = entendus \cup {p}
    /\ UNCHANGED <<phase, perdus>>

\* Every member that is still silent is given up together.
Abandonne ==
    /\ phase = "collecte"
    /\ perdus' = Membres \ entendus
    /\ UNCHANGED <<phase, entendus>>

Conclut ==
    /\ phase = "collecte"
    /\ entendus \cup perdus = Membres
    /\ phase' = "repos"
    /\ UNCHANGED <<entendus, perdus>>

\* The caller died in the round.
Rompt == phase = "collecte" /\ phase' = "rompu" /\ UNCHANGED <<entendus, perdus>>

BNext == Lance \/ Entend \/ Abandonne \/ Conclut \/ Rompt

BSpec == BInit /\ [][BNext]_barriereVars
=============================================================================
