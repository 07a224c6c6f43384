------------------------------- MODULE Sales -------------------------------
(* The array of the sales a peer knows (sale/sales.c).                      *)
EXTENDS Integers, Sequences

sale_init(numv, prix, sup, personne) ==
    [numv |-> numv, prix |-> prix, sup |-> sup, tete |-> personne, active |-> TRUE]

sale_update(v, prix, id) == [v EXCEPT !.prix = prix, !.tete = id]

\* Mutant: the sale stays active.
SansCloture(v) == v
sale_close(v) == [v EXCEPT !.active = FALSE]

\* The index of the first sale of l among S, or 0.
PremierRang(S) == IF S = {} THEN 0 ELSE CHOOSE i \in S : \A j \in S : i <= j

find_sale(numv, l) == PremierRang({i \in DOMAIN l : l[i].numv = numv})
is_superv(id, l) == PremierRang({i \in DOMAIN l : l[i].sup = id})

\* Mutant: the search starts one sale too far.
PremiereActiveApres(l) == PremierRang({i \in DOMAIN l : i > 1 /\ l[i].active})
PremiereActive(l) == PremierRang({i \in DOMAIN l : l[i].active})
=============================================================================
