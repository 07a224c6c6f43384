----------------------------- MODULE PeerLists -----------------------------
(* The list of the peers (launch/peers.c): an array of slots and the number *)
(* of slots in use.  The slots past count keep what they held.              *)
EXTENDS Integers, Sequences

Occupes(l) == SubSeq(l.slots, 1, l.count)
Rangs(l, id) == {i \in 1..l.count : l.slots[i] = id}
Premier(S) == CHOOSE i \in S : \A j \in S : i <= j

peer_list_find(l, id) == Rangs(l, id) # {}

\* A known id is updated in place, or refused when it is in the first slot:
\* either way the ids of the list stay the same.
peer_list_add(l, id) ==
    IF peer_list_find(l, id) THEN l
    ELSE [slots |-> Append(Occupes(l), id), count |-> l.count + 1]

\* Mutant: the last peer is not moved into the freed slot.
SuppressionSansDeplacement(l, id) ==
    IF peer_list_find(l, id) THEN [l EXCEPT !.count = @ - 1] ELSE l

\* Mutant: the slot before the one that was found is freed.
SuppressionDecalee(l, id) ==
    IF peer_list_find(l, id)
    THEN [slots |-> [l.slots EXCEPT ![Premier(Rangs(l, id)) - 1] = l.slots[l.count]],
          count |-> l.count - 1]
    ELSE l

\* The last peer takes the place of the one that leaves; nothing happens when
\* the id is unknown.
peer_list_remove(l, id) ==
    IF peer_list_find(l, id)
    THEN [slots |-> [l.slots EXCEPT ![Premier(Rangs(l, id))] = l.slots[l.count]],
          count |-> l.count - 1]
    ELSE l

\* The ids of the list, and those of the other peers.
Ids(l) == {l.slots[i] : i \in 1..l.count}
=============================================================================
