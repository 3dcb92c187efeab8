----------------------------- MODULE Dictionary -----------------------------
(***************************************************************************)
(* What libks/map.c promises: keys in the order of their insertion, and a  *)
(* walk along them during which the key just met may be removed.           *)
(***************************************************************************)
EXTENDS Sequences, SequencesExt

CONSTANT Keys

VARIABLES
    order,    \* the keys, the oldest first
    walking,  \* somebody is walking along them
    ahead     \* the keys the walk has still to meet

walk == <<walking, ahead>>

Init == order = <<>> /\ walking = FALSE /\ ahead = <<>>

\* Out of memory, a key is not there or it is but nobody is told.
Insert(k) ==
    /\ ~walking /\ k \notin Range(order)
    /\ order' \in {order, Append(order, k)} /\ UNCHANGED walk

Without(k) == \E i \in DOMAIN order : order[i] = k /\ order' = RemoveAt(order, i)

MapRemove(k) == ~walking /\ Without(k) /\ UNCHANGED walk

Begin ==
    /\ ~walking /\ order # <<>>
    /\ walking' = TRUE /\ ahead' = Tail(order) /\ UNCHANGED order

Walk ==
    /\ walking /\ ahead # <<>>
    /\ ahead' = Tail(ahead) /\ UNCHANGED <<order, walking>>

End == walking /\ ahead = <<>> /\ walking' = FALSE /\ UNCHANGED <<order, ahead>>

\* The key just met, or one met before.
RemoveMet(k) == walking /\ k \notin Range(ahead) /\ Without(k) /\ UNCHANGED walk

Free == ~walking /\ order' = <<>> /\ UNCHANGED walk

Next ==
    \/ Begin \/ Walk \/ End \/ Free
    \/ \E k \in Keys : Insert(k) \/ MapRemove(k) \/ RemoveMet(k)

Spec == Init /\ [][Next]_<<order, walking, ahead>>
=============================================================================
