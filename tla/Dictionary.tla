----------------------------- MODULE Dictionary -----------------------------
(***************************************************************************)
(* What the hash table promises: a map from keys to values in which a key  *)
(* is added, replaced or dropped without any effect on the others.         *)
(***************************************************************************)
CONSTANTS Keys, Values, NoValue

VARIABLE map

Empty == [k \in Keys |-> NoValue]

Init == map = Empty

Put(k, v) == map' = [map EXCEPT ![k] = v]

\* Dropping, or losing the old value when there is no memory for the new one.
Lose(k) == map' = [map EXCEPT ![k] = NoValue]

Clear == map' = Empty

Next == Clear \/ \E k \in Keys : Lose(k) \/ \E v \in Values : Put(k, v)

Spec == Init /\ [][Next]_map
=============================================================================
