---------------------------- MODULE MCHashTable ----------------------------
(* Instances of HashTable for TLC. *)
EXTENDS HashTable

\* Three buckets: the first is empty, and two keys are chained in the last.
HashThree == [k \in Keys |-> IF k \in {"a", "b", "c"} THEN 1 ELSE 2]
=============================================================================
