------------------------------ MODULE MCParser ------------------------------
(* Instances of Parser for TLC. *)
EXTENDS Parser, TLC

MCNames == {<<"a">>}
MCTexts == {<<"<">>}
MCKeys  == {"xmlns"}
MCValues == {<<"\"">>}
MCAttributeSets == {[k \in Keys |-> <<"\"">>]}
\* Addresses are interchangeable: any unused one is as good as the one taken.
Addresses == Permutations(Nodes)
=============================================================================
