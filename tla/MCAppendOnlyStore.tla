------------------------ MODULE MCAppendOnlyStore ------------------------
(* Instances of AppendOnlyStore for TLC. *)
EXTENDS AppendOnlyStoreInv, TLC

CONSTANTS k1, k2, short, long

Symmetry == Permutations(Keys)

MCKeySize == [k \in Keys |-> 1]
MCValueSize == [v \in Values |-> IF v = long THEN 3 ELSE 1]
=============================================================================
