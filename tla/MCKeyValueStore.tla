-------------------------- MODULE MCKeyValueStore --------------------------
(* Instances of KeyValueStore for TLC. *)
EXTENDS KeyValueStore, TLC

CONSTANTS t1, t2, k1, k2, v1, v2

Symmetry == Permutations(Threads) \cup Permutations(Keys) \cup Permutations(Values)

NewFile == {<<>>}

SetOf(k, v, e) == [op |-> "Set", key |-> k, value |-> v, expiresAtMs |-> e]
DeleteOf(k) == [op |-> "Delete", key |-> k, value |-> None, expiresAtMs |-> 0]

\* A key that was removed and set again with a TTL that is about to end, one that
\* was set again after it had expired, and one whose last value has expired.
OldFile ==
  UNION {{<<SetOf(k, v, 0), DeleteOf(k), SetOf(k, v, 2)>>,
          <<SetOf(k, v, 1), SetOf(k, v, 0)>>,
          <<SetOf(k, v, 0), SetOf(k, v, 1)>>} : k \in Keys, v \in Values}

\* Two keys, one of them about to expire, behind an old record.
TwoKeyFile == {<<SetOf(k2, v1, 0), SetOf(k1, v1, 2), SetOf(k2, v1, 0)>>}
=============================================================================
