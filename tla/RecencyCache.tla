---------------------------- MODULE RecencyCache ----------------------------
(***************************************************************************)
(* What a least-recently-used cache promises: it keeps the values of at    *)
(* most Capacity keys, answers with the value that was put last, and drops *)
(* an entry on its own only to make room for another one, and then the one *)
(* whose last use is the longest ago.                                      *)
(***************************************************************************)
EXTENDS Naturals, FiniteSets

CONSTANTS Keys, Values, Capacity, None

VARIABLES
  map,      \* the value of every cached key, None for the others
  lastUse,  \* when every key was used last
  clock     \* number of uses so far

vars == <<map, lastUse, clock>>

Cached == {k \in Keys : map[k] # None}

Init ==
  /\ map = [k \in Keys |-> None]
  /\ lastUse = [k \in Keys |-> 0]
  /\ clock = 0

Use(k) ==
  /\ clock' = clock + 1
  /\ lastUse' = [lastUse EXCEPT ![k] = clock + 1]

Get(k) ==
  /\ k \in Cached
  /\ Use(k)
  /\ UNCHANGED map

Put(k, v) ==
  /\ Capacity > 0
  /\ k \in Cached \/ Cardinality(Cached) < Capacity
  /\ map' = [map EXCEPT ![k] = v]
  /\ Use(k)

\* The cache is full: key old makes room.
PutEvicting(k, v, old) ==
  /\ Capacity > 0
  /\ k \notin Cached
  /\ Cardinality(Cached) = Capacity
  /\ old \in Cached
  /\ \A j \in Cached : lastUse[old] <= lastUse[j]
  /\ map' = [map EXCEPT ![k] = v, ![old] = None]
  /\ Use(k)

Drop(ks) ==
  /\ map' = [k \in Keys |-> IF k \in ks THEN None ELSE map[k]]
  /\ UNCHANGED <<lastUse, clock>>

Next ==
  \/ \E k \in Keys : Get(k) \/ Drop({k})
  \/ \E k \in Keys, v \in Values : Put(k, v)
  \/ \E k, old \in Keys, v \in Values : PutEvicting(k, v, old)
  \/ Drop(Keys)

Spec == Init /\ [][Next]_vars

=============================================================================
