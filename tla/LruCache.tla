------------------------------ MODULE LruCache ------------------------------
(***************************************************************************)
(* LruCache.h: a doubly linked list of entries, most recently used first,  *)
(* and a map from keys to iterators into it.  Every operation holds mutex_ *)
(* from its first to its last line, so each one is a step.                 *)
(*                                                                         *)
(* A list node keeps its address while splice moves it about, so that an   *)
(* iterator stays good; the address of a node that was erased is used      *)
(* again.  An iterator is therefore the address of a node, not a position. *)
(***************************************************************************)
EXTENDS Integers, Sequences, FiniteSets

CONSTANTS
  Keys, Values, None,
  Capacity,   \* capacity_
  MaxUses,    \* bound: hits and puts
  MaxMisses   \* bound: misses

ASSUME LruCacheAssumption ==
  /\ IsFiniteSet(Keys)
  /\ Capacity \in Nat
  /\ MaxUses \in Nat
  /\ MaxMisses \in Nat
  /\ None \notin Values

VARIABLES
  entries,    \* entries_, front first
  index,      \* index_: the iterator of every cached key
  hits, misses, evictions,
  lastUse,    \* history: when every key was used last
  clock       \* history: number of uses

vars == <<entries, index, hits, misses, evictions, lastUse, clock>>
history == <<lastUse, clock>>

Addresses == 1..(Capacity + 1)

\* None stands for end(): it is the iterator of no node.
ASSUME NoneIsNoIterator == None \notin Addresses

Node == [addr: Addresses, key: Keys, value: Values]

TypeOK ==
  /\ entries \in Seq(Node)
  /\ index \in [Keys -> Addresses \cup {None}]
  /\ hits \in Nat /\ misses \in Nat /\ evictions \in Nat
  /\ lastUse \in [Keys -> Nat]
  /\ clock \in Nat

Init ==
  /\ entries = <<>>
  /\ index = [k \in Keys |-> None]
  /\ hits = 0 /\ misses = 0 /\ evictions = 0
  /\ lastUse = [k \in Keys |-> 0]
  /\ clock = 0

-----------------------------------------------------------------------------

\* The position of the node an iterator designates.
At(a) == CHOOSE i \in DOMAIN entries : entries[i].addr = a

WithoutAt(s, i) == SubSeq(s, 1, i - 1) \o SubSeq(s, i + 1, Len(s))

\* splice(begin(), entries_, it), after the value of the node was set to v.
ToFront(i, v) == <<[entries[i] EXCEPT !.value = v]>> \o WithoutAt(entries, i)

\* The address emplace_front gets from the allocator.
FreeAddress ==
  CHOOSE a \in Addresses : \A i \in DOMAIN entries : entries[i].addr # a

Used(k) ==
  /\ clock < MaxUses
  /\ clock' = clock + 1
  /\ lastUse' = [lastUse EXCEPT ![k] = clock + 1]

\* Mutant: a hit does not move the entry to the front.
GetHitNoSplice(k) ==
  /\ index[k] # None
  /\ hits' = hits + 1
  /\ Used(k)
  /\ UNCHANGED <<entries, index, misses, evictions>>

GetHit(k) ==
  /\ index[k] # None
  /\ entries' = ToFront(At(index[k]), entries[At(index[k])].value)
  /\ hits' = hits + 1
  /\ Used(k)
  /\ UNCHANGED <<index, misses, evictions>>

GetMiss(k) ==
  /\ index[k] = None
  /\ misses < MaxMisses
  /\ misses' = misses + 1
  /\ UNCHANGED <<entries, index, hits, evictions, history>>

\* put of a key that is cached.
PutExisting(k, v) ==
  /\ Capacity # 0
  /\ index[k] # None
  /\ entries' = ToFront(At(index[k]), v)
  /\ Used(k)
  /\ UNCHANGED <<index, hits, misses, evictions>>

\* Mutant: the iterator of the evicted entry stays in the map.
PutNewKeepsIterator(k, v) ==
  LET new == [addr |-> FreeAddress, key |-> k, value |-> v]
      all == <<new>> \o entries
  IN
  /\ Capacity # 0
  /\ index[k] = None
  /\ index' = [index EXCEPT ![k] = new.addr]
  /\ entries' = SubSeq(all, 1, IF Len(all) > Capacity THEN Capacity ELSE Len(all))
  /\ evictions' = evictions + (IF Len(all) > Capacity THEN 1 ELSE 0)
  /\ Used(k)
  /\ UNCHANGED <<hits, misses>>

\* put of a key that is not; the last entry goes when there are too many.
PutNew(k, v) ==
  LET new  == [addr |-> FreeAddress, key |-> k, value |-> v]
      all  == <<new>> \o entries
      last == all[Len(all)]
      added == [index EXCEPT ![k] = new.addr]
  IN
  /\ Capacity # 0
  /\ index[k] = None
  /\ IF Len(all) > Capacity
     THEN /\ index' = [added EXCEPT ![last.key] = None]
          /\ entries' = WithoutAt(all, Len(all))
          /\ evictions' = evictions + 1
     ELSE /\ index' = added
          /\ entries' = all
          /\ UNCHANGED evictions
  /\ Used(k)
  /\ UNCHANGED <<hits, misses>>

\* Mutant: erase takes an eviction back.
EraseUncounts(k) ==
  /\ index[k] # None
  /\ entries' = WithoutAt(entries, At(index[k]))
  /\ index' = [index EXCEPT ![k] = None]
  /\ evictions' = evictions - 1
  /\ UNCHANGED <<hits, misses, history>>

Erase(k) ==
  /\ index[k] # None
  /\ entries' = WithoutAt(entries, At(index[k]))
  /\ index' = [index EXCEPT ![k] = None]
  /\ UNCHANGED <<hits, misses, evictions, history>>

Clear ==
  /\ entries' = <<>>
  /\ index' = [k \in Keys |-> None]
  /\ UNCHANGED <<hits, misses, evictions, history>>

Next ==
  \/ \E k \in Keys : GetHit(k) \/ GetMiss(k) \/ Erase(k)
  \/ \E k \in Keys, v \in Values : PutExisting(k, v) \/ PutNew(k, v)
  \/ Clear

Spec == Init /\ [][Next]_vars

-----------------------------------------------------------------------------

\* The map and the list describe the same cache: every iterator designates a
\* node that is in the list and holds its key, every node is reachable through
\* the map, and no address is in use twice.  An operation that forgets one of
\* the two, get, put, erase, clear or an eviction, leaves an iterator to a freed
\* or reused node.
IteratorsValid ==
  /\ \A k \in Keys : index[k] # None =>
       \E i \in DOMAIN entries : entries[i].addr = index[k] /\ entries[i].key = k
  /\ \A i \in DOMAIN entries : index[entries[i].key] = entries[i].addr
  /\ \A i, j \in DOMAIN entries : entries[i].addr = entries[j].addr => i = j

\* The cached value of every key, found the way get finds it.
Contents ==
  [k \in Keys |-> IF index[k] = None THEN None ELSE entries[At(index[k])].value]

\* The list and the map implement the least-recently-used cache: capacity,
\* values and the choice of the entry an overflowing put drops.
Recency == INSTANCE RecencyCache WITH map <- Contents
ImplementsRecency == Recency!Spec

=============================================================================
