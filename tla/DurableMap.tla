----------------------------- MODULE DurableMap -----------------------------
(***************************************************************************)
(* What the storage promises across restarts: a map that outlives the      *)
(* process.  A write that was acknowledged is in it for good, one the      *)
(* process died in is in it or is not, once and for all, and an open store *)
(* shows the whole map and nothing else.  An entry leaves the map when its *)
(* time has come, also while the store is down.                            *)
(***************************************************************************)
EXTENDS Naturals

CONSTANTS Keys, Values, TTLs, None

VARIABLES
  now,   \* the clock
  up,    \* the store is open
  db,    \* the entry of every key, None where there is none
  view   \* what a lookup finds

vars == <<now, up, db, view>>

Nothing == [k \in Keys |-> None]

\* The entry a set makes.
EntryFor(v, ttl) ==
  [value |-> v, expiresAtMs |-> IF ttl = 0 THEN 0 ELSE now + ttl]

ExpiresBy(e, t) == e # None /\ e.expiresAtMs > 0 /\ e.expiresAtMs <= t

\* An open store shows the map.
Shows == view' = IF up' THEN db' ELSE Nothing

Init ==
  /\ now = 1
  /\ up = FALSE
  /\ db = Nothing
  /\ view = Nothing

Open ==
  /\ ~up
  /\ up' = TRUE
  /\ Shows
  /\ UNCHANGED <<now, db>>

\* The store is closed or destroyed, or the process dies outside a write.
Stop ==
  /\ up
  /\ up' = FALSE
  /\ Shows
  /\ UNCHANGED <<now, db>>

\* The entry of k becomes e.
Write(k, e) ==
  /\ UNCHANGED <<now, up>>
  /\ db' = [db EXCEPT ![k] = e]
  /\ Shows

\* The process dies while it writes that: the map has changed or it has not.
WriteCrash(k, e) ==
  /\ up' = FALSE
  /\ db' \in {db, [db EXCEPT ![k] = e]}
  /\ Shows
  /\ UNCHANGED now

Set(k, v, ttl) == up /\ Write(k, EntryFor(v, ttl))
SetCrash(k, v, ttl) == up /\ WriteCrash(k, EntryFor(v, ttl))

\* There is nothing to remove where there is no entry.
Remove(k) == up /\ db[k] # None /\ Write(k, None)
RemoveCrash(k) == up /\ db[k] # None /\ WriteCrash(k, None)

Tick ==
  /\ now' = now + 1
  /\ db' = [k \in Keys |-> IF ExpiresBy(db[k], now') THEN None ELSE db[k]]
  /\ Shows
  /\ UNCHANGED up

Next ==
  \/ Open \/ Stop \/ Tick
  \/ \E k \in Keys, v \in Values, ttl \in TTLs : Set(k, v, ttl) \/ SetCrash(k, v, ttl)
  \/ \E k \in Keys : Remove(k) \/ RemoveCrash(k)

Spec == Init /\ [][Next]_vars

=============================================================================
