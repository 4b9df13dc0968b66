-------------------------------- MODULE KVMap --------------------------------
(***************************************************************************)
(* What the engine promises to the threads that call it: a map from keys   *)
(* to values in which every call takes effect at one moment between its    *)
(* invocation and its return, and in which nobody finds an entry whose     *)
(* time has come.  A call that fails changes nothing.                      *)
(***************************************************************************)
EXTENDS Naturals

CONSTANTS Threads, Keys, Values, TTLs, None

VARIABLES
  now,   \* the clock
  up,    \* the store is open
  db,    \* the last entry of every key, expired or not; None where there is none
  call,  \* the call every thread is in, None between calls
  ret    \* its answer, None before it has taken effect

vars == <<now, up, db, call, ret>>

Ops == {"set", "get", "remove", "keys", "compact", "cleanup", "open", "close"}

Answer(s, v) == [status |-> s, value |-> v]

LiveAt(e, t) ==
  e # None /\ ~(e.expiresAtMs > 0 /\ e.expiresAtMs <= t)

Entry == [value: Values, expiresAtMs: Nat]

\* The arguments a call of o has.
Requests(o) ==
  [op: {o},
   key: IF o \in {"set", "get", "remove"} THEN Keys ELSE {None},
   value: IF o = "set" THEN Values ELSE {None},
   ttl: IF o = "set" THEN TTLs ELSE {0},
   at: {now}]

Init ==
  /\ now = 1
  /\ up = FALSE
  /\ \A k \in Keys : db[k] = None \/ db[k] \in Entry
  /\ call = [t \in Threads |-> None]
  /\ ret = [t \in Threads |-> None]

Invoke(t) ==
  /\ call[t] = None
  /\ \E o \in Ops : \E c \in Requests(o) : call' = [call EXCEPT ![t] = c]
  /\ UNCHANGED <<now, up, db, ret>>

Runs(t, o) == call[t] # None /\ ret[t] = None /\ call[t].op = o

Answers(t, a) == ret' = [ret EXCEPT ![t] = a] /\ UNCHANGED <<now, call>>

\* The time to live starts at some moment of the call.
Set(t) ==
  /\ Runs(t, "set")
  /\ \E s \in call[t].at..now :
       db' = [db EXCEPT ![call[t].key] =
                [value |-> call[t].value,
                 expiresAtMs |-> IF call[t].ttl = 0 THEN 0 ELSE s + call[t].ttl]]
  /\ Answers(t, Answer("OK", None))
  /\ UNCHANGED up

Get(t) ==
  /\ Runs(t, "get")
  /\ Answers(t, IF LiveAt(db[call[t].key], now)
                THEN Answer("OK", db[call[t].key].value)
                ELSE Answer("NotFound", None))
  /\ UNCHANGED <<up, db>>

\* The entry was alive at some moment of the call.
Remove(t) ==
  /\ Runs(t, "remove")
  /\ \E s \in call[t].at..now : LiveAt(db[call[t].key], s)
  /\ db' = [db EXCEPT ![call[t].key] = None]
  /\ Answers(t, Answer("OK", None))
  /\ UNCHANGED up

RemoveNothing(t) ==
  /\ Runs(t, "remove")
  /\ ~LiveAt(db[call[t].key], now)
  /\ Answers(t, Answer("NotFound", None))
  /\ UNCHANGED <<up, db>>

\* No key that has a live entry is missing from the list, and none that was
\* removed, or never set, is in it; one whose entry has expired may be.
ListKeys(t) ==
  /\ Runs(t, "keys")
  /\ \E ks \in SUBSET {k \in Keys : db[k] # None} :
       /\ {k \in Keys : LiveAt(db[k], now)} \subseteq ks
       /\ Answers(t, Answer("OK", ks))
  /\ UNCHANGED <<up, db>>

\* Compaction and clean-up forget nothing but expired entries.
Maintain(t) ==
  /\ Runs(t, "compact") \/ Runs(t, "cleanup")
  /\ \E ks \in SUBSET {k \in Keys : ~LiveAt(db[k], now)} :
       db' = [k \in Keys |-> IF k \in ks THEN None ELSE db[k]]
  /\ Answers(t, Answer("OK", None))
  /\ UNCHANGED up

Open(t) ==
  /\ Runs(t, "open")
  /\ up' = TRUE
  /\ Answers(t, Answer("OK", None))
  /\ UNCHANGED db

Close(t) ==
  /\ Runs(t, "close")
  /\ up' = FALSE
  /\ Answers(t, Answer("OK", None))
  /\ UNCHANGED db

\* A call is refused only while the store is not open.
Refuse(t) ==
  /\ call[t] # None
  /\ ret[t] = None
  /\ ~up
  /\ Answers(t, Answer("Closed", None))
  /\ UNCHANGED <<up, db>>

\* The storage reports an error before the call has changed anything; to a get,
\* also when it cannot read the value of the entry it has found.
Fail(t) ==
  /\ call[t] # None
  /\ ret[t] = None \/ call[t].op = "get"
  /\ Answers(t, Answer("IoError", None))
  /\ UNCHANGED <<up, db>>

Return(t) ==
  /\ ret[t] # None
  /\ call' = [call EXCEPT ![t] = None]
  /\ ret' = [ret EXCEPT ![t] = None]
  /\ UNCHANGED <<now, up, db>>

Tick ==
  /\ now' = now + 1
  /\ UNCHANGED <<up, db, call, ret>>

Next ==
  \/ \E t \in Threads :
       \/ Invoke(t) \/ Return(t)
       \/ Set(t) \/ Get(t) \/ Remove(t) \/ RemoveNothing(t) \/ ListKeys(t) \/ Maintain(t)
       \/ Open(t) \/ Close(t) \/ Refuse(t) \/ Fail(t)
  \/ Tick

Spec == Init /\ [][Next]_vars

=============================================================================
