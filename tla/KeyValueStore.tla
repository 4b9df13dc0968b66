---------------------------- MODULE KeyValueStore ----------------------------
(***************************************************************************)
(* The engine (KeyValueStore.cpp) as the threads that call it see it.      *)
(* Every call is broken at the points where another thread can get in: at  *)
(* the lock of indexMutex_, between the calls of the storage, of the cache *)
(* and of the index, and at the checks of opened_, which no lock protects. *)
(*                                                                         *)
(* The storage is the sequence of the records it holds; its calls are      *)
(* atomic, because they hold fileMutex_ (AppendOnlyStore looks into them). *)
(* The cache drops any entry it likes when it is full (LruCache shows      *)
(* which one); its calls are atomic, because they hold its mutex.          *)
(***************************************************************************)
EXTENDS Naturals, Sequences, FiniteSets

CONSTANTS
  Threads, Keys, Values, None,
  TTLs,           \* the TTLs clients use, in clock units; 0 stands for none
  Calls,          \* the operations clients call
  InitialLogs,    \* what the data file may hold when the program starts
  CacheCapacity,  \* config_.cacheCapacity
  StorageFails,   \* TRUE: the storage may report errors that leave the file as it was
  MaxTime,        \* bound: the clock stops here
  MaxCalls,       \* bound: calls
  MaxOpens        \* bound: calls of open()

ASSUME KeyValueStoreAssumption ==
  /\ IsFiniteSet(Keys)
  /\ TTLs \subseteq Nat
  /\ Calls \subseteq {"set", "get", "remove", "keys", "compact", "cleanup", "close"}
  /\ CacheCapacity \in Nat
  /\ StorageFails \in BOOLEAN
  /\ MaxTime \in Nat \ {0} /\ MaxCalls \in Nat /\ MaxOpens \in Nat
  /\ None \notin Values

VARIABLES
  opened,   \* opened_
  writer,   \* the thread that holds indexMutex_ exclusively, or None
  readers,  \* the threads that hold it shared
  index,    \* index_
  log,      \* the records of the data file
  cache,    \* what cache_ holds
  now,      \* the system clock
  pc,       \* where every thread is
  call,     \* the arguments of its call
  loc,      \* its local variables
  res,      \* the answer of its call
  calls,    \* number of calls so far
  opens     \* number of calls of open() so far

vars == <<opened, writer, readers, index, log, cache, now, pc, call, loc, res,
          calls, opens>>

lock == <<writer, readers>>
env == <<now, calls, opens, call>>

Record == [op: {"Set"}, key: Keys, value: Values, expiresAtMs: Nat]
          \cup [op: {"Delete"}, key: Keys, value: {None}, expiresAtMs: {0}]
Metadata == [off: Nat, expiresAtMs: Nat]
Index == [Keys -> Metadata \cup {None}]
NoIndex == [k \in Keys |-> None]

\* None is none of the things it stands for the absence of: a thread, an entry of the
\* index, a value with its time, a call and its answer.  The data file holds records
\* of this store.
ASSUME NoneAssumption ==
  /\ None \notin Threads \cup Metadata \cup [value: Values, expiresAtMs: Nat]
  /\ None \notin [op: {"set", "get", "remove", "keys", "compact", "cleanup", "open", "close"},
                 key: Keys \cup {None}, value: Values \cup {None}, ttl: Nat, at: Nat]
  /\ None \notin [status: {"OK", "NotFound", "Closed", "IoError"},
                 value: Values \cup {None} \cup SUBSET Keys]
ASSUME LogsAssumption == InitialLogs \subseteq Seq(Record)

Labels == {"idle", "start", "set_lock", "set_append", "set_install", "get_lock",
           "get_cache", "get_read", "get_put", "get_erase", "rem_lock",
           "rem_append", "rem_erase", "keys_check", "keys_clean", "keys_list", "comp_lock",
           "comp_write", "comp_install", "clean_lock", "open_recover",
           "open_install", "open_clear", "open_flag", "done"}

Answer(s, v) == [status |-> s, value |-> v]
NoLoc == [time |-> 0, off |-> 0, value |-> None, index |-> NoIndex]

TypeOK ==
  /\ opened \in BOOLEAN
  /\ writer \in Threads \cup {None}
  /\ readers \subseteq Threads
  /\ writer = None \/ readers = {}
  /\ index \in Index
  /\ log \in Seq(Record)
  /\ cache \in [Keys -> Values \cup {None}]
  /\ now \in Nat
  /\ pc \in [Threads -> Labels]
  /\ loc \in [Threads -> [time: Nat, off: Nat, value: Values \cup {None}, index: Index]]
  /\ calls \in 0..MaxCalls
  /\ opens \in 0..MaxOpens

Init ==
  /\ opened = FALSE
  /\ writer = None
  /\ readers = {}
  /\ index = NoIndex
  /\ log \in InitialLogs
  /\ cache = NoIndex
  /\ now = 1
  /\ pc = [t \in Threads |-> "idle"]
  /\ call = [t \in Threads |-> None]
  /\ loc = [t \in Threads |-> NoLoc]
  /\ res = [t \in Threads |-> None]
  /\ calls = 0
  /\ opens = 0

-----------------------------------------------------------------------------
(* Helpers. *)

isExpired(e, t) == e > 0 /\ e <= t

Goto(t, l) == pc' = [pc EXCEPT ![t] = l]
Finish(t, a) == Goto(t, "done") /\ res' = [res EXCEPT ![t] = a]

CanWrite == writer = None /\ readers = {}
CanRead == writer = None

Cached(c) == {k \in Keys : c[k] # None}

\* The caches put may leave behind.
CachePut(k, v) ==
  LET c == [cache EXCEPT ![k] = v] IN
  IF CacheCapacity = 0 THEN {cache}
  ELSE IF Cardinality(Cached(c)) <= CacheCapacity THEN {c}
       ELSE {[c EXCEPT ![j] = None] : j \in Cached(cache)}

Expired(k, t) == index[k] # None /\ isExpired(index[k].expiresAtMs, t)

\* Index and cache without the keys of ks.
EraseKeys(ks) ==
  /\ index' = [k \in Keys |-> IF k \in ks THEN None ELSE index[k]]
  /\ cache' = [k \in Keys |-> IF k \in ks THEN None ELSE cache[k]]

ExpiredKeys == {k \in Keys : Expired(k, now)}

\* readValue: None when there is no such record in the file.
ReadAt(off) == IF off \in DOMAIN log THEN log[off].value ELSE None

\* The position of the last record of key k, 0 when it has none.
LastOf(k) ==
  LET ps == {i \in DOMAIN log : log[i].key = k} IN
  IF ps = {} THEN 0 ELSE CHOOSE i \in ps : \A j \in ps : j <= i

\* The index recover() builds from the log.
Recovered ==
  [k \in Keys |->
     IF LastOf(k) = 0 THEN None
     ELSE LET r == log[LastOf(k)] IN
          IF r.op = "Delete" \/ isExpired(r.expiresAtMs, now) THEN None
          ELSE [off |-> LastOf(k), expiresAtMs |-> r.expiresAtMs]]

-----------------------------------------------------------------------------
(* Calls. *)

\* The arguments a call of o has, and the moment it is made.
Requests(o) ==
  [op: {o},
   key: IF o \in {"set", "get", "remove"} THEN Keys ELSE {None},
   value: IF o = "set" THEN Values ELSE {None},
   ttl: IF o = "set" THEN TTLs ELSE {0},
   at: {now}]

Invoke(t) ==
  /\ pc[t] = "idle"
  /\ calls < MaxCalls
  /\ \E o \in Calls : \E c \in Requests(o) : call' = [call EXCEPT ![t] = c]
  /\ calls' = calls + 1
  /\ Goto(t, "start")
  /\ UNCHANGED <<opened, lock, index, log, cache, now, loc, res, opens>>

InvokeOpen(t) ==
  /\ pc[t] = "idle"
  /\ opens < MaxOpens
  /\ \E c \in Requests("open") : call' = [call EXCEPT ![t] = c]
  /\ opens' = opens + 1
  /\ Goto(t, "start")
  /\ UNCHANGED <<opened, lock, index, log, cache, now, loc, res, calls>>

\* The first check of isOpen() of every call but open and close.
Start(t) ==
  /\ pc[t] = "start"
  /\ call[t].op \notin {"open", "close"}
  /\ IF ~opened
     THEN Finish(t, Answer(IF call[t].op = "cleanup" THEN "OK" ELSE "Closed", None))
          /\ UNCHANGED loc
     ELSE /\ Goto(t, [set |-> "set_lock", get |-> "get_lock", remove |-> "rem_lock",
                      keys |-> "keys_check", compact |-> "comp_lock",
                      cleanup |-> "clean_lock"][call[t].op])
          /\ loc' = [loc EXCEPT ![t].time =
                       IF call[t].op = "set" /\ call[t].ttl > 0
                       THEN now + call[t].ttl ELSE 0]
          /\ UNCHANGED res
  /\ UNCHANGED <<opened, lock, index, log, cache, env>>

Return(t) ==
  /\ pc[t] = "done"
  /\ Goto(t, "idle")
  /\ call' = [call EXCEPT ![t] = None]
  /\ loc' = [loc EXCEPT ![t] = NoLoc]
  /\ res' = [res EXCEPT ![t] = None]
  /\ UNCHANGED <<opened, lock, index, log, cache, now, calls, opens>>

-----------------------------------------------------------------------------
(* set *)

\* Mutant: a set that does not wait for the threads that read.
SetLockNoWait(t) ==
  /\ pc[t] = "set_lock"
  /\ CanRead
  /\ opened
  /\ Goto(t, "set_append")
  /\ writer' = t
  /\ UNCHANGED <<opened, readers, index, log, cache, loc, res, env>>

SetLock(t) ==
  /\ pc[t] = "set_lock"
  /\ CanWrite
  /\ IF opened
     THEN Goto(t, "set_append") /\ writer' = t /\ UNCHANGED res
     ELSE Finish(t, Answer("Closed", None)) /\ UNCHANGED writer
  /\ UNCHANGED <<opened, readers, index, log, cache, loc, env>>

SetAppend(t) ==
  /\ pc[t] = "set_append"
  /\ log' = Append(log, [op |-> "Set", key |-> call[t].key, value |-> call[t].value,
                         expiresAtMs |-> loc[t].time])
  /\ loc' = [loc EXCEPT ![t].off = Len(log) + 1]
  /\ Goto(t, "set_install")
  /\ UNCHANGED <<opened, lock, index, cache, res, env>>

\* Mutant: a set that leaves the cache alone.
SetInstallKeepsCache(t) ==
  /\ pc[t] = "set_install"
  /\ index' = [index EXCEPT ![call[t].key] =
                 [off |-> loc[t].off, expiresAtMs |-> loc[t].time]]
  /\ writer' = None
  /\ Finish(t, Answer("OK", None))
  /\ UNCHANGED <<opened, readers, log, cache, loc, env>>

SetInstall(t) ==
  /\ pc[t] = "set_install"
  /\ index' = [index EXCEPT ![call[t].key] =
                 [off |-> loc[t].off, expiresAtMs |-> loc[t].time]]
  /\ cache' \in CachePut(call[t].key, call[t].value)
  /\ writer' = None
  /\ Finish(t, Answer("OK", None))
  /\ UNCHANGED <<opened, readers, log, loc, env>>

\* The storage returns an error to the thread that holds the exclusive lock.
WriteFails(t) ==
  /\ StorageFails
  /\ pc[t] \in {"set_append", "rem_append", "comp_write"}
  /\ writer' = None
  /\ Finish(t, Answer("IoError", None))
  /\ UNCHANGED <<opened, readers, index, log, cache, loc, env>>

-----------------------------------------------------------------------------
(* get, and exists, which calls it *)

\* Mutant: a get that does not look at the clock.
GetLockNoExpiry(t) ==
  /\ pc[t] = "get_lock"
  /\ CanRead
  /\ \/ /\ index[call[t].key] = None
        /\ Finish(t, Answer("NotFound", None))
        /\ UNCHANGED readers
     \/ /\ index[call[t].key] # None
        /\ Goto(t, "get_cache")
        /\ readers' = readers \cup {t}
        /\ UNCHANGED res
  /\ UNCHANGED <<opened, writer, index, log, cache, loc, env>>

\* Mutant: a get that calls eraseIfExpired with the shared lock still held.
GetLockNoUnlock(t) ==
  LET k == call[t].key IN
  /\ pc[t] = "get_lock"
  /\ CanRead
  /\ IF index[k] = None
     THEN Finish(t, Answer("NotFound", None)) /\ UNCHANGED <<readers, loc>>
     ELSE /\ readers' = readers \cup {t}
          /\ loc' = [loc EXCEPT ![t].time = now]
          /\ Goto(t, IF Expired(k, now) THEN "get_erase" ELSE "get_cache")
          /\ UNCHANGED res
  /\ UNCHANGED <<opened, writer, index, log, cache, env>>

GetLock(t) ==
  LET k == call[t].key IN
  /\ pc[t] = "get_lock"
  /\ CanRead
  /\ \/ /\ index[k] = None
        /\ Finish(t, Answer("NotFound", None))
        /\ UNCHANGED <<loc, readers>>
     \/ /\ Expired(k, now)
        /\ Goto(t, "get_erase")
        /\ loc' = [loc EXCEPT ![t].time = now]
        /\ UNCHANGED <<res, readers>>
     \/ /\ index[k] # None
        /\ ~Expired(k, now)
        /\ Goto(t, "get_cache")
        /\ readers' = readers \cup {t}
        /\ UNCHANGED <<loc, res>>
  /\ UNCHANGED <<opened, writer, index, log, cache, env>>

GetCache(t) ==
  LET v == cache[call[t].key] IN
  /\ pc[t] = "get_cache"
  /\ IF v # None
     THEN Finish(t, Answer("OK", v)) /\ readers' = readers \ {t}
     ELSE Goto(t, "get_read") /\ UNCHANGED <<res, readers>>
  /\ UNCHANGED <<opened, writer, index, log, cache, loc, env>>

GetRead(t) ==
  LET v == ReadAt(index[call[t].key].off) IN
  /\ pc[t] = "get_read"
  /\ \/ /\ v # None
        /\ loc' = [loc EXCEPT ![t].value = v]
        /\ Goto(t, "get_put")
        /\ UNCHANGED <<res, readers>>
     \/ /\ v = None \/ StorageFails
        /\ Finish(t, Answer("IoError", None))
        /\ readers' = readers \ {t}
        /\ UNCHANGED loc
  /\ UNCHANGED <<opened, writer, index, log, cache, env>>

GetPut(t) ==
  /\ pc[t] = "get_put"
  /\ cache' \in CachePut(call[t].key, loc[t].value)
  /\ readers' = readers \ {t}
  /\ Finish(t, Answer("OK", loc[t].value))
  /\ UNCHANGED <<opened, writer, index, log, loc, env>>

\* Mutant: eraseIfExpired without its second look at the index.
GetEraseNoRecheck(t) ==
  /\ pc[t] = "get_erase"
  /\ CanWrite
  /\ EraseKeys({call[t].key})
  /\ Finish(t, Answer("NotFound", None))
  /\ UNCHANGED <<opened, lock, log, loc, env>>

\* eraseIfExpired, with the time get has read.
GetErase(t) ==
  LET k == call[t].key IN
  /\ pc[t] = "get_erase"
  /\ CanWrite
  /\ EraseKeys(IF Expired(k, loc[t].time) THEN {k} ELSE {})
  /\ Finish(t, Answer("NotFound", None))
  /\ UNCHANGED <<opened, lock, log, loc, env>>

-----------------------------------------------------------------------------
(* remove *)

RemLock(t) ==
  LET k == call[t].key IN
  /\ pc[t] = "rem_lock"
  /\ CanWrite
  /\ IF index[k] = None \/ Expired(k, now)
     THEN /\ EraseKeys(IF index[k] = None THEN {} ELSE {k})
          /\ Finish(t, Answer("NotFound", None))
          /\ UNCHANGED writer
     ELSE /\ Goto(t, "rem_append")
          /\ writer' = t
          /\ UNCHANGED <<index, cache, res>>
  /\ UNCHANGED <<opened, readers, log, loc, env>>

\* Mutant: a remove that writes no tombstone.
RemAppendNothing(t) ==
  /\ pc[t] = "rem_append"
  /\ Goto(t, "rem_erase")
  /\ UNCHANGED <<opened, lock, index, log, cache, loc, res, env>>

RemAppend(t) ==
  /\ pc[t] = "rem_append"
  /\ log' = Append(log, [op |-> "Delete", key |-> call[t].key, value |-> None,
                         expiresAtMs |-> 0])
  /\ Goto(t, "rem_erase")
  /\ UNCHANGED <<opened, lock, index, cache, loc, res, env>>

\* Mutant: a remove that leaves the value in the cache.
RemEraseKeepsCache(t) ==
  /\ pc[t] = "rem_erase"
  /\ index' = [index EXCEPT ![call[t].key] = None]
  /\ writer' = None
  /\ Finish(t, Answer("OK", None))
  /\ UNCHANGED <<opened, readers, log, cache, loc, env>>

RemErase(t) ==
  /\ pc[t] = "rem_erase"
  /\ EraseKeys({call[t].key})
  /\ writer' = None
  /\ Finish(t, Answer("OK", None))
  /\ UNCHANGED <<opened, readers, log, loc, env>>

-----------------------------------------------------------------------------
(* keys, cleanupExpired and compact *)

\* keys() calls cleanupExpired(), which does nothing once the store is closed.
KeysCheck(t) ==
  /\ pc[t] = "keys_check"
  /\ Goto(t, IF opened THEN "keys_clean" ELSE "keys_list")
  /\ UNCHANGED <<opened, lock, index, log, cache, loc, res, env>>

KeysClean(t) ==
  /\ pc[t] = "keys_clean"
  /\ CanWrite
  /\ EraseKeys(ExpiredKeys)
  /\ Goto(t, "keys_list")
  /\ UNCHANGED <<opened, lock, log, loc, res, env>>

KeysList(t) ==
  /\ pc[t] = "keys_list"
  /\ CanRead
  /\ Finish(t, Answer("OK", {k \in Keys : index[k] # None}))
  /\ UNCHANGED <<opened, lock, index, log, cache, loc, env>>

CleanLock(t) ==
  /\ pc[t] = "clean_lock"
  /\ CanWrite
  /\ EraseKeys(ExpiredKeys)
  /\ Finish(t, Answer("OK", None))
  /\ UNCHANGED <<opened, lock, log, loc, env>>

\* Expired entries go, and the values of the others are read.
CompLock(t) ==
  /\ pc[t] = "comp_lock"
  /\ CanWrite
  /\ EraseKeys(ExpiredKeys)
  /\ \/ /\ \A k \in Keys : index'[k] # None => ReadAt(index'[k].off) # None
        /\ Goto(t, "comp_write")
        /\ writer' = t
        /\ UNCHANGED res
     \/ /\ \E k \in Keys : index'[k] # None /\ (StorageFails \/ ReadAt(index'[k].off) = None)
        /\ Finish(t, Answer("IoError", None))
        /\ UNCHANGED writer
  /\ UNCHANGED <<opened, readers, log, loc, env>>

\* The log with only the live records in it, in any order of their keys.
CompWrite(t) ==
  LET ks == {k \in Keys : index[k] # None} IN
  /\ pc[t] = "comp_write"
  /\ \E order \in [1..Cardinality(ks) -> ks] :
       /\ \A k \in ks : \E i \in DOMAIN order : order[i] = k
       /\ log' = [i \in DOMAIN order |->
                    [op |-> "Set", key |-> order[i], value |-> ReadAt(index[order[i]].off),
                     expiresAtMs |-> index[order[i]].expiresAtMs]]
       /\ loc' = [loc EXCEPT ![t].index =
                    [k \in Keys |->
                       IF k \in ks
                       THEN [off |-> CHOOSE i \in DOMAIN order : order[i] = k,
                             expiresAtMs |-> index[k].expiresAtMs]
                       ELSE None]]
  /\ Goto(t, "comp_install")
  /\ UNCHANGED <<opened, lock, index, cache, res, env>>

\* Mutant: a compaction that keeps the offsets of the old file.
CompInstallKeepsIndex(t) ==
  /\ pc[t] = "comp_install"
  /\ cache' = NoIndex
  /\ writer' = None
  /\ Finish(t, Answer("OK", None))
  /\ UNCHANGED <<opened, readers, index, log, loc, env>>

CompInstall(t) ==
  /\ pc[t] = "comp_install"
  /\ index' = loc[t].index
  /\ cache' = NoIndex
  /\ writer' = None
  /\ Finish(t, Answer("OK", None))
  /\ UNCHANGED <<opened, readers, log, loc, env>>

-----------------------------------------------------------------------------
(* open and close *)

OpenStart(t) ==
  /\ pc[t] = "start"
  /\ call[t].op = "open"
  /\ IF opened THEN Finish(t, Answer("OK", None))
               ELSE Goto(t, "open_recover") /\ UNCHANGED res
  /\ UNCHANGED <<opened, lock, index, log, cache, loc, env>>

\* recover() runs without indexMutex_.
OpenRecover(t) ==
  /\ pc[t] = "open_recover"
  /\ \/ /\ loc' = [loc EXCEPT ![t].index = Recovered]
        /\ Goto(t, "open_install")
        /\ UNCHANGED res
     \/ /\ StorageFails
        /\ Finish(t, Answer("IoError", None))
        /\ UNCHANGED loc
  /\ UNCHANGED <<opened, lock, index, log, cache, env>>

OpenInstall(t) ==
  /\ pc[t] = "open_install"
  /\ CanWrite
  /\ index' = loc[t].index
  /\ Goto(t, "open_clear")
  /\ UNCHANGED <<opened, lock, log, cache, loc, res, env>>

OpenClear(t) ==
  /\ pc[t] = "open_clear"
  /\ cache' = NoIndex
  /\ Goto(t, "open_flag")
  /\ UNCHANGED <<opened, lock, index, log, loc, res, env>>

OpenFlag(t) ==
  /\ pc[t] = "open_flag"
  /\ opened' = TRUE
  /\ Finish(t, Answer("OK", None))
  /\ UNCHANGED <<lock, index, log, cache, loc, env>>

Close(t) ==
  /\ pc[t] = "start"
  /\ call[t].op = "close"
  /\ opened' = FALSE
  /\ Finish(t, Answer("OK", None))
  /\ UNCHANGED <<lock, index, log, cache, loc, env>>

-----------------------------------------------------------------------------

Step(t) ==
  \/ Start(t) \/ Return(t)
  \/ SetLock(t) \/ SetAppend(t) \/ SetInstall(t) \/ WriteFails(t)
  \/ GetLock(t) \/ GetCache(t) \/ GetRead(t) \/ GetPut(t) \/ GetErase(t)
  \/ RemLock(t) \/ RemAppend(t) \/ RemErase(t)
  \/ KeysCheck(t) \/ KeysClean(t) \/ KeysList(t) \/ CleanLock(t)
  \/ CompLock(t) \/ CompWrite(t) \/ CompInstall(t)
  \/ OpenStart(t) \/ OpenRecover(t) \/ OpenInstall(t) \/ OpenClear(t) \/ OpenFlag(t)
  \/ Close(t)

Tick ==
  /\ now < MaxTime
  /\ now' = now + 1
  /\ UNCHANGED <<opened, lock, index, log, cache, pc, call, loc, res, calls, opens>>

\* No thread is in a call and there will be no further one.
Quiescent ==
  /\ \A t \in Threads : pc[t] = "idle"
  /\ UNCHANGED vars

Next ==
  \/ \E t \in Threads : Invoke(t) \/ InvokeOpen(t) \/ Step(t)
  \/ Tick
  \/ Quiescent

Spec == Init /\ [][Next]_vars

\* Every thread that is in a call is run again and again.
FairSpec == Spec /\ \A t \in Threads : WF_vars(Step(t))

-----------------------------------------------------------------------------
(* Properties. *)

\* With no writer at work, the cache holds no value but the one the index leads
\* to: no set, remove, expiry, compact or open leaves an old value behind that a
\* later get would return.
CacheCoherent ==
  writer = None /\ (\A t \in Threads : pc[t] \notin {"open_install", "open_clear"}) =>
    \A k \in Keys : cache[k] # None =>
      index[k] # None /\ cache[k] = ReadAt(index[k].off)

\* In an open store with no writer at work, the index designates the last record of every key,
\* or has no entry where that record is a delete or expired: the record that was
\* appended last and the entry that was installed last are the same.
IndexMatchesLog ==
  opened /\ writer = None =>
    \A k \in Keys :
      IF index[k] # None
      THEN /\ index[k].off = LastOf(k)
           /\ log[LastOf(k)].op = "Set"
           /\ log[LastOf(k)].expiresAtMs = index[k].expiresAtMs
      ELSE \/ LastOf(k) = 0
           \/ log[LastOf(k)].op = "Delete"
           \/ isExpired(log[LastOf(k)].expiresAtMs, now)

\* The last entry of key k is the last record of it in the log.
EntryOf(k) ==
  IF LastOf(k) = 0 \/ log[LastOf(k)].op = "Delete" THEN None
  ELSE [value |-> log[LastOf(k)].value, expiresAtMs |-> log[LastOf(k)].expiresAtMs]

\* The answer of a call that has taken effect: set, remove and compact do so
\* when the log changes, get when it reads the clock.
AnswerOf(t) ==
  CASE pc[t] = "done" -> res[t]
    [] pc[t] \in {"set_install", "rem_erase", "comp_install"} -> Answer("OK", None)
    [] pc[t] \in {"get_cache", "get_read", "get_put"} ->
         Answer("OK", ReadAt(index[call[t].key].off))
    [] pc[t] = "get_erase" -> Answer("NotFound", None)
    [] OTHER -> None

Map == INSTANCE KVMap WITH
  up  <- opened,
  db  <- [k \in Keys |-> EntryOf(k)],
  ret <- [t \in Threads |-> AnswerOf(t)]

\* The calls of any number of threads are linearizable: each takes effect at
\* one moment between its invocation and its return, no get returns a value that
\* has expired or was overwritten before the call, and compaction, clean-up and
\* the cache do not show.
Linearizable == Map!Spec

\* Every call returns: no thread waits for ever for indexMutex_.
EveryCallReturns == \A t \in Threads : pc[t] # "idle" ~> pc[t] = "idle"

=============================================================================
