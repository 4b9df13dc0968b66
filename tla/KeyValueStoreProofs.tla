------------------------ MODULE KeyValueStoreProofs ------------------------
(***************************************************************************)
(* Safety of the engine, for any number of threads, keys and calls.        *)
(*                                                                         *)
(* The argument has three layers, each an inductive invariant of its own:  *)
(* who holds indexMutex_ where (Basic), what the cache may hold (CInv) and *)
(* how the index and the log agree (MInv).  The first two need nothing of  *)
(* the callers; the third needs that open() runs while no other call does, *)
(* because open() installs what it has read without the lock.              *)
(***************************************************************************)
EXTENDS KeyValueStore, TLAPS, FiniteSetTheorems, SequenceTheorems,
        WellFoundedInduction

SetLabels == {"set_lock", "set_append", "set_install"}
GetLabels == {"get_lock", "get_cache", "get_read", "get_put", "get_erase"}
RemoveLabels == {"rem_lock", "rem_append", "rem_erase"}
OpenLabels == {"open_recover", "open_install", "open_clear", "open_flag"}
WriteLabels == {"set_append", "set_install", "rem_append", "rem_erase",
                "comp_write", "comp_install"}
ReadLabels == {"get_cache", "get_read", "get_put"}
QuietLabels == {"idle", "start", "done"}

\* Where a thread is says what it holds of indexMutex_.
LockOK ==
  \A t \in Threads :
    /\ writer = t <=> pc[t] \in WriteLabels
    /\ t \in readers <=> pc[t] \in ReadLabels

SetRequest == [op: {"set"}, key: Keys, value: Values, ttl: TTLs, at: Nat]
KeyRequest(o) == [op: {o}, key: Keys, value: {None}, ttl: {0}, at: Nat]
PlainRequest ==
  [op: {"keys", "compact", "cleanup", "open", "close"}, key: {None}, value: {None},
   ttl: {0}, at: Nat]

\* Where a thread is says which call it is in.
CallOK ==
  \A t \in Threads :
    /\ pc[t] = "start" =>
         call[t] \in SetRequest \cup KeyRequest("get") \cup KeyRequest("remove")
                     \cup PlainRequest
    /\ pc[t] \in SetLabels => call[t] \in SetRequest
    /\ pc[t] \in GetLabels => call[t] \in KeyRequest("get")
    /\ pc[t] \in RemoveLabels => call[t] \in KeyRequest("remove")

CallTyped == call = [t \in Threads |-> call[t]]

\* A compaction that has read the values can write every one of them.
CompactOK ==
  \A t \in Threads : pc[t] = "comp_write" =>
    \A k \in Keys : index[k] # None => ReadAt(index[k].off) \in Values

\* The first inductive invariant.
Basic == TypeOK /\ CallTyped /\ LockOK /\ CallOK /\ CompactOK

-----------------------------------------------------------------------------
(* Operators. *)

\* What put may make of the cache: nothing but the new value comes in.
LEMMA CachePutProperties ==
  ASSUME cache \in [Keys -> Values \cup {None}],
         NEW k \in Keys, NEW v \in Values, NEW c \in CachePut(k, v)
  PROVE  /\ c \in [Keys -> Values \cup {None}]
         /\ \A x \in Keys : x # k => c[x] = None \/ c[x] = cache[x]
         /\ CacheCapacity # 0 => c[k] = None \/ c[k] = v
         /\ CacheCapacity = 0 => c = cache
<1> DEFINE d == [cache EXCEPT ![k] = v]
<1>1. d \in [Keys -> Values \cup {None}]
  OBVIOUS
<1>2. CASE CacheCapacity = 0
  BY <1>2 DEF CachePut
<1>3. CASE CacheCapacity # 0 /\ c = d
  BY <1>1, <1>3
<1>4. CASE CacheCapacity # 0 /\ c # d
  <2>1. PICK j \in Cached(cache) : c = [d EXCEPT ![j] = None]
    BY <1>4 DEF CachePut
  <2>2. j \in Keys
    BY DEF Cached
  <2> QED
    BY <2>1, <2>2, <1>1, <1>4
<1> QED
  BY <1>2, <1>3, <1>4

\* A call is one of the requests, made now.
LEMMA RequestsProperties ==
  ASSUME now \in Nat, NEW o \in Calls \cup {"open"}, NEW c \in Requests(o)
  PROVE  c \in SetRequest \cup KeyRequest("get") \cup KeyRequest("remove") \cup PlainRequest
<1>0. o \in {"set", "get", "remove", "keys", "compact", "cleanup", "close", "open"}
  BY KeyValueStoreAssumption
<1>1. CASE o = "set"
  BY <1>1 DEF Requests, SetRequest
<1>2. CASE o = "get"
  BY <1>2 DEF Requests, KeyRequest
<1>3. CASE o = "remove"
  BY <1>3 DEF Requests, KeyRequest
<1>4. CASE o \notin {"set", "get", "remove"}
  BY <1>0, <1>4 DEF Requests, PlainRequest
<1> QED
  BY <1>1, <1>2, <1>3, <1>4

\* What a read of the file returns.
LEMMA ReadAtType ==
  ASSUME log \in Seq(Record)
  PROVE  \A off : ReadAt(off) \in Values \cup {None}
<1>1. \A i \in DOMAIN log : log[i] \in Record
  BY LenProperties, ElementOfSeq
<1>2. \A i \in DOMAIN log : log[i].value \in Values \cup {None}
  BY <1>1 DEF Record
<1> QED
  BY <1>2 DEF ReadAt

\* erase of a set of keys keeps the types of index and cache.
LEMMA EraseKeysTypes ==
  ASSUME index \in Index, cache \in [Keys -> Values \cup {None}], NEW ks, EraseKeys(ks)
  PROVE  index' \in Index /\ cache' \in [Keys -> Values \cup {None}]
  BY DEF EraseKeys, Index

\* The last record of a key in a log.
LastIn(l, k) ==
  LET ps == {i \in DOMAIN l : l[i].key = k} IN
  IF ps = {} THEN 0 ELSE CHOOSE i \in ps : \A j \in ps : j <= i

\* A bounded set of numbers that is not empty has a greatest element.
LEMMA MaximumExists ==
  ASSUME NEW n \in Nat, NEW ps \in SUBSET (1..n), ps # {}
  PROVE  \E i \in ps : \A j \in ps : j <= i
<1> DEFINE ds == {n - i : i \in ps}
<1>1. ds \subseteq Nat /\ ds # {}
  <2>1. \A i \in ps : n - i \in Nat
    <3>1. \A i \in 1..n : n - i \in Nat
      OBVIOUS
    <3> QED
      BY <3>1
  <2>2. PICK i \in ps : TRUE
    OBVIOUS
  <2>3. n - i \in ds
    OBVIOUS
  <2> QED
    BY <2>1, <2>3
<1> DEFINE R == OpToRel(<, Nat)
<1>2. IsWellFoundedOn(R, Nat)
  BY NatLessThanWellFounded
<1>3. PICK d \in ds : \A e \in ds : ~(<<e, d>> \in R)
  BY <1>1, <1>2, WFMin
<1>4. PICK i \in ps : d = n - i
  OBVIOUS
<1>5. ASSUME NEW j \in ps PROVE j <= i
  <2>1. n - j \in ds /\ n - j \in Nat /\ d \in Nat
    BY <1>1
  <2>2. ~(n - j < d)
    BY <2>1, <1>3 DEF OpToRel
  <2> QED
    BY <2>2, <1>4
<1> QED
  BY <1>5

\* What the last position of a key is.
LEMMA LastInProperties ==
  ASSUME NEW S, NEW l \in Seq(S), NEW k
  PROVE  /\ LastIn(l, k) \in 0..Len(l)
         /\ LastIn(l, k) = 0 => \A j \in 1..Len(l) : l[j].key # k
         /\ LastIn(l, k) # 0 =>
              /\ LastIn(l, k) \in 1..Len(l)
              /\ l[LastIn(l, k)].key = k
              /\ \A j \in 1..Len(l) : l[j].key = k => j <= LastIn(l, k)
<1> DEFINE ps == {i \in DOMAIN l : l[i].key = k}
<1>0. Len(l) \in Nat /\ DOMAIN l = 1..Len(l)
  BY LenProperties
<1>1. CASE ps = {}
  BY <1>0, <1>1 DEF LastIn
<1>2. CASE ps # {}
  <2>1. \E i \in ps : \A j \in ps : j <= i
    <3>1. ps \in SUBSET (1..Len(l))
      BY <1>0
    <3> QED
      BY <3>1, <1>0, <1>2, MaximumExists
  <2>2. LastIn(l, k) = CHOOSE i \in ps : \A j \in ps : j <= i
    BY <1>2 DEF LastIn
  <2>3. LastIn(l, k) \in ps /\ \A j \in ps : j <= LastIn(l, k)
    BY <2>1, <2>2
  <2> QED
    BY <2>3, <1>0
<1> QED
  BY <1>1, <1>2

\* Those properties leave only one position.
LEMMA LastInUnique ==
  ASSUME NEW S, NEW l \in Seq(S), NEW k, NEW p \in 1..Len(l), l[p].key = k,
         \A j \in 1..Len(l) : l[j].key = k => j <= p
  PROVE  LastIn(l, k) = p
<1>1. Len(l) \in Nat
  BY LenProperties
<1>2. LastIn(l, k) # 0
  BY LastInProperties
<1>3. LastIn(l, k) \in 1..Len(l) /\ l[LastIn(l, k)].key = k /\ p <= LastIn(l, k)
  BY <1>2, LastInProperties
<1> QED
  BY <1>1, <1>3

\* LastOf and LastIn are the same.
LEMMA LastOfIsLastIn == \A k : LastOf(k) = LastIn(log, k)
  BY DEF LastOf, LastIn

\* What recover() returns is an index.
LEMMA RecoveredType ==
  ASSUME log \in Seq(Record)
  PROVE  Recovered \in Index
<1>1. ASSUME NEW k \in Keys, LastOf(k) # 0
      PROVE  LastOf(k) \in Nat /\ log[LastOf(k)].expiresAtMs \in Nat
  <2>1. LastOf(k) \in 1..Len(log)
    BY <1>1, LastOfIsLastIn, LastInProperties
  <2>2. log[LastOf(k)] \in Record
    BY <2>1, ElementOfSeq
  <2> QED
    BY <2>1, <2>2, LenProperties DEF Record
<1>2. \A k \in Keys : Recovered[k] \in Metadata \cup {None}
  BY <1>1 DEF Recovered, Metadata
<1> QED
  BY <1>2 DEF Recovered, Index

\* What compact() writes and what it means to install: one record for every key of
\* the index, with its value and its time, and an index of the new offsets.
LEMMA CompWriteEffect ==
  ASSUME TypeOK, CompactOK, NEW t \in Threads, CompWrite(t)
  PROVE  /\ log' \in Seq(Record)
         /\ loc' = [loc EXCEPT ![t].index = loc'[t].index]
         /\ loc'[t].index \in Index
         /\ \A k \in Keys :
              /\ index[k] = None =>
                   loc'[t].index[k] = None /\ \A i \in DOMAIN log' : log'[i].key # k
              /\ index[k] # None =>
                   LET i == loc'[t].index[k].off IN
                   /\ loc'[t].index[k] = [off |-> i, expiresAtMs |-> index[k].expiresAtMs]
                   /\ i \in 1..Len(log')
                   /\ log'[i] = [op |-> "Set", key |-> k, value |-> ReadAt(index[k].off),
                                 expiresAtMs |-> index[k].expiresAtMs]
                   /\ \A j \in 1..Len(log') : log'[j].key = k => j = i
<1> DEFINE ks == {k \in Keys : index[k] # None}
           n == Cardinality(ks)
           R(k) == [op |-> "Set", key |-> k, value |-> ReadAt(index[k].off),
                    expiresAtMs |-> index[k].expiresAtMs]
<1>0. PICK order \in [1..n -> ks] :
        /\ \A k \in ks : \E i \in DOMAIN order : order[i] = k
        /\ log' = [i \in DOMAIN order |-> R(order[i])]
        /\ loc' = [loc EXCEPT ![t].index =
                    [k \in Keys |->
                       IF k \in ks
                       THEN [off |-> CHOOSE i \in DOMAIN order : order[i] = k,
                             expiresAtMs |-> index[k].expiresAtMs]
                       ELSE None]]
  BY DEF CompWrite
<1>1. IsFiniteSet(ks) /\ n \in Nat
  BY FS_Subset, FS_CardinalityType, KeyValueStoreAssumption
<1>2. \A i \in 1..n : order[i] \in ks
  OBVIOUS
<1>3. \A i, j \in 1..n : order[i] = order[j] => i = j
  <2>1. order \in Surjection(1..n, ks)
    BY <1>0 DEF Surjection
  <2>2. IsFiniteSet(1..n) /\ Cardinality(1..n) = (IF 1 > n THEN 0 ELSE n - 1 + 1)
    BY <1>1, FS_Interval
  <2>3. Cardinality(1..n) = n
    BY <1>1, <2>2
  <2>4. order \in Injection(1..n, ks)
    BY <2>1, <2>2, <2>3, FS_SurjSameCardinalityImpliesInj
  <2> QED
    BY <2>4 DEF Injection, IsInjective
<1>4. \A k \in ks : index[k] \in Metadata /\ ReadAt(index[k].off) \in Values
  BY DEF TypeOK, Index, CompactOK, CompWrite
<1>5. \A k \in ks : R(k) \in Record /\ R(k).key = k
  BY <1>4 DEF Record, Metadata
<1> HIDE DEF n, ks, R
<1>6. log' \in Seq(Record) /\ DOMAIN log' = 1..n /\ Len(log') = n
  <2>1. log' = [i \in 1..n |-> R(order[i])] /\ \A i \in 1..n : R(order[i]) \in Record
    BY <1>0, <1>2, <1>5
  <2> QED
    BY <2>1, <1>1
<1>7. \A i \in 1..n : log'[i] = R(order[i])
  BY <1>0
<1>8. loc'[t].index = [k \in Keys |->
                       IF k \in ks
                       THEN [off |-> CHOOSE i \in DOMAIN order : order[i] = k,
                             expiresAtMs |-> index[k].expiresAtMs]
                       ELSE None]
      /\ loc' = [loc EXCEPT ![t].index = loc'[t].index]
  BY <1>0 DEF TypeOK
<1>9. ASSUME NEW k \in Keys, index[k] = None
      PROVE  loc'[t].index[k] = None /\ \A i \in DOMAIN log' : log'[i].key # k
  <2>1. k \notin ks
    BY <1>9 DEF ks
  <2> QED
    BY <2>1, <1>2, <1>5, <1>6, <1>7, <1>8
<1>10. ASSUME NEW k \in Keys, index[k] # None
      PROVE   LET i == loc'[t].index[k].off IN
              /\ loc'[t].index[k] = [off |-> i, expiresAtMs |-> index[k].expiresAtMs]
              /\ i \in 1..Len(log')
              /\ log'[i] = R(k)
              /\ \A j \in 1..Len(log') : log'[j].key = k => j = i
              /\ loc'[t].index[k] \in Metadata
  <2> DEFINE i == CHOOSE j \in DOMAIN order : order[j] = k
  <2>1. k \in ks
    BY <1>10 DEF ks
  <2>2. i \in 1..n /\ order[i] = k
    BY <2>1, <1>0
  <2> HIDE DEF i
  <2>3. loc'[t].index[k] = [off |-> i, expiresAtMs |-> index[k].expiresAtMs]
    BY <2>1, <1>8 DEF i
  <2>4. log'[i] = R(k)
    BY <2>2, <1>7
  <2>5. \A j \in 1..n : log'[j].key = k => j = i
    BY <2>2, <1>2, <1>3, <1>5, <1>7
  <2>6. loc'[t].index[k] \in Metadata
    BY <2>1, <2>2, <2>3, <1>1, <1>4 DEF Metadata
  <2> QED
    BY <2>2, <2>3, <2>4, <2>5, <2>6, <1>6
<1>11. loc'[t].index \in Index
  BY <1>8, <1>9, <1>10 DEF Index
<1> QED
  BY <1>6, <1>8, <1>9, <1>10, <1>11 DEF R

-----------------------------------------------------------------------------
(* The lock, the types and the calls. *)

\* The program starts with every thread outside the engine.
LEMMA InitBasic == Init => Basic
<1> SUFFICES ASSUME Init PROVE Basic
  OBVIOUS
<1> USE DEF Init
<1>1. index \in Index /\ cache \in [Keys -> Values \cup {None}]
  BY DEF Index, NoIndex
<1>2. loc \in [Threads -> [time: Nat, off: Nat, value: Values \cup {None}, index: Index]]
  BY <1>1 DEF NoLoc, Index, NoIndex
<1>3. pc \in [Threads -> Labels]
  BY DEF Labels
<1>4. log \in Seq(Record)
  BY LogsAssumption
<1>5. calls \in 0..MaxCalls /\ opens \in 0..MaxOpens /\ now \in Nat
  BY KeyValueStoreAssumption
<1>6. TypeOK
  BY <1>1, <1>2, <1>3, <1>4, <1>5 DEF TypeOK
<1>7. LockOK /\ CallOK /\ CompactOK /\ CallTyped
  BY NoneAssumption DEF LockOK, CallOK, CompactOK, CallTyped, WriteLabels, ReadLabels,
     SetLabels, GetLabels, RemoveLabels
<1> QED
  BY <1>6, <1>7 DEF Basic

\* The index, the log and the cache keep their types.
LEMMA StepData ==
  ASSUME Basic, NEW t \in Threads, Step(t)
  PROVE  /\ index' \in Index /\ log' \in Seq(Record)
         /\ cache' \in [Keys -> Values \cup {None}]
<1>0. /\ TypeOK /\ CallOK /\ CompactOK
      /\ index \in Index /\ log \in Seq(Record) /\ cache \in [Keys -> Values \cup {None}]
  BY DEF Basic, TypeOK
<1>1. NoIndex \in [Keys -> Values \cup {None}]
  BY DEF NoIndex
<1>2. CASE SetAppend(t)
  <2>1. call[t] \in SetRequest /\ loc[t].time \in Nat
    BY <1>0, <1>2 DEF SetAppend, CallOK, SetLabels, TypeOK
  <2>2. [op |-> "Set", key |-> call[t].key, value |-> call[t].value,
         expiresAtMs |-> loc[t].time] \in Record
    BY <2>1 DEF SetRequest, Record
  <2> QED
    BY <2>2, <1>0, <1>2 DEF SetAppend
<1>3. CASE SetInstall(t)
  <2>1. call[t].key \in Keys /\ call[t].value \in Values
        /\ loc[t].off \in Nat /\ loc[t].time \in Nat
    BY <1>0, <1>3 DEF SetInstall, CallOK, SetLabels, SetRequest, TypeOK
  <2>2. cache' \in [Keys -> Values \cup {None}]
    BY <2>1, <1>0, <1>3, CachePutProperties DEF SetInstall
  <2>3. index' \in Index /\ log' = log
    BY <2>1, <1>0, <1>3 DEF SetInstall, Index, Metadata
  <2> QED
    BY <2>2, <2>3, <1>0
<1>4. CASE GetPut(t)
  <2>1. call[t].key \in Keys /\ loc[t].value \in Values \cup {None}
    BY <1>0, <1>4 DEF GetPut, CallOK, GetLabels, KeyRequest, TypeOK
  <2>2. cache' \in [Keys -> Values \cup {None}]
    BY <2>1, <1>0, <1>4 DEF GetPut, CachePut, Cached
  <2> QED
    BY <2>2, <1>0, <1>4 DEF GetPut
<1>5. CASE GetErase(t)
  BY <1>0, <1>5, EraseKeysTypes DEF GetErase
<1>6. CASE RemLock(t)
  BY <1>0, <1>6, EraseKeysTypes DEF RemLock
<1>7. CASE RemAppend(t)
  <2>1. call[t].key \in Keys
    BY <1>0, <1>7 DEF RemAppend, CallOK, RemoveLabels, KeyRequest
  <2>2. [op |-> "Delete", key |-> call[t].key, value |-> None, expiresAtMs |-> 0] \in Record
    BY <2>1 DEF Record
  <2> QED
    BY <2>2, <1>0, <1>7 DEF RemAppend
<1>8. CASE RemErase(t)
  BY <1>0, <1>8, EraseKeysTypes DEF RemErase
<1>9. CASE KeysClean(t)
  BY <1>0, <1>9, EraseKeysTypes DEF KeysClean
<1>10. CASE CleanLock(t)
  BY <1>0, <1>10, EraseKeysTypes DEF CleanLock
<1>11. CASE CompLock(t)
  BY <1>0, <1>11, EraseKeysTypes DEF CompLock
<1>12. CASE CompWrite(t)
  BY <1>0, <1>12, CompWriteEffect DEF CompWrite
<1>13. CASE CompInstall(t)
  BY <1>0, <1>1, <1>13 DEF CompInstall, TypeOK
<1>14. CASE OpenInstall(t)
  BY <1>0, <1>14 DEF OpenInstall, TypeOK
<1>15. CASE OpenClear(t)
  BY <1>0, <1>1, <1>15 DEF OpenClear
<1>16. CASE \/ Start(t) \/ Return(t) \/ SetLock(t) \/ WriteFails(t)
         \/ GetLock(t) \/ GetCache(t) \/ GetRead(t) \/ KeysCheck(t)
         \/ KeysList(t) \/ OpenStart(t) \/ OpenRecover(t) \/ OpenFlag(t)
         \/ Close(t)
  BY <1>0, <1>16 DEF Start, Return, SetLock, WriteFails, GetLock, GetCache, GetRead, KeysCheck, KeysList, OpenStart, OpenRecover, OpenFlag, Close
<1> QED
  BY <1>2, <1>3, <1>4, <1>5, <1>6, <1>7, <1>8, <1>9, <1>10, <1>11, <1>12, <1>13, <1>14, <1>15, <1>16 DEF Step

\* Where the first check of a call leads.
LEMMA StartGoes ==
  ASSUME Basic, NEW t \in Threads, Start(t)
  PROVE  /\ \A u \in Threads : u # t => pc'[u] = pc[u]
         /\ \/ pc'[t] = "done" /\ loc' = loc
            \/ /\ opened /\ res' = res
               /\ \/ pc'[t] = "set_lock" /\ call[t] \in SetRequest
                  \/ pc'[t] = "get_lock" /\ call[t] \in KeyRequest("get")
                  \/ pc'[t] = "rem_lock" /\ call[t] \in KeyRequest("remove")
                  \/ pc'[t] = "keys_check" /\ call[t].op = "keys"
                  \/ pc'[t] = "comp_lock" /\ call[t].op = "compact"
                  \/ pc'[t] = "clean_lock" /\ call[t].op = "cleanup"
<1>0. pc \in [Threads -> Labels] /\ pc[t] = "start"
      /\ call[t] \in SetRequest \cup KeyRequest("get") \cup KeyRequest("remove")
                     \cup PlainRequest
  BY DEF Basic, TypeOK, CallOK, Start
<1>1. \A u \in Threads : u # t => pc'[u] = pc[u]
  BY <1>0 DEF Start, Goto, Finish
<1>2. CASE ~opened
  BY <1>0, <1>1, <1>2 DEF Start, Goto, Finish
<1>3. CASE opened
  <2>1. pc'[t] = [set |-> "set_lock", get |-> "get_lock", remove |-> "rem_lock",
                  keys |-> "keys_check", compact |-> "comp_lock",
                  cleanup |-> "clean_lock"][call[t].op]
        /\ res' = res /\ call[t].op \notin {"open", "close"}
    BY <1>0, <1>3 DEF Start, Goto
  <2>2. CASE call[t] \in SetRequest
    BY <2>1, <2>2, <1>1, <1>3 DEF SetRequest
  <2>3. CASE call[t] \in KeyRequest("get")
    BY <2>1, <2>3, <1>1, <1>3 DEF KeyRequest
  <2>4. CASE call[t] \in KeyRequest("remove")
    BY <2>1, <2>4, <1>1, <1>3 DEF KeyRequest
  <2>5. CASE call[t] \in PlainRequest
    BY <2>1, <2>5, <1>1, <1>3 DEF PlainRequest
  <2> QED
    BY <2>2, <2>3, <2>4, <2>5, <1>0
<1> QED
  BY <1>2, <1>3

\* A thread enters a label with the lock that label stands for.
LEMMA StepLock ==
  ASSUME Basic, NEW t \in Threads, Step(t)
  PROVE  LockOK'
<1>0. /\ LockOK /\ readers \subseteq Threads /\ pc \in [Threads -> Labels]
      /\ (writer = None \/ readers = {}) /\ None \notin Threads
  BY NoneAssumption DEF Basic, TypeOK
<1> USE DEF LockOK, WriteLabels, ReadLabels, Goto, Finish, CanWrite, CanRead, lock
<1>1. CASE Start(t)
  <2>1. /\ writer' = writer /\ readers' = readers
        /\ pc'[t] \notin WriteLabels \cup ReadLabels /\ pc[t] = "start"
        /\ \A u \in Threads : u # t => pc'[u] = pc[u]
    BY <1>0, <1>1, StartGoes DEF Start
  <2> QED
    BY <1>0, <2>1
<1>2. CASE Return(t)
  BY <1>0, <1>2 DEF Return
<1>3. CASE SetLock(t)
  BY <1>0, <1>3 DEF SetLock
<1>4. CASE SetAppend(t)
  BY <1>0, <1>4 DEF SetAppend
<1>5. CASE SetInstall(t)
  BY <1>0, <1>5 DEF SetInstall
<1>6. CASE WriteFails(t)
  BY <1>0, <1>6 DEF WriteFails
<1>7. CASE GetLock(t)
  BY <1>0, <1>7 DEF GetLock
<1>8. CASE GetCache(t)
  BY <1>0, <1>8 DEF GetCache
<1>9. CASE GetRead(t)
  BY <1>0, <1>9 DEF GetRead
<1>10. CASE GetPut(t)
  BY <1>0, <1>10 DEF GetPut
<1>11. CASE GetErase(t)
  BY <1>0, <1>11 DEF GetErase
<1>12. CASE RemLock(t)
  BY <1>0, <1>12 DEF RemLock
<1>13. CASE RemAppend(t)
  BY <1>0, <1>13 DEF RemAppend
<1>14. CASE RemErase(t)
  BY <1>0, <1>14 DEF RemErase
<1>15. CASE KeysCheck(t)
  BY <1>0, <1>15 DEF KeysCheck
<1>16. CASE KeysClean(t)
  BY <1>0, <1>16 DEF KeysClean
<1>17. CASE KeysList(t)
  BY <1>0, <1>17 DEF KeysList
<1>18. CASE CleanLock(t)
  BY <1>0, <1>18 DEF CleanLock
<1>19. CASE CompLock(t)
  BY <1>0, <1>19 DEF CompLock
<1>20. CASE CompWrite(t)
  BY <1>0, <1>20 DEF CompWrite
<1>21. CASE CompInstall(t)
  BY <1>0, <1>21 DEF CompInstall
<1>22. CASE OpenStart(t)
  BY <1>0, <1>22 DEF OpenStart
<1>23. CASE OpenRecover(t)
  BY <1>0, <1>23 DEF OpenRecover
<1>24. CASE OpenInstall(t)
  BY <1>0, <1>24 DEF OpenInstall
<1>25. CASE OpenClear(t)
  BY <1>0, <1>25 DEF OpenClear
<1>26. CASE OpenFlag(t)
  BY <1>0, <1>26 DEF OpenFlag
<1>27. CASE Close(t)
  BY <1>0, <1>27 DEF Close
<1> QED
  BY <1>1, <1>2, <1>3, <1>4, <1>5, <1>6, <1>7, <1>8, <1>9, <1>10, <1>11, <1>12, <1>13, <1>14, <1>15, <1>16, <1>17, <1>18, <1>19, <1>20, <1>21, <1>22, <1>23, <1>24, <1>25, <1>26, <1>27 DEF Step

\* A thread is at a label of a call only in that call.
LEMMA StepCall ==
  ASSUME Basic, NEW t \in Threads, Step(t)
  PROVE  CallTyped' /\ CallOK'
<1>0. CallTyped /\ CallOK /\ pc \in [Threads -> Labels]
  BY DEF Basic, TypeOK
<1> USE DEF CallTyped, CallOK, SetLabels, GetLabels, RemoveLabels, Goto, Finish, env
<1>1. CASE Start(t)
  <2>1. call' = call /\ pc[t] = "start"
        /\ \A u \in Threads : u # t => pc'[u] = pc[u]
    BY <1>1, StartGoes DEF Start
  <2>2. /\ pc'[t] # "start"
        /\ pc'[t] \in SetLabels => call[t] \in SetRequest
        /\ pc'[t] \in GetLabels => call[t] \in KeyRequest("get")
        /\ pc'[t] \in RemoveLabels => call[t] \in KeyRequest("remove")
    BY <1>1, StartGoes
  <2> QED
    BY <1>0, <2>1, <2>2
<1>2. CASE Return(t)
  BY <1>0, <1>2 DEF Return
<1>3. CASE SetLock(t)
  BY <1>0, <1>3 DEF SetLock
<1>4. CASE SetAppend(t)
  BY <1>0, <1>4 DEF SetAppend
<1>5. CASE SetInstall(t)
  BY <1>0, <1>5 DEF SetInstall
<1>6. CASE WriteFails(t)
  BY <1>0, <1>6 DEF WriteFails
<1>7. CASE GetLock(t)
  BY <1>0, <1>7 DEF GetLock
<1>8. CASE GetCache(t)
  BY <1>0, <1>8 DEF GetCache
<1>9. CASE GetRead(t)
  BY <1>0, <1>9 DEF GetRead
<1>10. CASE GetPut(t)
  BY <1>0, <1>10 DEF GetPut
<1>11. CASE GetErase(t)
  BY <1>0, <1>11 DEF GetErase
<1>12. CASE RemLock(t)
  BY <1>0, <1>12 DEF RemLock
<1>13. CASE RemAppend(t)
  BY <1>0, <1>13 DEF RemAppend
<1>14. CASE RemErase(t)
  BY <1>0, <1>14 DEF RemErase
<1>15. CASE KeysCheck(t)
  BY <1>0, <1>15 DEF KeysCheck
<1>16. CASE KeysClean(t)
  BY <1>0, <1>16 DEF KeysClean
<1>17. CASE KeysList(t)
  BY <1>0, <1>17 DEF KeysList
<1>18. CASE CleanLock(t)
  BY <1>0, <1>18 DEF CleanLock
<1>19. CASE CompLock(t)
  BY <1>0, <1>19 DEF CompLock
<1>20. CASE CompWrite(t)
  BY <1>0, <1>20 DEF CompWrite
<1>21. CASE CompInstall(t)
  BY <1>0, <1>21 DEF CompInstall
<1>22. CASE OpenStart(t)
  BY <1>0, <1>22 DEF OpenStart
<1>23. CASE OpenRecover(t)
  BY <1>0, <1>23 DEF OpenRecover
<1>24. CASE OpenInstall(t)
  BY <1>0, <1>24 DEF OpenInstall
<1>25. CASE OpenClear(t)
  BY <1>0, <1>25 DEF OpenClear
<1>26. CASE OpenFlag(t)
  BY <1>0, <1>26 DEF OpenFlag
<1>27. CASE Close(t)
  BY <1>0, <1>27 DEF Close
<1> QED
  BY <1>1, <1>2, <1>3, <1>4, <1>5, <1>6, <1>7, <1>8, <1>9, <1>10, <1>11, <1>12, <1>13, <1>14, <1>15, <1>16, <1>17, <1>18, <1>19, <1>20, <1>21, <1>22, <1>23, <1>24, <1>25, <1>26, <1>27 DEF Step

\* Invariants about the threads that have not moved.
LEMMA StepOthers ==
  ASSUME Basic, NEW t \in Threads, Step(t)
  PROVE  /\ \A u \in Threads : u # t => pc'[u] = pc[u] /\ loc'[u] = loc[u] /\ call'[u] = call[u]
         /\ now' = now /\ calls' = calls /\ opens' = opens
<1>0. pc \in [Threads -> Labels] /\ CallTyped
      /\ loc \in [Threads -> [time: Nat, off: Nat, value: Values \cup {None}, index: Index]]
  BY DEF Basic, TypeOK
<1> USE DEF Goto, Finish, env, CallTyped
<1>1. CASE Start(t)
  BY <1>0, <1>1 DEF Start
<1>2. CASE Return(t)
  BY <1>0, <1>2 DEF Return
<1>3. CASE SetLock(t)
  BY <1>0, <1>3 DEF SetLock
<1>4. CASE SetAppend(t)
  BY <1>0, <1>4 DEF SetAppend
<1>5. CASE SetInstall(t)
  BY <1>0, <1>5 DEF SetInstall
<1>6. CASE WriteFails(t)
  BY <1>0, <1>6 DEF WriteFails
<1>7. CASE GetLock(t)
  BY <1>0, <1>7 DEF GetLock
<1>8. CASE GetCache(t)
  BY <1>0, <1>8 DEF GetCache
<1>9. CASE GetRead(t)
  BY <1>0, <1>9 DEF GetRead
<1>10. CASE GetPut(t)
  BY <1>0, <1>10 DEF GetPut
<1>11. CASE GetErase(t)
  BY <1>0, <1>11 DEF GetErase
<1>12. CASE RemLock(t)
  BY <1>0, <1>12 DEF RemLock
<1>13. CASE RemAppend(t)
  BY <1>0, <1>13 DEF RemAppend
<1>14. CASE RemErase(t)
  BY <1>0, <1>14 DEF RemErase
<1>15. CASE KeysCheck(t)
  BY <1>0, <1>15 DEF KeysCheck
<1>16. CASE KeysClean(t)
  BY <1>0, <1>16 DEF KeysClean
<1>17. CASE KeysList(t)
  BY <1>0, <1>17 DEF KeysList
<1>18. CASE CleanLock(t)
  BY <1>0, <1>18 DEF CleanLock
<1>19. CASE CompLock(t)
  BY <1>0, <1>19 DEF CompLock
<1>20. CASE CompWrite(t)
  BY <1>0, <1>20 DEF CompWrite
<1>21. CASE CompInstall(t)
  BY <1>0, <1>21 DEF CompInstall
<1>22. CASE OpenStart(t)
  BY <1>0, <1>22 DEF OpenStart
<1>23. CASE OpenRecover(t)
  BY <1>0, <1>23 DEF OpenRecover
<1>24. CASE OpenInstall(t)
  BY <1>0, <1>24 DEF OpenInstall
<1>25. CASE OpenClear(t)
  BY <1>0, <1>25 DEF OpenClear
<1>26. CASE OpenFlag(t)
  BY <1>0, <1>26 DEF OpenFlag
<1>27. CASE Close(t)
  BY <1>0, <1>27 DEF Close
<1> QED
  BY <1>1, <1>2, <1>3, <1>4, <1>5, <1>6, <1>7, <1>8, <1>9, <1>10, <1>11, <1>12, <1>13, <1>14, <1>15, <1>16, <1>17, <1>18, <1>19, <1>20, <1>21, <1>22, <1>23, <1>24, <1>25, <1>26, <1>27 DEF Step

Locals == [time: Nat, off: Nat, value: Values \cup {None}, index: Index]

\* An assignment to a local variable.
LEMMA LocalsExcept ==
  ASSUME NEW l \in [Threads -> Locals], NEW t \in Threads
  PROVE  /\ \A i \in Index : [l EXCEPT ![t].index = i] \in [Threads -> Locals]
         /\ \A v \in Values \cup {None} : [l EXCEPT ![t].value = v] \in [Threads -> Locals]
         /\ \A n \in Nat : [l EXCEPT ![t].time = n] \in [Threads -> Locals]
<1>1. l[t] \in Locals
  OBVIOUS
<1>2. ASSUME NEW i \in Index PROVE [l EXCEPT ![t].index = i] \in [Threads -> Locals]
  <2>1. [l[t] EXCEPT !.index = i] \in Locals
    BY <1>1 DEF Locals
  <2> QED
    BY <2>1
<1>3. ASSUME NEW v \in Values \cup {None} PROVE [l EXCEPT ![t].value = v] \in [Threads -> Locals]
  <2>1. [l[t] EXCEPT !.value = v] \in Locals
    BY <1>1 DEF Locals
  <2> QED
    BY <2>1
<1>4. ASSUME NEW n \in Nat PROVE [l EXCEPT ![t].time = n] \in [Threads -> Locals]
  <2>1. [l[t] EXCEPT !.time = n] \in Locals
    BY <1>1 DEF Locals
  <2> QED
    BY <2>1
<1> QED
  BY <1>2, <1>3, <1>4

\* The local variables keep their types.
LEMMA StepLocals ==
  ASSUME Basic, NEW t \in Threads, Step(t)
  PROVE  /\ pc' \in [Threads -> Labels]
         /\ loc' \in [Threads -> Locals]
<1>0. /\ TypeOK /\ CallOK /\ CompactOK /\ pc \in [Threads -> Labels] /\ log \in Seq(Record)
      /\ loc \in [Threads -> Locals]
      /\ NoLoc \in Locals
      /\ now \in Nat
  <2>1. NoLoc \in Locals
    BY DEF NoLoc, NoIndex, Index, Locals
  <2> QED
    BY <2>1 DEF Basic, TypeOK, Locals
<1> USE DEF Goto, Finish, Labels
<1>1. CASE Start(t)
  <2>1. pc' \in [Threads -> Labels]
    <3>1. pc' = [pc EXCEPT ![t] = pc'[t]]
      BY <1>0, <1>1 DEF Start
    <3>2. pc'[t] \in Labels
      BY <1>1, StartGoes
    <3> QED
      BY <3>1, <3>2, <1>0
  <2>2. CASE ~opened
    BY <2>1, <2>2, <1>0, <1>1 DEF Start
  <2>3. CASE opened
    <3>1. PICK n : loc' = [loc EXCEPT ![t].time = n]
                   /\ n = IF call[t].op = "set" /\ call[t].ttl > 0 THEN now + call[t].ttl ELSE 0
      BY <2>3, <1>1 DEF Start
    <3>2. call[t] \in SetRequest \cup KeyRequest("get") \cup KeyRequest("remove")
                      \cup PlainRequest
      BY <1>0, <1>1 DEF Start, CallOK
    <3>3. call[t].op = "set" => call[t].ttl \in Nat
      BY <3>2, KeyValueStoreAssumption DEF SetRequest, KeyRequest, PlainRequest
    <3>4. n \in Nat
      BY <3>1, <3>3, <1>0
    <3> QED
      BY <2>1, <3>1, <3>4, <1>0 DEF Locals
  <2> QED
    BY <2>2, <2>3
<1>2. CASE Return(t)
  BY <1>0, <1>2 DEF Return, Locals
<1>3. CASE SetLock(t)
  BY <1>0, <1>3 DEF SetLock, Locals
<1>4. CASE SetAppend(t)
  <2>1. Len(log) + 1 \in Nat
    BY <1>0, LenProperties
  <2> QED
    BY <2>1, <1>0, <1>4 DEF SetAppend, Locals
<1>5. CASE SetInstall(t)
  BY <1>0, <1>5 DEF SetInstall, Locals
<1>6. CASE WriteFails(t)
  BY <1>0, <1>6 DEF WriteFails, Locals
<1>7. CASE GetLock(t)
  <2>1. pc' \in [Threads -> Labels]
    BY <1>0, <1>7 DEF GetLock
  <2>2. loc' = loc \/ loc' = [loc EXCEPT ![t].time = now]
    BY <1>7 DEF GetLock
  <2> QED
    BY <2>1, <2>2, <1>0, LocalsExcept
<1>8. CASE GetCache(t)
  BY <1>0, <1>8 DEF GetCache, Locals
<1>9. CASE GetRead(t)
  <2> DEFINE v == ReadAt(index[call[t].key].off)
  <2>1. v \in Values \cup {None}
    BY <1>0, ReadAtType
  <2>2. pc' \in [Threads -> Labels]
    BY <1>0, <1>9 DEF GetRead
  <2>3. loc' = loc \/ loc' = [loc EXCEPT ![t].value = v]
    BY <1>9 DEF GetRead
  <2> HIDE DEF v
  <2>4. \A x \in Values \cup {None} : [loc EXCEPT ![t].value = x] \in [Threads -> Locals]
    BY <1>0, LocalsExcept
  <2>5. [loc EXCEPT ![t].value = v] \in [Threads -> Locals]
    BY <2>1, <2>4
  <2> QED
    BY <2>2, <2>3, <2>5, <1>0
<1>10. CASE GetPut(t)
  BY <1>0, <1>10 DEF GetPut, Locals
<1>11. CASE GetErase(t)
  BY <1>0, <1>11 DEF GetErase, Locals
<1>12. CASE RemLock(t)
  BY <1>0, <1>12 DEF RemLock, Locals
<1>13. CASE RemAppend(t)
  BY <1>0, <1>13 DEF RemAppend, Locals
<1>14. CASE RemErase(t)
  BY <1>0, <1>14 DEF RemErase, Locals
<1>15. CASE KeysCheck(t)
  BY <1>0, <1>15 DEF KeysCheck, Locals
<1>16. CASE KeysClean(t)
  BY <1>0, <1>16 DEF KeysClean, Locals
<1>17. CASE KeysList(t)
  BY <1>0, <1>17 DEF KeysList, Locals
<1>18. CASE CleanLock(t)
  BY <1>0, <1>18 DEF CleanLock, Locals
<1>19. CASE CompLock(t)
  BY <1>0, <1>19 DEF CompLock, Locals
<1>20. CASE CompWrite(t)
  <2>1. loc' = [loc EXCEPT ![t].index = loc'[t].index] /\ loc'[t].index \in Index
    BY <1>0, <1>20, CompWriteEffect
  <2>2. pc' \in [Threads -> Labels]
    BY <1>0, <1>20 DEF CompWrite
  <2> QED
    BY <2>1, <2>2, <1>0, LocalsExcept
<1>21. CASE CompInstall(t)
  BY <1>0, <1>21 DEF CompInstall, Locals
<1>22. CASE OpenStart(t)
  BY <1>0, <1>22 DEF OpenStart, Locals
<1>23. CASE OpenRecover(t)
  <2>1. Recovered \in Index
    BY <1>0, RecoveredType
  <2>2. pc' \in [Threads -> Labels]
    BY <1>0, <1>23 DEF OpenRecover
  <2>3. loc' = loc \/ loc' = [loc EXCEPT ![t].index = Recovered]
    BY <1>23 DEF OpenRecover
  <2> QED
    BY <2>1, <2>2, <2>3, <1>0, LocalsExcept
<1>24. CASE OpenInstall(t)
  BY <1>0, <1>24 DEF OpenInstall, Locals
<1>25. CASE OpenClear(t)
  BY <1>0, <1>25 DEF OpenClear, Locals
<1>26. CASE OpenFlag(t)
  BY <1>0, <1>26 DEF OpenFlag, Locals
<1>27. CASE Close(t)
  BY <1>0, <1>27 DEF Close, Locals
<1> QED
  BY <1>1, <1>2, <1>3, <1>4, <1>5, <1>6, <1>7, <1>8, <1>9, <1>10, <1>11, <1>12, <1>13, <1>14, <1>15, <1>16, <1>17, <1>18, <1>19, <1>20, <1>21, <1>22, <1>23, <1>24, <1>25, <1>26, <1>27 DEF Step

\* The lock is a lock.
LEMMA StepLockTypes ==
  ASSUME Basic, NEW t \in Threads, Step(t)
  PROVE  /\ opened' \in BOOLEAN
         /\ writer' \in Threads \cup {None}
         /\ readers' \subseteq Threads
         /\ writer' = None \/ readers' = {}
<1>0. /\ opened \in BOOLEAN
      /\ writer \in Threads \cup {None}
      /\ readers \subseteq Threads
      /\ writer = None \/ readers = {}
  BY DEF Basic, TypeOK
<1> USE DEF CanWrite, CanRead, lock
<1>1. CASE Start(t)
  BY <1>0, <1>1 DEF Start
<1>2. CASE Return(t)
  BY <1>0, <1>2 DEF Return
<1>3. CASE SetLock(t)
  BY <1>0, <1>3 DEF SetLock
<1>4. CASE SetAppend(t)
  BY <1>0, <1>4 DEF SetAppend
<1>5. CASE SetInstall(t)
  BY <1>0, <1>5 DEF SetInstall
<1>6. CASE WriteFails(t)
  BY <1>0, <1>6 DEF WriteFails
<1>7. CASE GetLock(t)
  BY <1>0, <1>7 DEF GetLock
<1>8. CASE GetCache(t)
  BY <1>0, <1>8 DEF GetCache
<1>9. CASE GetRead(t)
  BY <1>0, <1>9 DEF GetRead
<1>10. CASE GetPut(t)
  BY <1>0, <1>10 DEF GetPut
<1>11. CASE GetErase(t)
  BY <1>0, <1>11 DEF GetErase
<1>12. CASE RemLock(t)
  BY <1>0, <1>12 DEF RemLock
<1>13. CASE RemAppend(t)
  BY <1>0, <1>13 DEF RemAppend
<1>14. CASE RemErase(t)
  BY <1>0, <1>14 DEF RemErase
<1>15. CASE KeysCheck(t)
  BY <1>0, <1>15 DEF KeysCheck
<1>16. CASE KeysClean(t)
  BY <1>0, <1>16 DEF KeysClean
<1>17. CASE KeysList(t)
  BY <1>0, <1>17 DEF KeysList
<1>18. CASE CleanLock(t)
  BY <1>0, <1>18 DEF CleanLock
<1>19. CASE CompLock(t)
  BY <1>0, <1>19 DEF CompLock
<1>20. CASE CompWrite(t)
  BY <1>0, <1>20 DEF CompWrite
<1>21. CASE CompInstall(t)
  BY <1>0, <1>21 DEF CompInstall
<1>22. CASE OpenStart(t)
  BY <1>0, <1>22 DEF OpenStart
<1>23. CASE OpenRecover(t)
  BY <1>0, <1>23 DEF OpenRecover
<1>24. CASE OpenInstall(t)
  BY <1>0, <1>24 DEF OpenInstall
<1>25. CASE OpenClear(t)
  BY <1>0, <1>25 DEF OpenClear
<1>26. CASE OpenFlag(t)
  BY <1>0, <1>26 DEF OpenFlag
<1>27. CASE Close(t)
  BY <1>0, <1>27 DEF Close
<1> QED
  BY <1>1, <1>2, <1>3, <1>4, <1>5, <1>6, <1>7, <1>8, <1>9, <1>10, <1>11, <1>12, <1>13, <1>14, <1>15, <1>16, <1>17, <1>18, <1>19, <1>20, <1>21, <1>22, <1>23, <1>24, <1>25, <1>26, <1>27 DEF Step

\* A thread that holds the lock, shared or not, sees no other change index or log.
LEMMA LockProtects ==
  ASSUME Basic, NEW t \in Threads, Step(t)
  PROVE  \A u \in Threads : u # t /\ (writer = u \/ u \in readers) => index' = index /\ log' = log
<1>0. /\ LockOK /\ (writer = None \/ readers = {}) /\ None \notin Threads
  BY NoneAssumption DEF Basic, TypeOK
<1> USE DEF LockOK, WriteLabels, ReadLabels, CanWrite, CanRead
<1>1. CASE Start(t)
  BY <1>0, <1>1 DEF Start
<1>2. CASE Return(t)
  BY <1>0, <1>2 DEF Return
<1>3. CASE SetLock(t)
  BY <1>0, <1>3 DEF SetLock
<1>4. CASE SetAppend(t)
  BY <1>0, <1>4 DEF SetAppend
<1>5. CASE SetInstall(t)
  BY <1>0, <1>5 DEF SetInstall
<1>6. CASE WriteFails(t)
  BY <1>0, <1>6 DEF WriteFails
<1>7. CASE GetLock(t)
  BY <1>0, <1>7 DEF GetLock
<1>8. CASE GetCache(t)
  BY <1>0, <1>8 DEF GetCache
<1>9. CASE GetRead(t)
  BY <1>0, <1>9 DEF GetRead
<1>10. CASE GetPut(t)
  BY <1>0, <1>10 DEF GetPut
<1>11. CASE GetErase(t)
  BY <1>0, <1>11 DEF GetErase
<1>12. CASE RemLock(t)
  BY <1>0, <1>12 DEF RemLock
<1>13. CASE RemAppend(t)
  BY <1>0, <1>13 DEF RemAppend
<1>14. CASE RemErase(t)
  BY <1>0, <1>14 DEF RemErase
<1>15. CASE KeysCheck(t)
  BY <1>0, <1>15 DEF KeysCheck
<1>16. CASE KeysClean(t)
  BY <1>0, <1>16 DEF KeysClean
<1>17. CASE KeysList(t)
  BY <1>0, <1>17 DEF KeysList
<1>18. CASE CleanLock(t)
  BY <1>0, <1>18 DEF CleanLock
<1>19. CASE CompLock(t)
  BY <1>0, <1>19 DEF CompLock
<1>20. CASE CompWrite(t)
  BY <1>0, <1>20 DEF CompWrite
<1>21. CASE CompInstall(t)
  BY <1>0, <1>21 DEF CompInstall
<1>22. CASE OpenStart(t)
  BY <1>0, <1>22 DEF OpenStart
<1>23. CASE OpenRecover(t)
  BY <1>0, <1>23 DEF OpenRecover
<1>24. CASE OpenInstall(t)
  BY <1>0, <1>24 DEF OpenInstall
<1>25. CASE OpenClear(t)
  BY <1>0, <1>25 DEF OpenClear
<1>26. CASE OpenFlag(t)
  BY <1>0, <1>26 DEF OpenFlag
<1>27. CASE Close(t)
  BY <1>0, <1>27 DEF Close
<1> QED
  BY <1>1, <1>2, <1>3, <1>4, <1>5, <1>6, <1>7, <1>8, <1>9, <1>10, <1>11, <1>12, <1>13, <1>14, <1>15, <1>16, <1>17, <1>18, <1>19, <1>20, <1>21, <1>22, <1>23, <1>24, <1>25, <1>26, <1>27 DEF Step

\* The value a log holds at an offset.
ReadIn(l, off) == IF off \in DOMAIN l THEN l[off].value ELSE None

\* The values a compaction has read are still there when it writes them.
LEMMA StepCompact ==
  ASSUME Basic, NEW t \in Threads, Step(t)
  PROVE  CompactOK'
<1>0. TypeOK /\ LockOK /\ CompactOK /\ log \in Seq(Record)
  BY DEF Basic, TypeOK
<1> SUFFICES ASSUME NEW u \in Threads, pc'[u] = "comp_write"
             PROVE  \A k \in Keys : index'[k] # None => ReadIn(log', index'[k].off) \in Values
  BY DEF CompactOK, ReadAt, ReadIn
<1>1. CASE u # t
  <2>1. pc[u] = "comp_write" /\ writer = u
    BY <1>0, <1>1, StepOthers DEF LockOK, WriteLabels
  <2>2. index' = index /\ log' = log
    BY <2>1, <1>1, LockProtects
  <2> QED
    BY <2>1, <2>2, <1>0 DEF CompactOK, ReadAt, ReadIn
<1>2. CASE u = t
  <2>0. pc \in [Threads -> Labels]
    BY <1>0 DEF TypeOK
  <2>1. CompLock(t)
    <3> USE DEF Goto, Finish
    <3>1. CASE Start(t)
      BY <3>1, <1>2, StartGoes
    <3>2. CASE Return(t)
      BY <3>2, <2>0, <1>2 DEF Return
    <3>3. CASE SetLock(t)
      BY <3>3, <2>0, <1>2 DEF SetLock
    <3>4. CASE SetAppend(t)
      BY <3>4, <2>0, <1>2 DEF SetAppend
    <3>5. CASE SetInstall(t)
      BY <3>5, <2>0, <1>2 DEF SetInstall
    <3>6. CASE WriteFails(t)
      BY <3>6, <2>0, <1>2 DEF WriteFails
    <3>7. CASE GetLock(t)
      BY <3>7, <2>0, <1>2 DEF GetLock
    <3>8. CASE GetCache(t)
      BY <3>8, <2>0, <1>2 DEF GetCache
    <3>9. CASE GetRead(t)
      BY <3>9, <2>0, <1>2 DEF GetRead
    <3>10. CASE GetPut(t)
      BY <3>10, <2>0, <1>2 DEF GetPut
    <3>11. CASE GetErase(t)
      BY <3>11, <2>0, <1>2 DEF GetErase
    <3>12. CASE RemLock(t)
      BY <3>12, <2>0, <1>2 DEF RemLock
    <3>13. CASE RemAppend(t)
      BY <3>13, <2>0, <1>2 DEF RemAppend
    <3>14. CASE RemErase(t)
      BY <3>14, <2>0, <1>2 DEF RemErase
    <3>15. CASE KeysCheck(t)
      BY <3>15, <2>0, <1>2 DEF KeysCheck
    <3>16. CASE KeysClean(t)
      BY <3>16, <2>0, <1>2 DEF KeysClean
    <3>17. CASE KeysList(t)
      BY <3>17, <2>0, <1>2 DEF KeysList
    <3>18. CASE CleanLock(t)
      BY <3>18, <2>0, <1>2 DEF CleanLock
    <3>20. CASE CompWrite(t)
      BY <3>20, <2>0, <1>2 DEF CompWrite
    <3>21. CASE CompInstall(t)
      BY <3>21, <2>0, <1>2 DEF CompInstall
    <3>22. CASE OpenStart(t)
      BY <3>22, <2>0, <1>2 DEF OpenStart
    <3>23. CASE OpenRecover(t)
      BY <3>23, <2>0, <1>2 DEF OpenRecover
    <3>24. CASE OpenInstall(t)
      BY <3>24, <2>0, <1>2 DEF OpenInstall
    <3>25. CASE OpenClear(t)
      BY <3>25, <2>0, <1>2 DEF OpenClear
    <3>26. CASE OpenFlag(t)
      BY <3>26, <2>0, <1>2 DEF OpenFlag
    <3>27. CASE Close(t)
      BY <3>27, <2>0, <1>2 DEF Close
    <3> QED
      BY <3>1, <3>2, <3>3, <3>4, <3>5, <3>6, <3>7, <3>8, <3>9, <3>10, <3>11, <3>12, <3>13, <3>14, <3>15, <3>16, <3>17, <3>18, <3>20, <3>21, <3>22, <3>23, <3>24, <3>25, <3>26, <3>27 DEF Step
  <2>2. \A k \in Keys : index'[k] # None => ReadAt(index'[k].off) # None
    BY <2>0, <2>1, <1>2 DEF CompLock, Goto, Finish
  <2>3. log' = log
    BY <2>1 DEF CompLock
  <2>4. \A off : ReadIn(log', off) = ReadAt(off) /\ ReadAt(off) \in Values \cup {None}
    BY <2>3, <1>0, ReadAtType DEF ReadAt, ReadIn
  <2> QED
    BY <2>2, <2>4
<1> QED
  BY <1>1, <1>2

\* Every step keeps the first invariant.
LEMMA NextBasic == Basic /\ [Next]_vars => Basic'
<1> SUFFICES ASSUME Basic, [Next]_vars PROVE Basic'
  OBVIOUS
<1>0. TypeOK /\ CallTyped /\ LockOK /\ CallOK /\ CompactOK
  BY DEF Basic
<1>1. ASSUME NEW t \in Threads, Step(t) PROVE Basic'
  <2>1. TypeOK'
    <3>1. now' \in Nat /\ calls' \in 0..MaxCalls /\ opens' \in 0..MaxOpens
      BY <1>0, <1>1, StepOthers DEF TypeOK
    <3> QED
      BY <3>1, <1>1, StepData, StepLocals, StepLockTypes DEF TypeOK, Locals
  <2> QED
    BY <2>1, <1>1, StepLock, StepCall, StepCompact DEF Basic
<1>2. ASSUME NEW t \in Threads, Invoke(t) \/ InvokeOpen(t) PROVE Basic'
  <2>0. PICK o \in Calls \cup {"open"} :
          \E c \in Requests(o) : call' = [call EXCEPT ![t] = c]
    BY <1>2 DEF Invoke, InvokeOpen
  <2>1. PICK c \in Requests(o) : call' = [call EXCEPT ![t] = c]
    BY <2>0
  <2>2. c \in SetRequest \cup KeyRequest("get") \cup KeyRequest("remove") \cup PlainRequest
    BY <2>1, <1>0, RequestsProperties DEF TypeOK
  <2>3. /\ pc[t] = "idle" /\ pc' = [pc EXCEPT ![t] = "start"] /\ pc \in [Threads -> Labels]
        /\ UNCHANGED <<opened, writer, readers, index, log, cache, now, loc, res>>
    BY <1>0, <1>2 DEF Invoke, InvokeOpen, Goto, lock, TypeOK
  <2>4. calls' \in 0..MaxCalls /\ opens' \in 0..MaxOpens
    BY <1>0, <1>2, KeyValueStoreAssumption DEF Invoke, InvokeOpen, TypeOK
  <2>5. pc' \in [Threads -> Labels]
    BY <2>3 DEF Labels
  <2>6. TypeOK'
    BY <2>3, <2>4, <2>5, <1>0 DEF TypeOK
  <2>7. CallTyped' /\ CallOK'
    BY <2>1, <2>2, <2>3, <1>0 DEF CallTyped, CallOK, SetLabels, GetLabels, RemoveLabels
  <2>8. LockOK' /\ CompactOK'
    BY <2>3, <1>0 DEF LockOK, CompactOK, WriteLabels, ReadLabels, ReadAt
  <2> QED
    BY <2>6, <2>7, <2>8 DEF Basic
<1>3. CASE Tick
  <2>1. now' \in Nat /\ UNCHANGED <<opened, writer, readers, index, log, cache, pc, call, loc,
                                    res, calls, opens>>
    BY <1>0, <1>3 DEF Tick, TypeOK, lock
  <2> QED
    BY <2>1, <1>0 DEF Basic, TypeOK, CallTyped, LockOK, CallOK, CompactOK, ReadAt
<1>4. CASE UNCHANGED vars
  BY <1>0, <1>4 DEF vars, Basic, TypeOK, CallTyped, LockOK, CallOK, CompactOK, ReadAt
<1> QED
  BY <1>1, <1>2, <1>3, <1>4 DEF Next, Quiescent

\* The first invariant holds in every reachable state.
THEOREM BasicInvariance == Spec => []Basic
  BY InitBasic, NextBasic, PTL DEF Spec

\* Whatever the threads call, and however often open() runs, no two of them hold
\* indexMutex_ in ways that exclude each other, every offset in the index is one,
\* and a compaction writes records.
THEOREM TypeCorrect == Spec => []TypeOK
<1>1. Basic => TypeOK
  BY DEF Basic
<1> QED
  BY <1>1, BasicInvariance, PTL

-----------------------------------------------------------------------------
(* The cache. *)

\* The cache agrees with index and log except between the two halves of a
\* compaction's or an open()'s exchange of the index.
Coherent ==
  /\ CacheCapacity = 0 => cache = NoIndex
  /\ (\A t \in Threads : pc[t] \notin {"comp_install", "open_clear"}) =>
       \A k \in Keys : cache[k] # None =>
         index[k] # None /\ cache[k] = ReadAt(index[k].off)

\* A get that holds the lock has found an entry, and the value it has read is the
\* one that entry leads to.
ReaderOK ==
  \A t \in Threads :
    /\ pc[t] \in ReadLabels => index[call[t].key] # None
    /\ pc[t] = "get_put" =>
         /\ loc[t].value \in Values
         /\ loc[t].value = ReadAt(index[call[t].key].off)

\* The record a set has appended is where it remembers it.
WriterOK ==
  \A t \in Threads :
    pc[t] = "set_install" => ReadAt(loc[t].off) = call[t].value

\* The second inductive invariant.
CInv == Basic /\ Coherent /\ ReaderOK /\ WriterOK

\* A record that is appended does not change what the others hold.
LEMMA AppendReads ==
  ASSUME NEW l \in Seq(Record), NEW r \in Record
  PROVE  /\ \A off : ReadIn(l, off) # None => ReadIn(Append(l, r), off) = ReadIn(l, off)
         /\ ReadIn(Append(l, r), Len(l) + 1) = r.value
<1>1. /\ Len(l) \in Nat /\ DOMAIN l = 1..Len(l)
      /\ DOMAIN Append(l, r) = 1..(Len(l) + 1)
      /\ \A i \in 1..Len(l) : Append(l, r)[i] = l[i]
      /\ Append(l, r)[Len(l) + 1] = r
  BY LenProperties
<1>2. \A i \in DOMAIN l : i \in DOMAIN Append(l, r)
  BY <1>1
<1> QED
  BY <1>1, <1>2 DEF ReadIn

\* What set and remove append are records.
LEMMA AppendedIsRecord ==
  ASSUME Basic, NEW t \in Threads, SetAppend(t) \/ RemAppend(t)
  PROVE  \E r \in Record :
           /\ log' = Append(log, r)
           /\ SetAppend(t) => r.value = call[t].value
<1>1. CASE SetAppend(t)
  <2>1. call[t] \in SetRequest /\ loc[t].time \in Nat
    BY <1>1 DEF Basic, SetAppend, CallOK, SetLabels, TypeOK
  <2>2. [op |-> "Set", key |-> call[t].key, value |-> call[t].value,
         expiresAtMs |-> loc[t].time] \in Record
    BY <2>1 DEF SetRequest, Record
  <2> QED
    BY <2>2, <1>1 DEF SetAppend
<1>2. CASE RemAppend(t)
  <2>1. call[t].key \in Keys
    BY <1>2 DEF Basic, RemAppend, CallOK, RemoveLabels, KeyRequest
  <2>2. [op |-> "Delete", key |-> call[t].key, value |-> None, expiresAtMs |-> 0] \in Record
    BY <2>1 DEF Record
  <2>3. ~SetAppend(t)
    BY <1>2 DEF SetAppend, RemAppend
  <2> QED
    BY <2>2, <2>3, <1>2 DEF RemAppend
<1> QED
  BY <1>1, <1>2

\* The threads that hold the lock keep what they know.
LEMMA StepReaders ==
  ASSUME CInv, NEW t \in Threads, Step(t)
  PROVE  ReaderOK'
<1>0. /\ Basic /\ ReaderOK /\ LockOK /\ pc \in [Threads -> Labels]
      /\ log \in Seq(Record)
      /\ loc \in [Threads -> [time: Nat, off: Nat, value: Values \cup {None}, index: Index]]
  BY DEF CInv, Basic, TypeOK
<1> SUFFICES ASSUME NEW u \in Threads, pc'[u] \in ReadLabels
             PROVE  /\ index'[call'[u].key] # None
                    /\ pc'[u] = "get_put" =>
                         /\ loc'[u].value \in Values
                         /\ loc'[u].value = ReadIn(log', index'[call'[u].key].off)
  BY DEF ReaderOK, ReadLabels, ReadAt, ReadIn
<1>1. CASE u # t
  <2>1. pc'[u] = pc[u] /\ loc'[u] = loc[u] /\ call'[u] = call[u]
    BY <1>0, <1>1, StepOthers
  <2>2. index' = index /\ log' = log
    BY <2>1, <1>0, <1>1, LockProtects DEF LockOK
  <2> QED
    BY <2>1, <2>2, <1>0 DEF ReaderOK, ReadAt, ReadIn
<1>2. CASE u = t
  <2>1. GetLock(t) \/ GetCache(t) \/ GetRead(t)
    <3> USE DEF Goto, Finish, ReadLabels
    <3>1. CASE Start(t)
      BY <3>1, <1>0, <1>2, StartGoes
    <3>2. CASE Return(t)
      BY <3>2, <1>0, <1>2 DEF Return
    <3>3. CASE SetLock(t)
      BY <3>3, <1>0, <1>2 DEF SetLock
    <3>4. CASE SetAppend(t)
      BY <3>4, <1>0, <1>2 DEF SetAppend
    <3>5. CASE SetInstall(t)
      BY <3>5, <1>0, <1>2 DEF SetInstall
    <3>6. CASE WriteFails(t)
      BY <3>6, <1>0, <1>2 DEF WriteFails
    <3>10. CASE GetPut(t)
      BY <3>10, <1>0, <1>2 DEF GetPut
    <3>11. CASE GetErase(t)
      BY <3>11, <1>0, <1>2 DEF GetErase
    <3>12. CASE RemLock(t)
      BY <3>12, <1>0, <1>2 DEF RemLock
    <3>13. CASE RemAppend(t)
      BY <3>13, <1>0, <1>2 DEF RemAppend
    <3>14. CASE RemErase(t)
      BY <3>14, <1>0, <1>2 DEF RemErase
    <3>15. CASE KeysCheck(t)
      BY <3>15, <1>0, <1>2 DEF KeysCheck
    <3>16. CASE KeysClean(t)
      BY <3>16, <1>0, <1>2 DEF KeysClean
    <3>17. CASE KeysList(t)
      BY <3>17, <1>0, <1>2 DEF KeysList
    <3>18. CASE CleanLock(t)
      BY <3>18, <1>0, <1>2 DEF CleanLock
    <3>19. CASE CompLock(t)
      BY <3>19, <1>0, <1>2 DEF CompLock
    <3>20. CASE CompWrite(t)
      BY <3>20, <1>0, <1>2 DEF CompWrite
    <3>21. CASE CompInstall(t)
      BY <3>21, <1>0, <1>2 DEF CompInstall
    <3>22. CASE OpenStart(t)
      BY <3>22, <1>0, <1>2 DEF OpenStart
    <3>23. CASE OpenRecover(t)
      BY <3>23, <1>0, <1>2 DEF OpenRecover
    <3>24. CASE OpenInstall(t)
      BY <3>24, <1>0, <1>2 DEF OpenInstall
    <3>25. CASE OpenClear(t)
      BY <3>25, <1>0, <1>2 DEF OpenClear
    <3>26. CASE OpenFlag(t)
      BY <3>26, <1>0, <1>2 DEF OpenFlag
    <3>27. CASE Close(t)
      BY <3>27, <1>0, <1>2 DEF Close
    <3> QED
      BY <3>1, <3>2, <3>3, <3>4, <3>5, <3>6, <3>10, <3>11, <3>12, <3>13, <3>14, <3>15, <3>16, <3>17, <3>18, <3>19, <3>20, <3>21, <3>22, <3>23, <3>24, <3>25, <3>26, <3>27 DEF Step
  <2>2. index' = index /\ log' = log /\ call' = call
    BY <2>1 DEF GetLock, GetCache, GetRead, env
  <2>3. CASE GetLock(t)
    BY <2>2, <2>3, <1>0, <1>2 DEF GetLock, Goto, Finish, ReadLabels
  <2>4. CASE GetCache(t)
    BY <2>2, <2>4, <1>0, <1>2 DEF GetCache, Goto, Finish, ReadLabels, ReaderOK
  <2>5. CASE GetRead(t)
    <3> DEFINE v == ReadAt(index[call[t].key].off)
    <3>1. v # None /\ loc' = [loc EXCEPT ![t].value = v] /\ pc[t] = "get_read"
      BY <2>5, <1>0, <1>2 DEF GetRead, Goto, Finish, ReadLabels
    <3>2. v \in Values \cup {None} /\ v = ReadIn(log', index'[call'[t].key].off)
      BY <2>2, <1>0, ReadAtType DEF ReadAt, ReadIn
    <3> HIDE DEF v
    <3>3. loc'[t].value = v
      BY <3>1, <1>0
    <3>4. index'[call'[t].key] # None
      BY <3>1, <2>2, <1>0 DEF ReaderOK, ReadLabels
    <3> QED
      BY <3>1, <3>2, <3>3, <3>4, <1>2
  <2> QED
    BY <2>1, <2>3, <2>4, <2>5
<1> QED
  BY <1>1, <1>2

\* A set remembers the offset of its record until it has installed it.
LEMMA StepWriters ==
  ASSUME CInv, NEW t \in Threads, Step(t)
  PROVE  WriterOK'
<1>0. /\ Basic /\ WriterOK /\ LockOK /\ pc \in [Threads -> Labels]
      /\ log \in Seq(Record)
      /\ loc \in [Threads -> [time: Nat, off: Nat, value: Values \cup {None}, index: Index]]
  BY DEF CInv, Basic, TypeOK
<1> SUFFICES ASSUME NEW u \in Threads, pc'[u] = "set_install"
             PROVE  ReadIn(log', loc'[u].off) = call'[u].value
  BY DEF WriterOK, ReadAt, ReadIn
<1>1. CASE u # t
  <2>1. pc'[u] = pc[u] /\ loc'[u] = loc[u] /\ call'[u] = call[u]
    BY <1>0, <1>1, StepOthers
  <2>2. log' = log
    BY <2>1, <1>0, <1>1, LockProtects DEF LockOK, WriteLabels
  <2> QED
    BY <2>1, <2>2, <1>0 DEF WriterOK, ReadAt, ReadIn
<1>2. CASE u = t
  <2>1. SetAppend(t)
    <3> USE DEF Goto, Finish
    <3>1. CASE Start(t)
      BY <3>1, <1>0, <1>2, StartGoes
    <3>2. CASE Return(t)
      BY <3>2, <1>0, <1>2 DEF Return
    <3>3. CASE SetLock(t)
      BY <3>3, <1>0, <1>2 DEF SetLock
    <3>5. CASE SetInstall(t)
      BY <3>5, <1>0, <1>2 DEF SetInstall
    <3>6. CASE WriteFails(t)
      BY <3>6, <1>0, <1>2 DEF WriteFails
    <3>7. CASE GetLock(t)
      BY <3>7, <1>0, <1>2 DEF GetLock
    <3>8. CASE GetCache(t)
      BY <3>8, <1>0, <1>2 DEF GetCache
    <3>9. CASE GetRead(t)
      BY <3>9, <1>0, <1>2 DEF GetRead
    <3>10. CASE GetPut(t)
      BY <3>10, <1>0, <1>2 DEF GetPut
    <3>11. CASE GetErase(t)
      BY <3>11, <1>0, <1>2 DEF GetErase
    <3>12. CASE RemLock(t)
      BY <3>12, <1>0, <1>2 DEF RemLock
    <3>13. CASE RemAppend(t)
      BY <3>13, <1>0, <1>2 DEF RemAppend
    <3>14. CASE RemErase(t)
      BY <3>14, <1>0, <1>2 DEF RemErase
    <3>15. CASE KeysCheck(t)
      BY <3>15, <1>0, <1>2 DEF KeysCheck
    <3>16. CASE KeysClean(t)
      BY <3>16, <1>0, <1>2 DEF KeysClean
    <3>17. CASE KeysList(t)
      BY <3>17, <1>0, <1>2 DEF KeysList
    <3>18. CASE CleanLock(t)
      BY <3>18, <1>0, <1>2 DEF CleanLock
    <3>19. CASE CompLock(t)
      BY <3>19, <1>0, <1>2 DEF CompLock
    <3>20. CASE CompWrite(t)
      BY <3>20, <1>0, <1>2 DEF CompWrite
    <3>21. CASE CompInstall(t)
      BY <3>21, <1>0, <1>2 DEF CompInstall
    <3>22. CASE OpenStart(t)
      BY <3>22, <1>0, <1>2 DEF OpenStart
    <3>23. CASE OpenRecover(t)
      BY <3>23, <1>0, <1>2 DEF OpenRecover
    <3>24. CASE OpenInstall(t)
      BY <3>24, <1>0, <1>2 DEF OpenInstall
    <3>25. CASE OpenClear(t)
      BY <3>25, <1>0, <1>2 DEF OpenClear
    <3>26. CASE OpenFlag(t)
      BY <3>26, <1>0, <1>2 DEF OpenFlag
    <3>27. CASE Close(t)
      BY <3>27, <1>0, <1>2 DEF Close
    <3> QED
      BY <3>1, <3>2, <3>3, <3>5, <3>6, <3>7, <3>8, <3>9, <3>10, <3>11, <3>12, <3>13, <3>14, <3>15, <3>16, <3>17, <3>18, <3>19, <3>20, <3>21, <3>22, <3>23, <3>24, <3>25, <3>26, <3>27 DEF Step
  <2>2. PICK r \in Record : log' = Append(log, r) /\ r.value = call[t].value
    BY <2>1, <1>0, AppendedIsRecord
  <2>3. loc'[t].off = Len(log) + 1 /\ call' = call
    BY <2>1, <1>0 DEF SetAppend, env
  <2> QED
    BY <2>2, <2>3, <1>0, <1>2, AppendReads
<1> QED
  BY <1>1, <1>2

\* Outside the exchange of an index no step lets the cache disagree with the file.
LEMMA StepCoherent ==
  ASSUME CInv, NEW t \in Threads, Step(t)
  PROVE  Coherent'
<1> DEFINE Bad == {"comp_install", "open_clear"}
           Agree == \A k \in Keys : cache[k] # None =>
                      index[k] # None /\ cache[k] = ReadIn(log, index[k].off)
           AgreeNext == \A k \in Keys : cache'[k] # None =>
                      index'[k] # None /\ cache'[k] = ReadIn(log', index'[k].off)
<1>0. /\ Basic /\ pc \in [Threads -> Labels] /\ CallOK /\ ReaderOK /\ WriterOK
      /\ log \in Seq(Record) /\ cache \in [Keys -> Values \cup {None}] /\ index \in Index
  BY DEF CInv, Basic, TypeOK
<1>1. (CacheCapacity = 0 => cache = NoIndex)
      /\ ((\A u \in Threads : pc[u] \notin Bad) => Agree)
  BY DEF CInv, Coherent, ReadAt, ReadIn
<1>2. (CacheCapacity = 0 => cache' = NoIndex)
      /\ ((\A u \in Threads : pc'[u] \notin Bad) => AgreeNext)
      => Coherent'
  BY DEF Coherent, ReadAt, ReadIn
<1> HIDE DEF Agree, AgreeNext
<1>3. (\A u \in Threads : pc'[u] \notin Bad) /\ pc[t] \notin Bad
      => \A u \in Threads : pc[u] \notin Bad
  BY <1>0, StepOthers
<1>4. NoIndex \in [Keys -> Values \cup {None}] /\ \A k \in Keys : NoIndex[k] = None
  BY DEF NoIndex
<1>5. CASE OpenClear(t) \/ CompInstall(t)
  <2>1. cache' = NoIndex
    BY <1>5 DEF OpenClear, CompInstall
  <2>2. AgreeNext
    BY <2>1, <1>4 DEF AgreeNext
  <2> QED
    BY <2>1, <2>2, <1>2
<1>6. CASE CompWrite(t) \/ OpenInstall(t)
  <2>1. pc'[t] \in Bad /\ cache' = cache
    BY <1>0, <1>6 DEF CompWrite, OpenInstall, Goto
  <2> QED
    BY <2>1, <1>1, <1>2
<1>7. CASE SetAppend(t) \/ RemAppend(t)
  <2>1. PICK r \in Record : log' = Append(log, r)
    BY <1>0, <1>7, AppendedIsRecord
  <2>2. index' = index /\ cache' = cache /\ pc[t] \notin Bad
    BY <1>7 DEF SetAppend, RemAppend
  <2>3. Agree => AgreeNext
    <3> SUFFICES ASSUME Agree, NEW k \in Keys, cache'[k] # None
                 PROVE  index'[k] # None /\ cache'[k] = ReadIn(log', index'[k].off)
      BY DEF AgreeNext
    <3>1. index[k] # None /\ cache[k] = ReadIn(log, index[k].off)
      BY <2>2 DEF Agree
    <3>2. ReadIn(log', index[k].off) = ReadIn(log, index[k].off)
      BY <3>1, <2>1, <2>2, <1>0, AppendReads
    <3> QED
      BY <3>1, <3>2, <2>2
  <2> QED
    BY <2>2, <2>3, <1>1, <1>2, <1>3
<1>8. CASE \/ GetErase(t) \/ RemLock(t) \/ RemErase(t) \/ KeysClean(t)
         \/ CleanLock(t) \/ CompLock(t)
  <2>1. /\ log' = log /\ pc[t] \notin Bad
        /\ \A k \in Keys :
             (cache'[k] = None /\ index'[k] = None) \/ (cache'[k] = cache[k] /\ index'[k] = index[k])
        /\ cache' \in [Keys -> Values \cup {None}]
    <3>1. log' = log /\ pc[t] \notin Bad
      BY <1>8 DEF GetErase, RemLock, RemErase, KeysClean, CleanLock, CompLock
    <3>2. (\E ks : EraseKeys(ks)) \/ UNCHANGED <<index, cache>>
      BY <1>8 DEF GetErase, RemLock, RemErase, KeysClean, CleanLock, CompLock
    <3>3. CASE UNCHANGED <<index, cache>>
      BY <3>1, <3>3, <1>0
    <3>4. ASSUME NEW ks, EraseKeys(ks)
          PROVE  /\ \A k \in Keys :
                    (cache'[k] = None /\ index'[k] = None) \/ (cache'[k] = cache[k] /\ index'[k] = index[k])
                 /\ cache' \in [Keys -> Values \cup {None}]
      BY <3>4, <1>0 DEF EraseKeys
    <3> QED
      BY <3>1, <3>2, <3>3, <3>4
  <2>2. Agree => AgreeNext
    BY <2>1 DEF Agree, AgreeNext
  <2>3. CacheCapacity = 0 => cache' = NoIndex
    BY <2>1, <1>1 DEF NoIndex
  <2> QED
    BY <2>1, <2>2, <2>3, <1>1, <1>2, <1>3
<1>9. CASE SetInstall(t)
  <2> DEFINE k == call[t].key
  <2>1. k \in Keys /\ call[t].value \in Values /\ pc[t] = "set_install"
    BY <1>0, <1>9 DEF SetInstall, CallOK, SetLabels, SetRequest
  <2>2. /\ \A x \in Keys : x # k => cache'[x] = None \/ cache'[x] = cache[x]
        /\ CacheCapacity # 0 => cache'[k] = None \/ cache'[k] = call[t].value
        /\ CacheCapacity = 0 => cache' = cache
    BY <2>1, <1>0, <1>9, CachePutProperties DEF SetInstall
  <2>3. /\ log' = log
        /\ index'[k] = [off |-> loc[t].off, expiresAtMs |-> loc[t].time]
        /\ \A x \in Keys : x # k => index'[x] = index[x]
    BY <2>1, <1>0, <1>9 DEF SetInstall, Index
  <2>4. index'[k] # None
    <3>1. index'[k] \in Metadata
      BY <2>3, <1>0 DEF Metadata, Basic, TypeOK
    <3> QED
      BY <3>1, NoneAssumption
  <2>5. ReadIn(log', index'[k].off) = call[t].value
    BY <2>1, <2>3, <1>0 DEF WriterOK, ReadAt, ReadIn
  <2> HIDE DEF k
  <2>6. CASE CacheCapacity = 0
    <3>1. cache' = NoIndex
      BY <2>2, <2>6, <1>1
    <3> QED
      BY <3>1, <1>2, <1>4 DEF AgreeNext
  <2>7. CASE CacheCapacity # 0
    <3>1. Agree => AgreeNext
      BY <2>2, <2>3, <2>4, <2>5, <2>7 DEF Agree, AgreeNext
    <3> QED
      BY <3>1, <2>1, <2>7, <1>1, <1>2, <1>3
  <2> QED
    BY <2>6, <2>7
<1>10. CASE GetPut(t)
  <2> DEFINE k == call[t].key
  <2>1. k \in Keys /\ loc[t].value \in Values /\ pc[t] = "get_put"
        /\ index[k] # None /\ loc[t].value = ReadIn(log, index[k].off)
    BY <1>0, <1>10 DEF GetPut, CallOK, GetLabels, KeyRequest, ReaderOK, ReadLabels, ReadAt, ReadIn
  <2>2. /\ \A x \in Keys : x # k => cache'[x] = None \/ cache'[x] = cache[x]
        /\ CacheCapacity # 0 => cache'[k] = None \/ cache'[k] = loc[t].value
        /\ CacheCapacity = 0 => cache' = cache
    BY <2>1, <1>0, <1>10, CachePutProperties DEF GetPut
  <2>3. log' = log /\ index' = index
    BY <1>10 DEF GetPut
  <2> HIDE DEF k
  <2>4. CASE CacheCapacity = 0
    <3>1. cache' = NoIndex
      BY <2>2, <2>4, <1>1
    <3> QED
      BY <3>1, <1>2, <1>4 DEF AgreeNext
  <2>5. CASE CacheCapacity # 0
    <3>1. Agree => AgreeNext
      BY <2>1, <2>2, <2>3, <2>5 DEF Agree, AgreeNext
    <3> QED
      BY <3>1, <2>1, <2>5, <1>1, <1>2, <1>3
  <2> QED
    BY <2>4, <2>5
<1>11. CASE \/ Start(t) \/ Return(t) \/ SetLock(t) \/ WriteFails(t)
          \/ GetLock(t) \/ GetCache(t) \/ GetRead(t) \/ KeysCheck(t)
          \/ KeysList(t) \/ OpenStart(t) \/ OpenRecover(t) \/ OpenFlag(t)
          \/ Close(t)
  <2>1. UNCHANGED <<index, log, cache>> /\ pc[t] \notin Bad
    BY <1>11 DEF Start, Return, SetLock, WriteFails, GetLock, GetCache, GetRead, KeysCheck, KeysList, OpenStart, OpenRecover, OpenFlag, Close
  <2> QED
    BY <2>1, <1>1, <1>2, <1>3 DEF Agree, AgreeNext
<1> QED
  BY <1>5, <1>6, <1>7, <1>8, <1>9, <1>10, <1>11 DEF Step

\* The second invariant is inductive.
LEMMA NextCInv == CInv /\ [Next]_vars => CInv'
<1> SUFFICES ASSUME CInv, [Next]_vars PROVE CInv'
  OBVIOUS
<1>0. Basic' /\ Basic /\ Coherent /\ ReaderOK /\ WriterOK /\ pc \in [Threads -> Labels]
  BY NextBasic DEF CInv, Basic, TypeOK
<1>1. ASSUME NEW t \in Threads, Step(t) PROVE CInv'
  BY <1>0, <1>1, StepCoherent, StepReaders, StepWriters DEF CInv
<1>2. ASSUME NEW t \in Threads, Invoke(t) \/ InvokeOpen(t) PROVE CInv'
  <2>1. /\ pc[t] = "idle" /\ pc' = [pc EXCEPT ![t] = "start"]
        /\ UNCHANGED <<index, log, cache, loc>>
        /\ \A u \in Threads : u # t => call'[u] = call[u]
    BY <1>0, <1>2 DEF Invoke, InvokeOpen, Goto, Basic, CallTyped
  <2>2. Coherent'
    BY <2>1, <1>0 DEF Coherent, ReadAt
  <2>3. ReaderOK' /\ WriterOK'
    BY <2>1, <1>0 DEF ReaderOK, WriterOK, ReadAt, ReadLabels
  <2> QED
    BY <2>2, <2>3, <1>0 DEF CInv
<1>3. CASE Tick \/ UNCHANGED vars
  <2>1. UNCHANGED <<index, log, cache, pc, call, loc>>
    BY <1>3 DEF Tick, vars
  <2> QED
    BY <2>1, <1>0 DEF CInv, Coherent, ReaderOK, WriterOK, ReadAt
<1> QED
  BY <1>1, <1>2, <1>3 DEF Next, Quiescent

\* The second invariant holds in every reachable state.
THEOREM CInvInvariance == Spec => []CInv
<1>1. Init => CInv
  <2> SUFFICES ASSUME Init PROVE CInv
    OBVIOUS
  <2>1. Coherent
    BY DEF Init, Coherent, NoIndex
  <2>2. ReaderOK /\ WriterOK
    BY DEF Init, ReaderOK, WriterOK, ReadLabels
  <2> QED
    BY <2>1, <2>2, InitBasic DEF CInv
<1> QED
  BY <1>1, NextCInv, PTL DEF Spec

\* Whatever the threads call, even with an open() in the middle of other calls, the
\* cache holds no value but the one the index leads to.
THEOREM CacheStaysCoherent == Spec => []CacheCoherent
<1>1. CInv => CacheCoherent
  <2> SUFFICES ASSUME CInv, writer = None,
                      \A t \in Threads : pc[t] \notin {"open_install", "open_clear"}
               PROVE  \A k \in Keys : cache[k] # None =>
                        index[k] # None /\ cache[k] = ReadAt(index[k].off)
    BY DEF CacheCoherent
  <2>1. \A t \in Threads : pc[t] # "comp_install"
    BY NoneAssumption DEF CInv, Basic, LockOK, WriteLabels
  <2> QED
    BY <2>1 DEF CInv, Coherent
<1> QED
  BY <1>1, CInvInvariance, PTL

-----------------------------------------------------------------------------
(* The index and the log: with no writer at work the entry of every key is  *)
(* its last record, as long as open() does not overlap another call.        *)

\* What open() needs of its callers: while it runs, no other call does.  (open()
\* reads the file and installs the index without a lock around the two.)
OpensAlone ==
  \A t, u \in Threads : t # u /\ pc[t] \in OpenLabels => pc[u] \in QuietLabels

\* Entry e agrees with the last record of key k in log l at time n.
Matches(l, e, k, n) ==
  LET p == LastIn(l, k) IN
  IF e # None
  THEN p # 0 /\ e.off = p /\ l[p].op = "Set" /\ l[p].expiresAtMs = e.expiresAtMs
  ELSE p = 0 \/ l[p].op = "Delete" \/ isExpired(l[p].expiresAtMs, n)

\* Some open() has installed an index, and the store is in use.
Installed ==
  opened \/ \E t \in Threads :
              pc[t] \notin QuietLabels \cup {"open_recover", "open_install"}

\* Key k is between the append of a record and the change of its entry.
Pending(k) ==
  \E t \in Threads : \/ pc[t] = "comp_install"
                     \/ pc[t] \in {"set_install", "rem_erase"} /\ call[t].key = k

\* The entries agree with the log, but for the one that is being changed.
EntriesMatch ==
  Installed => \A k \in Keys : Pending(k) \/ Matches(log, index[k], k, now)

\* What a thread that is about to change the index knows of the log.
WorkOK ==
  \A t \in Threads :
    /\ pc[t] = "set_install" =>
         /\ loc[t].off = Len(log) /\ Len(log) # 0
         /\ log[Len(log)] = [op |-> "Set", key |-> call[t].key, value |-> call[t].value,
                             expiresAtMs |-> loc[t].time]
    /\ pc[t] = "rem_erase" =>
         Len(log) # 0 /\ log[Len(log)].key = call[t].key /\ log[Len(log)].op = "Delete"
    /\ pc[t] \in {"comp_install", "open_install"} =>
         \A k \in Keys : Matches(log, loc[t].index[k], k, now)
    /\ pc[t] = "get_erase" => loc[t].time <= now

\* The third inductive invariant.
MInv == CInv /\ EntriesMatch /\ WorkOK

-----------------------------------------------------------------------------
(* Entries and records. *)

\* An entry that matches goes on to do so as time passes.
LEMMA MatchesLater ==
  ASSUME NEW l \in Seq(Record), NEW e, NEW k \in Keys, NEW n \in Nat, NEW m \in Nat, n <= m,
         Matches(l, e, k, n)
  PROVE  Matches(l, e, k, m)
<1>1. CASE LastIn(l, k) = 0
  BY <1>1 DEF Matches
<1>2. CASE LastIn(l, k) # 0
  <2>1. LastIn(l, k) \in 1..Len(l)
    BY <1>2, LastInProperties
  <2>2. l[LastIn(l, k)] \in Record
    BY <2>1, ElementOfSeq
  <2>3. l[LastIn(l, k)].expiresAtMs \in Nat
    BY <2>2 DEF Record
  <2> QED
    BY <2>3 DEF Matches, isExpired
<1> QED
  BY <1>1, <1>2

\* The entry of a key that has expired may go.
LEMMA MatchesExpired ==
  ASSUME NEW l \in Seq(Record), NEW e, NEW k \in Keys, NEW n \in Nat, NEW m \in Nat, m <= n,
         e # None, Matches(l, e, k, n), isExpired(e.expiresAtMs, m)
  PROVE  Matches(l, None, k, n)
<1>1. LastIn(l, k) # 0 /\ l[LastIn(l, k)].expiresAtMs = e.expiresAtMs
  BY DEF Matches
<1>2. LastIn(l, k) \in 1..Len(l)
  BY <1>1, LastInProperties
<1>3. l[LastIn(l, k)] \in Record
  BY <1>2, ElementOfSeq
<1>4. e.expiresAtMs \in Nat
  BY <1>1, <1>3 DEF Record
<1>5. isExpired(l[LastIn(l, k)].expiresAtMs, n)
  BY <1>1, <1>4 DEF isExpired
<1> QED
  BY <1>5 DEF Matches

\* A record that is appended is the last of its key, and of no other.
LEMMA LastInAppend ==
  ASSUME NEW l \in Seq(Record), NEW r \in Record
  PROVE  /\ LastIn(Append(l, r), r.key) = Len(l) + 1
         /\ Append(l, r)[Len(l) + 1] = r /\ Len(Append(l, r)) = Len(l) + 1
         /\ \A k : k # r.key =>
              /\ LastIn(Append(l, r), k) = LastIn(l, k)
              /\ LastIn(l, k) # 0 => Append(l, r)[LastIn(l, k)] = l[LastIn(l, k)]
<1> DEFINE s == Append(l, r)
<1>1. /\ s \in Seq(Record) /\ Len(l) \in Nat /\ Len(s) = Len(l) + 1
      /\ \A i \in 1..Len(l) : s[i] = l[i]
      /\ s[Len(l) + 1] = r
  BY LenProperties
<1> HIDE DEF s
<1>2. LastIn(s, r.key) = Len(l) + 1
  <2>1. Len(l) + 1 \in 1..Len(s) /\ \A j \in 1..Len(s) : j <= Len(l) + 1
    BY <1>1
  <2> QED
    BY <2>1, <1>1, LastInUnique
<1>3. ASSUME NEW k, k # r.key
      PROVE  /\ LastIn(s, k) = LastIn(l, k)
             /\ LastIn(l, k) # 0 => s[LastIn(l, k)] = l[LastIn(l, k)]
  <2>0. \A j \in 1..Len(s) : s[j].key = k => j \in 1..Len(l) /\ l[j].key = k
    BY <1>1, <1>3
  <2>1. CASE LastIn(l, k) = 0
    <3>1. \A j \in 1..Len(l) : l[j].key # k
      BY <2>1, LastInProperties
    <3>2. \A j \in 1..Len(s) : s[j].key # k
      BY <3>1, <2>0
    <3>3. LastIn(s, k) = 0
      BY <3>2, <1>1, LastInProperties
    <3> QED
      BY <3>3, <2>1
  <2>2. CASE LastIn(l, k) # 0
    <3>1. /\ LastIn(l, k) \in 1..Len(l) /\ l[LastIn(l, k)].key = k
          /\ \A j \in 1..Len(l) : l[j].key = k => j <= LastIn(l, k)
      BY <2>2, LastInProperties
    <3>2. /\ LastIn(l, k) \in 1..Len(s) /\ s[LastIn(l, k)] = l[LastIn(l, k)]
          /\ \A j \in 1..Len(s) : s[j].key = k => j <= LastIn(l, k)
      BY <3>1, <2>0, <1>1
    <3>3. LastIn(s, k) = LastIn(l, k)
      BY <3>1, <3>2, <1>1, LastInUnique
    <3> QED
      BY <3>2, <3>3
  <2> QED
    BY <2>1, <2>2
<1> QED
  BY <1>1, <1>2, <1>3 DEF s

\* The other keys do not notice a record that is appended.
LEMMA MatchesAppend ==
  ASSUME NEW l \in Seq(Record), NEW r \in Record, NEW k \in Keys, k # r.key, NEW e, NEW n,
         Matches(l, e, k, n)
  PROVE  Matches(Append(l, r), e, k, n)
<1> DEFINE s == Append(l, r)
<1>1. /\ LastIn(s, k) = LastIn(l, k)
      /\ LastIn(l, k) # 0 => s[LastIn(l, k)] = l[LastIn(l, k)]
  BY LastInAppend
<1> HIDE DEF s
<1>2. Matches(s, e, k, n)
  BY <1>1 DEF Matches
<1> QED
  BY <1>2 DEF s

\* What recover() builds agrees with the log.
LEMMA MatchesRecovered ==
  ASSUME log \in Seq(Record), NEW k \in Keys
  PROVE  Matches(log, Recovered[k], k, now)
<1>1. LastOf(k) = LastIn(log, k)
  BY LastOfIsLastIn
<1>2. CASE LastIn(log, k) = 0
  BY <1>1, <1>2 DEF Matches, Recovered
<1>3. CASE LastIn(log, k) # 0
  <2> DEFINE p == LastIn(log, k)
  <2>1. p \in 1..Len(log) /\ p \in Nat
    BY <1>3, LastInProperties, LenProperties
  <2>2. log[p] \in Record
    BY <2>1, ElementOfSeq
  <2>3. log[p].op \in {"Set", "Delete"} /\ log[p].expiresAtMs \in Nat
    BY <2>2 DEF Record
  <2>4. Recovered[k] = IF log[p].op = "Delete" \/ isExpired(log[p].expiresAtMs, now) THEN None
                       ELSE [off |-> p, expiresAtMs |-> log[p].expiresAtMs]
    BY <1>1, <1>3 DEF Recovered
  <2>5. [off |-> p, expiresAtMs |-> log[p].expiresAtMs] # None
    BY <2>1, <2>3, NoneAssumption DEF Metadata
  <2> QED
    BY <2>3, <2>4, <2>5, <1>3 DEF Matches
<1> QED
  BY <1>2, <1>3

\* What compact() writes agrees with the index it will install.
LEMMA MatchesCompacted ==
  ASSUME TypeOK, CompactOK, NEW t \in Threads, CompWrite(t), NEW k \in Keys
  PROVE  Matches(log', loc'[t].index[k], k, now)
<1>0. log' \in Seq(Record) /\ DOMAIN log' = 1..Len(log') /\ loc'[t].index \in Index
  BY CompWriteEffect, LenProperties
<1>1. CASE index[k] = None
  <2>1. loc'[t].index[k] = None /\ \A i \in DOMAIN log' : log'[i].key # k
    BY <1>1, CompWriteEffect
  <2>2. LastIn(log', k) = 0
    BY <2>1, <1>0, LastInProperties
  <2> QED
    BY <2>1, <2>2 DEF Matches
<1>2. CASE index[k] # None
  <2> DEFINE i == loc'[t].index[k].off
  <2>1. /\ loc'[t].index[k] = [off |-> i, expiresAtMs |-> index[k].expiresAtMs]
        /\ i \in 1..Len(log')
        /\ log'[i] = [op |-> "Set", key |-> k, value |-> ReadAt(index[k].off),
                      expiresAtMs |-> index[k].expiresAtMs]
        /\ \A j \in 1..Len(log') : log'[j].key = k => j = i
    BY <1>2, CompWriteEffect
  <2> HIDE DEF i
  <2>2. i \in Nat /\ i # 0
    BY <2>1, <1>0, LenProperties
  <2>3. LastIn(log', k) = i
    <3>1. log'[i].key = k /\ \A j \in 1..Len(log') : log'[j].key = k => j <= i
      BY <2>1, <2>2
    <3> QED
      BY <3>1, <2>1, <1>0, LastInUnique
  <2>4. loc'[t].index[k] # None
    <3>1. index[k].expiresAtMs \in Nat
      BY <1>2 DEF Metadata, TypeOK, Index
    <3>2. loc'[t].index[k] \in Metadata
      BY <3>1, <2>1, <2>2 DEF Metadata
    <3> QED
      BY <3>2, NoneAssumption
  <2> QED
    BY <2>1, <2>2, <2>3, <2>4 DEF Matches
<1> QED
  BY <1>1, <1>2

-----------------------------------------------------------------------------
(* Steps. *)

\* Only open() brings a store into use.
LEMMA StepInstalled ==
  ASSUME Basic, NEW t \in Threads, Step(t), Installed'
  PROVE  Installed \/ OpenInstall(t)
<1>0. pc \in [Threads -> Labels] /\ \A u \in Threads : u # t => pc'[u] = pc[u]
  BY StepOthers DEF Basic, TypeOK
<1> DEFINE In(l) == l \notin QuietLabels \cup {"open_recover", "open_install"}
<1>1. CASE \E u \in Threads : u # t /\ In(pc'[u])
  BY <1>0, <1>1 DEF Installed
<1>2. CASE \A u \in Threads : u # t => ~In(pc'[u])
  <2>1. opened' \/ In(pc'[t])
    BY <1>2 DEF Installed
  <2>2. opened \/ In(pc[t]) => Installed
    BY DEF Installed
  <2> USE DEF Goto, Finish, QuietLabels
  <2>3. CASE Start(t)
    BY <2>3, <2>1, <2>2, StartGoes DEF Start
  <2>4. CASE Return(t)
    BY <2>4, <1>0, <2>1, <2>2 DEF Return
  <2>5. CASE SetLock(t)
    BY <2>5, <1>0, <2>1, <2>2 DEF SetLock
  <2>6. CASE SetAppend(t)
    BY <2>6, <1>0, <2>1, <2>2 DEF SetAppend
  <2>7. CASE SetInstall(t)
    BY <2>7, <1>0, <2>1, <2>2 DEF SetInstall
  <2>8. CASE WriteFails(t)
    BY <2>8, <1>0, <2>1, <2>2 DEF WriteFails
  <2>9. CASE GetLock(t)
    BY <2>9, <1>0, <2>1, <2>2 DEF GetLock
  <2>10. CASE GetCache(t)
    BY <2>10, <1>0, <2>1, <2>2 DEF GetCache
  <2>11. CASE GetRead(t)
    BY <2>11, <1>0, <2>1, <2>2 DEF GetRead
  <2>12. CASE GetPut(t)
    BY <2>12, <1>0, <2>1, <2>2 DEF GetPut
  <2>13. CASE GetErase(t)
    BY <2>13, <1>0, <2>1, <2>2 DEF GetErase
  <2>14. CASE RemLock(t)
    BY <2>14, <1>0, <2>1, <2>2 DEF RemLock
  <2>15. CASE RemAppend(t)
    BY <2>15, <1>0, <2>1, <2>2 DEF RemAppend
  <2>16. CASE RemErase(t)
    BY <2>16, <1>0, <2>1, <2>2 DEF RemErase
  <2>17. CASE KeysCheck(t)
    BY <2>17, <1>0, <2>1, <2>2 DEF KeysCheck
  <2>18. CASE KeysClean(t)
    BY <2>18, <1>0, <2>1, <2>2 DEF KeysClean
  <2>19. CASE KeysList(t)
    BY <2>19, <1>0, <2>1, <2>2 DEF KeysList
  <2>20. CASE CleanLock(t)
    BY <2>20, <1>0, <2>1, <2>2 DEF CleanLock
  <2>21. CASE CompLock(t)
    BY <2>21, <1>0, <2>1, <2>2 DEF CompLock
  <2>22. CASE CompWrite(t)
    BY <2>22, <1>0, <2>1, <2>2 DEF CompWrite
  <2>23. CASE CompInstall(t)
    BY <2>23, <1>0, <2>1, <2>2 DEF CompInstall
  <2>24. CASE OpenStart(t)
    BY <2>24, <1>0, <2>1, <2>2 DEF OpenStart
  <2>25. CASE OpenRecover(t)
    BY <2>25, <1>0, <2>1, <2>2 DEF OpenRecover
  <2>26. CASE OpenInstall(t)
    BY <2>26
  <2>27. CASE OpenClear(t)
    BY <2>27, <1>0, <2>1, <2>2 DEF OpenClear
  <2>28. CASE OpenFlag(t)
    BY <2>28, <1>0, <2>1, <2>2 DEF OpenFlag
  <2>29. CASE Close(t)
    BY <2>29, <1>0, <2>1, <2>2 DEF Close
  <2> QED
    BY <2>3, <2>4, <2>5, <2>6, <2>7, <2>8, <2>9, <2>10, <2>11, <2>12, <2>13, <2>14, <2>15, <2>16, <2>17, <2>18, <2>19, <2>20, <2>21, <2>22, <2>23, <2>24, <2>25, <2>26, <2>27, <2>28, <2>29 DEF Step
<1> QED
  BY <1>1, <1>2

\* One thread at most holds the lock exclusively, and none while it is free.
LEMMA OneWriter ==
  ASSUME Basic
  PROVE  /\ \A t, u \in Threads : pc[t] \in WriteLabels /\ pc[u] \in WriteLabels => t = u
         /\ writer = None => \A t \in Threads : pc[t] \notin WriteLabels
  BY NoneAssumption DEF Basic, LockOK

\* The record a set or a remove appends.
LEMMA SetAppendEffect ==
  ASSUME Basic, NEW t \in Threads, SetAppend(t)
  PROVE  LET r == [op |-> "Set", key |-> call[t].key, value |-> call[t].value,
                   expiresAtMs |-> loc[t].time]
         IN /\ r \in Record /\ log' = Append(log, r)
            /\ loc'[t].off = Len(log) + 1 /\ loc'[t].time = loc[t].time
            /\ call' = call /\ index' = index /\ now' = now
            /\ pc[t] = "set_append" /\ pc'[t] = "set_install"
<1>1. call[t] \in SetRequest /\ loc[t].time \in Nat /\ pc \in [Threads -> Labels]
      /\ loc \in [Threads -> [time: Nat, off: Nat, value: Values \cup {None}, index: Index]]
  BY DEF Basic, SetAppend, CallOK, SetLabels, TypeOK
<1>2. [op |-> "Set", key |-> call[t].key, value |-> call[t].value,
       expiresAtMs |-> loc[t].time] \in Record
  BY <1>1 DEF SetRequest, Record
<1> QED
  BY <1>1, <1>2 DEF SetAppend, Goto, env

\* The tombstone.
LEMMA RemAppendEffect ==
  ASSUME Basic, NEW t \in Threads, RemAppend(t)
  PROVE  LET r == [op |-> "Delete", key |-> call[t].key, value |-> None, expiresAtMs |-> 0]
         IN /\ r \in Record /\ log' = Append(log, r)
            /\ call' = call /\ index' = index /\ now' = now
            /\ pc[t] = "rem_append" /\ pc'[t] = "rem_erase"
<1>1. call[t].key \in Keys /\ pc \in [Threads -> Labels]
  BY DEF Basic, RemAppend, CallOK, RemoveLabels, KeyRequest, TypeOK
<1>2. [op |-> "Delete", key |-> call[t].key, value |-> None, expiresAtMs |-> 0] \in Record
  BY <1>1 DEF Record
<1> QED
  BY <1>1, <1>2 DEF RemAppend, Goto, env

\* The steps that leave index and log alone neither begin nor end a change.
LEMMA CalmSteps ==
  ASSUME Basic, NEW t \in Threads,
         \/ Start(t) \/ Return(t) \/ SetLock(t) \/ WriteFails(t)
         \/ GetLock(t) \/ GetCache(t) \/ GetRead(t) \/ GetPut(t)
         \/ KeysCheck(t) \/ KeysList(t) \/ OpenStart(t) \/ OpenRecover(t)
         \/ OpenClear(t) \/ OpenFlag(t) \/ Close(t)
  PROVE  /\ UNCHANGED <<index, log>>
         /\ pc[t] \notin {"set_install", "rem_erase", "comp_install"}
         /\ pc'[t] \notin {"set_install", "rem_erase", "comp_install"}
<1>0. pc \in [Threads -> Labels]
  BY DEF Basic, TypeOK
<1> USE DEF Goto, Finish
<1>1. CASE Start(t)
  BY <1>1, StartGoes DEF Start
<1>2. CASE Return(t)
  BY <1>0, <1>2 DEF Return
<1>3. CASE SetLock(t)
  BY <1>0, <1>3 DEF SetLock
<1>4. CASE WriteFails(t)
  BY <1>0, <1>4 DEF WriteFails
<1>5. CASE GetLock(t)
  BY <1>0, <1>5 DEF GetLock
<1>6. CASE GetCache(t)
  BY <1>0, <1>6 DEF GetCache
<1>7. CASE GetRead(t)
  BY <1>0, <1>7 DEF GetRead
<1>8. CASE GetPut(t)
  BY <1>0, <1>8 DEF GetPut
<1>9. CASE KeysCheck(t)
  BY <1>0, <1>9 DEF KeysCheck
<1>10. CASE KeysList(t)
  BY <1>0, <1>10 DEF KeysList
<1>11. CASE OpenStart(t)
  BY <1>0, <1>11 DEF OpenStart
<1>12. CASE OpenRecover(t)
  BY <1>0, <1>12 DEF OpenRecover
<1>13. CASE OpenClear(t)
  BY <1>0, <1>13 DEF OpenClear
<1>14. CASE OpenFlag(t)
  BY <1>0, <1>14 DEF OpenFlag
<1>15. CASE Close(t)
  BY <1>0, <1>15 DEF Close
<1> QED
  BY <1>1, <1>2, <1>3, <1>4, <1>5, <1>6, <1>7, <1>8, <1>9, <1>10, <1>11, <1>12, <1>13, <1>14, <1>15

\* The erasing steps hold the lock exclusively and remove what has expired.
LEMMA EraseSteps ==
  ASSUME MInv, NEW t \in Threads,
         \/ GetErase(t) \/ RemLock(t) \/ KeysClean(t) \/ CleanLock(t)
         \/ CompLock(t)
  PROVE  /\ log' = log
         /\ pc'[t] \notin {"set_install", "rem_erase", "comp_install"}
         /\ pc[t] \notin QuietLabels \cup OpenLabels
         /\ writer = None
         /\ \A k \in Keys :
              \/ index'[k] = index[k]
              \/ /\ index[k] # None /\ index'[k] = None
                 /\ \E m \in Nat : m <= now /\ isExpired(index[k].expiresAtMs, m)
<1>0. /\ pc \in [Threads -> Labels] /\ now \in Nat /\ index \in Index
      /\ loc[t].time \in Nat
  BY DEF MInv, CInv, Basic, TypeOK
<1> USE DEF Goto, Finish, CanWrite, QuietLabels, OpenLabels
<1>1. CASE GetErase(t)
  <2>1. loc[t].time <= now
    BY <1>1 DEF MInv, WorkOK, GetErase
  <2>2. \A k \in Keys : index'[k] = index[k]
          \/ (index[k] # None /\ index'[k] = None /\ isExpired(index[k].expiresAtMs, loc[t].time))
    BY <1>1 DEF GetErase, EraseKeys, Expired
  <2>3. /\ log' = log /\ pc'[t] = "done" /\ pc[t] = "get_erase" /\ writer = None
    BY <1>0, <1>1 DEF GetErase
  <2> QED
    BY <2>1, <2>2, <2>3, <1>0
<1>2. ASSUME RemLock(t) \/ KeysClean(t) \/ CleanLock(t) \/ CompLock(t)
      PROVE  \A k \in Keys : index'[k] = index[k]
               \/ (index[k] # None /\ index'[k] = None /\ isExpired(index[k].expiresAtMs, now))
  BY <1>2 DEF RemLock, KeysClean, CleanLock, CompLock, EraseKeys, ExpiredKeys, Expired
<1>3. now <= now
  BY <1>0
<1>4. CASE RemLock(t)
  BY <1>0, <1>2, <1>3, <1>4 DEF RemLock
<1>5. CASE KeysClean(t)
  BY <1>0, <1>2, <1>3, <1>5 DEF KeysClean
<1>6. CASE CleanLock(t)
  BY <1>0, <1>2, <1>3, <1>6 DEF CleanLock
<1>7. CASE CompLock(t)
  BY <1>0, <1>2, <1>3, <1>7 DEF CompLock
<1> QED
  BY <1>1, <1>4, <1>5, <1>6, <1>7

\* The last record of a log is the last of its key.
LEMMA LastInEnd ==
  ASSUME NEW l \in Seq(Record), NEW k, Len(l) # 0, l[Len(l)].key = k
  PROVE  LastIn(l, k) = Len(l)
<1>1. Len(l) \in 1..Len(l) /\ \A j \in 1..Len(l) : j <= Len(l)
  BY LenProperties
<1> QED
  BY <1>1, LastInUnique

\* Only three steps write to the file.
LEMMA LogSteps ==
  ASSUME Basic, NEW t \in Threads, Step(t), ~(SetAppend(t) \/ RemAppend(t) \/ CompWrite(t))
  PROVE  log' = log
  BY DEF Step, Start, Return, SetLock, SetInstall, WriteFails, GetLock, GetCache,
     GetRead, GetPut, GetErase, RemLock, RemErase, KeysCheck, KeysClean,
     KeysList, CleanLock, CompLock, CompInstall, OpenStart, OpenRecover, OpenInstall,
     OpenClear, OpenFlag, Close

\* What the threads know of the log stays true.
LEMMA StepWork ==
  ASSUME MInv, OpensAlone, NEW t \in Threads, Step(t)
  PROVE  WorkOK'
<1>0. /\ Basic /\ WorkOK /\ LockOK /\ pc \in [Threads -> Labels] /\ now \in Nat /\ now' = now
      /\ log \in Seq(Record) /\ Len(log) \in Nat /\ TypeOK /\ CompactOK
      /\ loc \in [Threads -> [time: Nat, off: Nat, value: Values \cup {None}, index: Index]]
  BY StepOthers, LenProperties DEF MInv, CInv, Basic, TypeOK
<1> DEFINE Known(u) ==
      /\ pc'[u] = "set_install" =>
           /\ loc'[u].off = Len(log') /\ Len(log') # 0
           /\ log'[Len(log')] = [op |-> "Set", key |-> call'[u].key, value |-> call'[u].value,
                                expiresAtMs |-> loc'[u].time]
      /\ pc'[u] = "rem_erase" =>
           /\ Len(log') # 0 /\ log'[Len(log')].key = call'[u].key
           /\ log'[Len(log')].op = "Delete"
      /\ pc'[u] \in {"comp_install", "open_install"} =>
           \A k \in Keys : Matches(log', loc'[u].index[k], k, now')
      /\ pc'[u] = "get_erase" => loc'[u].time <= now'
<1> SUFFICES ASSUME NEW u \in Threads PROVE Known(u)
  BY DEF WorkOK
<1>1. CASE u # t
  <2>1. pc'[u] = pc[u] /\ loc'[u] = loc[u] /\ call'[u] = call[u]
    BY <1>0, <1>1, StepOthers
  <2>2. CASE pc[u] \in {"set_install", "rem_erase", "comp_install"}
    <3>1. log' = log
      BY <2>2, <1>0, <1>1, LockProtects DEF LockOK, WriteLabels
    <3> QED
      BY <3>1, <2>1, <1>0 DEF WorkOK
  <2>3. CASE pc[u] = "open_install"
    <3>1. pc[t] \in QuietLabels
      BY <2>3, <1>1 DEF OpensAlone, OpenLabels
    <3>2. ~(SetAppend(t) \/ RemAppend(t) \/ CompWrite(t))
      BY <3>1 DEF SetAppend, RemAppend, CompWrite, QuietLabels
    <3>3. log' = log
      BY <3>1, <3>2, <1>0, LogSteps
    <3> QED
      BY <3>3, <2>1, <2>3, <1>0 DEF WorkOK
  <2>4. CASE pc[u] \notin {"set_install", "rem_erase", "comp_install", "open_install"}
    BY <2>1, <2>4, <1>0 DEF WorkOK
  <2> QED
    BY <2>2, <2>3, <2>4
<1>2. CASE u = t
  <2>1. CASE SetAppend(t)
    <3> DEFINE r == [op |-> "Set", key |-> call[t].key, value |-> call[t].value,
                     expiresAtMs |-> loc[t].time]
    <3>1. /\ r \in Record /\ log' = Append(log, r)
          /\ loc'[t].off = Len(log) + 1 /\ loc'[t].time = loc[t].time
          /\ call' = call /\ pc'[t] = "set_install"
      BY <2>1, <1>0, SetAppendEffect
    <3>2. Len(log') = Len(log) + 1 /\ log'[Len(log) + 1] = r
      BY <3>1, <1>0, LastInAppend
    <3> QED
      BY <3>1, <3>2, <1>0, <1>2
  <2>2. CASE RemAppend(t)
    <3> DEFINE r == [op |-> "Delete", key |-> call[t].key, value |-> None, expiresAtMs |-> 0]
    <3>1. /\ r \in Record /\ log' = Append(log, r) /\ call' = call /\ pc'[t] = "rem_erase"
      BY <2>2, <1>0, RemAppendEffect
    <3>2. Len(log') = Len(log) + 1 /\ log'[Len(log) + 1] = r
      BY <3>1, <1>0, LastInAppend
    <3>3. r.key = call[t].key /\ r.op = "Delete"
      OBVIOUS
    <3> QED
      BY <3>1, <3>2, <3>3, <1>0, <1>2
  <2>3. CASE CompWrite(t)
    <3>1. pc'[t] = "comp_install"
      BY <2>3, <1>0 DEF CompWrite, Goto
    <3>2. \A k \in Keys : Matches(log', loc'[t].index[k], k, now')
      BY <2>3, <1>0, MatchesCompacted
    <3> QED
      BY <3>1, <3>2, <1>2
  <2>4. CASE OpenRecover(t)
    <3>1. CASE pc'[t] = "open_install"
      <4>1. loc'[t].index = Recovered /\ log' = log
        BY <3>1, <2>4, <1>0 DEF OpenRecover, Goto, Finish
      <4>2. \A k \in Keys : Matches(log', loc'[t].index[k], k, now')
        BY <4>1, <1>0, MatchesRecovered
      <4> QED
        BY <3>1, <4>2, <1>2
    <3>2. CASE pc'[t] # "open_install"
      BY <3>2, <2>4, <1>0, <1>2 DEF OpenRecover, Goto, Finish
    <3> QED
      BY <3>1, <3>2
  <2>5. CASE GetLock(t)
    <3>1. pc'[t] \in {"done", "get_erase", "get_cache"} /\ (pc'[t] = "get_erase" => loc'[t].time = now)
      BY <2>5, <1>0 DEF GetLock, Goto, Finish
    <3> QED
      BY <3>1, <1>0, <1>2
  <2>6. ASSUME ~(SetAppend(t) \/ RemAppend(t) \/ CompWrite(t) \/ OpenRecover(t) \/ GetLock(t))
        PROVE  pc'[t] \notin {"set_install", "rem_erase", "comp_install", "open_install", "get_erase"}
    <3> USE DEF Goto, Finish
    <3>1. CASE Start(t)
      BY <3>1, <1>0, StartGoes DEF Start
    <3>2. CASE Return(t)
      BY <3>2, <1>0 DEF Return
    <3>3. CASE SetLock(t)
      BY <3>3, <1>0 DEF SetLock
    <3>5. CASE SetInstall(t)
      BY <3>5, <1>0 DEF SetInstall
    <3>6. CASE WriteFails(t)
      BY <3>6, <1>0 DEF WriteFails
    <3>8. CASE GetCache(t)
      BY <3>8, <1>0 DEF GetCache
    <3>9. CASE GetRead(t)
      BY <3>9, <1>0 DEF GetRead
    <3>10. CASE GetPut(t)
      BY <3>10, <1>0 DEF GetPut
    <3>11. CASE GetErase(t)
      BY <3>11, <1>0 DEF GetErase
    <3>12. CASE RemLock(t)
      BY <3>12, <1>0 DEF RemLock
    <3>14. CASE RemErase(t)
      BY <3>14, <1>0 DEF RemErase
    <3>15. CASE KeysCheck(t)
      BY <3>15, <1>0 DEF KeysCheck
    <3>16. CASE KeysClean(t)
      BY <3>16, <1>0 DEF KeysClean
    <3>17. CASE KeysList(t)
      BY <3>17, <1>0 DEF KeysList
    <3>18. CASE CleanLock(t)
      BY <3>18, <1>0 DEF CleanLock
    <3>19. CASE CompLock(t)
      BY <3>19, <1>0 DEF CompLock
    <3>21. CASE CompInstall(t)
      BY <3>21, <1>0 DEF CompInstall
    <3>22. CASE OpenStart(t)
      BY <3>22, <1>0 DEF OpenStart
    <3>24. CASE OpenInstall(t)
      BY <3>24, <1>0 DEF OpenInstall
    <3>25. CASE OpenClear(t)
      BY <3>25, <1>0 DEF OpenClear
    <3>26. CASE OpenFlag(t)
      BY <3>26, <1>0 DEF OpenFlag
    <3>27. CASE Close(t)
      BY <3>27, <1>0 DEF Close
    <3> QED
      BY <2>6, <3>1, <3>2, <3>3, <3>5, <3>6, <3>8, <3>9, <3>10, <3>11, <3>12, <3>14, <3>15, <3>16, <3>17, <3>18, <3>19, <3>21, <3>22, <3>24, <3>25, <3>26, <3>27 DEF Step
  <2> QED
    BY <2>1, <2>2, <2>3, <2>4, <2>5, <2>6, <1>2
<1> QED
  BY <1>1, <1>2

\* Every step leaves the entries and the log in agreement.
LEMMA StepEntries ==
  ASSUME MInv, OpensAlone, NEW t \in Threads, Step(t)
  PROVE  EntriesMatch'
<1>0. /\ Basic /\ WorkOK /\ LockOK /\ CallOK /\ pc \in [Threads -> Labels] /\ now \in Nat
      /\ log \in Seq(Record) /\ Len(log) \in Nat /\ index \in Index
      /\ loc \in [Threads -> [time: Nat, off: Nat, value: Values \cup {None}, index: Index]]
  BY LenProperties DEF MInv, CInv, Basic, TypeOK
<1>1. /\ now' = now
      /\ \A u \in Threads : u # t => pc'[u] = pc[u] /\ loc'[u] = loc[u] /\ call'[u] = call[u]
  BY <1>0, StepOthers
<1> DEFINE Busy == {"set_install", "rem_erase", "comp_install"}
<1> SUFFICES ASSUME Installed', NEW k \in Keys, ~Pending(k)'
             PROVE  Matches(log', index'[k], k, now)
  BY <1>1 DEF EntriesMatch
<1>2. \A u \in Threads : /\ pc'[u] # "comp_install"
                         /\ pc'[u] \in {"set_install", "rem_erase"} => call'[u].key # k
  BY DEF Pending
<1>3. CASE OpenInstall(t)
  <2>1. index' = loc[t].index /\ log' = log /\ pc[t] = "open_install"
    BY <1>3 DEF OpenInstall
  <2> QED
    BY <2>1, <1>0 DEF WorkOK
<1>4. CASE ~OpenInstall(t)
  <2>0. Installed
    BY <1>0, <1>4, StepInstalled
  <2>1. \A x \in Keys : Pending(x) \/ Matches(log, index[x], x, now)
    BY <2>0 DEF MInv, EntriesMatch
  <2>2. pc[t] \notin Busy => Matches(log, index[k], k, now)
    <3> SUFFICES ASSUME pc[t] \notin Busy, Pending(k) PROVE FALSE
      BY <2>1
    <3>1. PICK u \in Threads :
            (pc[u] = "comp_install")
            \/ (pc[u] \in {"set_install", "rem_erase"} /\ call[u].key = k)
      BY DEF Pending
    <3> QED
      BY <3>1, <1>1, <1>2
  <2>3. CASE \/ Start(t) \/ Return(t) \/ SetLock(t) \/ WriteFails(t)
          \/ GetLock(t) \/ GetCache(t) \/ GetRead(t) \/ GetPut(t)
          \/ KeysCheck(t) \/ KeysList(t) \/ OpenStart(t) \/ OpenRecover(t)
          \/ OpenClear(t) \/ OpenFlag(t) \/ Close(t)
    BY <2>2, <2>3, <1>0, CalmSteps
  <2>4. CASE \/ GetErase(t) \/ RemLock(t) \/ KeysClean(t) \/ CleanLock(t)
          \/ CompLock(t)
    <3>1. /\ log' = log /\ writer = None
          /\ \/ index'[k] = index[k]
             \/ /\ index[k] # None /\ index'[k] = None
                /\ \E m \in Nat : m <= now /\ isExpired(index[k].expiresAtMs, m)
      BY <2>4, EraseSteps
    <3>2. Matches(log, index[k], k, now)
      BY <2>2, <3>1, <1>0, OneWriter DEF WriteLabels
    <3> QED
      BY <3>1, <3>2, <1>0, MatchesExpired
  <2>5. CASE SetAppend(t)
    <3> DEFINE r == [op |-> "Set", key |-> call[t].key, value |-> call[t].value,
                     expiresAtMs |-> loc[t].time]
    <3>1. /\ r \in Record /\ log' = Append(log, r) /\ index' = index
          /\ call' = call /\ pc[t] = "set_append" /\ pc'[t] = "set_install"
      BY <2>5, <1>0, SetAppendEffect
    <3>2. k # r.key
      BY <3>1, <1>2
    <3> HIDE DEF r
    <3> QED
      BY <3>1, <3>2, <2>2, <1>0, MatchesAppend
  <2>6. CASE RemAppend(t)
    <3> DEFINE r == [op |-> "Delete", key |-> call[t].key, value |-> None, expiresAtMs |-> 0]
    <3>1. /\ r \in Record /\ log' = Append(log, r) /\ index' = index
          /\ call' = call /\ pc[t] = "rem_append" /\ pc'[t] = "rem_erase"
      BY <2>6, <1>0, RemAppendEffect
    <3>2. k # r.key
      BY <3>1, <1>2
    <3> HIDE DEF r
    <3> QED
      BY <3>1, <3>2, <2>2, <1>0, MatchesAppend
  <2>7. CASE CompWrite(t)
    BY <2>7, <1>0, <1>2 DEF CompWrite, Goto
  <2>8. CASE CompInstall(t)
    <3>1. index' = loc[t].index /\ log' = log /\ pc[t] = "comp_install"
      BY <2>8 DEF CompInstall
    <3> QED
      BY <3>1, <1>0 DEF WorkOK
  <2>9. ASSUME SetInstall(t) \/ RemErase(t), k # call[t].key
        PROVE  Matches(log', index'[k], k, now)
    <3>1. log' = log /\ index'[k] = index[k] /\ pc[t] \in {"set_install", "rem_erase"}
      BY <2>9, <1>0 DEF SetInstall, RemErase, EraseKeys, Index
    <3>2. ~Pending(k)
      BY <3>1, <2>9, <1>0, OneWriter DEF Pending, WriteLabels
    <3> QED
      BY <3>1, <3>2, <2>1
  <2>10. CASE SetInstall(t) /\ k = call[t].key
    <3>1. /\ log' = log /\ pc[t] = "set_install"
          /\ index'[k] = [off |-> loc[t].off, expiresAtMs |-> loc[t].time]
      BY <2>10, <1>0 DEF SetInstall, Index
    <3>5. /\ loc[t].off = Len(log) /\ Len(log) # 0
          /\ log[Len(log)] = [op |-> "Set", key |-> call[t].key, value |-> call[t].value,
                               expiresAtMs |-> loc[t].time]
      BY <3>1, <1>0 DEF WorkOK
    <3>2. /\ loc[t].off = Len(log) /\ Len(log) # 0
          /\ log[Len(log)].key = k /\ log[Len(log)].op = "Set"
          /\ log[Len(log)].expiresAtMs = loc[t].time
      BY <3>5, <2>10
    <3>3. LastIn(log, k) = Len(log)
      BY <3>2, <1>0, LastInEnd
    <3>4. index'[k] # None
      <4>1. index'[k] \in Metadata
        BY <3>1, <1>0 DEF Metadata
      <4> QED
        BY <4>1, NoneAssumption
    <3> QED
      BY <3>1, <3>2, <3>3, <3>4 DEF Matches
  <2>11. CASE RemErase(t) /\ k = call[t].key
    <3>1. log' = log /\ pc[t] = "rem_erase" /\ index'[k] = None
      BY <2>11 DEF RemErase, EraseKeys
    <3>2. Len(log) # 0 /\ log[Len(log)].key = k /\ log[Len(log)].op = "Delete"
      BY <3>1, <2>11, <1>0 DEF WorkOK
    <3>3. LastIn(log, k) = Len(log)
      BY <3>2, <1>0, LastInEnd
    <3> QED
      BY <3>1, <3>2, <3>3 DEF Matches
  <2> QED
    BY <2>3, <2>4, <2>5, <2>6, <2>7, <2>8, <2>9, <2>10, <2>11, <1>4 DEF Step
<1> QED
  BY <1>3, <1>4

\* The third invariant is kept by every step taken while open() has the store
\* to itself.
LEMMA NextMInv == MInv /\ OpensAlone /\ [Next]_vars => MInv'
<1> SUFFICES ASSUME MInv, OpensAlone, [Next]_vars PROVE MInv'
  OBVIOUS
<1>0. /\ CInv /\ CInv' /\ Basic /\ EntriesMatch /\ WorkOK /\ pc \in [Threads -> Labels]
      /\ now \in Nat /\ log \in Seq(Record)
  BY NextCInv DEF MInv, CInv, Basic, TypeOK
<1>1. ASSUME NEW t \in Threads, Step(t) PROVE MInv'
  BY <1>0, <1>1, StepWork, StepEntries DEF MInv
<1>2. ASSUME NEW t \in Threads, Invoke(t) \/ InvokeOpen(t) PROVE MInv'
  <2>1. /\ pc[t] = "idle" /\ pc' = [pc EXCEPT ![t] = "start"]
        /\ UNCHANGED <<opened, index, log, now, loc>>
        /\ \A u \in Threads : u # t => call'[u] = call[u]
    BY <1>0, <1>2 DEF Invoke, InvokeOpen, Goto, Basic, CallTyped
  <2>2. WorkOK'
    BY <2>1, <1>0 DEF WorkOK
  <2>3. Installed' => Installed
    BY <2>1, <1>0 DEF Installed, QuietLabels
  <2>4. \A k \in Keys : Pending(k) => Pending(k)'
    BY <2>1, <1>0 DEF Pending
  <2>5. EntriesMatch'
    BY <2>1, <2>3, <2>4, <1>0 DEF EntriesMatch
  <2> QED
    BY <2>2, <2>5, <1>0 DEF MInv
<1>3. CASE Tick
  <2>1. now' = now + 1 /\ UNCHANGED <<opened, index, log, pc, call, loc>>
    BY <1>3 DEF Tick
  <2>2. \A e : \A k \in Keys : Matches(log, e, k, now) => Matches(log, e, k, now')
    BY <2>1, <1>0, MatchesLater
  <2>3. WorkOK'
    <3> SUFFICES ASSUME NEW u \in Threads
                 PROVE  /\ pc[u] \in {"comp_install", "open_install"} =>
                             \A k \in Keys : Matches(log, loc[u].index[k], k, now')
                        /\ pc[u] = "get_erase" => loc[u].time <= now'
      BY <2>1, <1>0 DEF WorkOK
    <3>1. loc[u].time \in Nat
      BY <1>0 DEF Basic, TypeOK
    <3>2. pc[u] \in {"comp_install", "open_install"} =>
            \A k \in Keys : Matches(log, loc[u].index[k], k, now)
      BY <1>0 DEF WorkOK
    <3>3. pc[u] = "get_erase" => loc[u].time <= now
      BY <1>0 DEF WorkOK
    <3>4. pc[u] = "get_erase" => loc[u].time <= now'
      BY <3>1, <3>3, <2>1, <1>0
    <3> QED
      BY <3>2, <3>4, <2>2
  <2>4. EntriesMatch'
    BY <2>1, <2>2, <1>0 DEF EntriesMatch, Installed, Pending
  <2> QED
    BY <2>3, <2>4, <1>0 DEF MInv
<1>4. CASE UNCHANGED vars
  BY <1>0, <1>4 DEF vars, MInv, EntriesMatch, Installed, Pending, WorkOK
<1> QED
  BY <1>1, <1>2, <1>3, <1>4 DEF Next, Quiescent

\* It holds when the program starts: no index is installed yet.
LEMMA InitMInv == Init /\ CInv => MInv
  BY DEF Init, MInv, EntriesMatch, WorkOK, Installed, QuietLabels

\* With no writer at work, the third invariant says what the index holds.
LEMMA MInvMatches == MInv => IndexMatchesLog
<1> SUFFICES ASSUME MInv, opened, writer = None, NEW k \in Keys
             PROVE  IF index[k] # None
                    THEN /\ index[k].off = LastOf(k)
                         /\ log[LastOf(k)].op = "Set"
                         /\ log[LastOf(k)].expiresAtMs = index[k].expiresAtMs
                    ELSE \/ LastOf(k) = 0
                         \/ log[LastOf(k)].op = "Delete"
                         \/ isExpired(log[LastOf(k)].expiresAtMs, now)
  BY DEF IndexMatchesLog
<1>1. Basic /\ EntriesMatch /\ log \in Seq(Record)
  BY DEF MInv, CInv, Basic, TypeOK
<1>2. LastOf(k) = LastIn(log, k)
  BY <1>1, LastOfIsLastIn
<1>3. ~Pending(k)
  BY <1>1, OneWriter DEF Pending, WriteLabels
<1>4. Matches(log, index[k], k, now)
  BY <1>1, <1>3 DEF EntriesMatch, Installed
<1> QED
  BY <1>2, <1>4 DEF Matches

\* Whatever the threads call, the entry of every key of an open store is its last
\* record, as long as no other call runs while open() does.
THEOREM IndexFollowsLog == Spec /\ []OpensAlone => []IndexMatchesLog
<1>1. Init /\ CInv => MInv
  BY InitMInv
<1>2. MInv /\ OpensAlone /\ [Next]_vars => MInv'
  BY NextMInv
<1>3. MInv => IndexMatchesLog
  BY MInvMatches
<1> QED
  BY <1>1, <1>2, <1>3, CInvInvariance, PTL DEF Spec

-----------------------------------------------------------------------------
(* A program that opens the store once, as main() does. *)

\* Thread t is in a call of open().
Opening(t) == pc[t] \in OpenLabels \/ (pc[t] = "start" /\ call[t].op = "open")

\* Until the one open() has returned, no other call gets further than its check
\* of isOpen().
OneOpen ==
  MaxOpens <= 1 =>
    /\ opens = 0 => \A t \in Threads : ~Opening(t)
    /\ \A t, u \in Threads : Opening(t) /\ Opening(u) => t = u
    /\ (opens = 0 \/ \E t \in Threads : Opening(t)) =>
         ~opened /\ \A u \in Threads : pc[u] \in QuietLabels \cup OpenLabels

\* No step begins an open(): only a call of it does.
LEMMA StepOpening ==
  ASSUME Basic, NEW t \in Threads, Step(t)
  PROVE  \A u \in Threads : Opening(u)' => Opening(u)
<1>0. /\ pc \in [Threads -> Labels]
      /\ \A u \in Threads : u # t => pc'[u] = pc[u] /\ call'[u] = call[u]
  BY StepOthers DEF Basic, TypeOK
<1>1. Opening(t)' => Opening(t)
  <2> USE DEF Opening, OpenLabels, Goto, Finish
  <2>1. CASE Start(t)
    BY <2>1, <1>0, StartGoes DEF Start
  <2>2. CASE Return(t)
    BY <2>2, <1>0 DEF Return
  <2>3. CASE SetLock(t)
    BY <2>3, <1>0 DEF SetLock
  <2>4. CASE SetAppend(t)
    BY <2>4, <1>0 DEF SetAppend
  <2>5. CASE SetInstall(t)
    BY <2>5, <1>0 DEF SetInstall
  <2>6. CASE WriteFails(t)
    BY <2>6, <1>0 DEF WriteFails
  <2>7. CASE GetLock(t)
    BY <2>7, <1>0 DEF GetLock
  <2>8. CASE GetCache(t)
    BY <2>8, <1>0 DEF GetCache
  <2>9. CASE GetRead(t)
    BY <2>9, <1>0 DEF GetRead
  <2>10. CASE GetPut(t)
    BY <2>10, <1>0 DEF GetPut
  <2>11. CASE GetErase(t)
    BY <2>11, <1>0 DEF GetErase
  <2>12. CASE RemLock(t)
    BY <2>12, <1>0 DEF RemLock
  <2>13. CASE RemAppend(t)
    BY <2>13, <1>0 DEF RemAppend
  <2>14. CASE RemErase(t)
    BY <2>14, <1>0 DEF RemErase
  <2>15. CASE KeysCheck(t)
    BY <2>15, <1>0 DEF KeysCheck
  <2>16. CASE KeysClean(t)
    BY <2>16, <1>0 DEF KeysClean
  <2>17. CASE KeysList(t)
    BY <2>17, <1>0 DEF KeysList
  <2>18. CASE CleanLock(t)
    BY <2>18, <1>0 DEF CleanLock
  <2>19. CASE CompLock(t)
    BY <2>19, <1>0 DEF CompLock
  <2>20. CASE CompWrite(t)
    BY <2>20, <1>0 DEF CompWrite
  <2>21. CASE CompInstall(t)
    BY <2>21, <1>0 DEF CompInstall
  <2>22. CASE OpenStart(t)
    BY <2>22, <1>0 DEF OpenStart
  <2>23. CASE OpenRecover(t)
    BY <2>23, <1>0 DEF OpenRecover
  <2>24. CASE OpenInstall(t)
    BY <2>24, <1>0 DEF OpenInstall
  <2>25. CASE OpenClear(t)
    BY <2>25, <1>0 DEF OpenClear
  <2>26. CASE OpenFlag(t)
    BY <2>26, <1>0 DEF OpenFlag
  <2>27. CASE Close(t)
    BY <2>27, <1>0 DEF Close
  <2> QED
    BY <2>1, <2>2, <2>3, <2>4, <2>5, <2>6, <2>7, <2>8, <2>9, <2>10,
       <2>11, <2>12, <2>13, <2>14, <2>15, <2>16, <2>17, <2>18, <2>19, <2>20,
       <2>21, <2>22, <2>23, <2>24, <2>25, <2>26, <2>27 DEF Step
<1> QED
  BY <1>0, <1>1 DEF Opening

\* A step leaves the one open() alone.
LEMMA StepOneOpen ==
  ASSUME Basic, OneOpen, NEW t \in Threads, Step(t)
  PROVE  OneOpen'
<1>0. /\ pc \in [Threads -> Labels] /\ opens' = opens
      /\ \A u \in Threads : u # t => pc'[u] = pc[u] /\ call'[u] = call[u]
      /\ \A u \in Threads : Opening(u)' => Opening(u)
  BY StepOthers, StepOpening DEF Basic, TypeOK
<1> SUFFICES ASSUME MaxOpens <= 1, opens = 0 \/ \E u \in Threads : Opening(u)'
             PROVE  ~opened' /\ pc'[t] \in QuietLabels \cup OpenLabels
  BY <1>0 DEF OneOpen
<1>1. ~opened /\ \A u \in Threads : pc[u] \in QuietLabels \cup OpenLabels
  BY <1>0 DEF OneOpen
<1> USE DEF Goto, Finish, QuietLabels, OpenLabels
<1>2. CASE OpenFlag(t)
  <2>1. Opening(t) /\ ~Opening(t)'
    BY <1>2, <1>0 DEF OpenFlag, Opening
  <2>2. opens # 0 /\ \A u \in Threads : Opening(u) => u = t
    BY <2>1 DEF OneOpen
  <2> QED
    BY <2>1, <2>2, <1>0
<1>3. CASE Start(t)
  BY <1>3, <1>0, <1>1 DEF Start
<1>4. CASE Return(t)
  BY <1>4, <1>0, <1>1 DEF Return
<1>5. CASE OpenStart(t)
  BY <1>5, <1>0, <1>1 DEF OpenStart
<1>6. CASE OpenRecover(t)
  BY <1>6, <1>0, <1>1 DEF OpenRecover
<1>7. CASE OpenInstall(t)
  BY <1>7, <1>0, <1>1 DEF OpenInstall
<1>8. CASE OpenClear(t)
  BY <1>8, <1>0, <1>1 DEF OpenClear
<1>9. CASE Close(t)
  BY <1>9, <1>0, <1>1 DEF Close
<1>10. ~(SetLock(t) \/ SetAppend(t) \/ SetInstall(t) \/ WriteFails(t) \/ GetLock(t) \/ GetCache(t) \/ GetRead(t) \/ GetPut(t) \/ GetErase(t) \/ RemLock(t) \/
       RemAppend(t) \/ RemErase(t) \/ KeysCheck(t) \/ KeysClean(t) \/ KeysList(t) \/ CleanLock(t) \/ CompLock(t) \/ CompWrite(t) \/ CompInstall(t))
  BY <1>1 DEF SetLock, SetAppend, SetInstall, WriteFails, GetLock, GetCache, GetRead, GetPut, GetErase, RemLock,
     RemAppend, RemErase, KeysCheck, KeysClean, KeysList, CleanLock, CompLock, CompWrite, CompInstall
<1> QED
  BY <1>2, <1>3, <1>4, <1>5, <1>6, <1>7, <1>8, <1>9, <1>10 DEF Step

\* One open() at most has the store to itself.
LEMMA NextOneOpen == Basic /\ OneOpen /\ [Next]_vars => OneOpen'
<1> SUFFICES ASSUME Basic, OneOpen, [Next]_vars PROVE OneOpen'
  OBVIOUS
<1>0. pc \in [Threads -> Labels] /\ opens \in 0..MaxOpens /\ MaxOpens \in Nat /\ CallTyped
  BY KeyValueStoreAssumption DEF Basic, TypeOK
<1>1. ASSUME NEW t \in Threads, Step(t) PROVE OneOpen'
  BY <1>1, StepOneOpen
<1>2. ASSUME NEW t \in Threads, Invoke(t) PROVE OneOpen'
  <2>1. PICK o \in Calls : \E c \in Requests(o) : call' = [call EXCEPT ![t] = c]
    BY <1>2 DEF Invoke
  <2>2. PICK c \in Requests(o) : call' = [call EXCEPT ![t] = c]
    BY <2>1
  <2>3. c.op # "open"
    BY <2>2, KeyValueStoreAssumption DEF Requests
  <2>4. /\ pc[t] = "idle" /\ pc' = [pc EXCEPT ![t] = "start"] /\ UNCHANGED <<opened, opens>>
    BY <1>2 DEF Invoke, Goto
  <2>5. \A u \in Threads : Opening(u)' <=> Opening(u)
    BY <2>2, <2>3, <2>4, <1>0 DEF Opening, CallTyped, OpenLabels
  <2>6. \A u \in Threads : pc[u] \in QuietLabels \cup OpenLabels
                         => pc'[u] \in QuietLabels \cup OpenLabels
    BY <2>4, <1>0 DEF QuietLabels
  <2> QED
    BY <2>4, <2>5, <2>6 DEF OneOpen
<1>3. ASSUME NEW t \in Threads, InvokeOpen(t), MaxOpens <= 1 PROVE OneOpen'
  <2>1. /\ pc[t] = "idle" /\ pc' = [pc EXCEPT ![t] = "start"] /\ opened' = opened
        /\ opens = 0 /\ opens' = 1
        /\ \A u \in Threads : u # t => call'[u] = call[u]
    BY <1>0, <1>3 DEF InvokeOpen, Goto, CallTyped
  <2>2. ~opened /\ \A u \in Threads : ~Opening(u) /\ pc[u] \in QuietLabels \cup OpenLabels
    BY <2>1, <1>3 DEF OneOpen
  <2>3. \A u \in Threads : Opening(u)' => u = t
    BY <2>1, <2>2, <1>0 DEF Opening
  <2>4. \A u \in Threads : pc'[u] \in QuietLabels \cup OpenLabels
    BY <2>1, <2>2, <1>0 DEF QuietLabels
  <2> QED
    BY <2>1, <2>2, <2>3, <2>4 DEF OneOpen
<1>4. CASE Tick \/ UNCHANGED vars
  BY <1>4 DEF Tick, vars, OneOpen, Opening
<1>5. CASE ~(MaxOpens <= 1)
  BY <1>5 DEF OneOpen
<1> QED
  BY <1>1, <1>2, <1>3, <1>4, <1>5 DEF Next, Quiescent

\* A program that calls open() once at most gives it the store to itself: every
\* other call returns Closed until open() has set opened_.
THEOREM OneOpenRunsAlone == Spec => [](MaxOpens <= 1 => OpensAlone)
<1>1. Init => OneOpen
  BY DEF Init, OneOpen, Opening, OpenLabels, QuietLabels
<1>2. Basic /\ OneOpen /\ [Next]_vars => OneOpen'
  BY NextOneOpen
<1>3. OneOpen => (MaxOpens <= 1 => OpensAlone)
  BY DEF OneOpen, OpensAlone, Opening
<1> QED
  BY <1>1, <1>2, <1>3, BasicInvariance, PTL DEF Spec

\* In a program that calls open() once at most, whatever else its threads call,
\* the entry of every key is its last record.
THEOREM OneOpenFollowsLog == Spec => [](MaxOpens <= 1 => IndexMatchesLog)
<1> DEFINE Guarded == MaxOpens <= 1 => MInv
<1>1. Init /\ CInv => Guarded
  BY InitMInv
<1>2. (MaxOpens <= 1 => OpensAlone) /\ Guarded /\ [Next]_vars => Guarded'
  BY NextMInv
<1>3. Guarded => (MaxOpens <= 1 => IndexMatchesLog)
  BY MInvMatches
<1> HIDE DEF Guarded
<1> QED
  BY <1>1, <1>2, <1>3, CInvInvariance, OneOpenRunsAlone, PTL DEF Spec

=============================================================================
