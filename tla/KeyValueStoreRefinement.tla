---------------------- MODULE KeyValueStoreRefinement ----------------------
(***************************************************************************)
(* The engine implements the map of KVMap: its calls are linearizable, for *)
(* any number of threads, keys and calls, as long as open() does not       *)
(* overlap another call.                                                   *)
(***************************************************************************)
EXTENDS KeyValueStoreProofs

KeysLabels == {"keys_check", "keys_clean", "keys_list"}
CompactLabels == {"comp_lock", "comp_write", "comp_install"}
Request == SetRequest \cup KeyRequest("get") \cup KeyRequest("remove") \cup PlainRequest
Answers == [status: {"OK", "NotFound", "Closed", "IoError"},
            value: Values \cup {None} \cup SUBSET Keys]

\* The last entry of key k in log l.
EntryIn(l, k) ==
  IF LastIn(l, k) = 0 \/ l[LastIn(l, k)].op = "Delete" THEN None
  ELSE [value |-> l[LastIn(l, k)].value, expiresAtMs |-> l[LastIn(l, k)].expiresAtMs]

\* Some moment of the call of thread t from which its time to live may count.
StartedAt(t, e) ==
  \E s \in call[t].at..now : e = (IF call[t].ttl = 0 THEN 0 ELSE s + call[t].ttl)

\* The entry of key k was alive at some moment of the call of thread t.
WasAlive(t, k) == \E s \in call[t].at..now : Map!LiveAt(EntryIn(log, k), s)

\* What a thread knows of the call it is in, and of the moments of it.
CallerOK ==
  /\ res = [t \in Threads |-> res[t]]
  /\ \A t \in Threads :
       /\ pc[t] = "idle" => call[t] = None
       /\ pc[t] # "idle" => call[t] \in Request /\ call[t].at <= now
       /\ pc[t] = "done" => res[t] # None
       /\ pc[t] \in KeysLabels => call[t].op = "keys"
       /\ pc[t] \in CompactLabels => call[t].op = "compact"
       /\ pc[t] = "clean_lock" => call[t].op = "cleanup"
       /\ pc[t] \in OpenLabels => call[t].op = "open"
       /\ pc[t] \in SetLabels => StartedAt(t, loc[t].time)
       /\ pc[t] = "rem_append" => WasAlive(t, call[t].key)

\* The fourth inductive invariant.
LInv == MInv /\ CallerOK

-----------------------------------------------------------------------------
(* Entries, as the map sees them. *)

\* The entry of a key is a value with its time, or there is none.
LEMMA EntryInType ==
  ASSUME NEW l \in Seq(Record), NEW k \in Keys
  PROVE  /\ EntryIn(l, k) = None \/ EntryIn(l, k) \in [value: Values, expiresAtMs: Nat]
         /\ EntryIn(l, k) = None <=> LastIn(l, k) = 0 \/ l[LastIn(l, k)].op = "Delete"
<1>1. CASE LastIn(l, k) = 0 \/ l[LastIn(l, k)].op = "Delete"
  BY <1>1 DEF EntryIn
<1>2. CASE ~(LastIn(l, k) = 0 \/ l[LastIn(l, k)].op = "Delete")
  <2> DEFINE r == l[LastIn(l, k)]
  <2>1. LastIn(l, k) \in 1..Len(l)
    BY <1>2, LastInProperties
  <2>2. r \in Record
    BY <2>1, ElementOfSeq
  <2>3. r.value \in Values /\ r.expiresAtMs \in Nat
    BY <2>2, <1>2 DEF Record
  <2>4. EntryIn(l, k) = [value |-> r.value, expiresAtMs |-> r.expiresAtMs]
    BY <1>2 DEF EntryIn
  <2> HIDE DEF r
  <2>5. EntryIn(l, k) \in [value: Values, expiresAtMs: Nat]
    BY <2>3, <2>4
  <2> QED
    BY <2>5, <1>2, NoneAssumption
<1> QED
  BY <1>1, <1>2

\* Where index and log agree, the index tells what the map holds.
LEMMA MatchesEntry ==
  ASSUME log \in Seq(Record), index \in Index, now \in Nat, NEW k \in Keys,
         Matches(log, index[k], k, now)
  PROVE  /\ index[k] # None =>
              EntryIn(log, k) = [value |-> ReadAt(index[k].off),
                                 expiresAtMs |-> index[k].expiresAtMs]
         /\ index[k] # None => EntryIn(log, k) # None
         /\ Map!LiveAt(EntryIn(log, k), now) <=> index[k] # None /\ ~Expired(k, now)
<1>1. CASE index[k] # None
  <2>1. /\ LastIn(log, k) # 0 /\ index[k].off = LastIn(log, k)
        /\ log[LastIn(log, k)].op = "Set"
        /\ log[LastIn(log, k)].expiresAtMs = index[k].expiresAtMs
    BY <1>1 DEF Matches
  <2>2. LastIn(log, k) \in 1..Len(log) /\ DOMAIN log = 1..Len(log)
    BY <2>1, LastInProperties, LenProperties
  <2>3. EntryIn(log, k) = [value |-> ReadAt(index[k].off), expiresAtMs |-> index[k].expiresAtMs]
    BY <2>1, <2>2 DEF EntryIn, ReadAt
  <2>4. EntryIn(log, k) # None
    BY <2>1, EntryInType
  <2>5. EntryIn(log, k).expiresAtMs = index[k].expiresAtMs
    BY <2>3
  <2> QED
    BY <2>3, <2>4, <2>5, <1>1 DEF Map!LiveAt, Expired, isExpired
<1>2. CASE index[k] = None
  <2>1. CASE EntryIn(log, k) = None
    BY <1>2, <2>1 DEF Map!LiveAt
  <2>2. CASE EntryIn(log, k) # None
    <3>1. LastIn(log, k) # 0 /\ log[LastIn(log, k)].op # "Delete"
      BY <2>2, EntryInType
    <3>2. isExpired(log[LastIn(log, k)].expiresAtMs, now)
      BY <1>2, <3>1 DEF Matches
    <3>3. EntryIn(log, k).expiresAtMs = log[LastIn(log, k)].expiresAtMs
      BY <3>1 DEF EntryIn
    <3> QED
      BY <1>2, <3>2, <3>3 DEF Map!LiveAt, isExpired
  <2> QED
    BY <2>1, <2>2
<1> QED
  BY <1>1, <1>2

\* A thread that is past its check of isOpen() finds index and log in agreement
\* whenever it finds nobody at work on them.
LEMMA FindsAgreement ==
  ASSUME MInv, NEW t \in Threads,
         pc[t] \notin QuietLabels \cup {"open_recover", "open_install"},
         writer = None \/ (pc[t] \in {"set_append", "rem_append", "comp_write"})
  PROVE  \A k \in Keys : Matches(log, index[k], k, now)
<1>1. Basic /\ EntriesMatch /\ Installed
  BY DEF MInv, CInv, Installed
<1> SUFFICES ASSUME NEW k \in Keys, Pending(k) PROVE FALSE
  BY <1>1 DEF EntriesMatch
<1>2. PICK u \in Threads : pc[u] \in {"comp_install", "set_install", "rem_erase"}
  BY DEF Pending
<1> QED
  BY <1>1, <1>2, OneWriter DEF WriteLabels

-----------------------------------------------------------------------------
(* Calls. *)

\* What a call answers is not nothing.
LEMMA AnswerIsAnswer ==
  ASSUME NEW s \in {"OK", "NotFound", "Closed", "IoError"},
         NEW v \in Values \cup {None} \cup SUBSET Keys
  PROVE  Answer(s, v) # None
<1>1. Answer(s, v) \in Answers
  BY DEF Answer, Answers
<1> QED
  BY <1>1, NoneAssumption DEF Answers

\* A request is not nothing.
LEMMA RequestIsCall ==
  ASSUME NEW c \in Request
  PROVE  /\ c # None /\ c.at \in Nat
         /\ c.op \in {"set", "get", "remove", "keys", "compact", "cleanup", "open", "close"}
<1> DEFINE All == [op: {"set", "get", "remove", "keys", "compact", "cleanup", "open", "close"},
                   key: Keys \cup {None}, value: Values \cup {None}, ttl: Nat, at: Nat]
<1>1. c \in All
  <2>1. CASE c \in SetRequest
    BY <2>1, KeyValueStoreAssumption DEF SetRequest
  <2>2. CASE c \in KeyRequest("get") \cup KeyRequest("remove")
    BY <2>2 DEF KeyRequest
  <2>3. CASE c \in PlainRequest
    BY <2>3 DEF PlainRequest
  <2> QED
    BY <2>1, <2>2, <2>3 DEF Request
<1>2. None \notin All
  BY NoneAssumption
<1> QED
  BY <1>1, <1>2

\* Start answers nothing while the store is open.
LEMMA StartAnswers ==
  ASSUME Basic, NEW t \in Threads, Start(t), opened
  PROVE  res' = res /\ pc'[t] # "done"
<1>1. res' = res
  BY DEF Start
<1>2. call[t] \in Request /\ call[t].op \notin {"open", "close"} /\ pc[t] = "start"
  BY DEF Start, Basic, CallOK, Request
<1>3. call[t].op \in {"set", "get", "remove", "keys", "compact", "cleanup"}
  BY <1>2, RequestIsCall
<1>4. pc' = [pc EXCEPT ![t] = [set |-> "set_lock", get |-> "get_lock", remove |-> "rem_lock",
                               keys |-> "keys_check", compact |-> "comp_lock",
                               cleanup |-> "clean_lock"][call[t].op]]
  BY DEF Start, Goto
<1>5. [set |-> "set_lock", get |-> "get_lock", remove |-> "rem_lock",
       keys |-> "keys_check", compact |-> "comp_lock",
       cleanup |-> "clean_lock"][call[t].op] # "done"
  BY <1>3
<1> QED
  BY <1>1, <1>4, <1>5 DEF Basic, TypeOK

\* A call that is done has an answer.
LEMMA StepAnswers ==
  ASSUME CInv, CallerOK, NEW t \in Threads, Step(t)
  PROVE  /\ res' = [u \in Threads |-> res'[u]]
         /\ \A u \in Threads : u # t => res'[u] = res[u]
         /\ pc'[t] = "done" => res'[t] # None
<1>0. /\ res = [u \in Threads |-> res[u]] /\ pc \in [Threads -> Labels]
      /\ Basic /\ CallOK /\ cache \in [Keys -> Values \cup {None}]
  BY DEF CInv, Basic, TypeOK, CallerOK
<1> DEFINE Results == {Answer(s, v) : s \in {"OK", "NotFound", "Closed", "IoError"},
                                      v \in Values \cup {None} \cup SUBSET Keys}
<1>a. \A a \in Results : a # None
  BY AnswerIsAnswer
<1>b. /\ \A s \in {"OK", "NotFound", "Closed", "IoError"} : Answer(s, None) \in Results
      /\ \A v \in Values : Answer("OK", v) \in Results
      /\ \A ks \in SUBSET Keys : Answer("OK", ks) \in Results
  OBVIOUS
<1> HIDE DEF Results
<1>c. SUFFICES \/ res' = res /\ pc'[t] # "done"
               \/ \E a \in Results : res' = [res EXCEPT ![t] = a]
               \/ res' = [res EXCEPT ![t] = None] /\ pc'[t] # "done"
  BY <1>0, <1>a
<1> USE DEF Goto, Finish
<1>1. CASE Start(t)
  <2>1. CASE opened
    <3>1. res' = res /\ pc'[t] # "done"
      BY <1>1, <2>1, <1>0, StartAnswers
    <3> QED
      BY <3>1
  <2>2. CASE ~opened
    BY <1>1, <2>2, <1>0, <1>b DEF Start
  <2> QED
    BY <2>1, <2>2
<1>2. CASE Return(t)
  BY <1>2, <1>0, <1>b DEF Return
<1>3. CASE SetLock(t)
  BY <1>3, <1>0, <1>b DEF SetLock
<1>4. CASE SetAppend(t)
  BY <1>4, <1>0, <1>b DEF SetAppend
<1>5. CASE SetInstall(t)
  BY <1>5, <1>0, <1>b DEF SetInstall
<1>6. CASE WriteFails(t)
  BY <1>6, <1>0, <1>b DEF WriteFails
<1>7. CASE GetLock(t)
  BY <1>7, <1>0, <1>b DEF GetLock
<1>8. CASE GetCache(t)
  <2>1. call[t].key \in Keys
    BY <1>8, <1>0 DEF GetCache, CallOK, GetLabels, KeyRequest
  <2>2. cache[call[t].key] \in Values \cup {None}
    BY <2>1, <1>0
  <2> QED
    BY <1>8, <2>2, <1>0, <1>b DEF GetCache
<1>9. CASE GetRead(t)
  BY <1>9, <1>0, <1>b DEF GetRead
<1>10. CASE GetPut(t)
  <2>1. loc[t].value \in Values
    BY <1>10 DEF GetPut, CInv, ReaderOK
  <2> QED
    BY <1>10, <2>1, <1>0, <1>b DEF GetPut
<1>11. CASE GetErase(t)
  BY <1>11, <1>0, <1>b DEF GetErase
<1>12. CASE RemLock(t)
  BY <1>12, <1>0, <1>b DEF RemLock
<1>13. CASE RemAppend(t)
  BY <1>13, <1>0, <1>b DEF RemAppend
<1>14. CASE RemErase(t)
  BY <1>14, <1>0, <1>b DEF RemErase
<1>15. CASE KeysCheck(t)
  BY <1>15, <1>0, <1>b DEF KeysCheck
<1>16. CASE KeysClean(t)
  BY <1>16, <1>0, <1>b DEF KeysClean
<1>17. CASE KeysList(t)
  <2>1. {k \in Keys : index[k] # None} \in SUBSET Keys
    OBVIOUS
  <2> QED
    BY <1>17, <2>1, <1>0, <1>b DEF KeysList
<1>18. CASE CleanLock(t)
  BY <1>18, <1>0, <1>b DEF CleanLock
<1>19. CASE CompLock(t)
  BY <1>19, <1>0, <1>b DEF CompLock
<1>20. CASE CompWrite(t)
  BY <1>20, <1>0, <1>b DEF CompWrite
<1>21. CASE CompInstall(t)
  BY <1>21, <1>0, <1>b DEF CompInstall
<1>22. CASE OpenStart(t)
  BY <1>22, <1>0, <1>b DEF OpenStart
<1>23. CASE OpenRecover(t)
  BY <1>23, <1>0, <1>b DEF OpenRecover
<1>24. CASE OpenInstall(t)
  BY <1>24, <1>0, <1>b DEF OpenInstall
<1>25. CASE OpenClear(t)
  BY <1>25, <1>0, <1>b DEF OpenClear
<1>26. CASE OpenFlag(t)
  BY <1>26, <1>0, <1>b DEF OpenFlag
<1>27. CASE Close(t)
  BY <1>27, <1>0, <1>b DEF Close
<1> QED
  BY <1>1, <1>2, <1>3, <1>4, <1>5, <1>6, <1>7, <1>8, <1>9, <1>10,
     <1>11, <1>12, <1>13, <1>14, <1>15, <1>16, <1>17, <1>18, <1>19, <1>20,
     <1>21, <1>22, <1>23, <1>24, <1>25, <1>26, <1>27 DEF Step

\* A thread stays in its call until it returns, at labels of that call.
LEMMA StepRequests ==
  ASSUME Basic, CallerOK, NEW t \in Threads, Step(t)
  PROVE  /\ pc'[t] = "idle" => call'[t] = None
         /\ pc'[t] # "idle" => call'[t] = call[t] /\ pc[t] # "idle"
         /\ pc'[t] \in KeysLabels => call[t].op = "keys"
         /\ pc'[t] \in CompactLabels => call[t].op = "compact"
         /\ pc'[t] = "clean_lock" => call[t].op = "cleanup"
         /\ pc'[t] \in OpenLabels => call[t].op = "open"
<1>0. /\ pc \in [Threads -> Labels] /\ CallTyped
      /\ pc[t] \in KeysLabels => call[t].op = "keys"
      /\ pc[t] \in CompactLabels => call[t].op = "compact"
      /\ pc[t] \in OpenLabels => call[t].op = "open"
  BY DEF Basic, TypeOK, CallerOK
<1> USE DEF Goto, Finish, KeysLabels, CompactLabels, OpenLabels, env
<1>1. CASE Start(t)
  BY <1>1, StartGoes DEF Start
<1>2. CASE Return(t)
  BY <1>2, <1>0 DEF Return, CallTyped
<1>3. CASE SetLock(t)
  BY <1>3, <1>0 DEF SetLock
<1>4. CASE SetAppend(t)
  BY <1>4, <1>0 DEF SetAppend
<1>5. CASE SetInstall(t)
  BY <1>5, <1>0 DEF SetInstall
<1>6. CASE WriteFails(t)
  BY <1>6, <1>0 DEF WriteFails
<1>7. CASE GetLock(t)
  BY <1>7, <1>0 DEF GetLock
<1>8. CASE GetCache(t)
  BY <1>8, <1>0 DEF GetCache
<1>9. CASE GetRead(t)
  BY <1>9, <1>0 DEF GetRead
<1>10. CASE GetPut(t)
  BY <1>10, <1>0 DEF GetPut
<1>11. CASE GetErase(t)
  BY <1>11, <1>0 DEF GetErase
<1>12. CASE RemLock(t)
  BY <1>12, <1>0 DEF RemLock
<1>13. CASE RemAppend(t)
  BY <1>13, <1>0 DEF RemAppend
<1>14. CASE RemErase(t)
  BY <1>14, <1>0 DEF RemErase
<1>15. CASE KeysCheck(t)
  BY <1>15, <1>0 DEF KeysCheck
<1>16. CASE KeysClean(t)
  BY <1>16, <1>0 DEF KeysClean
<1>17. CASE KeysList(t)
  BY <1>17, <1>0 DEF KeysList
<1>18. CASE CleanLock(t)
  BY <1>18, <1>0 DEF CleanLock
<1>19. CASE CompLock(t)
  BY <1>19, <1>0 DEF CompLock
<1>20. CASE CompWrite(t)
  BY <1>20, <1>0 DEF CompWrite
<1>21. CASE CompInstall(t)
  BY <1>21, <1>0 DEF CompInstall
<1>22. CASE OpenStart(t)
  BY <1>22, <1>0 DEF OpenStart
<1>23. CASE OpenRecover(t)
  BY <1>23, <1>0 DEF OpenRecover
<1>24. CASE OpenInstall(t)
  BY <1>24, <1>0 DEF OpenInstall
<1>25. CASE OpenClear(t)
  BY <1>25, <1>0 DEF OpenClear
<1>26. CASE OpenFlag(t)
  BY <1>26, <1>0 DEF OpenFlag
<1>27. CASE Close(t)
  BY <1>27, <1>0 DEF Close
<1> QED
  BY <1>1, <1>2, <1>3, <1>4, <1>5, <1>6, <1>7, <1>8, <1>9, <1>10,
     <1>11, <1>12, <1>13, <1>14, <1>15, <1>16, <1>17, <1>18, <1>19, <1>20,
     <1>21, <1>22, <1>23, <1>24, <1>25, <1>26, <1>27 DEF Step

\* Only Start and the steps of set itself lead into set.
LEMMA StepSetMoment ==
  ASSUME MInv, CallerOK, NEW t \in Threads, Step(t), pc'[t] \in SetLabels
  PROVE  StartedAt(t, loc[t].time)'
<1>0. /\ pc \in [Threads -> Labels] /\ now \in Nat /\ now' = now /\ Basic
      /\ loc \in [Threads -> Locals]
  BY StepOthers DEF MInv, CInv, Basic, TypeOK, Locals
<1> USE DEF Goto, Finish, SetLabels, env
<1>1. CASE Start(t)
  <2>1. pc[t] = "start" /\ call' = call /\ call[t] \in SetRequest /\ opened
    BY <1>1, <1>0, StartGoes DEF Start
  <2>2. loc'[t].time = IF call[t].op = "set" /\ call[t].ttl > 0 THEN now + call[t].ttl ELSE 0
    BY <1>1, <1>0, <2>1 DEF Start, Locals
  <2>3. call[t].op = "set" /\ call[t].ttl \in Nat /\ call[t].at \in Nat /\ call[t].at <= now
    BY <2>1, KeyValueStoreAssumption DEF SetRequest, CallerOK
  <2>4. now \in call[t].at..now /\ loc'[t].time = (IF call[t].ttl = 0 THEN 0 ELSE now + call[t].ttl)
    BY <2>2, <2>3, <1>0
  <2> QED
    BY <2>1, <2>4, <1>0 DEF StartedAt
<1>2. CASE SetLock(t) \/ SetAppend(t)
  <2>1. pc[t] \in SetLabels /\ call' = call /\ loc'[t].time = loc[t].time
    BY <1>2, <1>0 DEF SetLock, SetAppend, Locals
  <2>2. StartedAt(t, loc[t].time)
    BY <2>1 DEF CallerOK
  <2> QED
    BY <2>1, <2>2, <1>0 DEF StartedAt
<1>3. CASE ~(Start(t) \/ SetLock(t) \/ SetAppend(t))
  <2>1. CASE Return(t)
    BY <2>1, <1>0 DEF Return
  <2>2. CASE SetInstall(t)
    BY <2>2, <1>0 DEF SetInstall
  <2>3. CASE WriteFails(t)
    BY <2>3, <1>0 DEF WriteFails
  <2>4. CASE GetLock(t)
    BY <2>4, <1>0 DEF GetLock
  <2>5. CASE GetCache(t)
    BY <2>5, <1>0 DEF GetCache
  <2>6. CASE GetRead(t)
    BY <2>6, <1>0 DEF GetRead
  <2>7. CASE GetPut(t)
    BY <2>7, <1>0 DEF GetPut
  <2>8. CASE GetErase(t)
    BY <2>8, <1>0 DEF GetErase
  <2>9. CASE RemLock(t)
    BY <2>9, <1>0 DEF RemLock
  <2>10. CASE RemAppend(t)
    BY <2>10, <1>0 DEF RemAppend
  <2>11. CASE RemErase(t)
    BY <2>11, <1>0 DEF RemErase
  <2>12. CASE KeysCheck(t)
    BY <2>12, <1>0 DEF KeysCheck
  <2>13. CASE KeysClean(t)
    BY <2>13, <1>0 DEF KeysClean
  <2>14. CASE KeysList(t)
    BY <2>14, <1>0 DEF KeysList
  <2>15. CASE CleanLock(t)
    BY <2>15, <1>0 DEF CleanLock
  <2>16. CASE CompLock(t)
    BY <2>16, <1>0 DEF CompLock
  <2>17. CASE CompWrite(t)
    BY <2>17, <1>0 DEF CompWrite
  <2>18. CASE CompInstall(t)
    BY <2>18, <1>0 DEF CompInstall
  <2>19. CASE OpenStart(t)
    BY <2>19, <1>0 DEF OpenStart
  <2>20. CASE OpenRecover(t)
    BY <2>20, <1>0 DEF OpenRecover
  <2>21. CASE OpenInstall(t)
    BY <2>21, <1>0 DEF OpenInstall
  <2>22. CASE OpenClear(t)
    BY <2>22, <1>0 DEF OpenClear
  <2>23. CASE OpenFlag(t)
    BY <2>23, <1>0 DEF OpenFlag
  <2>24. CASE Close(t)
    BY <2>24, <1>0 DEF Close
  <2> QED
    BY <1>3, <2>1, <2>2, <2>3, <2>4, <2>5, <2>6, <2>7, <2>8, <2>9,
       <2>10, <2>11, <2>12, <2>13, <2>14, <2>15, <2>16, <2>17, <2>18, <2>19,
       <2>20, <2>21, <2>22, <2>23, <2>24 DEF Step
<1> QED
  BY <1>1, <1>2, <1>3

\* A remove writes its tombstone after it has found a live entry.
LEMMA StepRemoveMoment ==
  ASSUME MInv, CallerOK, NEW t \in Threads, Step(t), pc'[t] = "rem_append"
  PROVE  WasAlive(t, call[t].key)'
<1>0. /\ pc \in [Threads -> Labels] /\ now \in Nat /\ now' = now /\ Basic /\ CallOK
      /\ log \in Seq(Record) /\ index \in Index
  BY StepOthers DEF MInv, CInv, Basic, TypeOK
<1> USE DEF Goto, Finish, env
<1>1. CASE RemLock(t)
  <2>1. /\ pc[t] = "rem_lock" /\ call' = call /\ log' = log /\ writer = None
        /\ index[call[t].key] # None /\ ~Expired(call[t].key, now)
    BY <1>1, <1>0 DEF RemLock, CanWrite
  <2>2. call[t].key \in Keys /\ call[t].at \in Nat /\ call[t].at <= now
    BY <2>1, <1>0 DEF CallOK, RemoveLabels, KeyRequest, CallerOK
  <2>3. Matches(log, index[call[t].key], call[t].key, now)
    BY <2>1, <2>2, FindsAgreement DEF QuietLabels
  <2>4. Map!LiveAt(EntryIn(log, call[t].key), now)
    BY <2>1, <2>2, <2>3, <1>0, MatchesEntry
  <2>5. now \in call[t].at..now
    BY <2>2, <1>0
  <2> QED
    BY <2>1, <2>4, <2>5, <1>0 DEF WasAlive
<1>2. CASE Start(t)
  BY <1>2, <1>0, StartGoes
<1>3. CASE ~(RemLock(t) \/ Start(t))
  <2>1. CASE Return(t)
    BY <2>1, <1>0 DEF Return
  <2>2. CASE SetLock(t)
    BY <2>2, <1>0 DEF SetLock
  <2>3. CASE SetAppend(t)
    BY <2>3, <1>0 DEF SetAppend
  <2>4. CASE SetInstall(t)
    BY <2>4, <1>0 DEF SetInstall
  <2>5. CASE WriteFails(t)
    BY <2>5, <1>0 DEF WriteFails
  <2>6. CASE GetLock(t)
    BY <2>6, <1>0 DEF GetLock
  <2>7. CASE GetCache(t)
    BY <2>7, <1>0 DEF GetCache
  <2>8. CASE GetRead(t)
    BY <2>8, <1>0 DEF GetRead
  <2>9. CASE GetPut(t)
    BY <2>9, <1>0 DEF GetPut
  <2>10. CASE GetErase(t)
    BY <2>10, <1>0 DEF GetErase
  <2>11. CASE RemAppend(t)
    BY <2>11, <1>0 DEF RemAppend
  <2>12. CASE RemErase(t)
    BY <2>12, <1>0 DEF RemErase
  <2>13. CASE KeysCheck(t)
    BY <2>13, <1>0 DEF KeysCheck
  <2>14. CASE KeysClean(t)
    BY <2>14, <1>0 DEF KeysClean
  <2>15. CASE KeysList(t)
    BY <2>15, <1>0 DEF KeysList
  <2>16. CASE CleanLock(t)
    BY <2>16, <1>0 DEF CleanLock
  <2>17. CASE CompLock(t)
    BY <2>17, <1>0 DEF CompLock
  <2>18. CASE CompWrite(t)
    BY <2>18, <1>0 DEF CompWrite
  <2>19. CASE CompInstall(t)
    BY <2>19, <1>0 DEF CompInstall
  <2>20. CASE OpenStart(t)
    BY <2>20, <1>0 DEF OpenStart
  <2>21. CASE OpenRecover(t)
    BY <2>21, <1>0 DEF OpenRecover
  <2>22. CASE OpenInstall(t)
    BY <2>22, <1>0 DEF OpenInstall
  <2>23. CASE OpenClear(t)
    BY <2>23, <1>0 DEF OpenClear
  <2>24. CASE OpenFlag(t)
    BY <2>24, <1>0 DEF OpenFlag
  <2>25. CASE Close(t)
    BY <2>25, <1>0 DEF Close
  <2> QED
    BY <1>3, <2>1, <2>2, <2>3, <2>4, <2>5, <2>6, <2>7, <2>8, <2>9,
       <2>10, <2>11, <2>12, <2>13, <2>14, <2>15, <2>16, <2>17, <2>18, <2>19,
       <2>20, <2>21, <2>22, <2>23, <2>24, <2>25 DEF Step
<1> QED
  BY <1>1, <1>2, <1>3

\* Every step leaves the threads with what they know of their calls.
LEMMA StepCaller ==
  ASSUME LInv, NEW t \in Threads, Step(t)
  PROVE  CallerOK'
<1>0. /\ MInv /\ CInv /\ Basic /\ LockOK /\ CallerOK /\ pc \in [Threads -> Labels] /\ now' = now
      /\ \A u \in Threads : u # t => pc'[u] = pc[u] /\ loc'[u] = loc[u] /\ call'[u] = call[u]
  BY StepOthers DEF LInv, MInv, CInv, Basic, TypeOK
<1>1. /\ res' = [u \in Threads |-> res'[u]]
      /\ \A u \in Threads : u # t => res'[u] = res[u]
      /\ pc'[t] = "done" => res'[t] # None
  BY <1>0, StepAnswers
<1>2. ASSUME NEW u \in Threads, u # t, pc[u] = "rem_append"
      PROVE  WasAlive(u, call[u].key)'
  <2>1. log' = log
    BY <1>0, <1>2, LockProtects DEF LockOK, WriteLabels
  <2>2. WasAlive(u, call[u].key)
    BY <1>0, <1>2 DEF CallerOK
  <2> QED
    BY <2>1, <2>2, <1>0, <1>2 DEF WasAlive
<1>3. ASSUME NEW u \in Threads, u # t, pc[u] \in SetLabels
      PROVE  StartedAt(u, loc[u].time)'
  <2>1. StartedAt(u, loc[u].time)
    BY <1>0, <1>3 DEF CallerOK
  <2> QED
    BY <2>1, <1>0, <1>3 DEF StartedAt
<1> DEFINE Plain(u) ==
      /\ pc'[u] = "idle" => call'[u] = None
      /\ pc'[u] # "idle" => call'[u] \in Request /\ call'[u].at <= now'
      /\ pc'[u] = "done" => res'[u] # None
      /\ pc'[u] \in KeysLabels => call'[u].op = "keys"
      /\ pc'[u] \in CompactLabels => call'[u].op = "compact"
      /\ pc'[u] = "clean_lock" => call'[u].op = "cleanup"
      /\ pc'[u] \in OpenLabels => call'[u].op = "open"
<1>4. \A u \in Threads : u # t => Plain(u)
  BY <1>0, <1>1 DEF CallerOK
<1>5. Plain(t)
  BY <1>0, <1>1, StepRequests DEF CallerOK, KeysLabels, CompactLabels, OpenLabels
<1>6. \A u \in Threads : pc'[u] \in SetLabels => StartedAt(u, loc[u].time)'
  BY <1>0, <1>3, StepSetMoment
<1>7. \A u \in Threads : pc'[u] = "rem_append" => WasAlive(u, call[u].key)'
  BY <1>0, <1>2, StepRemoveMoment
<1> QED
  BY <1>1, <1>4, <1>5, <1>6, <1>7 DEF CallerOK

\* The fourth invariant is kept by every step taken while open() has the store to
\* itself.
LEMMA NextLInv == LInv /\ OpensAlone /\ [Next]_vars => LInv'
<1> SUFFICES ASSUME LInv, OpensAlone, [Next]_vars PROVE LInv'
  OBVIOUS
<1>0. /\ MInv /\ MInv' /\ Basic /\ CallTyped /\ CallerOK /\ pc \in [Threads -> Labels]
      /\ now \in Nat
  BY NextMInv DEF LInv, MInv, CInv, Basic, TypeOK
<1>1. ASSUME NEW t \in Threads, Step(t) PROVE LInv'
  BY <1>0, <1>1, StepCaller DEF LInv
<1>2. ASSUME NEW t \in Threads, Invoke(t) \/ InvokeOpen(t) PROVE LInv'
  <2>1. PICK o \in Calls \cup {"open"} :
          \E c \in Requests(o) : call' = [call EXCEPT ![t] = c]
    BY <1>2 DEF Invoke, InvokeOpen
  <2>2. PICK c \in Requests(o) : call' = [call EXCEPT ![t] = c]
    BY <2>1
  <2>3. c \in Request /\ c.at <= now
    <3>1. c \in Request
      BY <2>2, <1>0, RequestsProperties DEF Request
    <3>2. c.at = now
      BY DEF Requests
    <3> QED
      BY <3>1, <3>2, <1>0
  <2>4. /\ pc[t] = "idle" /\ pc' = [pc EXCEPT ![t] = "start"]
        /\ UNCHANGED <<log, now, loc, res>>
    BY <1>2 DEF Invoke, InvokeOpen, Goto
  <2>5. call'[t] = c /\ pc'[t] = "start"
        /\ \A u \in Threads : u # t => call'[u] = call[u] /\ pc'[u] = pc[u]
    BY <2>2, <2>4, <1>0 DEF CallTyped
  <2>6. \A u \in Threads : u # t =>
          /\ \A e : StartedAt(u, e) => StartedAt(u, e)'
          /\ \A k : WasAlive(u, k) => WasAlive(u, k)'
    BY <2>4, <2>5 DEF StartedAt, WasAlive
  <2>7. CallerOK'
    BY <2>3, <2>4, <2>5, <2>6, <1>0
       DEF CallerOK, KeysLabels, CompactLabels, OpenLabels, SetLabels
  <2> QED
    BY <2>7, <1>0 DEF LInv
<1>3. CASE Tick
  <2>1. now' = now + 1 /\ UNCHANGED <<log, pc, call, loc, res>>
    BY <1>3 DEF Tick
  <2>2. \A u \in Threads : pc[u] # "idle" => call[u].at \in Nat /\ call[u].at <= now
    BY <1>0, RequestIsCall DEF CallerOK
  <2>3. \A u \in Threads : pc[u] # "idle" =>
          call[u].at <= now' /\ \A s \in call[u].at..now : s \in call[u].at..now'
    BY <2>1, <2>2, <1>0
  <2>4. \A u \in Threads : pc[u] # "idle" =>
          /\ \A e : StartedAt(u, e) => StartedAt(u, e)'
          /\ \A k : WasAlive(u, k) => WasAlive(u, k)'
    BY <2>1, <2>3 DEF StartedAt, WasAlive
  <2>5. CallerOK'
    BY <2>1, <2>3, <2>4, <1>0 DEF CallerOK, SetLabels
  <2> QED
    BY <2>5, <1>0 DEF LInv
<1>4. CASE UNCHANGED vars
  BY <1>0, <1>4 DEF vars, LInv, CallerOK, StartedAt, WasAlive
<1> QED
  BY <1>1, <1>2, <1>3, <1>4 DEF Next, Quiescent

\* It holds when the program starts.
LEMMA InitLInv == Init /\ CInv => LInv
  BY InitMInv DEF Init, LInv, CallerOK, KeysLabels, CompactLabels, OpenLabels, SetLabels

-----------------------------------------------------------------------------
(* The state of the map, as the engine shows it. *)

Db == [k \in Keys |-> EntryOf(k)]
Ret == [t \in Threads |-> AnswerOf(t)]

EntriesKnown == log \in Seq(Record) => \A k \in Keys : EntryOf(k) = EntryIn(log, k)

AnswersKnown ==
  \A t \in Threads :
    /\ pc[t] = "done" => AnswerOf(t) = res[t]
    /\ pc[t] \in {"set_install", "rem_erase", "comp_install"} => AnswerOf(t) = Answer("OK", None)
    /\ pc[t] \in ReadLabels => AnswerOf(t) = Answer("OK", ReadAt(index[call[t].key].off))
    /\ pc[t] = "get_erase" => AnswerOf(t) = Answer("NotFound", None)
    /\ pc[t] \notin {"done", "set_install", "rem_erase", "comp_install", "get_erase"}
                    \cup ReadLabels => AnswerOf(t) = None

\* The last entry of a key is that of the log.
LEMMA EntriesAre == EntriesKnown
  BY LastOfIsLastIn DEF EntriesKnown, EntryOf, EntryIn

\* The answer of a call that has taken effect, by where its thread is.
LEMMA AnswersAre == AnswersKnown
  BY DEF AnswersKnown, AnswerOf, ReadLabels

\* A step of a thread moves the answer of that thread only, and the entries with
\* the log only.
LEMMA StepMapped ==
  ASSUME LInv, NEW t \in Threads, Step(t)
  PROVE  /\ Ret' = [Ret EXCEPT ![t] = AnswerOf(t)']
         /\ now' = now
         /\ log' = log => Db' = Db
         /\ Db = [k \in Keys |-> EntryIn(log, k)]
         /\ Db' = [k \in Keys |-> EntryIn(log', k)]
<1>0. /\ MInv /\ CInv /\ Basic /\ LockOK /\ CallerOK /\ pc \in [Threads -> Labels] /\ now' = now
      /\ \A u \in Threads : u # t => pc'[u] = pc[u] /\ loc'[u] = loc[u] /\ call'[u] = call[u]
      /\ log \in Seq(Record) /\ log' \in Seq(Record)
  BY StepOthers, StepData DEF LInv, MInv, CInv, Basic, TypeOK
<1>1. AnswersKnown' /\ EntriesKnown'
  BY AnswersAre, EntriesAre, PTL
<1>2. AnswersKnown /\ EntriesKnown
  BY AnswersAre, EntriesAre
<1>3. \A u \in Threads : u # t => res'[u] = res[u]
  BY <1>0, StepAnswers
<1>4. ASSUME NEW u \in Threads, u # t PROVE AnswerOf(u)' = AnswerOf(u)
  <2>1. CASE pc[u] \in ReadLabels
    <3>1. index' = index /\ log' = log
      BY <2>1, <1>0, <1>4, LockProtects DEF LockOK
    <3>2. ReadAt(index[call[u].key].off)' = ReadAt(index[call[u].key].off)
      BY <3>1, <1>0, <1>4 DEF ReadAt
    <3> QED
      BY <3>2, <2>1, <1>0, <1>1, <1>2, <1>4 DEF AnswersKnown
  <2>2. CASE pc[u] \notin ReadLabels
    BY <2>2, <1>0, <1>1, <1>2, <1>3, <1>4 DEF AnswersKnown
  <2> QED
    BY <2>1, <2>2
<1>5. Ret' = [Ret EXCEPT ![t] = AnswerOf(t)']
  BY <1>4 DEF Ret
<1>6. /\ Db = [k \in Keys |-> EntryIn(log, k)]
      /\ Db' = [k \in Keys |-> EntryIn(log', k)]
  BY <1>0, <1>1, <1>2 DEF Db, EntriesKnown
<1> QED
  BY <1>0, <1>5, <1>6

\* A step that shows neither in the entries nor in an answer is no step of the map.
LEMMA Unseen ==
  ASSUME LInv, NEW t \in Threads, Step(t), log' = log, opened' = opened, call' = call,
         AnswerOf(t)' = AnswerOf(t)
  PROVE  UNCHANGED <<now, opened, Db, call, Ret>>
<1>1. Ret' = [Ret EXCEPT ![t] = AnswerOf(t)'] /\ now' = now /\ Db' = Db
  BY StepMapped
<1> QED
  BY <1>1 DEF Ret

\* A step that gives a call its answer.
LEMMA Answered ==
  ASSUME LInv, NEW t \in Threads, Step(t), call' = call, NEW a, AnswerOf(t)' = a
  PROVE  Map!Answers(t, a)
  BY StepMapped DEF Map!Answers, Ret

\* A call that has taken no effect yet runs in the map.
LEMMA RunsInMap ==
  ASSUME LInv, NEW t \in Threads, pc[t] # "idle",
         pc[t] \notin {"done", "set_install", "rem_erase", "comp_install", "get_erase"}
                      \cup ReadLabels
  PROVE  /\ call[t] # None /\ Ret[t] = None
         /\ \A o : call[t].op = o => Map!Runs(t, o)
<1>1. call[t] # None
  BY RequestIsCall DEF LInv, CallerOK
<1>2. AnswerOf(t) = None
  BY AnswersAre DEF AnswersKnown
<1> QED
  BY <1>1, <1>2 DEF Map!Runs, Ret

-----------------------------------------------------------------------------
(* The steps of the engine, as steps of the map. *)

Before == {"start", "set_lock", "set_append", "get_lock", "rem_lock", "rem_append",
           "keys_check", "keys_clean", "keys_list", "comp_lock", "comp_write", "clean_lock",
           "open_recover", "open_install", "open_clear", "open_flag"}

\* What the answers are after a step.
LEMMA AnswersNext ==
  ASSUME LInv, NEW t \in Threads, Step(t)
  PROVE  /\ pc[t] \in Before \cup {"idle"} => AnswerOf(t) = None
         /\ pc'[t] \in Before \cup {"idle"} => AnswerOf(t)' = None
         /\ \A a : Finish(t, a) => AnswerOf(t)' = a
         /\ pc'[t] \in {"set_install", "rem_erase", "comp_install"} =>
              AnswerOf(t)' = Answer("OK", None)
<1>1. AnswersKnown'
  BY AnswersAre, PTL
<1>2. pc \in [Threads -> Labels] /\ res = [u \in Threads |-> res[u]]
  BY DEF LInv, MInv, CInv, Basic, TypeOK, CallerOK
<1>3. ASSUME NEW a, Finish(t, a) PROVE AnswerOf(t)' = a
  <2>1. pc'[t] = "done" /\ res'[t] = a
    BY <1>2, <1>3 DEF Finish, Goto
  <2> QED
    BY <2>1, <1>1 DEF AnswersKnown
<1>4. pc[t] \in Before \cup {"idle"} => AnswerOf(t) = None
  BY AnswersAre DEF AnswersKnown, Before, ReadLabels
<1>5. pc'[t] \in Before \cup {"idle"} => AnswerOf(t)' = None
  BY <1>1 DEF AnswersKnown, Before, ReadLabels
<1>6. pc'[t] \in {"set_install", "rem_erase", "comp_install"} => AnswerOf(t)' = Answer("OK", None)
  BY <1>1 DEF AnswersKnown
<1> QED
  BY <1>3, <1>4, <1>5, <1>6

\* While a get reads, its answer is what the index leads to.
LEMMA ReaderAnswers ==
  ASSUME LInv, NEW t \in Threads, Step(t), index' = index, log' = log, call' = call
  PROVE  /\ pc[t] \in ReadLabels => AnswerOf(t) = Answer("OK", ReadAt(index[call[t].key].off))
         /\ pc'[t] \in ReadLabels => AnswerOf(t)' = Answer("OK", ReadAt(index[call[t].key].off))
<1>1. AnswersKnown'
  BY AnswersAre, PTL
<1>2. AnswersKnown
  BY AnswersAre
<1>3. ReadAt(index[call[t].key].off)' = ReadAt(index[call[t].key].off)
  BY DEF ReadAt
<1> QED
  BY <1>1, <1>2, <1>3 DEF AnswersKnown

\* The steps between the effect of a call and its return, and those before its
\* effect that change nothing, do not show in the map.
LEMMA QuietSteps ==
  ASSUME LInv, NEW t \in Threads, Step(t),
         SetInstall(t) \/ GetErase(t) \/ RemErase(t) \/ CompInstall(t)
         \/ KeysCheck(t) \/ KeysClean(t) \/ OpenInstall(t) \/ OpenClear(t)
  PROVE  UNCHANGED <<now, opened, Db, call, Ret>>
<1>0. pc \in [Threads -> Labels]
  BY DEF LInv, MInv, CInv, Basic, TypeOK
<1>1. /\ pc[t] \in {"set_install", "rem_erase", "comp_install"} => AnswerOf(t) = Answer("OK", None)
      /\ pc[t] = "get_erase" => AnswerOf(t) = Answer("NotFound", None)
  BY AnswersAre DEF AnswersKnown
<1>2. SUFFICES log' = log /\ opened' = opened /\ call' = call /\ AnswerOf(t)' = AnswerOf(t)
  BY Unseen
<1>3. CASE SetInstall(t)
  BY <1>3, <1>1, AnswersNext DEF SetInstall, env
<1>4. CASE GetErase(t)
  BY <1>4, <1>1, AnswersNext DEF GetErase, env
<1>5. CASE RemErase(t)
  BY <1>5, <1>1, AnswersNext DEF RemErase, env
<1>6. CASE CompInstall(t)
  BY <1>6, <1>1, AnswersNext DEF CompInstall, env
<1>7. CASE KeysCheck(t)
  BY <1>7, <1>0, AnswersNext DEF KeysCheck, Goto, Before, env
<1>8. CASE KeysClean(t)
  BY <1>8, <1>0, AnswersNext DEF KeysClean, Goto, Before, env
<1>9. CASE OpenInstall(t)
  BY <1>9, <1>0, AnswersNext DEF OpenInstall, Goto, Before, env
<1>10. CASE OpenClear(t)
  BY <1>10, <1>0, AnswersNext DEF OpenClear, Goto, Before, env
<1> QED
  BY <1>3, <1>4, <1>5, <1>6, <1>7, <1>8, <1>9, <1>10

\* To keep every entry is to forget none of the expired ones.
LEMMA MaintainNothing ==
  ASSUME NEW t \in Threads, Map!Runs(t, "compact") \/ Map!Runs(t, "cleanup"),
         Map!Answers(t, Answer("OK", None)), opened' = opened, Db' = Db
  PROVE  Map!Maintain(t)
<1>1. {} \in SUBSET {k \in Keys : ~Map!LiveAt(Db[k], now)}
  OBVIOUS
<1>2. Db' = [k \in Keys |-> IF k \in {} THEN None ELSE Db[k]]
  BY DEF Db
<1>3. \E ks \in SUBSET {k \in Keys : ~Map!LiveAt(Db[k], now)} :
        Db' = [k \in Keys |-> IF k \in ks THEN None ELSE Db[k]]
  BY <1>1, <1>2
<1>4. Map!Answers(t, Map!Answer("OK", None))
  BY DEF Map!Answer, Answer
<1> QED
  BY <1>3, <1>4 DEF Map!Maintain, Db

\* Nobody is refused but by a store that is not open, and nobody fails but at the
\* storage, before anything has changed.
LEMMA CheckSteps ==
  ASSUME LInv, NEW t \in Threads, Step(t),
         Start(t) \/ SetLock(t) \/ WriteFails(t)
  PROVE  Map!Refuse(t) \/ Map!Maintain(t) \/ Map!Fail(t) \/ UNCHANGED <<now, opened, Db, call, Ret>>
<1>0. pc \in [Threads -> Labels] /\ Basic
  BY DEF LInv, MInv, CInv, Basic, TypeOK
<1>1. CASE Start(t)
  <2>1. pc[t] = "start" /\ log' = log /\ opened' = opened /\ call' = call
    BY <1>1 DEF Start, env
  <2>2. CASE opened
    <3>1. pc'[t] \in Before
      BY <1>1, <2>2, <1>0, StartGoes, StartAnswers DEF Before
    <3>2. AnswerOf(t)' = AnswerOf(t)
      BY <3>1, <2>1, AnswersNext DEF Before
    <3> QED
      BY <3>2, <2>1, Unseen
  <2>3. CASE ~opened /\ call[t].op = "cleanup"
    <3>1. Map!Answers(t, Answer("OK", None))
      BY <1>1, <2>1, <2>3, AnswersNext, Answered DEF Start
    <3>2. Map!Runs(t, "cleanup")
      BY <2>1, <2>3, RunsInMap DEF ReadLabels
    <3>3. Map!Maintain(t)
      BY <3>1, <3>2, <2>1, StepMapped, MaintainNothing
    <3> QED
      BY <3>3
  <2>4. CASE ~opened /\ call[t].op # "cleanup"
    <3>1. Map!Answers(t, Answer("Closed", None))
      BY <1>1, <2>1, <2>4, AnswersNext, Answered DEF Start
    <3>2. call[t] # None /\ Ret[t] = None
      BY <2>1, RunsInMap DEF ReadLabels
    <3>3. Db' = Db
      BY <2>1, StepMapped
    <3>4. Map!Refuse(t)
      BY <3>1, <3>2, <3>3, <2>1, <2>4 DEF Map!Refuse, Map!Answer, Answer, Db, Ret
    <3> QED
      BY <3>4
  <2> QED
    BY <2>2, <2>3, <2>4
<1>2. CASE SetLock(t)
  <2>1. pc[t] = "set_lock" /\ log' = log /\ opened' = opened /\ call' = call
    BY <1>2 DEF SetLock, env
  <2>2. CASE opened
    <3>1. AnswerOf(t)' = AnswerOf(t)
      BY <1>0, <1>2, <2>1, <2>2, AnswersNext DEF SetLock, Goto, Before
    <3> QED
      BY <3>1, <2>1, Unseen
  <2>3. CASE ~opened
    <3>1. Map!Answers(t, Answer("Closed", None))
      BY <1>2, <2>1, <2>3, AnswersNext, Answered DEF SetLock
    <3>2. call[t] # None /\ Ret[t] = None
      BY <2>1, RunsInMap DEF ReadLabels
    <3>3. Db' = Db
      BY <2>1, StepMapped
    <3>4. Map!Refuse(t)
      BY <3>1, <3>2, <3>3, <2>1, <2>3 DEF Map!Refuse, Map!Answer, Answer, Db, Ret
    <3> QED
      BY <3>4
  <2> QED
    BY <2>2, <2>3
<1>3. CASE WriteFails(t)
  <2>1. pc[t] \in {"set_append", "rem_append", "comp_write"} /\ log' = log /\ opened' = opened
        /\ call' = call
    BY <1>3 DEF WriteFails, env
  <2>2. Map!Answers(t, Answer("IoError", None))
    BY <1>3, <2>1, AnswersNext, Answered DEF WriteFails
  <2>3. call[t] # None /\ Ret[t] = None
    BY <2>1, RunsInMap DEF ReadLabels
  <2>4. Db' = Db
    BY <2>1, StepMapped
  <2>5. Map!Fail(t)
    BY <2>2, <2>3, <2>4, <2>1 DEF Map!Fail, Map!Answer, Answer, Db, Ret
  <2> QED
    BY <2>5
<1> QED
  BY <1>1, <1>2, <1>3

\* What an append leaves of the entries.
LEMMA EntryInAppend ==
  ASSUME NEW l \in Seq(Record), NEW r \in Record
  PROVE  \A k \in Keys :
           EntryIn(Append(l, r), k) =
             IF k # r.key THEN EntryIn(l, k)
             ELSE IF r.op = "Delete" THEN None
             ELSE [value |-> r.value, expiresAtMs |-> r.expiresAtMs]
<1> SUFFICES ASSUME NEW k \in Keys
             PROVE  EntryIn(Append(l, r), k) =
                      IF k # r.key THEN EntryIn(l, k)
                      ELSE IF r.op = "Delete" THEN None
                      ELSE [value |-> r.value, expiresAtMs |-> r.expiresAtMs]
  OBVIOUS
<1> DEFINE s == Append(l, r)
<1>1. /\ LastIn(s, r.key) = Len(l) + 1 /\ s[Len(l) + 1] = r /\ Len(l) \in Nat
      /\ k # r.key => /\ LastIn(s, k) = LastIn(l, k)
                      /\ LastIn(l, k) # 0 => s[LastIn(l, k)] = l[LastIn(l, k)]
  BY LastInAppend, LenProperties
<1> HIDE DEF s
<1>2. EntryIn(s, k) = IF k # r.key THEN EntryIn(l, k)
                      ELSE IF r.op = "Delete" THEN None
                      ELSE [value |-> r.value, expiresAtMs |-> r.expiresAtMs]
  <2>1. CASE k # r.key
    BY <2>1, <1>1 DEF EntryIn
  <2>2. CASE k = r.key
    <3>1. LastIn(s, k) # 0 /\ s[LastIn(s, k)] = r
      BY <2>2, <1>1
    <3> QED
      BY <3>1, <2>2 DEF EntryIn
  <2> QED
    BY <2>1, <2>2
<1> QED
  BY <1>2 DEF s

\* set takes effect when its record is in the file.
LEMMA SetTakesEffect ==
  ASSUME LInv, NEW t \in Threads, Step(t), SetAppend(t)
  PROVE  Map!Set(t)
<1> DEFINE r == [op |-> "Set", key |-> call[t].key, value |-> call[t].value,
                 expiresAtMs |-> loc[t].time]
<1>0. /\ Basic /\ CallOK /\ CallerOK /\ log \in Seq(Record)
  BY DEF LInv, MInv, CInv, Basic, TypeOK
<1>1. /\ r \in Record /\ log' = Append(log, r) /\ call' = call
      /\ pc[t] = "set_append" /\ pc'[t] = "set_install"
  BY <1>0, SetAppendEffect
<1>2. opened' = opened
  BY DEF SetAppend
<1>3. call[t] \in SetRequest /\ call[t].op = "set"
  BY <1>0, <1>1 DEF CallOK, SetLabels, SetRequest
<1>4. PICK s \in call[t].at..now : loc[t].time = (IF call[t].ttl = 0 THEN 0 ELSE s + call[t].ttl)
  BY <1>0, <1>1 DEF CallerOK, SetLabels, StartedAt
<1>5. /\ Db = [k \in Keys |-> EntryIn(log, k)]
      /\ Db' = [k \in Keys |-> EntryIn(Append(log, r), k)]
  BY <1>1, StepMapped
<1>6. \A k \in Keys :
        EntryIn(Append(log, r), k) =
          IF k # call[t].key THEN EntryIn(log, k)
          ELSE [value |-> call[t].value, expiresAtMs |-> loc[t].time]
  BY <1>0, <1>1, EntryInAppend
<1> HIDE DEF r
<1>7. Db' = [Db EXCEPT ![call[t].key] = [value |-> call[t].value, expiresAtMs |-> loc[t].time]]
  BY <1>5, <1>6
<1>8. Map!Answers(t, Map!Answer("OK", None))
  BY <1>1, AnswersNext, Answered DEF Map!Answer, Answer
<1>9. Map!Runs(t, "set")
  BY <1>1, <1>3, RunsInMap DEF ReadLabels
<1>10. \E m \in call[t].at..now :
         Db' = [Db EXCEPT ![call[t].key] =
                  [value |-> call[t].value,
                   expiresAtMs |-> IF call[t].ttl = 0 THEN 0 ELSE m + call[t].ttl]]
  BY <1>4, <1>7
<1> QED
  BY <1>2, <1>8, <1>9, <1>10 DEF Map!Set, Db

\* remove takes effect when its tombstone is in the file.
LEMMA RemoveTakesEffect ==
  ASSUME LInv, NEW t \in Threads, Step(t), RemAppend(t)
  PROVE  Map!Remove(t)
<1> DEFINE r == [op |-> "Delete", key |-> call[t].key, value |-> None, expiresAtMs |-> 0]
<1>0. /\ Basic /\ CallOK /\ CallerOK /\ log \in Seq(Record)
  BY DEF LInv, MInv, CInv, Basic, TypeOK
<1>1. /\ r \in Record /\ log' = Append(log, r) /\ call' = call
      /\ pc[t] = "rem_append" /\ pc'[t] = "rem_erase"
  BY <1>0, RemAppendEffect
<1>2. opened' = opened
  BY DEF RemAppend
<1>3. call[t] \in KeyRequest("remove") /\ call[t].op = "remove" /\ call[t].key \in Keys
  BY <1>0, <1>1 DEF CallOK, RemoveLabels, KeyRequest
<1>4. \E s \in call[t].at..now : Map!LiveAt(EntryIn(log, call[t].key), s)
  BY <1>0, <1>1 DEF CallerOK, WasAlive
<1>5. /\ Db = [k \in Keys |-> EntryIn(log, k)]
      /\ Db' = [k \in Keys |-> EntryIn(Append(log, r), k)]
  BY <1>1, StepMapped
<1>6. \A k \in Keys :
        EntryIn(Append(log, r), k) = IF k # call[t].key THEN EntryIn(log, k) ELSE None
  BY <1>0, <1>1, EntryInAppend
<1> HIDE DEF r
<1>7. Db' = [Db EXCEPT ![call[t].key] = None]
  BY <1>5, <1>6
<1>8. Map!Answers(t, Map!Answer("OK", None))
  BY <1>1, AnswersNext, Answered DEF Map!Answer, Answer
<1>9. Map!Runs(t, "remove")
  BY <1>1, <1>3, RunsInMap DEF ReadLabels
<1>10. \E s \in call[t].at..now : Map!LiveAt(Db[call[t].key], s)
  BY <1>3, <1>4, <1>5
<1> QED
  BY <1>2, <1>7, <1>8, <1>9, <1>10 DEF Map!Remove, Db

\* What a thread past its check finds in the index, when nobody is at work on it,
\* is what is alive in the map.
LEMMA FindsEntries ==
  ASSUME LInv, NEW t \in Threads, Step(t),
         pc[t] \notin QuietLabels \cup {"open_recover", "open_install"},
         writer = None \/ pc[t] \in {"set_append", "rem_append", "comp_write"}
  PROVE  \A k \in Keys :
           /\ index[k] # None => Db[k] = [value |-> ReadAt(index[k].off),
                                          expiresAtMs |-> index[k].expiresAtMs]
           /\ index[k] # None => Db[k] # None
           /\ Map!LiveAt(Db[k], now) <=> index[k] # None /\ ~Expired(k, now)
<1>1. log \in Seq(Record) /\ index \in Index /\ now \in Nat /\ MInv
  BY DEF LInv, MInv, CInv, Basic, TypeOK
<1>2. \A k \in Keys : Matches(log, index[k], k, now)
  BY <1>1, FindsAgreement
<1>3. \A k \in Keys : Db[k] = EntryIn(log, k)
  BY StepMapped
<1> QED
  BY <1>1, <1>2, <1>3, MatchesEntry

\* get takes effect when it reads the index and the clock.
LEMMA GetTakesEffect ==
  ASSUME LInv, NEW t \in Threads, Step(t), GetLock(t)
  PROVE  Map!Get(t)
<1> DEFINE k == call[t].key
<1>0. Basic /\ CallOK /\ pc \in [Threads -> Labels]
  BY DEF LInv, MInv, CInv, Basic, TypeOK
<1>1. /\ pc[t] = "get_lock" /\ writer = None /\ log' = log /\ index' = index /\ call' = call
      /\ opened' = opened
  BY DEF GetLock, CanRead, env
<1>2. call[t].op = "get" /\ k \in Keys
  BY <1>0, <1>1 DEF CallOK, GetLabels, KeyRequest
<1>3. /\ index[k] # None => Db[k] = [value |-> ReadAt(index[k].off),
                                     expiresAtMs |-> index[k].expiresAtMs]
      /\ Map!LiveAt(Db[k], now) <=> index[k] # None /\ ~Expired(k, now)
  BY <1>1, <1>2, FindsEntries DEF QuietLabels
<1>4. Map!Runs(t, "get")
  BY <1>1, <1>2, RunsInMap DEF ReadLabels
<1>5. Db' = Db
  BY <1>1, StepMapped
<1>6. AnswerOf(t)' = IF Map!LiveAt(Db[k], now) THEN Answer("OK", Db[k].value)
                     ELSE Answer("NotFound", None)
  <2>1. CASE index[k] = None
    <3>1. Finish(t, Answer("NotFound", None))
      BY <2>1 DEF GetLock, Expired
    <3> QED
      BY <3>1, <2>1, <1>3, AnswersNext
  <2>2. CASE Expired(k, now)
    <3>1. pc'[t] = "get_erase"
      BY <2>2, <1>0 DEF GetLock, Goto, Expired
    <3>2. AnswersKnown'
      BY AnswersAre, PTL
    <3> QED
      BY <3>1, <3>2, <2>2, <1>3 DEF AnswersKnown
  <2>3. CASE index[k] # None /\ ~Expired(k, now)
    <3>1. pc'[t] = "get_cache"
      BY <2>3, <1>0 DEF GetLock, Goto
    <3>2. AnswerOf(t)' = Answer("OK", ReadAt(index[k].off))
      BY <3>1, <1>1, ReaderAnswers DEF ReadLabels
    <3>3. Db[k].value = ReadAt(index[k].off)
      BY <2>3, <1>3
    <3> QED
      BY <3>2, <3>3, <2>3, <1>3
  <2> QED
    BY <2>1, <2>2, <2>3
<1>7. Map!Answers(t, IF Map!LiveAt(Db[k], now) THEN Answer("OK", Db[k].value)
                     ELSE Answer("NotFound", None))
  BY <1>1, <1>6, Answered
<1>8. Db[k] = EntryOf(k)
  BY <1>2 DEF Db
<1> QED
  BY <1>1, <1>4, <1>5, <1>7, <1>8 DEF Map!Get, Map!Answer, Answer, Db

\* A get returns the value it took effect with, from the cache or from the file;
\* one that cannot read it fails.
LEMMA ReadSteps ==
  ASSUME LInv, OpensAlone, NEW t \in Threads, Step(t), GetCache(t) \/ GetRead(t) \/ GetPut(t)
  PROVE  Map!Fail(t) \/ UNCHANGED <<now, opened, Db, call, Ret>>
<1> DEFINE k == call[t].key
           held == Answer("OK", ReadAt(index[k].off))
<1>0. /\ Basic /\ CallOK /\ LockOK /\ Coherent /\ ReaderOK /\ pc \in [Threads -> Labels]
      /\ writer = None \/ readers = {}
  BY DEF LInv, MInv, CInv, Basic, TypeOK
<1>1. /\ pc[t] \in ReadLabels /\ log' = log /\ index' = index /\ call' = call
      /\ opened' = opened
  BY DEF GetCache, GetRead, GetPut, ReadLabels, env
<1>2. call[t].op = "get" /\ k \in Keys
  BY <1>0, <1>1 DEF CallOK, GetLabels, ReadLabels, KeyRequest
<1>3. AnswerOf(t) = held /\ (pc'[t] \in ReadLabels => AnswerOf(t)' = held)
  BY <1>1, ReaderAnswers
<1>4. CASE GetCache(t)
  <2>1. CASE cache[k] # None
    <3>1. \A u \in Threads : pc[u] \notin {"comp_install", "open_clear"}
      <4>1. writer = None
        BY <1>0, <1>1 DEF LockOK
      <4>2. \A u \in Threads : pc[u] # "comp_install"
        BY <4>1, <1>0, OneWriter DEF WriteLabels
      <4>3. \A u \in Threads : pc[u] # "open_clear"
        BY <1>1 DEF OpensAlone, OpenLabels, ReadLabels, QuietLabels
      <4> QED
        BY <4>2, <4>3
    <3>2. cache[k] = ReadAt(index[k].off)
      BY <3>1, <2>1, <1>0, <1>2 DEF Coherent
    <3>3. AnswerOf(t)' = held
      BY <3>2, <2>1, <1>4, AnswersNext DEF GetCache
    <3> QED
      BY <3>3, <1>1, <1>3, Unseen
  <2>2. CASE cache[k] = None
    <3>1. pc'[t] \in ReadLabels
      BY <2>2, <1>0, <1>4 DEF GetCache, Goto, ReadLabels
    <3> QED
      BY <3>1, <1>1, <1>3, Unseen
  <2> QED
    BY <2>1, <2>2
<1>5. CASE GetRead(t)
  <2>1. CASE pc'[t] = "get_put"
    <3>1. pc'[t] \in ReadLabels
      BY <2>1 DEF ReadLabels
    <3> QED
      BY <3>1, <1>1, <1>3, Unseen
  <2>2. CASE pc'[t] # "get_put"
    <3>1. Finish(t, Answer("IoError", None))
      BY <2>2, <1>0, <1>5 DEF GetRead, Goto
    <3>2. Map!Answers(t, Map!Answer("IoError", None))
      BY <3>1, <1>1, AnswersNext, Answered DEF Map!Answer, Answer
    <3>3. call[t] # None
      BY <1>1, RequestIsCall DEF LInv, CallerOK, ReadLabels
    <3>4. Db' = Db
      BY <1>1, StepMapped
    <3>5. Map!Fail(t)
      BY <3>2, <3>3, <3>4, <1>1, <1>2 DEF Map!Fail, Db
    <3> QED
      BY <3>5
  <2> QED
    BY <2>1, <2>2
<1>6. CASE GetPut(t)
  <2>1. loc[t].value = ReadAt(index[k].off)
    BY <1>0, <1>6 DEF GetPut, ReaderOK
  <2>2. AnswerOf(t)' = held
    BY <2>1, <1>6, AnswersNext DEF GetPut
  <2> QED
    BY <2>2, <1>1, <1>3, Unseen
<1> QED
  BY <1>4, <1>5, <1>6

\* A remove that finds no live entry takes effect then.
LEMMA RemoveChecks ==
  ASSUME LInv, NEW t \in Threads, Step(t), RemLock(t)
  PROVE  Map!RemoveNothing(t) \/ UNCHANGED <<now, opened, Db, call, Ret>>
<1> DEFINE k == call[t].key
<1>0. Basic /\ CallOK /\ pc \in [Threads -> Labels]
  BY DEF LInv, MInv, CInv, Basic, TypeOK
<1>1. /\ pc[t] = "rem_lock" /\ writer = None /\ log' = log /\ call' = call /\ opened' = opened
  BY DEF RemLock, CanWrite, env
<1>2. call[t].op = "remove" /\ k \in Keys
  BY <1>0, <1>1 DEF CallOK, RemoveLabels, KeyRequest
<1>3. CASE index[k] = None \/ Expired(k, now)
  <2>1. ~Map!LiveAt(Db[k], now)
    BY <1>1, <1>2, <1>3, FindsEntries DEF QuietLabels
  <2>2. Map!Answers(t, Map!Answer("NotFound", None))
    BY <1>1, <1>3, AnswersNext, Answered DEF RemLock, Map!Answer, Answer
  <2>3. Map!Runs(t, "remove")
    BY <1>1, <1>2, RunsInMap DEF ReadLabels
  <2>4. Db' = Db
    BY <1>1, StepMapped
  <2>5. Db[k] = EntryOf(k)
    BY <1>2 DEF Db
  <2>6. Map!RemoveNothing(t)
    BY <2>1, <2>2, <2>3, <2>4, <2>5, <1>1 DEF Map!RemoveNothing, Db
  <2> QED
    BY <2>6
<1>4. CASE ~(index[k] = None \/ Expired(k, now))
  <2>1. pc'[t] = "rem_append"
    BY <1>0, <1>4 DEF RemLock, Goto
  <2>2. AnswerOf(t)' = AnswerOf(t)
    BY <2>1, <1>1, AnswersNext DEF Before
  <2> QED
    BY <2>2, <1>1, Unseen
<1> QED
  BY <1>3, <1>4

\* keys takes effect when it reads the index.
LEMMA KeysTakesEffect ==
  ASSUME LInv, NEW t \in Threads, Step(t), KeysList(t)
  PROVE  Map!ListKeys(t)
<1> DEFINE ks == {k \in Keys : index[k] # None}
<1>1. /\ pc[t] = "keys_list" /\ writer = None /\ log' = log /\ call' = call /\ opened' = opened
  BY DEF KeysList, CanRead, env
<1>2. call[t].op = "keys"
  BY <1>1 DEF LInv, CallerOK, KeysLabels
<1>3. \A k \in Keys : /\ index[k] # None => Db[k] # None
                      /\ Map!LiveAt(Db[k], now) => index[k] # None
  BY <1>1, FindsEntries DEF QuietLabels
<1>4. ks \in SUBSET {k \in Keys : Db[k] # None} /\ {k \in Keys : Map!LiveAt(Db[k], now)} \subseteq ks
  BY <1>3
<1>5. Map!Answers(t, Map!Answer("OK", ks))
  BY <1>1, AnswersNext, Answered DEF KeysList, Map!Answer, Answer
<1>6. Map!Runs(t, "keys")
  BY <1>1, <1>2, RunsInMap DEF ReadLabels
<1>7. Db' = Db
  BY <1>1, StepMapped
<1> HIDE DEF ks
<1>8. \E m \in SUBSET {k \in Keys : Db[k] # None} :
        /\ {k \in Keys : Map!LiveAt(Db[k], now)} \subseteq m
        /\ Map!Answers(t, Map!Answer("OK", m))
  BY <1>4, <1>5
<1> QED
  BY <1>1, <1>6, <1>7, <1>8 DEF Map!ListKeys, Db

\* What a compaction leaves of the entries.
LEMMA EntryInCompacted ==
  ASSUME TypeOK, CompactOK, NEW t \in Threads, CompWrite(t), NEW k \in Keys
  PROVE  EntryIn(log', k) = IF index[k] = None THEN None
                            ELSE [value |-> ReadAt(index[k].off),
                                  expiresAtMs |-> index[k].expiresAtMs]
<1>0. log' \in Seq(Record) /\ DOMAIN log' = 1..Len(log')
  BY CompWriteEffect, LenProperties
<1>1. CASE index[k] = None
  <2>1. \A i \in DOMAIN log' : log'[i].key # k
    BY <1>1, CompWriteEffect
  <2>2. LastIn(log', k) = 0
    BY <2>1, <1>0, LastInProperties
  <2> QED
    BY <2>2, <1>1 DEF EntryIn
<1>2. CASE index[k] # None
  <2> DEFINE i == loc'[t].index[k].off
  <2>1. /\ loc'[t].index[k] = [off |-> i, expiresAtMs |-> index[k].expiresAtMs]
        /\ i \in 1..Len(log')
        /\ log'[i] = [op |-> "Set", key |-> k, value |-> ReadAt(index[k].off),
                      expiresAtMs |-> index[k].expiresAtMs]
        /\ \A j \in 1..Len(log') : log'[j].key = k => j = i
    BY <1>2, CompWriteEffect
  <2> HIDE DEF i
  <2>2. i \in Nat /\ i # 0
    BY <2>1, <1>0, LenProperties
  <2>3. log'[i].key = k /\ \A j \in 1..Len(log') : log'[j].key = k => j <= i
    BY <2>1, <2>2
  <2>4. LastIn(log', k) = i
    BY <2>1, <2>3, <1>0, LastInUnique
  <2> QED
    BY <2>1, <2>2, <2>4, <1>2 DEF EntryIn
<1> QED
  BY <1>1, <1>2

\* compact takes effect when the new file replaces the old one, and forgets nothing
\* but expired entries; clean-up changes nothing that shows.
LEMMA MaintenanceSteps ==
  ASSUME LInv, NEW t \in Threads, Step(t), CleanLock(t) \/ CompLock(t) \/ CompWrite(t)
  PROVE  Map!Maintain(t) \/ Map!Fail(t) \/ UNCHANGED <<now, opened, Db, call, Ret>>
<1>0. Basic /\ TypeOK /\ CompactOK /\ pc \in [Threads -> Labels] /\ log \in Seq(Record)
  BY DEF LInv, MInv, CInv, Basic, TypeOK
<1>1. opened' = opened /\ call' = call
  BY DEF CleanLock, CompLock, CompWrite, env
<1>2. CASE CleanLock(t)
  <2>1. pc[t] = "clean_lock" /\ log' = log
    BY <1>2 DEF CleanLock
  <2>2. Map!Runs(t, "cleanup")
    BY <2>1, RunsInMap DEF LInv, CallerOK, ReadLabels
  <2>3. Map!Answers(t, Answer("OK", None))
    BY <1>1, <1>2, AnswersNext, Answered DEF CleanLock
  <2> QED
    BY <2>1, <2>2, <2>3, <1>1, StepMapped, MaintainNothing
<1>3. CASE CompLock(t)
  <2>1. pc[t] = "comp_lock" /\ log' = log
    BY <1>3 DEF CompLock
  <2>2. CASE pc'[t] = "comp_write"
    <3>1. AnswerOf(t)' = AnswerOf(t)
      BY <2>1, <2>2, AnswersNext DEF Before
    <3> QED
      BY <3>1, <2>1, <1>1, Unseen
  <2>3. CASE pc'[t] # "comp_write"
    <3>1. Finish(t, Answer("IoError", None))
      BY <2>3, <1>0, <1>3 DEF CompLock, Goto
    <3>2. Map!Answers(t, Map!Answer("IoError", None))
      BY <3>1, <1>1, AnswersNext, Answered DEF Map!Answer, Answer
    <3>3. call[t] # None /\ Ret[t] = None
      BY <2>1, RunsInMap DEF ReadLabels
    <3>4. Db' = Db
      BY <2>1, StepMapped
    <3>5. Map!Fail(t)
      BY <3>2, <3>3, <3>4, <1>1 DEF Map!Fail, Db, Ret
    <3> QED
      BY <3>5
  <2> QED
    BY <2>2, <2>3
<1>4. CASE CompWrite(t)
  <2> DEFINE ks == {k \in Keys : index[k] = None}
  <2>1. pc[t] = "comp_write" /\ pc'[t] = "comp_install"
    BY <1>4, <1>0 DEF CompWrite, Goto
  <2>2. Map!Runs(t, "compact")
    BY <2>1, RunsInMap DEF LInv, CallerOK, ReadLabels, CompactLabels
  <2>3. Map!Answers(t, Map!Answer("OK", None))
    BY <2>1, <1>1, AnswersNext, Answered DEF Map!Answer, Answer
  <2>4. \A k \in Keys :
          /\ index[k] # None => Db[k] = [value |-> ReadAt(index[k].off),
                                         expiresAtMs |-> index[k].expiresAtMs]
          /\ Map!LiveAt(Db[k], now) => index[k] # None
    BY <2>1, FindsEntries DEF QuietLabels
  <2>5. \A k \in Keys : EntryIn(log', k) = IF k \in ks THEN None ELSE Db[k]
    BY <2>4, <1>0, <1>4, EntryInCompacted
  <2>6. Db' = [k \in Keys |-> IF k \in ks THEN None ELSE Db[k]]
    BY <2>5, StepMapped
  <2>7. ks \in SUBSET {k \in Keys : ~Map!LiveAt(Db[k], now)}
    BY <2>4
  <2> HIDE DEF ks
  <2>8. \E m \in SUBSET {k \in Keys : ~Map!LiveAt(Db[k], now)} :
          Db' = [k \in Keys |-> IF k \in m THEN None ELSE Db[k]]
    BY <2>6, <2>7
  <2>9. Map!Maintain(t)
    BY <2>2, <2>3, <2>8, <1>1 DEF Map!Maintain, Db
  <2> QED
    BY <2>9
<1> QED
  BY <1>2, <1>3, <1>4

\* open takes effect when it sets opened_, close when it clears it.
LEMMA OpenSteps ==
  ASSUME LInv, NEW t \in Threads, Step(t),
         OpenStart(t) \/ OpenRecover(t) \/ OpenFlag(t) \/ Close(t)
  PROVE  Map!Open(t) \/ Map!Close(t) \/ Map!Fail(t) \/ UNCHANGED <<now, opened, Db, call, Ret>>
<1>0. pc \in [Threads -> Labels] /\ opened \in BOOLEAN
  BY DEF LInv, MInv, CInv, Basic, TypeOK
<1>1. log' = log /\ call' = call
  BY DEF OpenStart, OpenRecover, OpenFlag, Close, env
<1>2. Db' = Db
  BY <1>1, StepMapped
<1>3. CASE OpenStart(t)
  <2>1. pc[t] = "start" /\ call[t].op = "open" /\ opened' = opened
    BY <1>3 DEF OpenStart
  <2>2. CASE opened
    <3>1. Map!Answers(t, Map!Answer("OK", None))
      BY <2>2, <1>1, <1>3, AnswersNext, Answered DEF OpenStart, Map!Answer, Answer
    <3>2. Map!Runs(t, "open")
      BY <2>1, RunsInMap DEF ReadLabels
    <3>3. opened' = TRUE
      BY <2>1, <2>2, <1>0
    <3>4. Map!Open(t)
      BY <3>1, <3>2, <3>3, <1>2 DEF Map!Open, Db
    <3> QED
      BY <3>4
  <2>3. CASE ~opened
    <3>1. AnswerOf(t)' = AnswerOf(t)
      BY <2>1, <2>3, <1>0, <1>3, AnswersNext DEF OpenStart, Goto, Before
    <3> QED
      BY <3>1, <2>1, <1>1, Unseen
  <2> QED
    BY <2>2, <2>3
<1>4. CASE OpenRecover(t)
  <2>1. pc[t] = "open_recover" /\ opened' = opened
    BY <1>4 DEF OpenRecover
  <2>2. CASE pc'[t] = "open_install"
    <3>1. AnswerOf(t)' = AnswerOf(t)
      BY <2>1, <2>2, AnswersNext DEF Before
    <3> QED
      BY <3>1, <2>1, <1>1, Unseen
  <2>3. CASE pc'[t] # "open_install"
    <3>1. Finish(t, Answer("IoError", None))
      BY <2>3, <1>0, <1>4 DEF OpenRecover, Goto
    <3>2. Map!Answers(t, Map!Answer("IoError", None))
      BY <3>1, <1>1, AnswersNext, Answered DEF Map!Answer, Answer
    <3>3. call[t] # None /\ Ret[t] = None
      BY <2>1, RunsInMap DEF ReadLabels
    <3>4. Map!Fail(t)
      BY <3>2, <3>3, <2>1, <1>2 DEF Map!Fail, Db, Ret
    <3> QED
      BY <3>4
  <2> QED
    BY <2>2, <2>3
<1>5. CASE OpenFlag(t)
  <2>1. Map!Answers(t, Map!Answer("OK", None))
    BY <1>1, <1>5, AnswersNext, Answered DEF OpenFlag, Map!Answer, Answer
  <2>2. Map!Runs(t, "open")
    BY <1>5, RunsInMap DEF OpenFlag, ReadLabels, LInv, CallerOK, OpenLabels
  <2>3. Map!Open(t)
    BY <2>1, <2>2, <1>2, <1>5 DEF Map!Open, OpenFlag, Db
  <2> QED
    BY <2>3
<1>6. CASE Close(t)
  <2>1. Map!Answers(t, Map!Answer("OK", None))
    BY <1>1, <1>6, AnswersNext, Answered DEF Close, Map!Answer, Answer
  <2>2. Map!Runs(t, "close")
    BY <1>6, RunsInMap DEF Close, ReadLabels
  <2>3. Map!Close(t)
    BY <2>1, <2>2, <1>2, <1>6 DEF Map!Close, Close, Db
  <2> QED
    BY <2>3
<1> QED
  BY <1>3, <1>4, <1>5, <1>6

\* A call returns with its answer.
LEMMA ReturnStep ==
  ASSUME LInv, NEW t \in Threads, Step(t), Return(t)
  PROVE  Map!Return(t)
<1>0. pc \in [Threads -> Labels] /\ CallerOK
  BY DEF LInv, MInv, CInv, Basic, TypeOK
<1>1. /\ pc[t] = "done" /\ pc'[t] = "idle" /\ log' = log /\ opened' = opened
      /\ call' = [call EXCEPT ![t] = None]
  BY <1>0 DEF Return, Goto
<1>2. AnswerOf(t) = res[t] /\ res[t] # None
  BY <1>0, <1>1, AnswersAre DEF AnswersKnown, CallerOK
<1>3. AnswerOf(t)' = None
  BY <1>1, AnswersNext
<1>4. Ret' = [Ret EXCEPT ![t] = None] /\ now' = now /\ Db' = Db
  BY <1>1, <1>3, StepMapped
<1>5. Ret[t] # None
  BY <1>2 DEF Ret
<1> QED
  BY <1>1, <1>4, <1>5 DEF Map!Return, Db, Ret

\* Every step of a thread is a step of the map, or does not show in it.
LEMMA StepRefines ==
  ASSUME LInv, OpensAlone, NEW t \in Threads, Step(t)
  PROVE  Map!Next \/ UNCHANGED <<now, opened, Db, call, Ret>>
<1>1. CASE SetInstall(t) \/ GetErase(t) \/ RemErase(t) \/ CompInstall(t)
           \/ KeysCheck(t) \/ KeysClean(t) \/ OpenInstall(t) \/ OpenClear(t)
  BY <1>1, QuietSteps
<1>2. CASE Start(t) \/ SetLock(t) \/ WriteFails(t)
  BY <1>2, CheckSteps DEF Map!Next
<1>3. CASE SetAppend(t)
  BY <1>3, SetTakesEffect DEF Map!Next
<1>4. CASE RemAppend(t)
  BY <1>4, RemoveTakesEffect DEF Map!Next
<1>5. CASE GetLock(t)
  BY <1>5, GetTakesEffect DEF Map!Next
<1>6. CASE GetCache(t) \/ GetRead(t) \/ GetPut(t)
  BY <1>6, ReadSteps DEF Map!Next
<1>7. CASE RemLock(t)
  BY <1>7, RemoveChecks DEF Map!Next
<1>8. CASE KeysList(t)
  BY <1>8, KeysTakesEffect DEF Map!Next
<1>9. CASE CleanLock(t) \/ CompLock(t) \/ CompWrite(t)
  BY <1>9, MaintenanceSteps DEF Map!Next
<1>10. CASE OpenStart(t) \/ OpenRecover(t) \/ OpenFlag(t) \/ Close(t)
  BY <1>10, OpenSteps DEF Map!Next
<1>11. CASE Return(t)
  BY <1>11, ReturnStep DEF Map!Next
<1> QED
  BY <1>1, <1>2, <1>3, <1>4, <1>5, <1>6, <1>7, <1>8, <1>9, <1>10, <1>11 DEF Step

\* So is every other step, as long as open() has the store to itself.
LEMMA NextRefines ==
  LInv /\ OpensAlone /\ [Next]_vars => [Map!Next]_<<now, opened, Db, call, Ret>>
<1> SUFFICES ASSUME LInv, OpensAlone, [Next]_vars
             PROVE  Map!Next \/ UNCHANGED <<now, opened, Db, call, Ret>>
  OBVIOUS
<1>0. /\ Basic /\ CallTyped /\ CallerOK /\ pc \in [Threads -> Labels] /\ log \in Seq(Record)
      /\ EntriesKnown /\ AnswersKnown
  BY EntriesAre, AnswersAre DEF LInv, MInv, CInv, Basic, TypeOK
<1>a. EntriesKnown' /\ AnswersKnown'
  BY EntriesAre, AnswersAre, PTL
<1>1. ASSUME NEW t \in Threads, Step(t)
      PROVE  Map!Next \/ UNCHANGED <<now, opened, Db, call, Ret>>
  BY <1>1, StepRefines
<1>2. ASSUME NEW t \in Threads, Invoke(t) \/ InvokeOpen(t) PROVE Map!Next
  <2>1. /\ pc[t] = "idle" /\ pc' = [pc EXCEPT ![t] = "start"]
        /\ UNCHANGED <<opened, index, log, now, loc, res>>
    BY <1>2 DEF Invoke, InvokeOpen, Goto
  <2>2. PICK o \in Calls \cup {"open"} :
          \E c \in Requests(o) : call' = [call EXCEPT ![t] = c]
    BY <1>2 DEF Invoke, InvokeOpen
  <2>3. o \in Map!Ops /\ Requests(o) = Map!Requests(o)
    BY KeyValueStoreAssumption DEF Map!Ops, Requests, Map!Requests
  <2>4. call[t] = None
    BY <2>1, <1>0 DEF CallerOK
  <2>5. \A u \in Threads : u # t => call'[u] = call[u] /\ pc'[u] = pc[u]
    BY <2>1, <2>2, <1>0 DEF CallTyped
  <2>6. \A u \in Threads : AnswerOf(u)' = AnswerOf(u)
    <3>1. AnswerOf(t)' = None /\ AnswerOf(t) = None
      BY <2>1, <1>0, <1>a DEF AnswersKnown, ReadLabels
    <3>2. ASSUME NEW u \in Threads, u # t PROVE AnswerOf(u)' = AnswerOf(u)
      <4>1. ReadAt(index[call[u].key].off)' = ReadAt(index[call[u].key].off)
        BY <2>1, <2>5, <3>2 DEF ReadAt
      <4> QED
        BY <4>1, <3>2, <2>1, <2>5, <1>0, <1>a DEF AnswersKnown
    <3> QED
      BY <3>1, <3>2
  <2>7. Ret' = Ret
    BY <2>6 DEF Ret
  <2>8. Db' = Db
    BY <2>1, <1>0, <1>a DEF EntriesKnown, Db
  <2>9. Map!Invoke(t)
    BY <2>1, <2>2, <2>3, <2>4, <2>7, <2>8 DEF Map!Invoke, Db, Ret
  <2> QED
    BY <2>9 DEF Map!Next
<1>3. ASSUME Tick \/ UNCHANGED vars
      PROVE  Db' = Db /\ Ret' = Ret
  <2>1. UNCHANGED <<index, log, pc, call, res>>
    BY <1>3 DEF Tick, vars
  <2>2. Db' = Db
    BY <2>1, <1>0, <1>a DEF EntriesKnown, Db
  <2>3. ASSUME NEW u \in Threads PROVE AnswerOf(u)' = AnswerOf(u)
    <3>1. ReadAt(index[call[u].key].off)' = ReadAt(index[call[u].key].off)
      BY <2>1 DEF ReadAt
    <3> QED
      BY <3>1, <2>1, <1>0, <1>a DEF AnswersKnown
  <2> QED
    BY <2>2, <2>3 DEF Ret
<1>4. CASE Tick
  <2>1. Map!Tick
    BY <1>3, <1>4 DEF Tick, Map!Tick, Db, Ret
  <2> QED
    BY <2>1 DEF Map!Next
<1>5. CASE UNCHANGED vars
  <2>1. UNCHANGED <<now, opened, call>>
    BY <1>5 DEF vars
  <2> QED
    BY <1>3, <1>5, <2>1
<1> QED
  BY <1>1, <1>2, <1>4, <1>5 DEF Next, Quiescent

\* The program starts with the map its data file holds.
LEMMA InitRefines == Init => Map!Init
<1> SUFFICES ASSUME Init PROVE Map!Init
  OBVIOUS
<1>1. log \in Seq(Record)
  BY LogsAssumption DEF Init
<1>2. \A k \in Keys : EntryOf(k) = None \/ EntryOf(k) \in [value: Values, expiresAtMs: Nat]
  BY <1>1, EntriesAre, EntryInType DEF EntriesKnown
<1>3. Ret = [t \in Threads |-> None]
  BY AnswersAre DEF AnswersKnown, Init, Ret, ReadLabels
<1> QED
  BY <1>2, <1>3 DEF Map!Init, Map!Entry, Init, Ret

-----------------------------------------------------------------------------
(* Linearizability. *)

\* Whatever the threads call, each call takes effect at one moment between its
\* invocation and its return, as the map of KVMap says, as long as no other call
\* runs while open() does.
THEOREM CallsAreLinearizable == Spec /\ []OpensAlone => Linearizable
<1>1. Init /\ CInv => LInv
  BY InitLInv
<1>2. LInv /\ OpensAlone /\ [Next]_vars => LInv'
  BY NextLInv
<1>3. LInv /\ OpensAlone /\ [Next]_vars => [Map!Next]_Map!vars
  BY NextRefines DEF Map!vars, Db, Ret
<1> QED
  BY <1>1, <1>2, <1>3, CInvInvariance, InitRefines, PTL DEF Spec, Linearizable, Map!Spec

\* In a program that calls open() once at most, whatever else its threads call, the
\* calls are linearizable: nobody has to see to it that open() runs alone.
THEOREM OneOpenIsLinearizable ==
  ASSUME MaxOpens <= 1
  PROVE  Spec => Linearizable
<1>1. (MaxOpens <= 1 => OpensAlone) => OpensAlone
  OBVIOUS
<1> QED
  BY <1>1, OneOpenRunsAlone, CallsAreLinearizable, PTL

=============================================================================
