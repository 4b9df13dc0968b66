---------------------------- MODULE CleanerThread ----------------------------
(***************************************************************************)
(* The life of the background cleaner of the engine (KeyValueStore.cpp):   *)
(* open() starts it, cleanerLoop() waits and cleans, close() and the       *)
(* destructor stop and join it.                                            *)
(*                                                                         *)
(* Every access to opened_, stopRequested_ and cleanerThread_ is a step of *)
(* its own: no lock protects them.  cleanerMutex_ does not appear, because *)
(* nobody but the cleaner takes it: close() notifies without it.  Of the   *)
(* index one thing is kept, whether it holds an expired entry.             *)
(***************************************************************************)
EXTENDS Naturals

CONSTANTS
  Callers,   \* the threads that call open(), close() and the destructor
  MaxCalls   \* bound: number of those calls

ASSUME CleanerThreadAssumption == MaxCalls \in Nat

VARIABLES
  config,         \* config_: startBackgroundCleaner, and is cleanupInterval positive
  life,           \* the object: "alive", "destroyed", or "terminated" with the program
  opened,         \* opened_
  stopRequested,  \* stopRequested_
  joinable,       \* cleanerThread_.joinable()
  cleaner,        \* where the cleaner is; "none" when there is no such thread
  expired,        \* index_ holds an entry whose time has come
  op, pc,         \* the call every caller is in, and where in it
  calls,          \* number of calls so far
  overlapped,     \* history: two calls have overlapped
  late,           \* history: waits and passes that ended after the stop request
  woken           \* history: the notification after it reached a blocked cleaner

vars == <<config, life, opened, stopRequested, joinable, cleaner, expired, op, pc,
          calls, overlapped, late, woken>>

flags == <<config, life, opened, stopRequested, joinable>>
thread == <<cleaner, expired, late, woken>>
history == <<op, calls, overlapped>>

CleanerLabels == {"none", "loop", "test", "wait", "blocked", "decide", "pass",
                  "erase", "finished"}
Labels == {"idle", "check", "recover", "reset", "flag", "start", "exchange",
           "stop", "notify", "join", "destruct"}

\* There is a cleaner if and only if cleanerThread_ stands for one.
TypeOK ==
  /\ config \in [startBackgroundCleaner: BOOLEAN, positiveInterval: BOOLEAN]
  /\ life \in {"alive", "destroyed", "terminated"}
  /\ opened \in BOOLEAN
  /\ stopRequested \in BOOLEAN
  /\ joinable \in BOOLEAN
  /\ cleaner \in CleanerLabels
  /\ joinable <=> cleaner # "none"
  /\ expired \in BOOLEAN
  /\ op \in [Callers -> {"none", "open", "close", "destroy"}]
  /\ pc \in [Callers -> Labels]
  /\ calls \in 0..MaxCalls
  /\ overlapped \in BOOLEAN
  /\ late \in Nat
  /\ woken \in BOOLEAN

Init ==
  /\ config \in [startBackgroundCleaner: BOOLEAN, positiveInterval: BOOLEAN]
  /\ life = "alive"
  /\ opened = FALSE
  /\ stopRequested = FALSE
  /\ joinable = FALSE
  /\ cleaner = "none"
  /\ expired = FALSE
  /\ op = [c \in Callers |-> "none"]
  /\ pc = [c \in Callers |-> "idle"]
  /\ calls = 0
  /\ overlapped = FALSE
  /\ late = 0
  /\ woken = FALSE

-----------------------------------------------------------------------------
(* The callers. *)

At(c, l) == life = "alive" /\ pc[c] = l
Goto(c, l) == pc' = [pc EXCEPT ![c] = l]

\* The destructor is called once nobody else uses the object.
Invoke(c, o) ==
  /\ At(c, "idle")
  /\ calls < MaxCalls
  /\ \A d \in Callers : (o = "destroy" => pc[d] = "idle") /\ op[d] # "destroy"
  /\ op' = [op EXCEPT ![c] = o]
  /\ calls' = calls + 1
  /\ overlapped' = (overlapped \/ \E d \in Callers : pc[d] # "idle")
  /\ Goto(c, IF o = "open" THEN "check" ELSE "exchange")
  /\ UNCHANGED <<flags, thread>>

\* A call ends; the destructor goes on after its close().
Return(c) ==
  /\ Goto(c, IF op[c] = "destroy" THEN "destruct" ELSE "idle")
  /\ op' = [op EXCEPT ![c] = IF @ = "destroy" THEN @ ELSE "none"]
  /\ UNCHANGED <<calls, overlapped>>

\* Mutant: open() does not look at opened_.
OpenCheckTwice(c) ==
  /\ At(c, "check")
  /\ Goto(c, "recover")
  /\ UNCHANGED <<flags, thread, history>>

OpenCheck(c) ==
  /\ At(c, "check")
  /\ IF opened \/ ~config.positiveInterval
     THEN Return(c)
     ELSE Goto(c, "recover") /\ UNCHANGED history
  /\ UNCHANGED <<flags, thread>>

\* The storage is opened and the index recovered, which holds no expired entry;
\* or one of the two fails.
OpenRecover(c) ==
  /\ At(c, "recover")
  /\ \/ Goto(c, "reset") /\ expired' = FALSE /\ UNCHANGED history
     \/ Return(c) /\ UNCHANGED expired
  /\ UNCHANGED <<flags, cleaner, late, woken>>

\* Mutant: the stop request of the last close() is not taken back.
OpenResetForgotten(c) ==
  /\ At(c, "reset")
  /\ Goto(c, "flag")
  /\ UNCHANGED <<flags, thread, history>>

OpenReset(c) ==
  /\ At(c, "reset")
  /\ stopRequested' = FALSE
  /\ Goto(c, "flag")
  /\ UNCHANGED <<config, life, opened, joinable, thread, history>>

OpenFlag(c) ==
  /\ At(c, "flag")
  /\ opened' = TRUE
  /\ IF config.startBackgroundCleaner
     THEN Goto(c, "start") /\ UNCHANGED history
     ELSE Return(c)
  /\ UNCHANGED <<config, life, stopRequested, joinable, thread>>

\* Assigning to a joinable std::thread ends the program.
OpenStart(c) ==
  /\ At(c, "start")
  /\ IF joinable
     THEN life' = "terminated" /\ UNCHANGED <<joinable, cleaner, pc, history>>
     ELSE joinable' = TRUE /\ cleaner' = "loop" /\ Return(c) /\ UNCHANGED life
  /\ UNCHANGED <<config, opened, stopRequested, expired, late, woken>>

\* The thread cannot be created: open() returns IO_ERROR.
OpenStartFails(c) ==
  /\ At(c, "start")
  /\ opened' = FALSE
  /\ Return(c)
  /\ UNCHANGED <<config, life, stopRequested, joinable, thread>>

CloseExchange(c) ==
  /\ At(c, "exchange")
  /\ opened' = FALSE
  /\ IF opened THEN Goto(c, "stop") /\ UNCHANGED history ELSE Return(c)
  /\ UNCHANGED <<config, life, stopRequested, joinable, thread>>

CloseStop(c) ==
  /\ At(c, "stop")
  /\ stopRequested' = TRUE
  /\ late' = 0
  /\ woken' = FALSE
  /\ Goto(c, "notify")
  /\ UNCHANGED <<config, life, opened, joinable, cleaner, expired, history>>

\* A cleaner that is not blocked yet does not notice: for it the notification is lost.
CloseNotify(c) ==
  /\ At(c, "notify")
  /\ woken' = (cleaner = "blocked")
  /\ cleaner' = IF cleaner = "blocked" THEN "test" ELSE cleaner
  /\ Goto(c, "join")
  /\ UNCHANGED <<flags, expired, late, history>>

\* Mutant: close() detaches the cleaner.
CloseJoinDetaches(c) ==
  /\ At(c, "join")
  /\ joinable' = FALSE
  /\ Return(c)
  /\ UNCHANGED <<config, life, opened, stopRequested, thread>>

\* Mutant: close() does not wait for the cleaner.
CloseJoinForgotten(c) ==
  /\ At(c, "join")
  /\ Return(c)
  /\ UNCHANGED <<flags, thread>>

\* joinable() and join(): nobody can change cleanerThread_ in between but a third
\* caller (two joins of one thread are undefined), and Callers are two in the runs.
CloseJoin(c) ==
  /\ At(c, "join")
  /\ joinable => cleaner = "finished"
  /\ joinable' = FALSE
  /\ cleaner' = "none"
  /\ Return(c)
  /\ UNCHANGED <<config, life, opened, stopRequested, expired, late, woken>>

\* The members are destroyed: a joinable std::thread ends the program.
Destruct(c) ==
  /\ At(c, "destruct")
  /\ life' = IF joinable THEN "terminated" ELSE "destroyed"
  /\ Goto(c, "idle")
  /\ UNCHANGED <<config, opened, stopRequested, joinable, thread, history>>

-----------------------------------------------------------------------------
(* cleanerLoop *)

CleanerAt(l) == life = "alive" /\ cleaner = l

\* What the cleaner does after a stop request, it does while close() waits.
CountLate == late' = IF stopRequested THEN late + 1 ELSE late

CleanerSteps(from, to) ==
  /\ CleanerAt(from)
  /\ cleaner' = to
  /\ UNCHANGED <<flags, expired, woken, pc, history>>

Loop == CleanerSteps("loop", IF stopRequested THEN "finished" ELSE "test") /\ UNCHANGED late

\* Mutant: wait_for without a predicate, in a loop.
TestNothing == CleanerSteps("test", "wait") /\ UNCHANGED late

\* wait_for: the predicate is tested, the thread blocks, and it tests again when
\* it is woken up, by close() or spuriously.
Test == CleanerSteps("test", IF stopRequested THEN "decide" ELSE "wait") /\ UNCHANGED late
Block == CleanerSteps("wait", "blocked") /\ UNCHANGED late
WakeUp == CleanerSteps("blocked", "test") /\ UNCHANGED late

\* Mutant: wait instead of wait_for.
NoTimeout == FALSE

\* cleanupInterval is over.
Timeout == CleanerSteps("blocked", "decide") /\ CountLate

\* Mutant: no look at stopRequested_ between the wait and the pass.
DecideBlindly == CleanerSteps("decide", "pass") /\ UNCHANGED late

Decide == CleanerSteps("decide", IF stopRequested THEN "finished" ELSE "pass") /\ UNCHANGED late

\* cleanupExpired does nothing in a closed store.
PassClosed == ~opened /\ CleanerSteps("pass", "loop") /\ CountLate
PassOpen == opened /\ CleanerSteps("pass", "erase") /\ UNCHANGED late

Erase ==
  /\ CleanerAt("erase")
  /\ cleaner' = "loop"
  /\ expired' = FALSE
  /\ CountLate
  /\ UNCHANGED <<flags, woken, pc, history>>

-----------------------------------------------------------------------------

\* The time of an entry of an open store comes.
Expire ==
  /\ life = "alive"
  /\ opened
  /\ expired' = TRUE
  /\ UNCHANGED <<flags, cleaner, op, pc, calls, overlapped, late, woken>>

Caller(c) ==
  \/ OpenCheck(c) \/ OpenRecover(c) \/ OpenReset(c) \/ OpenFlag(c)
  \/ OpenStart(c) \/ OpenStartFails(c)
  \/ CloseExchange(c) \/ CloseStop(c) \/ CloseNotify(c) \/ CloseJoin(c)
  \/ Destruct(c)

Cleaner ==
  \/ Loop \/ Test \/ Block \/ Timeout \/ Decide \/ PassClosed \/ PassOpen \/ Erase

\* Nobody is in a call; the object may be left like that.
Quiescent ==
  /\ life # "alive" \/ \A c \in Callers : pc[c] = "idle"
  /\ UNCHANGED vars

Next ==
  \/ \E c \in Callers : Caller(c) \/ \E o \in {"open", "close", "destroy"} : Invoke(c, o)
  \/ Cleaner \/ WakeUp
  \/ Expire
  \/ Quiescent

Spec == Init /\ [][Next]_vars

\* Callers that are in a call and the cleaner are run again and again.  The wait
\* has one deadline, however often it is woken up before: so it times out.
FairSpec ==
  /\ Spec
  /\ \A c \in Callers : WF_vars(Caller(c))
  /\ WF_vars(Cleaner)
  /\ SF_vars(Timeout)

-----------------------------------------------------------------------------
(* Properties. *)

\* As long as calls of open() and close() do not overlap, the program is never
\* terminated by cleanerThread_: neither by an open() that assigns to it, nor by
\* the destructor, however often the store is closed and opened again and
\* whichever of the opens fail.
TerminatesOnlyOnOverlap == life = "terminated" => overlapped

\* Between two calls, a closed store has no cleaner any more that would go on
\* using the object; so a destroyed one has none.
ClosedMeansQuiet ==
  ~overlapped /\ ~opened /\ (\A c \in Callers : pc[c] = "idle") => cleaner = "none"

\* A close() whose notification reaches a blocked cleaner waits for nothing more: no
\* wait and no pass ends after its stop request.  That is "notify_all() wakes the
\* wait at once".  But close() notifies without cleanerMutex_, and a notification
\* that comes between the cleaner's test and its wait is lost: then close() waits
\* until cleanupInterval is over, or for the pass that runs, and never for both.
StopsPromptly == ~overlapped => late <= (IF woken THEN 0 ELSE 1)

\* Every call returns; close() does, also when its notification is lost.
CallsReturn ==
  \A c \in Callers : pc[c] # "idle" ~> pc[c] = "idle" \/ overlapped

\* An entry that has expired in an open store is erased without anybody asking
\* for it, unless the store is closed first; also after it was opened again.
ExpiredIsErased ==
  expired /\ opened /\ config.startBackgroundCleaner ~> ~expired \/ ~opened \/ overlapped

=============================================================================
