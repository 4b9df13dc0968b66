------------------------- MODULE CleanerThreadProofs -------------------------
(***************************************************************************)
(* Safety of the background cleaner, for any number of callers and calls.  *)
(*                                                                         *)
(* As long as no two calls overlap, at most one caller is inside one, and  *)
(* where it is determines what opened_ and cleanerThread_ can be.          *)
(***************************************************************************)
EXTENDS CleanerThread, TLAPS

OpenLabels == {"check", "recover", "reset", "flag", "start"}
StopLabels == {"stop", "notify", "join"}

\* Only open() is at a label of open(): a destructor never ends from there.
OpInv == \A c \in Callers : pc[c] \in OpenLabels => op[c] = "open"

\* At most one caller is in a call.
Alone == \A c, d \in Callers : pc[c] # "idle" /\ pc[d] # "idle" => c = d

\* A closed store has a cleaner only while a close() is about to join it.
Quiet == ~opened /\ joinable => \E c \in Callers : pc[c] \in StopLabels

\* What the caller inside a call knows.
Known ==
  \A c \in Callers :
    /\ pc[c] \in {"recover", "reset", "flag"} => ~opened /\ ~joinable
    /\ pc[c] = "start" => opened /\ ~joinable
    /\ pc[c] = "destruct" => ~joinable
    /\ pc[c] \in StopLabels => ~opened
    /\ pc[c] \in {"flag", "start"} => ~stopRequested
    /\ pc[c] \in {"notify", "join"} => stopRequested

\* A cleaner that was late once has no wait and no pass before it any more, and
\* one that was woken up has none since the stop request.
Prompt ==
  /\ late <= 1
  /\ woken => late = 0
  /\ stopRequested /\ woken => cleaner \in {"test", "decide", "finished", "none"}
  /\ stopRequested /\ late = 1 => cleaner \in {"loop", "decide", "finished", "none"}

\* The inductive invariant.
IInv ==
  /\ TypeOK
  /\ OpInv
  /\ TerminatesOnlyOnOverlap
  /\ ~overlapped => Alone /\ Quiet /\ Known /\ Prompt

-----------------------------------------------------------------------------

\* The initial states satisfy the invariant.
LEMMA InitIInv == Init => IInv
<1> SUFFICES ASSUME Init PROVE IInv
  OBVIOUS
<1> USE DEF Init
<1>1. TypeOK
  <2>1. joinable <=> cleaner # "none"
    OBVIOUS
  <2>2. calls \in 0..MaxCalls /\ late \in Nat
    BY CleanerThreadAssumption
  <2>3. op \in [Callers -> {"none", "open", "close", "destroy"}] /\ pc \in [Callers -> Labels]
    BY DEF Labels
  <2> QED
    BY <2>1, <2>2, <2>3 DEF TypeOK, CleanerLabels
<1>2. OpInv /\ TerminatesOnlyOnOverlap
  BY DEF OpInv, TerminatesOnlyOnOverlap, OpenLabels
<1>3. Alone /\ Quiet /\ Known /\ Prompt
  BY DEF Alone, Quiet, Known, Prompt, StopLabels
<1> QED
  BY <1>1, <1>2, <1>3 DEF IInv

\* Every step keeps the types.
LEMMA TypeNext == TypeOK /\ [Next]_vars => TypeOK'
<1> SUFFICES ASSUME TypeOK, [Next]_vars PROVE TypeOK'
  OBVIOUS
<1> USE CleanerThreadAssumption DEF TypeOK, Labels, CleanerLabels, flags, thread, history
<1>1. CASE UNCHANGED vars
  BY <1>1 DEF vars
<1>2. ASSUME NEW c \in Callers, NEW o \in {"open", "close", "destroy"}, Invoke(c, o)
      PROVE TypeOK'
  BY <1>2 DEF Invoke, At, Goto
<1>3. ASSUME NEW c \in Callers, Caller(c) PROVE TypeOK'
  <2> USE DEF At, Goto, Return
  <2>1. CASE OpenCheck(c)
    BY <2>1 DEF OpenCheck
  <2>2. CASE OpenRecover(c)
    BY <2>2 DEF OpenRecover
  <2>3. CASE OpenReset(c)
    BY <2>3 DEF OpenReset
  <2>4. CASE OpenFlag(c)
    BY <2>4 DEF OpenFlag
  <2>5. CASE OpenStart(c)
    BY <2>5 DEF OpenStart
  <2>6. CASE OpenStartFails(c)
    BY <2>6 DEF OpenStartFails
  <2>7. CASE CloseExchange(c)
    BY <2>7 DEF CloseExchange
  <2>8. CASE CloseStop(c)
    BY <2>8 DEF CloseStop
  <2>9. CASE CloseNotify(c)
    BY <2>9 DEF CloseNotify
  <2>10. CASE CloseJoin(c)
    BY <2>10 DEF CloseJoin
  <2>11. CASE Destruct(c)
    BY <2>11 DEF Destruct
  <2> QED
    BY <1>3, <2>1, <2>2, <2>3, <2>4, <2>5, <2>6, <2>7, <2>8, <2>9, <2>10, <2>11 DEF Caller
<1>4. CASE Cleaner \/ WakeUp
  <2> USE DEF CleanerSteps, CleanerAt, CountLate
  <2>1. CASE Loop
    BY <2>1 DEF Loop
  <2>2. CASE Test
    BY <2>2 DEF Test
  <2>3. CASE Block
    BY <2>3 DEF Block
  <2>4. CASE Timeout
    BY <2>4 DEF Timeout
  <2>5. CASE Decide
    BY <2>5 DEF Decide
  <2>6. CASE PassClosed
    BY <2>6 DEF PassClosed
  <2>7. CASE PassOpen
    BY <2>7 DEF PassOpen
  <2>8. CASE Erase
    <3>1. late' \in Nat
      BY <2>8 DEF Erase
    <3>2. joinable' <=> cleaner' # "none"
      BY <2>8 DEF Erase
    <3> QED
      BY <2>8, <3>1, <3>2 DEF Erase
  <2>9. CASE WakeUp
    BY <2>9 DEF WakeUp
  <2> QED
    BY <1>4, <2>1, <2>2, <2>3, <2>4, <2>5, <2>6, <2>7, <2>8, <2>9 DEF Cleaner
<1>5. CASE Expire
  BY <1>5 DEF Expire
<1> QED
  BY <1>1, <1>2, <1>3, <1>4, <1>5 DEF Next, Quiescent

\* Every step keeps the rest of the invariant.
LEMMA NextIInv == IInv /\ [Next]_vars => IInv'
<1> SUFFICES ASSUME IInv, [Next]_vars PROVE IInv'
  OBVIOUS
<1>0. TypeOK'
  BY TypeNext DEF IInv
<1> DEFINE Rest == /\ OpInv
                   /\ TerminatesOnlyOnOverlap
                   /\ ~overlapped => Alone /\ Quiet /\ Known /\ Prompt
<1>t. TypeOK /\ Rest
  BY DEF IInv
<1> SUFFICES Rest'
  BY <1>0 DEF IInv
<1> USE DEF TypeOK, OpInv, TerminatesOnlyOnOverlap, Alone, Quiet, Known, Prompt,
            OpenLabels, StopLabels, flags, thread, history
<1>1. CASE UNCHANGED vars
  BY <1>1, <1>t DEF vars
<1>2. ASSUME NEW c \in Callers, NEW o \in {"open", "close", "destroy"}, Invoke(c, o)
      PROVE Rest'
  BY <1>2, <1>t DEF Invoke, At, Goto
<1>3. ASSUME NEW c \in Callers, Caller(c) PROVE Rest'
  <2> USE <1>t DEF At, Goto, Return
  <2>1. CASE OpenCheck(c)
    BY <2>1 DEF OpenCheck
  <2>2. CASE OpenRecover(c)
    BY <2>2 DEF OpenRecover
  <2>3. CASE OpenReset(c)
    BY <2>3 DEF OpenReset
  <2>4. CASE OpenFlag(c)
    BY <2>4 DEF OpenFlag
  <2>5. CASE OpenStart(c)
    <3>1. CASE joinable
      BY <2>5, <3>1 DEF OpenStart
    <3>2. CASE ~joinable
      BY <2>5, <3>2 DEF OpenStart
    <3> QED
      BY <3>1, <3>2
  <2>6. CASE OpenStartFails(c)
    BY <2>6 DEF OpenStartFails
  <2>7. CASE CloseExchange(c)
    BY <2>7 DEF CloseExchange
  <2>8. CASE CloseStop(c)
    BY <2>8 DEF CloseStop
  <2>9. CASE CloseNotify(c)
    <3>1. CASE cleaner = "blocked"
      BY <2>9, <3>1 DEF CloseNotify
    <3>2. CASE cleaner # "blocked"
      <4>1. ~woken' /\ cleaner' = cleaner
        BY <2>9, <3>2 DEF CloseNotify
      <4> QED
        BY <2>9, <4>1 DEF CloseNotify
    <3> QED
      BY <3>1, <3>2
  <2>10. CASE CloseJoin(c)
    BY <2>10 DEF CloseJoin
  <2>11. CASE Destruct(c)
    BY <2>11 DEF Destruct
  <2> QED
    BY <1>3, <2>1, <2>2, <2>3, <2>4, <2>5, <2>6, <2>7, <2>8, <2>9, <2>10, <2>11 DEF Caller
<1>4. CASE Cleaner \/ WakeUp
  <2> USE <1>t DEF CleanerSteps, CleanerAt, CountLate
  <2>1. CASE Loop
    BY <2>1 DEF Loop
  <2>2. CASE Test
    BY <2>2 DEF Test
  <2>3. CASE Block
    BY <2>3 DEF Block
  <2>4. CASE Timeout
    BY <2>4 DEF Timeout
  <2>5. CASE Decide
    BY <2>5 DEF Decide
  <2>6. CASE PassClosed
    BY <2>6 DEF PassClosed
  <2>7. CASE PassOpen
    BY <2>7 DEF PassOpen
  <2>8. CASE Erase
    BY <2>8 DEF Erase
  <2>9. CASE WakeUp
    BY <2>9 DEF WakeUp
  <2> QED
    BY <1>4, <2>1, <2>2, <2>3, <2>4, <2>5, <2>6, <2>7, <2>8, <2>9 DEF Cleaner
<1>5. CASE Expire
  BY <1>5, <1>t DEF Expire
<1> QED
  BY <1>1, <1>2, <1>3, <1>4, <1>5 DEF Next, Quiescent

-----------------------------------------------------------------------------

\* The invariant holds in every reachable state.
LEMMA Invariant == Spec => []IInv
  BY InitIInv, NextIInv, PTL DEF Spec

\* However many callers open, close and destroy the store: the flags and the thread
\* object stay well-typed, and there is a cleaner exactly if cleanerThread_ is joinable.
THEOREM TypeCorrect == Spec => []TypeOK
<1>1. IInv => TypeOK
  BY DEF IInv
<1> QED
  BY <1>1, Invariant, PTL

\* cleanerThread_ ends the program only after two calls have overlapped.
THEOREM TerminatesOnlyOnOverlapHolds == Spec => []TerminatesOnlyOnOverlap
<1>1. IInv => TerminatesOnlyOnOverlap
  BY DEF IInv
<1> QED
  BY <1>1, Invariant, PTL

\* A store that close() has left has no cleaner any more.
THEOREM ClosedMeansQuietHolds == Spec => []ClosedMeansQuiet
<1>1. IInv => ClosedMeansQuiet
  BY DEF IInv, ClosedMeansQuiet, Quiet, TypeOK, StopLabels
<1> QED
  BY <1>1, Invariant, PTL

\* close() waits for at most one wait or pass of the cleaner, and for none if its
\* notification has woken it up.
THEOREM StopsPromptlyHolds == Spec => []StopsPromptly
<1>1. IInv => StopsPromptly
  BY DEF IInv, StopsPromptly, Prompt
<1> QED
  BY <1>1, Invariant, PTL

=============================================================================
