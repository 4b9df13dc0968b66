----------------------------- MODULE ShellProofs -----------------------------
(***************************************************************************)
(* The answers of the shell follow from the commands it has acknowledged,  *)
(* for all lines, arguments, sizes, integers and sessions.                 *)
(***************************************************************************)
EXTENDS Shell, CommandParserProofs, FiniteSetTheorems

\* The engine is open.
Opened == phase \in {"prompt", "erase"}

\* What is known of the arguments, the clock, and where the program is.
Settings ==
  /\ phase \in {"off", "args", "prompt", "erase"}
  /\ asked \in 1..(2 * MaxInt + 1)
  /\ interval = Wrap(asked)
  /\ Opened => interval > 0
  /\ now \in 1..MaxTime
  /\ erasing # {} <=> phase = "erase"

Entries ==
  /\ ValidEntries(stored) /\ IsFiniteSet(DOMAIN stored)
  /\ ValidEntries(index) /\ IsFiniteSet(DOMAIN index)

Counts ==
  /\ stats \in [DOMAIN NoStats -> Nat]
  /\ ~Opened => stats = NoStats
  /\ StatisticsBalance

\* The deadline of m[k] is an integer of the machine and has not come at time n.
Lives(m, k, n) ==
  /\ k \in DOMAIN m
  /\ m[k].deadline <= MaxInt
  /\ m[k].deadline = 0 \/ n < m[k].deadline

\* The time e of an entry stands for deadline d, if an integer of the machine can.
Exact(e, d) == d <= MaxInt => e = d

\* Deadlines are integers without bounds.
Timed(m) == \A k \in DOMAIN m : m[k].deadline \in Nat

\* The entries of f are those of m, with the deadlines that have not overflowed.
Faithful(f, m) ==
  \A k \in DOMAIN f : /\ k \in DOMAIN m
                      /\ f[k].value = m[k].value
                      /\ Exact(f[k].expiresAtMs, m[k].deadline)

\* Nothing that lives in m at time n is missing in f.
Covers(f, m, n) == \A k \in DOMAIN m : Lives(m, k, n) => k \in DOMAIN f

\* Data file and index know what the commands mean.
Memory ==
  /\ Timed(meant)
  /\ Faithful(stored, meant) /\ Covers(stored, meant, now)
  /\ Faithful(index, meant) /\ (Opened => Covers(index, meant, now))
  /\ \A k \in erasing \cap DOMAIN index : isExpired(index[k].expiresAtMs)

\* The inductive invariant.
IInv == Settings /\ Entries /\ Counts /\ Memory

-----------------------------------------------------------------------------
(* Integers of the machine. *)

\* An unsigned number made signed.
LEMMA WrapProperties ==
  ASSUME NEW n \in 0..(2 * MaxInt + 1)
  PROVE  /\ Wrap(n) \in -(MaxInt + 1)..MaxInt
         /\ n <= MaxInt => Wrap(n) = n
         /\ n > MaxInt => Wrap(n) < 0
  BY CommandParserAssumption DEF Wrap

\* A number that passes the check of parseTtl does not overflow.
LEMMA ProductFits ==
  ASSUME NEW n \in 1..MaxInt, n <= MaxInt \div MsPerSecond
  PROVE  n * MsPerSecond \in 1..MaxInt
<1> DEFINE q == MaxInt \div MsPerSecond
<1>1. MaxInt \in Nat /\ MsPerSecond \in Nat /\ MsPerSecond >= 1
  BY CommandParserAssumption
<1>2. q \in Nat /\ MsPerSecond * q <= MaxInt
  BY <1>1
<1> HIDE DEF q
<1>3. n * MsPerSecond <= q * MsPerSecond
  BY <1>1, <1>2 DEF q
<1>4. n * MsPerSecond >= 1 /\ n * MsPerSecond \in Nat
  BY <1>1
<1> QED
  BY <1>1, <1>2, <1>3, <1>4

\* What lives is not expired; and an entry whose deadline has not overflowed is
\* expired when it is dead.
LEMMA ExpiredIsDead ==
  ASSUME NEW f, NEW m, Faithful(f, m), Timed(m), NEW n \in 1..MaxTime, NEW k \in DOMAIN f
  PROVE  LET expired == f[k].expiresAtMs > 0 /\ f[k].expiresAtMs <= n
         IN /\ Lives(m, k, n) => ~expired
            /\ m[k].deadline <= MaxInt /\ ~expired => Lives(m, k, n)
<1> DEFINE d == m[k].deadline
           e == f[k].expiresAtMs
<1>1. d \in Nat /\ (d <= MaxInt => e = d) /\ k \in DOMAIN m
  BY DEF Faithful, Timed, Exact
<1>2. MaxInt \in Nat /\ n \in Nat
  BY ShellAssumption, CommandParserAssumption
<1>3. Lives(m, k, n) <=> d <= MaxInt /\ (d = 0 \/ n < d)
  BY <1>1 DEF Lives
<1> HIDE DEF d
<1>4. CASE d <= MaxInt
  BY <1>1, <1>2, <1>3, <1>4
<1>5. CASE ~(d <= MaxInt)
  BY <1>3, <1>5 DEF d
<1> QED
  BY <1>4, <1>5

-----------------------------------------------------------------------------
(* Maps. *)

\* A map goes on to agree with what it stands for when both get the same entry.
LEMMA PutFaithful ==
  ASSUME NEW f, NEW m, NEW n, NEW k, NEW e, NEW d, Faithful(f, m), Covers(f, m, n),
         e.value = d.value, Exact(e.expiresAtMs, d.deadline)
  PROVE  /\ Faithful(Put(f, k, e), Put(m, k, d))
         /\ Covers(Put(f, k, e), Put(m, k, d), n)
  BY DEF Put, Faithful, Covers, Lives

\* ... and when both lose the same key.
LEMMA DropFaithful ==
  ASSUME NEW f, NEW m, NEW n, NEW k, Faithful(f, m), Covers(f, m, n)
  PROVE  /\ Faithful(Drop(f, {k}), Drop(m, {k}))
         /\ Covers(Drop(f, {k}), Drop(m, {k}), n)
  BY DEF Drop, Restrict, Faithful, Covers, Lives

\* Nothing is lost with entries that are dead.
LEMMA RestrictFaithful ==
  ASSUME NEW f, NEW m, NEW n, NEW S \in SUBSET DOMAIN f, Faithful(f, m), Covers(f, m, n),
         \A k \in DOMAIN f \ S : ~Lives(m, k, n)
  PROVE  Faithful(Restrict(f, S), m) /\ Covers(Restrict(f, S), m, n)
  BY DEF Restrict, Faithful, Covers

\* Deadlines that come stay.
LEMMA CoversLater ==
  ASSUME NEW f, NEW m, NEW n \in Nat, Timed(m), Covers(f, m, n)
  PROVE  Covers(f, m, n + 1)
<1>1. \A k \in DOMAIN m : Lives(m, k, n + 1) => Lives(m, k, n)
  BY CommandParserAssumption DEF Lives, Timed
<1> QED
  BY <1>1 DEF Covers

-----------------------------------------------------------------------------
(* Commands. *)

\* Of the commands only SET is a Set.
LEMMA CommandTypes ==
  /\ CommandType["SET"].sizes = {3, 5}
  /\ \A n \in DOMAIN CommandType :
       /\ CommandType[n].type = "Set" => n = "SET"
       /\ CommandType[n].sizes \in {{1}, {2}, {1, 2}, {3, 5}}
<1>1. DOMAIN CommandType = {"SET", "GET", "DEL", "DELETE", "EXISTS", "KEYS", "STATS", "COMPACT",
                           "HELP", "EXIT", "QUIT"}
  BY DEF CommandType
<1>2. /\ CommandType["SET"] = [type |-> "Set", sizes |-> {3, 5}]
      /\ CommandType["GET"] = [type |-> "Get", sizes |-> {2}]
      /\ CommandType["DEL"] = [type |-> "Delete", sizes |-> {2}]
      /\ CommandType["DELETE"] = [type |-> "Delete", sizes |-> {2}]
      /\ CommandType["EXISTS"] = [type |-> "Exists", sizes |-> {2}]
      /\ CommandType["KEYS"] = [type |-> "Keys", sizes |-> {1, 2}]
      /\ CommandType["STATS"] = [type |-> "Stats", sizes |-> {1}]
      /\ CommandType["COMPACT"] = [type |-> "Compact", sizes |-> {1}]
      /\ CommandType["HELP"] = [type |-> "Help", sizes |-> {1}]
      /\ CommandType["EXIT"] = [type |-> "Exit", sizes |-> {1}]
      /\ CommandType["QUIT"] = [type |-> "Exit", sizes |-> {1}]
  BY DEF CommandType
<1> QED
  BY <1>1, <1>2

\* What the parser promises of a SET.
LEMMA ParsedSet ==
  ASSUME NEW l, parse(l).ok, parse(l).value.type = "Set"
  PROVE  LET ts == tokenize(l).value
             c == parse(l).value
         IN \/ /\ Len(ts) # 5
               /\ c.ttl = 0
            \/ /\ Len(ts) = 5
               /\ Number[ts[5][1]] * MsPerSecond \in 1..MaxInt
               /\ c.ttl = Number[ts[5][1]] * MsPerSecond
<1> DEFINE ts == tokenize(l).value
           c == parse(l).value
           name == uppercase(ts[1])
           usage == CommandType[name[1]]
<1>1. parse(l) = parseTokens(ts) /\ parseTokens(ts).ok
  BY DEF parse
<1> HIDE DEF ts
<1>2. ~(ts = <<>> \/ Len(name) # 1 \/ name[1] \notin DOMAIN CommandType)
  BY <1>1 DEF parseTokens, Failure
<1>3. Len(ts) \in usage.sizes
  BY <1>1, <1>2 DEF parseTokens, Failure
<1>a. PICK size \in Int : size = Len(ts)
  BY <1>2, <1>3, CommandTypes
<1>b. size < 5 => size # 5
  OBVIOUS
<1>c. size \in {3, 5} /\ ~(size < 5) => size = 5
  OBVIOUS
<1>4. CASE Len(ts) < 5
  <2>1. c = Command(usage.type, ts, 0)
    BY <1>1, <1>2, <1>3, <1>4 DEF parseTokens, Success
  <2>2. c.ttl = 0 /\ c.type = usage.type
    BY <2>1 DEF Command
  <2>3. Len(ts) # 5
    BY <1>4, <1>a, <1>b
  <2> QED
    BY <2>2, <2>3 DEF ts
<1>5. CASE ~(Len(ts) < 5)
  <2>1. parseTtl(ts[5]).ok /\ c = Command(usage.type, ts, parseTtl(ts[5]).value)
    BY <1>1, <1>2, <1>3, <1>5 DEF parseTokens, Success, Failure
  <2>2. c.ttl = parseTtl(ts[5]).value /\ c.type = usage.type
    BY <2>1 DEF Command
  <2> DEFINE n == Number[ts[5][1]]
  <2>3. n \in 1..MaxInt /\ n <= MaxInt \div MsPerSecond /\ parseTtl(ts[5]) = Success(Wrap(n * MsPerSecond))
    BY <2>1 DEF parseTtl, Failure
  <2>4. n * MsPerSecond \in 1..MaxInt
    BY <2>3, ProductFits
  <2>5. Wrap(n * MsPerSecond) = n * MsPerSecond
    BY <2>4, CommandParserAssumption DEF Wrap
  <2>6. usage.type = "Set"
    BY <2>2
  <2>7. name[1] = "SET"
    BY <1>2, <2>6, CommandTypes
  <2>8. Len(ts) \in {3, 5}
    BY <1>3, <2>7, CommandTypes
  <2>9. Len(ts) = 5
    BY <2>8, <1>5, <1>a, <1>c
  <2> QED
    BY <2>2, <2>3, <2>4, <2>5, <2>9 DEF ts, Success
<1> QED
  BY <1>4, <1>5

-----------------------------------------------------------------------------
(* Counting. *)

\* The counters are those of NoStats.
LEMMA Counters ==
  DOMAIN NoStats = {"sets", "gets", "deletes", "expired", "compactions"}
  BY DEF NoStats

\* Entries that go are as many as leave the index.
LEMMA DropCount ==
  ASSUME NEW f, IsFiniteSet(DOMAIN f), NEW ks
  PROVE  /\ DOMAIN Drop(f, ks) = DOMAIN f \ ks /\ IsFiniteSet(DOMAIN Drop(f, ks))
         /\ Cardinality(DOMAIN f \cap ks) \in Nat
         /\ Cardinality(DOMAIN Drop(f, ks)) \in Nat
         /\ Cardinality(DOMAIN f) = Cardinality(DOMAIN Drop(f, ks)) + Cardinality(DOMAIN f \cap ks)
         /\ \A k \in DOMAIN Drop(f, ks) : k \in DOMAIN f /\ Drop(f, ks)[k] = f[k]
         /\ ValidEntries(f) => ValidEntries(Drop(f, ks))
<1>1. DOMAIN Drop(f, ks) = DOMAIN f \ ks /\ \A k \in DOMAIN f \ ks : Drop(f, ks)[k] = f[k]
  BY DEF Drop, Restrict
<1>2. /\ IsFiniteSet(DOMAIN f \ ks)
      /\ Cardinality(DOMAIN f \ ks) = Cardinality(DOMAIN f) - Cardinality(DOMAIN f \cap ks)
  BY FS_Difference
<1>3. IsFiniteSet(DOMAIN f \cap ks)
  BY FS_Subset
<1>4. /\ Cardinality(DOMAIN f \cap ks) \in Nat /\ Cardinality(DOMAIN f \ ks) \in Nat
      /\ Cardinality(DOMAIN f) \in Nat
  BY <1>2, <1>3, FS_CardinalityType
<1>5. ValidEntries(f) => ValidEntries(Drop(f, ks))
  BY <1>1 DEF ValidEntries
<1> QED
  BY <1>1, <1>2, <1>4, <1>5

\* ... and as one more that enters, if its key was not there.
LEMMA PutCount ==
  ASSUME NEW f, IsFiniteSet(DOMAIN f), NEW k, NEW e
  PROVE  /\ DOMAIN Put(f, k, e) = DOMAIN f \cup {k} /\ IsFiniteSet(DOMAIN Put(f, k, e))
         /\ Cardinality(DOMAIN f) \in Nat
         /\ Cardinality(DOMAIN Put(f, k, e)) =
              Cardinality(DOMAIN f) + (IF k \in DOMAIN f THEN 0 ELSE 1)
<1>1. DOMAIN Put(f, k, e) = DOMAIN f \cup {k}
  BY DEF Put
<1>2. Cardinality(DOMAIN f) \in Nat
  BY FS_CardinalityType
<1> QED
  BY <1>1, <1>2, FS_AddElement

\* What is not expired is what the commands mean, where no sum has overflowed.
LEMMA UnexpiredAreAlive ==
  ASSUME NEW f, Faithful(f, meant), Covers(f, meant, now), Timed(meant), now \in 1..MaxTime
  PROVE  /\ Unexpired(f) \subseteq DOMAIN f
         /\ \A k \in DOMAIN f \ Unexpired(f) : ~Lives(meant, k, now)
         /\ \A k : ~Overflowed(k) => (k \in Unexpired(f) <=> Alive(k))
<1>1. \A k \in DOMAIN f :
        /\ Lives(meant, k, now) => ~isExpired(f[k].expiresAtMs)
        /\ meant[k].deadline <= MaxInt /\ ~isExpired(f[k].expiresAtMs) => Lives(meant, k, now)
  BY ExpiredIsDead DEF isExpired
<1>2. Unexpired(f) \subseteq DOMAIN f /\ DOMAIN f \subseteq DOMAIN meant
  BY DEF Unexpired, Faithful
<1>3. \A k \in DOMAIN f \ Unexpired(f) : ~Lives(meant, k, now)
  BY <1>1 DEF Unexpired
<1>4. ASSUME NEW k, ~Overflowed(k) PROVE k \in Unexpired(f) <=> Alive(k)
  <2>1. CASE k \notin DOMAIN meant
    BY <1>2, <2>1 DEF Alive
  <2>2. CASE k \in DOMAIN meant
    <3>1. meant[k].deadline \in Nat /\ MaxInt \in Nat
      BY <2>2, CommandParserAssumption DEF Timed
    <3>2. meant[k].deadline <= MaxInt
      BY <1>4, <2>2, <3>1 DEF Overflowed
    <3>3. Alive(k) <=> Lives(meant, k, now)
      BY <2>2, <3>2 DEF Alive, Lives
    <3>4. Lives(meant, k, now) => k \in DOMAIN f
      BY <2>2 DEF Covers
    <3> QED
      BY <1>1, <1>2, <3>2, <3>3, <3>4 DEF Unexpired
  <2> QED
    BY <2>1, <2>2
<1> QED
  BY <1>2, <1>3, <1>4

\* A program that is not running meets the invariant.
LEMMA InitIInv == Init => IInv
<1> SUFFICES ASSUME Init PROVE IInv
  OBVIOUS
<1> USE DEF Init
<1>1. MaxInt \in Nat /\ MaxInt >= 1 /\ MaxTime \in Nat /\ MaxTime >= 1
  BY CommandParserAssumption, ShellAssumption
<1>2. DOMAIN NoEntries = {} /\ IsFiniteSet({}) /\ Cardinality({}) = 0
  BY FS_EmptySet DEF NoEntries
<1>3. Settings
  <2>1. Wrap(1) = 1
    BY <1>1 DEF Wrap
  <2> QED
    BY <1>1, <2>1 DEF Settings, Opened
<1>4. Entries
  BY <1>2 DEF Entries, ValidEntries
<1>5. Counts
  BY <1>2 DEF Counts, StatisticsBalance, NoStats, Opened
<1>6. Memory
  BY <1>2 DEF Memory, Timed, Faithful, Covers, Opened
<1> QED
  BY <1>3, <1>4, <1>5, <1>6 DEF IInv

\* A Number that parsePositiveSize takes.
LEMMA PositiveSize ==
  ASSUME NEW text, parsePositiveSize(text).ok
  PROVE  /\ Number[text] \in 1..(2 * MaxInt + 1)
         /\ parsePositiveSize(text).value = Number[text]
  BY DEF parsePositiveSize, Success, Failure

\* The interval of an engine that is open is what was asked for and not negative;
\* the clock stays in its bounds.
LEMMA SettingsStep ==
  ASSUME Settings, [Next]_vars
  PROVE  Settings'
<1> USE DEF Settings, Opened, engine, history, settings
<1>a. MaxInt \in Nat /\ MaxInt >= 1 /\ MaxTime \in Nat
  BY CommandParserAssumption, ShellAssumption
<1>1. CASE Launch
  <2>1. Wrap(1) = 1
    BY <1>a DEF Wrap
  <2> QED
    BY <1>1, <1>a, <2>1 DEF Launch
<1>2. CASE TakeArgument
  <2>1. CASE args[1] = "--cleanup-ms"
    <3>1. parsePositiveSize(args[2]).ok
      BY <1>2, <2>1 DEF TakeArgument, Sized
    <3>2. asked' \in 1..(2 * MaxInt + 1) /\ interval' = Wrap(asked')
      BY <1>2, <2>1, <3>1, PositiveSize DEF TakeArgument
    <3> QED
      BY <1>2, <3>2 DEF TakeArgument
  <2> QED
    BY <1>2, <2>1 DEF TakeArgument
<1>3. CASE RefuseArgument
  BY <1>3 DEF RefuseArgument, Exit
<1>4. CASE OpenStore
  BY <1>4 DEF OpenStore
<1>5. CASE OpenRefused
  BY <1>5 DEF OpenRefused, Exit
<1>6. CASE Answer
  <2>1. PICK l : \/ BadLine(l)
                 \/ Dispatch(l, parse(l).value)
                 \/ ExitCommand(l, parse(l).value)
    BY <1>6 DEF Answer
  <2>2. phase = "prompt" /\ UNCHANGED <<asked, interval, now>> /\ erasing = {}
    BY <2>1 DEF BadLine, Dispatch, ExitCommand, ReadLine
  <2>3. \/ phase' \in {"off", "prompt"} /\ erasing' = {}
        \/ phase' = "erase" /\ erasing' # {}
    <3>1. CASE BadLine(l)
      BY <3>1, <2>2 DEF BadLine, Nothing
    <3>2. CASE ExitCommand(l, parse(l).value)
      BY <3>2, <2>2 DEF ExitCommand, Exit
    <3>3. CASE Dispatch(l, parse(l).value)
      <4> DEFINE c == parse(l).value
      <4> HIDE DEF c
      <4>1. \/ Set(c) \/ Get(c) \/ RemoveKey(c) \/ ListKeys(c)
            \/ printStatistics \/ Compact \/ printHelp
        BY <3>3 DEF Dispatch, c
      <4>2. CASE Set(c)
        BY <4>2, <2>2 DEF Set, Nothing
      <4>3. CASE Get(c)
        BY <4>3, <2>2 DEF Get, Nothing
      <4>4. CASE RemoveKey(c)
        BY <4>4, <2>2 DEF RemoveKey, Nothing
      <4>5. CASE ListKeys(c) \/ Compact
        BY <4>5, <2>2 DEF ListKeys, Compact, Cleanup
      <4>6. CASE printStatistics \/ printHelp
        BY <4>6, <2>2 DEF printStatistics, printHelp, Nothing
      <4> QED
        BY <4>1, <4>2, <4>3, <4>4, <4>5, <4>6
    <3> QED
      BY <2>1, <3>1, <3>2, <3>3
  <2> QED
    BY <2>2, <2>3
<1>7. CASE eraseIfExpired
  BY <1>7 DEF eraseIfExpired
<1>8. CASE EndOfInput
  BY <1>8 DEF EndOfInput, Exit
<1>9. CASE CleanerPass
  BY <1>9 DEF CleanerPass, Cleanup
<1>10. CASE Tick
  BY <1>10, <1>a DEF Tick
<1>11. CASE UNCHANGED vars
  BY <1>11 DEF vars
<1> QED
  BY <1>1, <1>2, <1>3, <1>4, <1>5, <1>6, <1>7, <1>8, <1>9, <1>10, <1>11 DEF Next
-----------------------------------------------------------------------------
(* The calls of the engine. *)

\* Counting changes one counter.
LEMMA CountOne ==
  ASSUME stats \in [DOMAIN NoStats -> Nat], NEW counter \in DOMAIN NoStats, NEW n \in Nat
  PROVE  /\ Count(counter, n) \in [DOMAIN NoStats -> Nat]
         /\ Count(counter, n)[counter] = stats[counter] + n
         /\ \A x \in DOMAIN NoStats \ {counter} : Count(counter, n)[x] = stats[x]
  BY DEF Count

\* Only a SET that was taken and a DEL that has found its key change what the
\* commands mean.
LEMMA Remembered ==
  ASSUME NEW ts, NEW c, NEW answer, Remember(ts, c, answer)
  PROVE  /\ c.type = "Set" /\ answer = "OK" =>
              meant' = Put(meant, c.key,
                           [value |-> c.value,
                            deadline |-> IF Len(ts) = 5
                                         THEN now + Number[ts[5][1]] * MsPerSecond ELSE 0])
         /\ c.type = "Delete" /\ answer = "1" => meant' = Drop(meant, {c.key})
         /\ /\ ~(c.type = "Set" /\ answer = "OK")
            /\ ~(c.type = "Delete" /\ answer = "1")
            => meant' = meant
<1>1. CASE c.type = "Set" /\ answer = "OK"
  BY <1>1 DEF Remember
<1>2. CASE c.type = "Delete" /\ answer = "1"
  BY <1>2 DEF Remember
<1>3. CASE ~(c.type = "Set" /\ answer = "OK") /\ ~(c.type = "Delete" /\ answer = "1")
  BY <1>3 DEF Remember
<1> QED
  BY <1>1, <1>2, <1>3

\* An index that loses expired entries goes on to agree with the commands.
LEMMA Purged ==
  ASSUME IInv, Opened, NEW ks, \A k \in ks \cap DOMAIN index : isExpired(index[k].expiresAtMs)
  PROVE  /\ Faithful(Drop(index, ks), meant) /\ Covers(Drop(index, ks), meant, now)
         /\ ValidEntries(Drop(index, ks)) /\ IsFiniteSet(DOMAIN Drop(index, ks))
         /\ Cardinality(DOMAIN index \cap ks) \in Nat
         /\ Cardinality(DOMAIN Drop(index, ks)) \in Nat
         /\ Cardinality(DOMAIN index)
              = Cardinality(DOMAIN Drop(index, ks)) + Cardinality(DOMAIN index \cap ks)
         /\ \A k \in DOMAIN Drop(index, ks) : k \in DOMAIN index /\ Drop(index, ks)[k] = index[k]
<1>1. /\ Faithful(index, meant) /\ Covers(index, meant, now) /\ Timed(meant)
      /\ now \in 1..MaxTime /\ IsFiniteSet(DOMAIN index) /\ ValidEntries(index)
  BY DEF IInv, Settings, Entries, Memory
<1>2. \A k \in DOMAIN index \cap ks : ~Lives(meant, k, now)
  BY <1>1, ExpiredIsDead DEF isExpired
<1>3. Faithful(Drop(index, ks), meant) /\ Covers(Drop(index, ks), meant, now)
  BY <1>1, <1>2, RestrictFaithful DEF Drop
<1> QED
  BY <1>1, <1>3, DropCount

\* The entries that are not Unexpired are expired, and Unexpired are the living.
LEMMA ExpiredEntries ==
  ASSUME IInv, Opened
  PROVE  /\ \A k \in Expired : k \in DOMAIN index /\ isExpired(index[k].expiresAtMs)
         /\ DOMAIN index \cap Expired = Expired
         /\ DOMAIN Drop(index, Expired) = Unexpired(index)
         /\ Unexpired(index) \subseteq DOMAIN index
         /\ \A k : ~Overflowed(k) => (k \in Unexpired(index) <=> Alive(k))
<1>1. Unexpired(index) \subseteq DOMAIN index
  BY DEF Unexpired
<1>2. \A k : ~Overflowed(k) => (k \in Unexpired(index) <=> Alive(k))
  BY UnexpiredAreAlive DEF IInv, Memory, Settings
<1>3. \A k \in Expired : k \in DOMAIN index /\ isExpired(index[k].expiresAtMs)
  BY DEF Expired, Unexpired
<1>4. DOMAIN Drop(index, Expired) = Unexpired(index)
  BY <1>1 DEF Drop, Restrict, Expired
<1> QED
  BY <1>1, <1>2, <1>3, <1>4 DEF Expired

\* Nothing but the index loses entries, and these are expired and counted.
LEMMA PurgeStep ==
  ASSUME IInv, Opened, Opened', NEW ks,
         \A k \in ks \cap DOMAIN index : isExpired(index[k].expiresAtMs),
         index' = Drop(index, ks),
         stats' = Count("expired", Cardinality(DOMAIN index \cap ks)),
         UNCHANGED <<stored, meant, created, now>>,
         erasing' \subseteq erasing
  PROVE  (Entries /\ Counts /\ Memory)'
<1>1. Entries'
  BY Purged DEF IInv, Entries
<1>2. Counts'
  <2>1. stats \in [DOMAIN NoStats -> Nat] /\ StatisticsBalance
    BY DEF IInv, Counts
  <2> DEFINE n == Cardinality(DOMAIN index \cap ks)
  <2>2. n \in Nat /\ Cardinality(DOMAIN index') \in Nat
        /\ Cardinality(DOMAIN index) = Cardinality(DOMAIN index') + n
    BY Purged
  <2> HIDE DEF n
  <2>a. stats' = Count("expired", n)
    BY DEF n
  <2>b. "expired" \in DOMAIN NoStats /\ "deletes" \in DOMAIN NoStats \ {"expired"}
    BY Counters
  <2>c. n \in Nat
    BY <2>2
  <2>d. /\ Count("expired", n) \in [DOMAIN NoStats -> Nat]
        /\ Count("expired", n)["expired"] = stats["expired"] + n
        /\ \A x \in DOMAIN NoStats \ {"expired"} : Count("expired", n)[x] = stats[x]
    BY <2>1, <2>b, <2>c, CountOne
  <2>3. /\ stats' \in [DOMAIN NoStats -> Nat]
        /\ stats'["expired"] = stats["expired"] + n
        /\ stats'["deletes"] = stats["deletes"]
    BY <2>a, <2>b, <2>d
  <2>4. created' = Cardinality(DOMAIN index') + stats'.deletes + stats'.expired
    BY <2>1, <2>2, <2>3, Counters DEF StatisticsBalance
  <2> QED
    BY <2>3, <2>4 DEF Counts, StatisticsBalance
<1>3. Memory'
  <2>1. Faithful(index', meant') /\ Covers(index', meant', now')
    BY Purged
  <2>2. /\ Timed(meant)' /\ Faithful(stored, meant)' /\ Covers(stored, meant, now)'
    BY DEF IInv, Memory
  <2>3. \A k \in erasing' \cap DOMAIN index' :
          index'[k].expiresAtMs > 0 /\ index'[k].expiresAtMs <= now'
    BY Purged DEF IInv, Memory, isExpired
  <2> QED
    BY <2>1, <2>2, <2>3 DEF Memory, isExpired
<1> QED
  BY <1>1, <1>2, <1>3

\* A pass over the index.
LEMMA CleanupStep ==
  ASSUME IInv, Opened, Cleanup, UNCHANGED <<meant, now>>
  PROVE  (Entries /\ Counts /\ Memory)'
<1>1. \A k \in Expired \cap DOMAIN index : isExpired(index[k].expiresAtMs)
  BY ExpiredEntries
<1>2. /\ index' = Drop(index, Expired)
      /\ stats' = Count("expired", Cardinality(DOMAIN index \cap Expired))
      /\ UNCHANGED <<stored, meant, created, now, erasing, phase>>
  BY ExpiredEntries DEF Cleanup
<1>3. Opened'
  BY <1>2 DEF Opened
<1> QED
  BY <1>1, <1>2, <1>3, PurgeStep

\* The second step of get.
LEMMA EraseStep ==
  ASSUME IInv, eraseIfExpired
  PROVE  (Entries /\ Counts /\ Memory)'
<1>1. \A k \in erasing \cap DOMAIN index : isExpired(index[k].expiresAtMs)
  BY DEF IInv, Memory
<1>2. erasing \cap DOMAIN index = DOMAIN index \cap erasing
  OBVIOUS
<1>3. /\ index' = Drop(index, erasing)
      /\ stats' = Count("expired", Cardinality(DOMAIN index \cap erasing))
      /\ UNCHANGED <<stored, meant, created, now>>
      /\ erasing' \subseteq erasing
      /\ Opened /\ Opened'
  BY <1>2 DEF eraseIfExpired, Opened, history
<1> QED
  BY <1>1, <1>3, PurgeStep

\* A step that leaves the engine alone.
LEMMA NothingStep ==
  ASSUME IInv, UNCHANGED <<phase, stored, index, stats, erasing, created, meant, now>>
  PROVE  (Entries /\ Counts /\ Memory)'
  BY DEF IInv, Entries, Counts, Memory, StatisticsBalance, Opened, isExpired

\* SET gives the key its value and deadline in the data file, the index, and in
\* what the commands mean.
LEMMA SetStep ==
  ASSUME IInv, phase = "prompt", NEW l, parse(l).ok, parse(l).value.type = "Set",
         Set(parse(l).value), Remember(tokenize(l).value, parse(l).value, out'), now' = now
  PROVE  (Entries /\ Counts /\ Memory)'
<1> DEFINE c == parse(l).value
           ts == tokenize(l).value
           d == [value |-> c.value,
                 deadline |-> IF Len(ts) = 5 THEN now + Number[ts[5][1]] * MsPerSecond ELSE 0]
<1>1. CASE ~(validateKey(c.key) /\ validateValue(c.value))
  <2>1. Nothing /\ out' = "(error)"
    BY <1>1 DEF Set
  <2>a. ~(c.type = "Set" /\ out' = "OK") /\ ~(c.type = "Delete" /\ out' = "1")
    BY <2>1
  <2>2. meant' = meant
    BY <2>a, Remembered
  <2> QED
    BY <2>1, <2>2, NothingStep DEF Nothing, engine
<1>2. CASE validateKey(c.key) /\ validateValue(c.value)
  <2>t. PICK t \in ExpiryTimes(c.ttl) :
          /\ stored' = Put(stored, c.key, [value |-> c.value, expiresAtMs |-> t])
          /\ index' = Put(index, c.key, [value |-> c.value, expiresAtMs |-> t])
          /\ stats' = Count("sets", 1)
          /\ created' = created + (IF c.key \in DOMAIN index THEN 0 ELSE 1)
          /\ out' = "OK"
          /\ UNCHANGED <<phase, erasing>>
    BY <1>2 DEF Set
  <2> DEFINE e == [value |-> c.value, expiresAtMs |-> t]
  <2>1. /\ stored' = Put(stored, c.key, e)
        /\ index' = Put(index, c.key, e)
        /\ stats' = Count("sets", 1)
        /\ created' = created + (IF c.key \in DOMAIN index THEN 0 ELSE 1)
        /\ out' = "OK"
        /\ UNCHANGED <<phase, erasing>>
    BY <2>t
  <2>2. meant' = Put(meant, c.key, d)
    BY <2>1, Remembered
  <2>3. /\ MaxInt \in Nat /\ MaxTime \in 1..MaxInt /\ now \in 1..MaxTime
        /\ phase' = "prompt" /\ erasing = {}
    BY <2>1, CommandParserAssumption, ShellAssumption DEF IInv, Settings
  <2>4. \/ Len(ts) # 5 /\ c.ttl = 0
        \/ /\ Len(ts) = 5
           /\ Number[ts[5][1]] * MsPerSecond \in 1..MaxInt
           /\ c.ttl = Number[ts[5][1]] * MsPerSecond
    BY ParsedSet
  <2> HIDE DEF ts, c
  <2>5. d.deadline \in Nat /\ Exact(e.expiresAtMs, d.deadline)
    <3>1. CASE Len(ts) # 5 /\ c.ttl = 0
      BY <3>1, <2>3, <2>t DEF Exact, ExpiryTimes
    <3>2. CASE ~(Len(ts) # 5 /\ c.ttl = 0)
      BY <3>2, <2>3, <2>4, <2>t DEF Exact, ExpiryTimes
    <3> QED
      BY <3>1, <3>2
  <2>6. e.expiresAtMs \in -(MaxInt + 1)..MaxInt
    BY <2>t, <2>3, <2>4 DEF ExpiryTimes
  <2> HIDE DEF d
  <2>7. e.value = c.value /\ d.value = c.value
    BY DEF d
  <2>8. Size(c.key) \in 1..kMaximumKeySize /\ Size(e.value) <= kMaximumValueSize
    BY <1>2, <2>7 DEF validateKey, validateValue
  <2> HIDE DEF e
  <2>9. Entries'
    <3>1. IsFiniteSet(DOMAIN stored') /\ IsFiniteSet(DOMAIN index')
      BY <2>1, PutCount DEF IInv, Entries
    <3>2. ValidEntries(stored') /\ ValidEntries(index')
      BY <2>1, <2>6, <2>8 DEF IInv, Entries, ValidEntries, Put
    <3> QED
      BY <3>1, <3>2 DEF Entries, ValidEntries
  <2>10. Counts'
    <3>1. stats \in [DOMAIN NoStats -> Nat] /\ StatisticsBalance
      BY DEF IInv, Counts
    <3>2. "sets" \in DOMAIN NoStats /\ {"deletes", "expired"} \subseteq DOMAIN NoStats \ {"sets"}
      BY Counters
    <3>3. /\ Count("sets", 1) \in [DOMAIN NoStats -> Nat]
          /\ \A x \in DOMAIN NoStats \ {"sets"} : Count("sets", 1)[x] = stats[x]
      BY <3>1, <3>2, CountOne
    <3>4. stats' \in [DOMAIN NoStats -> Nat] /\ stats'.deletes = stats.deletes
          /\ stats'.expired = stats.expired
      BY <2>1, <3>2, <3>3
    <3>5. /\ Cardinality(DOMAIN index) \in Nat
          /\ Cardinality(DOMAIN index')
               = Cardinality(DOMAIN index) + (IF c.key \in DOMAIN index THEN 0 ELSE 1)
      BY <2>1, PutCount DEF IInv, Entries
    <3>6. stats.deletes \in Nat /\ stats.expired \in Nat
      BY <3>1, Counters
    <3>7. created' = Cardinality(DOMAIN index') + stats'.deletes + stats'.expired
      BY <3>1, <3>4, <3>5, <3>6, <2>1 DEF StatisticsBalance
    <3> QED
      BY <3>4, <3>7, <2>3 DEF Counts, StatisticsBalance, Opened
  <2>11. Memory'
    <3>1. Faithful(stored', meant') /\ Covers(stored', meant', now')
      BY <2>1, <2>2, <2>5, <2>7, PutFaithful DEF IInv, Memory
    <3>2. Faithful(index', meant') /\ Covers(index', meant', now')
      BY <2>1, <2>2, <2>5, <2>7, PutFaithful DEF IInv, Memory, Opened
    <3>3. Timed(meant')
      BY <2>2, <2>5 DEF IInv, Memory, Timed, Put
    <3>4. erasing' = {}
      BY <2>1, <2>3
    <3> QED
      BY <3>1, <3>2, <3>3, <3>4 DEF Memory, Timed, Faithful, Covers
  <2> QED
    BY <2>9, <2>10, <2>11
<1> QED
  BY <1>1, <1>2

\* GET and EXISTS count; an expired entry they find is left to the second step.
LEMMA GetStep ==
  ASSUME IInv, phase = "prompt", NEW c, Get(c), UNCHANGED <<meant, now>>
  PROVE  (Entries /\ Counts /\ Memory)'
<1>1. CASE ~validateKey(c.key)
  <2>1. Nothing
    BY <1>1 DEF Get
  <2> QED
    BY <2>1, NothingStep DEF Nothing, engine
<1>2. CASE validateKey(c.key)
  <2>1. /\ stats' = Count("gets", 1)
        /\ erasing' = {c.key} \cap Expired
        /\ phase' \in {"prompt", "erase"}
        /\ UNCHANGED <<stored, index, created>>
    BY <1>2 DEF Get
  <2>2. Opened /\ Opened'
    BY <2>1 DEF Opened
  <2>3. Entries'
    BY <2>1 DEF IInv, Entries, ValidEntries
  <2>4. Counts'
    <3>1. stats \in [DOMAIN NoStats -> Nat] /\ StatisticsBalance
      BY DEF IInv, Counts
    <3>2. "gets" \in DOMAIN NoStats /\ {"deletes", "expired"} \subseteq DOMAIN NoStats \ {"gets"}
      BY Counters
    <3>3. /\ Count("gets", 1) \in [DOMAIN NoStats -> Nat]
          /\ \A x \in DOMAIN NoStats \ {"gets"} : Count("gets", 1)[x] = stats[x]
      BY <3>1, <3>2, CountOne
    <3>4. stats' \in [DOMAIN NoStats -> Nat] /\ stats'.deletes = stats.deletes
          /\ stats'.expired = stats.expired
      BY <2>1, <3>2, <3>3
    <3> QED
      BY <2>1, <2>2, <3>1, <3>4 DEF Counts, StatisticsBalance
  <2>5. \A k \in erasing' \cap DOMAIN index' :
          index'[k].expiresAtMs > 0 /\ index'[k].expiresAtMs <= now'
    BY <2>1, <2>2, ExpiredEntries DEF isExpired
  <2>6. Memory'
    BY <2>1, <2>2, <2>5 DEF IInv, Memory, isExpired
  <2> QED
    BY <2>3, <2>4, <2>6
<1> QED
  BY <1>1, <1>2

\* Counting with two counters at once.
LEMMA CountTwo ==
  ASSUME stats \in [DOMAIN NoStats -> Nat], NEW a \in DOMAIN NoStats, NEW b \in DOMAIN NoStats,
         a # b, NEW m \in Nat, NEW n \in Nat, NEW s,
         s = [stats EXCEPT ![a] = @ + m, ![b] = @ + n]
  PROVE  /\ s \in [DOMAIN NoStats -> Nat]
         /\ s[a] = stats[a] + m
         /\ s[b] = stats[b] + n
         /\ \A x \in DOMAIN NoStats \ {a, b} : s[x] = stats[x]
  OBVIOUS

\* DEL takes a living key from the data file and the index, and an expired one
\* from the index only.
LEMMA RemoveStep ==
  ASSUME IInv, phase = "prompt", NEW c, c.type = "Delete", RemoveKey(c),
         NEW ts, Remember(ts, c, out'), now' = now
  PROVE  (Entries /\ Counts /\ Memory)'
<1> DEFINE k == c.key
           found == k \in Unexpired(index)
<1>1. CASE ~validateKey(k)
  <2>1. Nothing /\ out' = "(error)"
    BY <1>1 DEF RemoveKey
  <2>2. ~(c.type = "Set" /\ out' = "OK") /\ ~(c.type = "Delete" /\ out' = "1")
    BY <2>1
  <2>3. meant' = meant
    BY <2>2, Remembered
  <2> QED
    BY <2>1, <2>3, NothingStep DEF Nothing, engine
<1>2. CASE validateKey(k)
  <2>1. /\ stored' = IF found THEN Drop(stored, {k}) ELSE stored
        /\ index' = Drop(index, {k})
        /\ stats' = [stats EXCEPT !.deletes = @ + (IF found THEN 1 ELSE 0),
                                  !.expired = @ + (IF k \in Expired THEN 1 ELSE 0)]
        /\ out' = IF found THEN "1" ELSE "0"
        /\ UNCHANGED <<phase, erasing, created>>
    BY <1>2 DEF RemoveKey
  <2>2. Opened /\ Opened' /\ erasing' = {}
    BY <2>1 DEF Opened, IInv, Settings
  <2>3. /\ found => meant' = Drop(meant, {k})
        /\ ~found => meant' = meant
    <3>1. CASE found
      BY <3>1, <2>1, Remembered
    <3>2. CASE ~found
      <4>1. ~(c.type = "Set" /\ out' = "OK") /\ ~(c.type = "Delete" /\ out' = "1")
        BY <3>2, <2>1
      <4> QED
        BY <4>1, <3>2, Remembered
    <3> QED
      BY <3>1, <3>2
  <2>4. /\ Unexpired(index) \subseteq DOMAIN index
        /\ Expired = DOMAIN index \ Unexpired(index)
        /\ \A x \in Expired : isExpired(index[x].expiresAtMs)
    BY <2>2, ExpiredEntries DEF Expired
  <2> HIDE DEF k
  <2>5. Entries'
    <3>1. /\ ValidEntries(stored) /\ IsFiniteSet(DOMAIN stored)
          /\ ValidEntries(index) /\ IsFiniteSet(DOMAIN index)
      BY DEF IInv, Entries
    <3>2. /\ ValidEntries(stored') /\ IsFiniteSet(DOMAIN stored')
          /\ ValidEntries(index') /\ IsFiniteSet(DOMAIN index')
      BY <3>1, <2>1, DropCount
    <3> QED
      BY <3>2 DEF Entries, ValidEntries
  <2>6. Counts'
    <3>1. stats \in [DOMAIN NoStats -> Nat] /\ StatisticsBalance
      BY DEF IInv, Counts
    <3>2. /\ stats' \in [DOMAIN NoStats -> Nat]
          /\ stats.deletes \in Nat /\ stats.expired \in Nat
          /\ stats'.deletes = stats.deletes + (IF found THEN 1 ELSE 0)
          /\ stats'.expired = stats.expired + (IF k \in Expired THEN 1 ELSE 0)
      <4>1. "deletes" \in DOMAIN NoStats /\ "expired" \in DOMAIN NoStats
        BY Counters
      <4>2. PICK x \in Nat : x = IF found THEN 1 ELSE 0
        OBVIOUS
      <4>3. PICK y \in Nat : y = IF k \in Expired THEN 1 ELSE 0
        OBVIOUS
      <4>4. stats' = [stats EXCEPT !["deletes"] = @ + x, !["expired"] = @ + y]
        BY <2>1, <4>2, <4>3
      <4>5. /\ stats' \in [DOMAIN NoStats -> Nat]
            /\ stats'["deletes"] = stats["deletes"] + x
            /\ stats'["expired"] = stats["expired"] + y
        BY <4>1, <4>4, <3>1, CountTwo
      <4> QED
        BY <4>1, <4>2, <4>3, <4>5, <3>1
    <3>3. IsFiniteSet(DOMAIN index)
      BY DEF IInv, Entries
    <3>4. /\ Cardinality(DOMAIN index) = Cardinality(DOMAIN index') + Cardinality(DOMAIN index \cap {k})
          /\ Cardinality(DOMAIN index') \in Nat
      BY <3>3, <2>1, DropCount
    <3>5. Cardinality(DOMAIN index \cap {k})
            = (IF found THEN 1 ELSE 0) + (IF k \in Expired THEN 1 ELSE 0)
      <4>1. CASE k \in DOMAIN index
        <5>1. DOMAIN index \cap {k} = {k} /\ Cardinality({k}) = 1
          BY <4>1, FS_Singleton
        <5> QED
          BY <5>1, <4>1, <2>4
      <4>2. CASE k \notin DOMAIN index
        <5>1. DOMAIN index \cap {k} = {} /\ Cardinality({}) = 0
          BY <4>2, FS_EmptySet
        <5> QED
          BY <5>1, <4>2, <2>4
      <4> QED
        BY <4>1, <4>2
    <3>6. created' = Cardinality(DOMAIN index') + stats'.deletes + stats'.expired
      BY <2>1, <3>1, <3>2, <3>4, <3>5 DEF StatisticsBalance
    <3> QED
      BY <2>2, <3>2, <3>6 DEF Counts, StatisticsBalance
  <2>7. Memory'
    <3>1. /\ Timed(meant) /\ Faithful(stored, meant) /\ Covers(stored, meant, now)
          /\ Faithful(index, meant) /\ Covers(index, meant, now)
      BY <2>2 DEF IInv, Memory
    <3>2. /\ Timed(meant') /\ Faithful(stored', meant') /\ Covers(stored', meant', now')
          /\ Faithful(index', meant') /\ Covers(index', meant', now')
      <4>1. CASE found
        <5>1. /\ meant' = Drop(meant, {k}) /\ stored' = Drop(stored, {k})
              /\ index' = Drop(index, {k})
          BY <4>1, <2>1, <2>3
        <5>2. Timed(meant')
          BY <5>1, <3>1 DEF Timed, Drop, Restrict
        <5> QED
          BY <5>1, <5>2, <3>1, DropFaithful
      <4>2. CASE ~found
        <5>1. \A x \in {k} \cap DOMAIN index : isExpired(index[x].expiresAtMs)
          BY <4>2, <2>4
        <5>2. Faithful(index', meant) /\ Covers(index', meant, now)
          BY <5>1, <2>1, <2>2, Purged
        <5>3. meant' = meant /\ stored' = stored
          BY <4>2, <2>1, <2>3
        <5> QED
          BY <5>2, <5>3, <3>1
      <4> QED
        BY <4>1, <4>2
    <3> QED
      BY <3>2, <2>2 DEF Memory, Timed, Faithful, Covers
  <2> QED
    BY <2>5, <2>6, <2>7
<1> QED
  BY <1>1, <1>2

\* COMPACT leaves the living entries in the index and writes them to the data file.
LEMMA CompactStep ==
  ASSUME IInv, Opened, Compact, UNCHANGED <<meant, now>>
  PROVE  (Entries /\ Counts /\ Memory)'
<1>1. /\ index' = Drop(index, Expired)
      /\ stored' = index'
      /\ stats' = [stats EXCEPT !.expired = @ + Cardinality(Expired), !.compactions = @ + 1]
      /\ UNCHANGED <<phase, erasing, created>>
  BY DEF Compact
<1>2. /\ Faithful(index', meant) /\ Covers(index', meant, now)
      /\ ValidEntries(index') /\ IsFiniteSet(DOMAIN index')
      /\ Cardinality(Expired) \in Nat
      /\ Cardinality(DOMAIN index') \in Nat
      /\ Cardinality(DOMAIN index) = Cardinality(DOMAIN index') + Cardinality(Expired)
      /\ \A k \in DOMAIN index' : k \in DOMAIN index /\ index'[k] = index[k]
  <2>1. \A k \in Expired \cap DOMAIN index : isExpired(index[k].expiresAtMs)
    BY ExpiredEntries
  <2>2. DOMAIN index \cap Expired = Expired
    BY ExpiredEntries
  <2> QED
    BY <1>1, <2>1, <2>2, Purged
<1>3. Entries'
  BY <1>1, <1>2 DEF Entries, ValidEntries
<1>4. Counts'
  <2> DEFINE n == Cardinality(Expired)
  <2>1. stats \in [DOMAIN NoStats -> Nat] /\ StatisticsBalance
    BY DEF IInv, Counts
  <2>2. {"deletes", "expired", "compactions"} \subseteq DOMAIN NoStats
    BY Counters
  <2>3. n \in Nat
    BY <1>2
  <2>4. stats' = [stats EXCEPT !.expired = @ + n, !.compactions = @ + 1]
    BY <1>1
  <2> HIDE DEF n
  <2>a. /\ stats' \in [DOMAIN NoStats -> Nat]
        /\ stats'["expired"] = stats["expired"] + n
        /\ \A x \in DOMAIN NoStats \ {"expired", "compactions"} : stats'[x] = stats[x]
    <3>1. /\ "expired" \in DOMAIN NoStats /\ "compactions" \in DOMAIN NoStats
          /\ "expired" # "compactions" /\ 1 \in Nat
      BY <2>2
    <3>2. stats' = [stats EXCEPT !["expired"] = @ + n, !["compactions"] = @ + 1]
      BY <2>4
    <3> QED
      BY <2>1, <2>3, <3>1, <3>2, CountTwo, SMTT(30)
  <2>5. /\ stats' \in [DOMAIN NoStats -> Nat]
        /\ stats.deletes \in Nat /\ stats.expired \in Nat
        /\ stats'.deletes = stats.deletes
        /\ stats'.expired = stats.expired + n
    BY <2>1, <2>2, <2>a
  <2>6. created' = Cardinality(DOMAIN index') + stats'.deletes + stats'.expired
    BY <1>1, <1>2, <2>1, <2>3, <2>5 DEF StatisticsBalance, n
  <2> QED
    BY <1>1, <2>5, <2>6 DEF Counts, StatisticsBalance, Opened
<1>5. Memory'
  <2>1. Timed(meant')
    BY DEF IInv, Memory
  <2>2. \A k \in erasing' \cap DOMAIN index' :
          index'[k].expiresAtMs > 0 /\ index'[k].expiresAtMs <= now'
    BY <1>1, <1>2 DEF IInv, Memory, isExpired
  <2> QED
    BY <1>1, <1>2, <2>1, <2>2 DEF Memory, isExpired, Timed, Faithful, Covers
<1> QED
  BY <1>3, <1>4, <1>5

\* main returns: what was in memory is gone, the data file stays.
LEMMA ExitStep ==
  ASSUME IInv, phase # "erase", Exit, UNCHANGED <<meant, now>>
  PROVE  (Entries /\ Counts /\ Memory)'
<1>1. DOMAIN NoEntries = {} /\ IsFiniteSet({}) /\ Cardinality({}) = 0
  BY FS_EmptySet DEF NoEntries
<1>2. /\ index' = NoEntries /\ stats' = NoStats /\ created' = 0
      /\ ~Opened' /\ stored' = stored
  BY DEF Exit, Opened
<1>3. Entries'
  BY <1>1, <1>2 DEF IInv, Entries, ValidEntries
<1>4. Counts'
  BY <1>1, <1>2 DEF Counts, StatisticsBalance, NoStats
<1>5. Memory'
  <2>1. Faithful(index, meant)' /\ \A k \in erasing' \cap DOMAIN index' : isExpired(index[k].expiresAtMs)'
    BY <1>1, <1>2 DEF Faithful
  <2> QED
    BY <1>1, <1>2, <2>1 DEF IInv, Memory
<1> QED
  BY <1>3, <1>4, <1>5

\* What open() leaves out is dead.
LEMMA OpenStep ==
  ASSUME IInv, OpenStore
  PROVE  (Entries /\ Counts /\ Memory)'
<1>1. /\ index' = Restrict(stored, Unexpired(stored))
      /\ created' = Cardinality(DOMAIN index')
      /\ UNCHANGED <<stored, stats, erasing, meant, now>>
      /\ ~Opened /\ Opened' /\ phase = "args"
  BY DEF OpenStore, Opened, settings
<1>2. /\ Timed(meant) /\ Faithful(stored, meant) /\ Covers(stored, meant, now)
      /\ now \in 1..MaxTime /\ ValidEntries(stored) /\ IsFiniteSet(DOMAIN stored)
      /\ stats = NoStats /\ erasing = {}
  BY <1>1 DEF IInv, Settings, Entries, Counts, Memory
<1>3. /\ Unexpired(stored) \subseteq DOMAIN stored
      /\ \A k \in DOMAIN stored \ Unexpired(stored) : ~Lives(meant, k, now)
  BY <1>2, UnexpiredAreAlive
<1>4. Faithful(index', meant) /\ Covers(index', meant, now)
  BY <1>1, <1>2, <1>3, RestrictFaithful
<1>5. /\ DOMAIN index' \subseteq DOMAIN stored
      /\ \A k \in DOMAIN index' : index'[k] = stored[k]
  BY <1>1, <1>3 DEF Restrict
<1>6. IsFiniteSet(DOMAIN index') /\ Cardinality(DOMAIN index') \in Nat
  BY <1>2, <1>5, FS_Subset, FS_CardinalityType
<1>7. Entries'
  BY <1>1, <1>2, <1>5, <1>6 DEF Entries, ValidEntries
<1>8. Counts'
  BY <1>1, <1>2, <1>6 DEF IInv, Counts, StatisticsBalance, NoStats
<1>9. Memory'
  BY <1>1, <1>2, <1>4 DEF Memory, Timed, Faithful, Covers
<1> QED
  BY <1>7, <1>8, <1>9

\* With time entries die, and none comes to life.
LEMMA TickStep ==
  ASSUME IInv, Tick
  PROVE  (Entries /\ Counts /\ Memory)'
<1>1. /\ now \in Nat /\ now' = now + 1
      /\ UNCHANGED <<phase, stored, index, stats, erasing, created, meant>>
  BY ShellAssumption DEF Tick, engine, history, IInv, Settings
<1>2. Entries' /\ Counts'
  BY <1>1 DEF IInv, Entries, ValidEntries, Counts, StatisticsBalance, Opened
<1>3. Memory'
  <2>1. Covers(stored', meant', now') /\ (Opened' => Covers(index', meant', now'))
    BY <1>1, CoversLater DEF IInv, Memory, Opened
  <2>2. \A k \in erasing' \cap DOMAIN index' :
          index'[k].expiresAtMs > 0 /\ index'[k].expiresAtMs <= now'
    <3>1. \A k \in erasing \cap DOMAIN index :
            /\ index[k].expiresAtMs \in -(MaxInt + 1)..MaxInt
            /\ index[k].expiresAtMs > 0 /\ index[k].expiresAtMs <= now
      BY DEF IInv, Memory, Entries, ValidEntries, isExpired
    <3> QED
      BY <1>1, <3>1, CommandParserAssumption
  <2> QED
    BY <1>1, <2>1, <2>2 DEF IInv, Memory, Timed, Faithful, Covers, isExpired
<1> QED
  BY <1>2, <1>3

\* A line: every command, and everything that is none.
LEMMA AnswerStep ==
  ASSUME IInv, Answer
  PROVE  (Entries /\ Counts /\ Memory)'
<1>1. PICK l : \/ ~parse(l).ok /\ BadLine(l)
               \/ parse(l).ok /\ (Dispatch(l, parse(l).value) \/ ExitCommand(l, parse(l).value))
  BY DEF Answer
<1>2. phase = "prompt" /\ Opened /\ now' = now
  BY <1>1 DEF BadLine, Dispatch, ExitCommand, ReadLine, Opened
<1>3. CASE BadLine(l)
  BY <1>2, <1>3, NothingStep DEF BadLine, Nothing, engine
<1>4. CASE ExitCommand(l, parse(l).value)
  BY <1>2, <1>4, ExitStep DEF ExitCommand
<1>5. CASE parse(l).ok /\ Dispatch(l, parse(l).value)
  <2> DEFINE c == parse(l).value
             ts == tokenize(l).value
  <2>1. Remember(ts, c, out')
    BY <1>5 DEF Dispatch
  <2>2. ~(c.type \in {"Set", "Delete"}) => meant' = meant
    BY <2>1, Remembered
  <2> HIDE DEF ts, c
  <2>3. CASE c.type = "Set" /\ Set(c)
    BY <1>2, <1>5, <2>1, <2>3, SetStep DEF c, ts
  <2>4. CASE c.type \in {"Get", "Exists"} /\ Get(c)
    <3>1. meant' = meant
      BY <2>2, <2>4
    <3> QED
      BY <1>2, <2>4, <3>1, GetStep
  <2>5. CASE c.type = "Delete" /\ RemoveKey(c)
    BY <1>2, <2>1, <2>5, RemoveStep
  <2>6. CASE c.type = "Keys" /\ ListKeys(c)
    <3>1. meant' = meant /\ Cleanup
      BY <2>2, <2>6 DEF ListKeys
    <3> QED
      BY <1>2, <3>1, CleanupStep
  <2>7. CASE c.type = "Compact" /\ Compact
    <3>1. meant' = meant
      BY <2>2, <2>7
    <3> QED
      BY <1>2, <2>7, <3>1, CompactStep
  <2>8. CASE (c.type = "Stats" /\ printStatistics) \/ (c.type = "Help" /\ printHelp)
    <3>1. meant' = meant /\ Nothing
      BY <2>2, <2>8 DEF printStatistics, printHelp
    <3> QED
      BY <1>2, <3>1, NothingStep DEF Nothing, engine
  <2>9. \/ c.type = "Set" /\ Set(c)
        \/ c.type \in {"Get", "Exists"} /\ Get(c)
        \/ c.type = "Delete" /\ RemoveKey(c)
        \/ c.type = "Keys" /\ ListKeys(c)
        \/ c.type = "Compact" /\ Compact
        \/ ((c.type = "Stats" /\ printStatistics) \/ (c.type = "Help" /\ printHelp))
    BY <1>5 DEF Dispatch, c
  <2> QED
    BY <2>3, <2>4, <2>5, <2>6, <2>7, <2>8, <2>9
<1> QED
  BY <1>1, <1>3, <1>4, <1>5

\* The invariant holds after every step.
LEMMA StepIInv == IInv /\ [Next]_vars => IInv'
<1> SUFFICES ASSUME IInv, [Next]_vars PROVE IInv'
  OBVIOUS
<1>1. Settings'
  BY SettingsStep DEF IInv
<1>2. (Entries /\ Counts /\ Memory)'
  <2>1. CASE Launch
    <3>1. /\ UNCHANGED <<stored, index, stats, erasing, created, meant, now>>
          /\ ~Opened /\ ~Opened'
      BY <2>1 DEF Launch, engine, Opened
    <3> QED
      BY <3>1 DEF IInv, Entries, Counts, Memory, StatisticsBalance, isExpired
  <2>2. CASE TakeArgument
    BY <2>2, NothingStep DEF TakeArgument, engine, history
  <2>3. CASE RefuseArgument
    BY <2>3, ExitStep DEF RefuseArgument
  <2>4. CASE OpenStore
    BY <2>4, OpenStep
  <2>5. CASE OpenRefused
    BY <2>5, ExitStep DEF OpenRefused
  <2>6. CASE Answer
    BY <2>6, AnswerStep
  <2>7. CASE eraseIfExpired
    BY <2>7, EraseStep
  <2>8. CASE EndOfInput
    BY <2>8, ExitStep DEF EndOfInput
  <2>9. CASE CleanerPass
    BY <2>9, CleanupStep DEF CleanerPass, Opened
  <2>10. CASE Tick
    BY <2>10, TickStep
  <2>11. CASE UNCHANGED vars
    BY <2>11, NothingStep DEF vars
  <2> QED
    BY <2>1, <2>2, <2>3, <2>4, <2>5, <2>6, <2>7, <2>8, <2>9, <2>10, <2>11 DEF Next
<1> QED
  BY <1>1, <1>2 DEF IInv

\* The inductive invariant.
LEMMA InvariantHolds == Spec => []IInv
  BY InitIInv, StepIInv, PTL DEF Spec

-----------------------------------------------------------------------------

\* Every entry of the data file and the index can be read back, the counters are no
\* negative numbers, and get is between its steps exactly when it has found an
\* expired key.
THEOREM TypeCorrect == Spec => []TypeOK
<1>1. IInv => TypeOK
  <2> SUFFICES ASSUME IInv PROVE TypeOK
    OBVIOUS
  <2>1. asked \in 1..(2 * MaxInt + 1) /\ interval = Wrap(asked)
    BY DEF IInv, Settings
  <2>2. MaxInt \in Nat
    BY CommandParserAssumption
  <2>3. interval \in -(MaxInt + 1)..MaxInt
    BY <2>1, <2>2, WrapProperties
  <2> QED
    BY <2>3 DEF IInv, Settings, Entries, Counts, TypeOK
<1> QED
  BY <1>1, InvariantHolds, PTL

\* The keys that have entered the index are there, deleted or expired: every key is
\* counted once, also when get and the cleaner find it expired.
THEOREM KeysAreCountedOnce == Spec => []StatisticsBalance
<1>1. IInv => StatisticsBalance
  BY DEF IInv, Counts
<1> QED
  BY <1>1, InvariantHolds, PTL

\* The cleaner of a running shell waits for the interval that was asked for: one
\* that does not fit is negative, and open() has refused it.
THEOREM IntervalIsKept == Spec => []IntervalAsAsked
<1>1. IInv => IntervalAsAsked
  <2> SUFFICES ASSUME IInv, Opened PROVE interval = asked
    BY DEF IntervalAsAsked, Opened
  <2>1. asked \in 1..(2 * MaxInt + 1) /\ interval = Wrap(asked) /\ interval > 0
    BY DEF IInv, Settings
  <2>2. MaxInt \in Nat
    BY CommandParserAssumption
  <2>3. asked \in 0..(2 * MaxInt + 1) /\ asked \in Int
    BY <2>1, <2>2
  <2>4. ~(asked > MaxInt)
    <3> SUFFICES ASSUME asked > MaxInt PROVE FALSE
      OBVIOUS
    <3>1. Wrap(asked) < 0
      BY <2>3, WrapProperties
    <3>2. Wrap(asked) \in -(MaxInt + 1)..MaxInt
      BY <2>3, WrapProperties
    <3> QED
      BY <2>1, <2>2, <3>1, <3>2
  <2> QED
    BY <2>1, <2>2, <2>3, <2>4, WrapProperties
<1> QED
  BY <1>1, InvariantHolds, PTL

\* Every answer is the one that the commands before it require.
LEMMA AnswerIsExpected ==
  ASSUME IInv, NEW l, parse(l).ok, Dispatch(l, parse(l).value),
         Determined(parse(l).value)
  PROVE  out' = Expected(parse(l).value)
<1> DEFINE c == parse(l).value
           k == c.key
<1>1. phase = "prompt" /\ Opened /\ now' = now
  BY DEF Dispatch, ReadLine, Opened
<1>2. /\ \A x : ~Overflowed(x) => (x \in Unexpired(index) <=> Alive(x))
      /\ DOMAIN Drop(index, Expired) = Unexpired(index)
      /\ Unexpired(index) \subseteq DOMAIN index
  BY <1>1, ExpiredEntries
<1>3. \A x \in Unexpired(index) : x \in DOMAIN meant /\ index[x].value = meant[x].value
  BY <1>2 DEF IInv, Memory, Faithful
<1>a. /\ c.type \in {"Get", "Exists", "Delete", "Keys", "Compact"}
      /\ c.type \in {"Get", "Exists", "Delete"} => (k \in Unexpired(index) <=> Alive(k))
      /\ c.type \in {"Keys", "Compact"} => Unexpired(index) = {x \in DOMAIN meant : Alive(x)}
  BY <1>2, <1>3 DEF Determined
<1>4. \/ c.type \in {"Get", "Exists"} /\ Get(c)
      \/ c.type = "Delete" /\ RemoveKey(c)
      \/ c.type = "Keys" /\ ListKeys(c)
      \/ c.type = "Compact" /\ Compact
  BY <1>a DEF Dispatch
<1> HIDE DEF c
<1>5. CASE c.type \in {"Get", "Exists", "Delete"} /\ ~validateKey(k)
  <2>1. out' = "(error)"
    BY <1>4, <1>5 DEF Get, RemoveKey
  <2>2. Expected(c) = "(error)"
    BY <1>5 DEF Expected, validateKey
  <2> QED
    BY <2>1, <2>2 DEF c
<1>6. CASE c.type = "Get" /\ validateKey(k)
  <2>1. out' = IF k \in Unexpired(index) THEN index[k].value ELSE "(nil)"
    BY <1>4, <1>6 DEF Get
  <2>2. Expected(c) = IF Alive(k) THEN meant[k].value ELSE "(nil)"
    BY <1>6 DEF Expected, validateKey
  <2> QED
    BY <1>a, <1>3, <1>6, <2>1, <2>2 DEF c
<1>7. CASE c.type = "Exists" /\ validateKey(k)
  <2>1. out' = IF k \in Unexpired(index) THEN "1" ELSE "0"
    BY <1>4, <1>7 DEF Get
  <2>2. Expected(c) = IF Alive(k) THEN "1" ELSE "0"
    BY <1>7 DEF Expected, validateKey
  <2> QED
    BY <1>a, <1>7, <2>1, <2>2 DEF c
<1>8. CASE c.type = "Delete" /\ validateKey(k)
  <2>1. out' = IF k \in Unexpired(index) THEN "1" ELSE "0"
    BY <1>4, <1>8 DEF RemoveKey
  <2>2. Expected(c) = IF Alive(k) THEN "1" ELSE "0"
    BY <1>8 DEF Expected, validateKey
  <2> QED
    BY <1>a, <1>8, <2>1, <2>2 DEF c
<1>9. CASE c.type = "Keys"
  <2>1. out' = {x \in DOMAIN Drop(index, Expired) : IsPrefix(k, x)}
    BY <1>4, <1>9 DEF ListKeys, Cleanup
  <2>2. Expected(c) = {x \in DOMAIN meant : Alive(x) /\ IsPrefix(k, x)}
    BY <1>9 DEF Expected
  <2>3. out' = Expected(c)
    BY <1>2, <1>a, <1>9, <2>1, <2>2
  <2> QED
    BY <2>3 DEF c
<1>10. CASE c.type = "Compact"
  <2>1. out' = <<"OK", Cardinality(DOMAIN Drop(index, Expired))>>
    BY <1>4, <1>10 DEF Compact
  <2>2. Expected(c) = <<"OK", Cardinality({x \in DOMAIN meant : Alive(x)})>>
    BY <1>10 DEF Expected
  <2> QED
    BY <1>2, <1>a, <1>10, <2>1, <2>2 DEF c
<1> QED
  BY <1>a, <1>5, <1>6, <1>7, <1>8, <1>9, <1>10 DEF c

\* The shell answers as the acknowledged commands before require: with the last
\* value and until exactly the deadline, across passes of the cleaner, compactions
\* and restarts.  The one condition is Determined: where the sum of clock and TTL
\* has overflowed, which set() does not rule out, nothing is said.
THEOREM AnswersAreExpected == Spec => AnswersFollowHistory
<1>1. IInv /\ [Next]_vars =>
        [lines' # lines =>
           LET r == parse(line') IN
           r.ok /\ Determined(r.value) => out' = Expected(r.value)]_vars
  <2> SUFFICES ASSUME IInv, Next, lines' # lines, parse(line').ok,
                      Determined(parse(line').value)
               PROVE  out' = Expected(parse(line').value)
    BY DEF vars
  <2>1. CASE Answer
    <3>1. PICK l : \/ ~parse(l).ok /\ BadLine(l)
                   \/ parse(l).ok /\ (Dispatch(l, parse(l).value) \/ ExitCommand(l, parse(l).value))
      BY <2>1 DEF Answer
    <3>2. line' = l
      BY <3>1 DEF BadLine, Dispatch, ExitCommand, ReadLine
    <3>3. Dispatch(l, parse(l).value)
      BY <3>1, <3>2 DEF ExitCommand, Determined
    <3> QED
      BY <3>2, <3>3, AnswerIsExpected
  <2>2. CASE Launch \/ TakeArgument \/ RefuseArgument \/ OpenStore \/ OpenRefused
    BY <2>2 DEF Launch, TakeArgument, RefuseArgument, OpenStore, OpenRefused, history
  <2>3. CASE eraseIfExpired \/ EndOfInput \/ CleanerPass \/ Tick
    BY <2>3 DEF eraseIfExpired, EndOfInput, CleanerPass, Tick, history
  <2> QED
    BY <2>1, <2>2, <2>3 DEF Next
<1> QED
  BY <1>1, InvariantHolds, PTL DEF Spec, AnswersFollowHistory

-----------------------------------------------------------------------------
(* The lines the program reads. *)

\* The line last read is one of those a user may type, and the bounds are kept.
LineInv ==
  /\ lines \in 0..MaxLines
  /\ sessions \in 0..MaxSessions
  /\ line \in Text

\* Every line of a session is within the bounds for which Lines is known.
LEMMA StepLineInv == LineInv /\ [Next]_vars => LineInv'
<1> SUFFICES ASSUME LineInv, [Next]_vars PROVE LineInv'
  OBVIOUS
<1>1. MaxLines \in Nat /\ MaxSessions \in Nat /\ lines \in Nat /\ sessions \in Nat
  BY ShellAssumption DEF LineInv
<1>2. <<>> \in Text
  BY DEF Text
<1>3. CASE Launch
  <2>1. sessions' = sessions + 1 /\ sessions < MaxSessions /\ lines' = lines /\ line' = <<>>
    BY <1>3 DEF Launch
  <2> QED
    BY <1>1, <1>2, <2>1 DEF LineInv
<1>4. CASE Answer
  <2>1. PICK l \in Lines(sessions, lines + 1) : ReadLine(l)
    BY <1>4 DEF Answer, BadLine, Dispatch, ExitCommand
  <2>2. lines < MaxLines /\ lines' = lines + 1 /\ sessions' = sessions /\ line' = l
    BY <2>1 DEF ReadLine
  <2>3. lines + 1 \in 1..MaxLines /\ lines + 1 \in 0..MaxLines
    BY <1>1, <2>2
  <2>4. Lines(sessions, lines + 1) \subseteq Seq(Symbols)
    BY <2>3, ShellAssumption DEF LineInv
  <2> QED
    BY <2>1, <2>2, <2>3, <2>4 DEF LineInv, Text
<1>5. CASE EndOfInput
  BY <1>2, <1>5 DEF EndOfInput, LineInv
<1>6. CASE \/ TakeArgument \/ RefuseArgument \/ OpenStore \/ OpenRefused
           \/ eraseIfExpired \/ CleanerPass \/ Tick \/ UNCHANGED vars
  <2>1. UNCHANGED <<lines, sessions, line>>
    BY <1>6 DEF TakeArgument, RefuseArgument, OpenStore, OpenRefused, eraseIfExpired,
                CleanerPass, Tick, vars, history
  <2> QED
    BY <2>1 DEF LineInv
<1> QED
  BY <1>3, <1>4, <1>5, <1>6 DEF Next

\* Whatever a user types, the tokenizer takes it exactly when the grammar does, and
\* finds the same words in it: TokenizeReads says so of every text, and what the
\* program reads are texts.
THEOREM TokenizerFollows == Spec => []TokenizeFollowsGrammar
<1>1. Init => LineInv
  BY ShellAssumption DEF Init, LineInv, Text
<1>2. LineInv => TokenizeFollowsGrammar
  BY TokenizeReads DEF LineInv, TokenizeFollowsGrammar
<1> QED
  BY <1>1, <1>2, StepLineInv, PTL DEF Spec

=============================================================================
