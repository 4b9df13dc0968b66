-------------------------------- MODULE Shell --------------------------------
(***************************************************************************)
(* The command-line shell (app/main.cpp): it reads its arguments, opens    *)
(* the store, answers one line after the other, and can be started again   *)
(* on the same data file.                                                  *)
(*                                                                         *)
(* The shell is the one client of its engine, so a call of the engine is   *)
(* one step here; only the passes of the cleaner come in between, and into *)
(* the gap of get.  Of the data file the last entry of every key is kept.  *)
(* Integers are those of the machine (MaxInt).  Where a signed sum         *)
(* overflows, which C++ leaves undefined, it is any of them.               *)
(***************************************************************************)
EXTENDS CommandGrammar, FiniteSets

CONSTANTS
  Arguments,          \* what the program may be started with: sequences of symbols
  Lines(_, _),        \* the lines a user may type: in which session, as which one
  Length,             \* the lengths of the runs that are longer than one character
  kMaximumKeySize,
  kMaximumValueSize,
  MaxTime,            \* bound: the clock stops here
  MaxLines,           \* bound: number of lines
  MaxSessions         \* bound: number of times the program is started

ASSUME ShellAssumption ==
  /\ MaxTime \in 1..MaxInt
  /\ kMaximumKeySize \in Nat \ {0}
  /\ kMaximumValueSize \in Nat
  /\ MaxLines \in Nat
  /\ MaxSessions \in Nat
  /\ \A s \in 0..MaxSessions, n \in 1..MaxLines : Lines(s, n) \subseteq Seq(Symbols)

VARIABLES
  phase,     \* "off", "args", "prompt", or "erase" inside get
  args,      \* the arguments not yet looked at
  interval,  \* config_.cleanupInterval
  stored,    \* the last entry of every key in the data file
  index,     \* index_, with the values it leads to
  stats,     \* the counters of the engine
  erasing,   \* the key get has found expired and is about to erase
  now,       \* the system clock
  line,      \* the last line
  out,       \* what the program has answered last
  lines, sessions,
  meant,     \* history: what the commands that were answered with success mean
  created,   \* history: number of keys that entered the index
  asked      \* history: the interval that was asked for

vars == <<phase, args, interval, stored, index, stats, erasing, now, line, out,
          lines, sessions, meant, created, asked>>

engine == <<stored, index, stats, erasing>>
history == <<lines, sessions, meant, created>>
settings == <<args, interval, asked>>

Size(token) ==
  FoldLeft(LAMBDA n, w : n + (IF w \in DOMAIN Length THEN Length[w] ELSE 1), 0, token)

NoEntries == [k \in {} |-> <<>>]
NoStats == [sets |-> 0, gets |-> 0, deletes |-> 0, expired |-> 0, compactions |-> 0]

ValidEntries(f) ==
  \A k \in DOMAIN f :
    /\ Size(k) \in 1..kMaximumKeySize
    /\ Size(f[k].value) <= kMaximumValueSize
    /\ f[k].expiresAtMs \in -(MaxInt + 1)..MaxInt

\* Every entry could be read back: recover() refuses a record without a key, or
\* with one that is too long.
TypeOK ==
  /\ phase \in {"off", "args", "prompt", "erase"}
  /\ interval \in -(MaxInt + 1)..MaxInt
  /\ ValidEntries(stored)
  /\ ValidEntries(index)
  /\ stats \in [DOMAIN NoStats -> Nat]
  /\ erasing # {} <=> phase = "erase"
  /\ now \in 1..MaxTime

Init ==
  /\ phase = "off"
  /\ args = <<>>
  /\ interval = 1
  /\ stored = NoEntries
  /\ index = NoEntries
  /\ stats = NoStats
  /\ erasing = {}
  /\ now = 1
  /\ line = <<>>
  /\ out = "none"
  /\ lines = 0
  /\ sessions = 0
  /\ meant = NoEntries
  /\ created = 0
  /\ asked = 1

-----------------------------------------------------------------------------
(* From the start of the program to its first prompt. *)

Launch ==
  /\ phase = "off"
  /\ sessions < MaxSessions
  /\ sessions' = sessions + 1
  /\ args' \in Arguments
  /\ phase' = "args"
  /\ interval' = 1
  /\ asked' = 1
  /\ line' = <<>>
  /\ out' = "none"
  /\ UNCHANGED <<engine, now, lines, meant, created>>

\* main returns: the store is closed, and what it kept in memory is gone.
Exit ==
  /\ phase' = "off"
  /\ index' = NoEntries
  /\ stats' = NoStats
  /\ created' = 0
  /\ UNCHANGED <<stored, erasing>>

\* unsigned long long, not 0.
parsePositiveSize(text) ==
  IF text \in DOMAIN Number /\ Number[text] \in 1..(2 * MaxInt + 1)
  THEN Success(Number[text]) ELSE Failure("InvalidArgument")

Sized == {"--cache", "--cleanup-ms"}

\* An argument that is taken, with the one that follows it; the conversion to
\* milliseconds makes a signed number of an unsigned one.
TakeArgument ==
  /\ phase = "args"
  /\ Len(args) >= 2
  /\ args[1] \in Sized \cup {"--data"}
  /\ args[1] \in Sized => parsePositiveSize(args[2]).ok
  /\ IF args[1] = "--cleanup-ms"
     THEN /\ interval' = Wrap(parsePositiveSize(args[2]).value)
          /\ asked' = Number[args[2]]
     ELSE UNCHANGED <<interval, asked>>
  /\ args' = Tail(Tail(args))
  /\ UNCHANGED <<phase, engine, now, line, out, history>>

\* One that ends the program.
RefuseArgument ==
  /\ phase = "args"
  /\ args # <<>>
  /\ Len(args) >= 2 => /\ args[1] # "--data"
                       /\ args[1] \in Sized => ~parsePositiveSize(args[2]).ok
  /\ Exit
  /\ out' = IF args[1] \in {"--help", "-h"} THEN "usage" ELSE "failure"
  /\ UNCHANGED <<settings, now, line, lines, sessions, meant>>

\* Mutant: off by one.
isExpiredLate(e) == e > 0 /\ e < now

isExpired(e) == e > 0 /\ e <= now

Unexpired(f) == {k \in DOMAIN f : ~isExpired(f[k].expiresAtMs)}

\* Mutant: open() does not look at the interval.
OpenAnyInterval ==
  /\ phase = "args"
  /\ args = <<>>
  /\ index' = Restrict(stored, Unexpired(stored))
  /\ created' = Cardinality(DOMAIN index')
  /\ phase' = "prompt"
  /\ UNCHANGED <<settings, stored, stats, erasing, now, line, out, lines,
                 sessions, meant>>

\* open() builds the index from the data file.
OpenStore ==
  /\ phase = "args"
  /\ args = <<>>
  /\ interval > 0
  /\ index' = Restrict(stored, Unexpired(stored))
  /\ created' = Cardinality(DOMAIN index')
  /\ phase' = "prompt"
  /\ UNCHANGED <<settings, stored, stats, erasing, now, line, out, lines,
                 sessions, meant>>

OpenRefused ==
  /\ phase = "args"
  /\ args = <<>>
  /\ interval <= 0
  /\ Exit
  /\ out' = "failure"
  /\ UNCHANGED <<settings, now, line, lines, sessions, meant>>

-----------------------------------------------------------------------------
(* The calls of the engine.  Each says what it answers and leaves behind. *)

Put(f, k, e) == [x \in DOMAIN f \cup {k} |-> IF x = k THEN e ELSE f[x]]
Drop(f, ks) == Restrict(f, DOMAIN f \ ks)
Count(counter, n) == [stats EXCEPT ![counter] = @ + n]

validateKey(key) == Size(key) \in 1..kMaximumKeySize

\* Mutant: off by one.
validateValueOffByOne(value) == Size(value) <= kMaximumValueSize + 1

validateValue(value) == Size(value) <= kMaximumValueSize

Expired == DOMAIN index \ Unexpired(index)

Nothing == UNCHANGED <<phase, engine, created>>

\* unixTimeMilliseconds() + ttl->count(): two signed numbers of 64 bits, and nothing
\* in the build defines what an overflow of them gives.
ExpiryTimes(ttl) ==
  IF ttl = 0 THEN {0}
  ELSE IF now + ttl <= MaxInt THEN {now + ttl}
  ELSE -(MaxInt + 1)..MaxInt

Set(c) ==
  IF validateKey(c.key) /\ validateValue(c.value)
  THEN \E t \in ExpiryTimes(c.ttl) :
       LET e == [value |-> c.value, expiresAtMs |-> t]
       IN /\ stored' = Put(stored, c.key, e)
          /\ index' = Put(index, c.key, e)
          /\ stats' = Count("sets", 1)
          /\ created' = created + (IF c.key \in DOMAIN index THEN 0 ELSE 1)
          /\ out' = "OK"
          /\ UNCHANGED <<phase, erasing>>
  ELSE Nothing /\ out' = "(error)"

\* get and exists; a value is printed as the token it is.  An expired key is
\* erased in a second step, behind the shared lock.
Get(c) ==
  IF ~validateKey(c.key)
  THEN Nothing /\ out' = "(error)"
  ELSE LET found == c.key \in Unexpired(index)
       IN /\ stats' = Count("gets", 1)
          /\ erasing' = {c.key} \cap Expired
          /\ phase' = IF erasing' = {} THEN "prompt" ELSE "erase"
          /\ out' = IF c.type = "Exists" THEN (IF found THEN "1" ELSE "0")
                    ELSE IF found THEN index[c.key].value ELSE "(nil)"
          /\ UNCHANGED <<stored, index, created>>

\* Mutant: eraseIfExpired does not look whether the entry is still there.
EraseBlindly ==
  /\ phase = "erase"
  /\ index' = Drop(index, erasing)
  /\ stats' = Count("expired", 1)
  /\ erasing' = {}
  /\ phase' = "prompt"
  /\ UNCHANGED <<settings, stored, now, line, out, history>>

eraseIfExpired ==
  /\ phase = "erase"
  /\ index' = Drop(index, erasing)
  /\ stats' = Count("expired", Cardinality(erasing \cap DOMAIN index))
  /\ erasing' = {}
  /\ phase' = "prompt"
  /\ UNCHANGED <<settings, stored, now, line, out, history>>

RemoveKey(c) ==
  IF ~validateKey(c.key)
  THEN Nothing /\ out' = "(error)"
  ELSE /\ stored' = IF c.key \in Unexpired(index) THEN Drop(stored, {c.key}) ELSE stored
       /\ index' = Drop(index, {c.key})
       /\ stats' = [stats EXCEPT
            !.deletes = @ + (IF c.key \in Unexpired(index) THEN 1 ELSE 0),
            !.expired = @ + (IF c.key \in Expired THEN 1 ELSE 0)]
       /\ out' = IF c.key \in Unexpired(index) THEN "1" ELSE "0"
       /\ UNCHANGED <<phase, erasing, created>>

\* cleanupExpired
Cleanup ==
  /\ index' = Drop(index, Expired)
  /\ stats' = Count("expired", Cardinality(Expired))
  /\ UNCHANGED <<phase, stored, erasing, created>>

ListKeys(c) ==
  /\ Cleanup
  /\ out' = {k \in DOMAIN index' : IsPrefix(c.key, k)}

Compact ==
  /\ index' = Drop(index, Expired)
  /\ stored' = index'
  /\ stats' = [stats EXCEPT !.expired = @ + Cardinality(Expired), !.compactions = @ + 1]
  /\ out' = <<"OK", Cardinality(DOMAIN index')>>
  /\ UNCHANGED <<phase, erasing, created>>

statistics == [keyCount |-> Cardinality(DOMAIN index)] @@ stats

printStatistics == Nothing /\ out' = statistics

printHelp == Nothing /\ out' = "help"

-----------------------------------------------------------------------------
(* The loop of main. *)

\* What a command that was answered with success means: until its deadline, if it
\* has one, the key has the value.
Remember(tokens, c, answer) ==
  meant' =
    CASE c.type = "Set" /\ answer = "OK" ->
           Put(meant, c.key,
               [value |-> c.value,
                deadline |-> IF Len(tokens) = 5
                             THEN now + Number[tokens[5][1]] * MsPerSecond ELSE 0])
      [] c.type = "Delete" /\ answer = "1" -> Drop(meant, {c.key})
      [] OTHER -> meant

ReadLine(l) ==
  /\ phase = "prompt"
  /\ lines < MaxLines
  /\ line' = l
  /\ lines' = lines + 1
  /\ UNCHANGED <<settings, now, sessions>>

BadLine(l) ==
  /\ ReadLine(l)
  /\ out' = "(error)"
  /\ Nothing
  /\ UNCHANGED meant

Dispatch(l, c) ==
  /\ ReadLine(l)
  /\ \/ c.type = "Set" /\ Set(c)
     \/ c.type \in {"Get", "Exists"} /\ Get(c)
     \/ c.type = "Delete" /\ RemoveKey(c)
     \/ c.type = "Keys" /\ ListKeys(c)
     \/ c.type = "Stats" /\ printStatistics
     \/ c.type = "Compact" /\ Compact
     \/ c.type = "Help" /\ printHelp
  /\ Remember(tokenize(l).value, c, out')

ExitCommand(l, c) ==
  /\ ReadLine(l)
  /\ c.type = "Exit"
  /\ out' = "Bye."
  /\ Exit
  /\ UNCHANGED meant

EndOfInput ==
  /\ phase = "prompt"
  /\ Exit
  /\ line' = <<>>
  /\ out' = "none"
  /\ UNCHANGED <<settings, now, lines, sessions, meant>>

-----------------------------------------------------------------------------

\* A pass of the background cleaner.
CleanerPass ==
  /\ phase \in {"prompt", "erase"}
  /\ Cleanup
  /\ UNCHANGED <<settings, now, line, out, lines, sessions, meant>>

Tick ==
  /\ now < MaxTime
  /\ now' = now + 1
  /\ UNCHANGED <<phase, settings, engine, line, out, history>>

Answer ==
  \E l \in Lines(sessions, lines + 1) :
    LET r == parse(l) IN
    \/ ~r.ok /\ BadLine(l)
    \/ r.ok /\ (Dispatch(l, r.value) \/ ExitCommand(l, r.value))

Next ==
  \/ Launch \/ TakeArgument \/ RefuseArgument \/ OpenStore \/ OpenRefused
  \/ Answer \/ eraseIfExpired \/ EndOfInput
  \/ CleanerPass \/ Tick

Spec == Init /\ [][Next]_vars

-----------------------------------------------------------------------------
(* Properties. *)

Alive(k) == k \in DOMAIN meant /\ (meant[k].deadline = 0 \/ now < meant[k].deadline)

\* The deadline of key k is none the program can represent: its sum has overflowed.
Overflowed(k) == k \in DOMAIN meant /\ meant[k].deadline > MaxInt

\* No overflow has a part in the answer to command c.
Determined(c) ==
  \/ c.type \in {"Get", "Exists", "Delete"} /\ ~Overflowed(c.key)
  \/ c.type \in {"Keys", "Compact"} /\ \A k \in DOMAIN meant : ~Overflowed(k)

\* The answer to command c that the commands before it lead one to expect.
Expected(c) ==
  IF c.type \in {"Get", "Exists", "Delete"} /\ Size(c.key) \notin 1..kMaximumKeySize
  THEN "(error)"
  ELSE CASE c.type = "Get" -> IF Alive(c.key) THEN meant[c.key].value ELSE "(nil)"
         [] c.type \in {"Exists", "Delete"} -> IF Alive(c.key) THEN "1" ELSE "0"
         [] c.type = "Keys" -> {k \in DOMAIN meant : Alive(k) /\ IsPrefix(c.key, k)}
         [] c.type = "Compact" -> <<"OK", Cardinality({k \in DOMAIN meant : Alive(k)})>>

\* The tokenizer reads every line as the grammar does: it takes the same lines, and
\* finds the same words in them, empty strings and strings inside words included.
TokenizeFollowsGrammar == tokenize(line) = Line[line]

\* The shell answers GET, EXISTS, DEL, KEYS and COMPACT as the acknowledged commands
\* before require, also across passes of the cleaner, compactions and restarts of
\* the program: no value is gone before its TTL is over, and none is seen after.
\* It says nothing of keys whose deadline is beyond INT64_MAX (Determined): set()
\* takes such a TTL, and what it stores is undefined.
AnswersFollowHistory ==
  [][lines' # lines =>
       LET r == parse(line') IN
       r.ok /\ Determined(r.value) => out' = Expected(r.value)]_vars

\* The statistics account for every key once: the keys that have entered the index
\* in this session are there, deleted or expired, also when get and the cleaner
\* find the same key expired.
StatisticsBalance ==
  created = Cardinality(DOMAIN index) + stats.deletes + stats.expired

\* The cleaner of a running shell waits for the interval that was asked for on the
\* command line, and not for what the conversion to a signed number of milliseconds
\* made of it: an interval too large for that ends the program.
IntervalAsAsked == phase \in {"prompt", "erase"} => interval = asked

=============================================================================
