---------------------------- MODULE CommandParser ----------------------------
(***************************************************************************)
(* CommandParser.cpp: from a line to a command or an error.                *)
(*                                                                         *)
(* A line is a sequence of symbols: the characters the tokenizer treats    *)
(* specially, and runs of ordinary characters, each of which is one symbol *)
(* (no run is another one cut short or two others put together).           *)
(***************************************************************************)
EXTENDS Integers, Sequences, SequencesExt

CONSTANTS
  Symbols,      \* what lines are made of
  Spaces,       \* those std::isspace says are white space
  Upper,        \* std::toupper, on the runs it changes
  Number,       \* the runs that spell an integer, and the integer
  MaxInt,       \* INT64_MAX, smaller in the models
  MsPerSecond   \* 1000, smaller in the models

Quote == "\""
Backslash == "\\"

ASSUME CommandParserAssumption ==
  /\ {Quote, Backslash, "\n", "\t"} \subseteq Symbols
  /\ Spaces \subseteq Symbols \ {Quote, Backslash}
  /\ MaxInt \in Nat \ {0}
  /\ MsPerSecond \in 1..MaxInt
  /\ \A w \in DOMAIN Number : Number[w] \in Int

Escapes ==
  [ch \in {"n", "t", Quote, Backslash} |->
     IF ch = "n" THEN "\n" ELSE IF ch = "t" THEN "\t" ELSE ch]

\* Two's complement, for a sum or product that is at most one too many.
Wrap(n) == IF n > MaxInt THEN n - 2 * (MaxInt + 1) ELSE n

(* Result<T>: a value, or the code of a status. *)
Success(v) == [ok |-> TRUE, value |-> v]
Failure(code) == [ok |-> FALSE, status |-> code]

-----------------------------------------------------------------------------
(* tokenize *)

\* The local variables before the first character.
Start == [tokens |-> <<>>, current |-> <<>>, inQuotes |-> FALSE, escaping |-> FALSE,
          tokenStarted |-> FALSE, failed |-> FALSE]

Push(s, symbol) == [s EXCEPT !.current = Append(@, symbol), !.tokenStarted = TRUE]

EndToken(s) ==
  IF s.tokenStarted
  THEN [s EXCEPT !.tokens = Append(@, s.current), !.current = <<>>, !.tokenStarted = FALSE]
  ELSE s

\* Mutant: a backslash escapes outside quotes, too.
EscapesHere(s, ch) == ch = Backslash

BeginsEscape(s, ch) == s.inQuotes /\ ch = Backslash

\* One iteration of the loop.
Consume(s, ch) ==
  IF s.failed THEN s
  ELSE IF s.escaping
  THEN IF ch \in DOMAIN Escapes THEN [Push(s, Escapes[ch]) EXCEPT !.escaping = FALSE]
                                ELSE [s EXCEPT !.failed = TRUE]
  ELSE IF BeginsEscape(s, ch) THEN [s EXCEPT !.escaping = TRUE]
  ELSE IF ch = Quote THEN [s EXCEPT !.inQuotes = ~@, !.tokenStarted = TRUE]
  ELSE IF ~s.inQuotes /\ ch \in Spaces THEN EndToken(s)
  ELSE Push(s, ch)

tokenize(input) ==
  LET s == FoldLeft(Consume, Start, input) IN
  IF s.failed \/ s.escaping \/ s.inQuotes THEN Failure("InvalidArgument")
                                          ELSE Success(EndToken(s).tokens)

-----------------------------------------------------------------------------
(* parse *)

uppercase(token) ==
  [i \in DOMAIN token |-> IF token[i] \in DOMAIN Upper THEN Upper[token[i]] ELSE token[i]]

\* from_chars refuses what is no integer and what does not fit.
parseTtl(text) ==
  IF /\ Len(text) = 1 /\ text[1] \in DOMAIN Number
     /\ Number[text[1]] \in 1..MaxInt
     /\ Number[text[1]] <= MaxInt \div MsPerSecond
  THEN Success(Wrap(Number[text[1]] * MsPerSecond))
  ELSE Failure("InvalidArgument")

\* The command every name stands for, and the numbers of tokens it may have.
CommandType == [
  SET     |-> [type |-> "Set", sizes |-> {3, 5}],
  GET     |-> [type |-> "Get", sizes |-> {2}],
  DEL     |-> [type |-> "Delete", sizes |-> {2}],
  DELETE  |-> [type |-> "Delete", sizes |-> {2}],
  EXISTS  |-> [type |-> "Exists", sizes |-> {2}],
  KEYS    |-> [type |-> "Keys", sizes |-> {1, 2}],
  STATS   |-> [type |-> "Stats", sizes |-> {1}],
  COMPACT |-> [type |-> "Compact", sizes |-> {1}],
  HELP    |-> [type |-> "Help", sizes |-> {1}],
  EXIT    |-> [type |-> "Exit", sizes |-> {1}],
  QUIT    |-> [type |-> "Exit", sizes |-> {1}]]

\* A ttl of 0 stands for none: parseTtl returns no such thing.
Command(type, tokens, ttl) ==
  [type  |-> type,
   key   |-> IF Len(tokens) >= 2 THEN tokens[2] ELSE <<>>,
   value |-> IF Len(tokens) >= 3 THEN tokens[3] ELSE <<>>,
   ttl   |-> ttl]

parseTokens(tokens) ==
  LET name == uppercase(tokens[1]) IN
  IF tokens = <<>> \/ Len(name) # 1 \/ name[1] \notin DOMAIN CommandType
  THEN Failure("InvalidArgument")
  ELSE LET usage == CommandType[name[1]] IN
  IF Len(tokens) \notin usage.sizes THEN Failure("InvalidArgument")
  ELSE IF Len(tokens) < 5 THEN Success(Command(usage.type, tokens, 0))
  ELSE IF uppercase(tokens[4]) # <<"TTL">> \/ ~parseTtl(tokens[5]).ok
  THEN Failure("InvalidArgument")
  ELSE Success(Command(usage.type, tokens, parseTtl(tokens[5]).value))

parse(input) ==
  IF tokenize(input).ok THEN parseTokens(tokenize(input).value) ELSE tokenize(input)

=============================================================================
