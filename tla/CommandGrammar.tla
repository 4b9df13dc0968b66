--------------------------- MODULE CommandGrammar ---------------------------
(***************************************************************************)
(* How a line is meant to be read, as a grammar:                           *)
(*                                                                         *)
(*    line   ::=  words, with spaces before, between and after them        *)
(*    word   ::=  one or more pieces                                       *)
(*    piece  ::=  a character that is no space and no quote, or a string   *)
(*    string ::=  characters and escapes between two quotes                *)
(*                                                                         *)
(* The functions below descend through it, and take as much as they can:   *)
(* they return the text they have read and the rest of the line, or Bad    *)
(* when a string has no end or a wrong escape in it.                       *)
(***************************************************************************)
EXTENDS CommandParser

Bad == Failure("InvalidArgument")

Read(text, rest) == Success([text |-> text, rest |-> rest])

\* What was read, with text before it.
After(text, r) == IF r.ok THEN Read(text \o r.value.text, r.value.rest) ELSE Bad

\* The string that begins behind an opening quote.
String[s \in Seq(Symbols)] ==
  IF s = <<>> THEN Bad
  ELSE IF Head(s) = Quote THEN Read(<<>>, Tail(s))
  ELSE IF Head(s) # Backslash THEN After(<<Head(s)>>, String[Tail(s)])
  ELSE IF Len(s) = 1 \/ s[2] \notin DOMAIN Escapes THEN Bad
  ELSE After(<<Escapes[s[2]]>>, String[Tail(Tail(s))])

\* The rest of a word.
Word[s \in Seq(Symbols)] ==
  IF s = <<>> THEN Read(<<>>, s)
  ELSE IF Head(s) \in Spaces THEN Read(<<>>, s)
  ELSE IF Head(s) # Quote THEN After(<<Head(s)>>, Word[Tail(s)])
  ELSE LET q == String[Tail(s)] IN
       IF q.ok THEN After(q.value.text, Word[q.value.rest]) ELSE Bad

\* The words of a line after those in words.
AddWords(words, r) == IF r.ok THEN Success(words \o r.value) ELSE Bad

Line[s \in Seq(Symbols)] ==
  IF s = <<>> THEN Success(<<>>)
  ELSE IF Head(s) \in Spaces THEN Line[Tail(s)]
  ELSE LET w == Word[s] IN
       IF w.ok THEN AddWords(<<w.value.text>>, Line[w.value.rest]) ELSE Bad

=============================================================================
