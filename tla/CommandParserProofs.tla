------------------------- MODULE CommandParserProofs -------------------------
(***************************************************************************)
(* The tokenizer reads every line as the grammar does.  The functions of   *)
(* the grammar and the fold of tokenize are recursive: Recursion shows     *)
(* that they are well defined, Induction what they have in common.  Both   *)
(* speak of sets and functions only, and rest on the fact that < is well   *)
(* founded on Nat.                                                         *)
(***************************************************************************)
EXTENDS CommandGrammar, TLAPS, SequenceTheorems, WellFoundedInduction

\* A set of natural numbers with 0 and every successor has all of them.
LEMMA Induction ==
  ASSUME NEW T, 0 \in T, \A n \in T \cap Nat : n + 1 \in T
  PROVE  Nat \subseteq T
<1> SUFFICES ASSUME Nat \ T # {}
             PROVE  FALSE
  OBVIOUS
<1>1. IsWellFoundedOn(OpToRel(<, Nat), Nat)
  BY NatLessThanWellFounded
<1>2. PICK x \in Nat \ T : \A y \in Nat \ T : ~(<<y, x>> \in OpToRel(<, Nat))
  BY <1>1, WFMin
<1>3. x # 0 /\ x - 1 \in Nat /\ x - 1 < x /\ (x - 1) + 1 = x
  OBVIOUS
<1>4. <<x - 1, x>> \in OpToRel(<, Nat)
  BY <1>3 DEF OpToRel
<1>5. x - 1 \in T
  BY <1>2, <1>3, <1>4
<1> QED BY <1>3, <1>5

\* F tells the value at x from the values at lower places.
LooksBelow(S, V, h, F) ==
  \A x \in S : \A f, g \in [S -> V] :
    (\A y \in S : h[y] < h[x] => f[y] = g[y]) => F[x][f] = F[x][g]

Solves(f, S, F) == \A x \in S : f[x] = F[x][f]

\* A function can be defined by recursion along a height.
LEMMA Recursion ==
  ASSUME NEW S, NEW V, NEW v \in V, NEW h \in [S -> Nat],
         NEW F \in [S -> [[S -> V] -> V]],
         LooksBelow(S, V, h, F)
  PROVE  \E f \in [S -> V] : Solves(f, S, F)
<1> DEFINE Sol(f, n) == f \in [S -> V] /\ \A x \in S : h[x] < n => f[x] = F[x][f]
<1>1. \A n \in Nat : \E f : Sol(f, n)
  <2> DEFINE T == {n \in Nat : \E f : Sol(f, n)}
  <2>1. 0 \in T
    <3>1. Sol([x \in S |-> v], 0)
      OBVIOUS
    <3> QED BY <3>1
  <2>2. ASSUME NEW n \in T PROVE n + 1 \in T
    <3>1. PICK f : Sol(f, n)
      OBVIOUS
    <3> DEFINE g == [x \in S |-> IF h[x] < n THEN f[x] ELSE F[x][f]]
    <3>2. g \in [S -> V]
      BY <3>1
    <3>3. ASSUME NEW x \in S, h[x] < n + 1 PROVE g[x] = F[x][g]
      <4>1. \A y \in S : h[y] < h[x] => f[y] = g[y]
        BY <3>3
      <4>2. F[x][f] = F[x][g]
        BY <3>1, <3>2, <4>1 DEF LooksBelow
      <4>3. g[x] = F[x][f]
        BY <3>1
      <4> QED BY <4>2, <4>3
    <3>4. Sol(g, n + 1)
      BY <3>2, <3>3
    <3> HIDE DEF g, Sol
    <3> QED BY <3>4
  <2> HIDE DEF T
  <2>3. Nat \subseteq T
    BY <2>1, <2>2, Induction
  <2> QED BY <2>3 DEF T
<1>2. ASSUME NEW n \in Nat, NEW f, NEW g, Sol(f, n), Sol(g, n)
      PROVE  \A x \in S : h[x] < n => f[x] = g[x]
  <2> DEFINE T == {m \in Nat : \A x \in S : h[x] < m /\ h[x] < n => f[x] = g[x]}
  <2>1. 0 \in T
    OBVIOUS
  <2>2. ASSUME NEW m \in T PROVE m + 1 \in T
    <3>1. ASSUME NEW x \in S, h[x] < m + 1, h[x] < n PROVE f[x] = g[x]
      <4>1. \A y \in S : h[y] < h[x] => f[y] = g[y]
        BY <3>1
      <4>2. F[x][f] = F[x][g]
        BY <1>2, <4>1 DEF LooksBelow
      <4> QED BY <1>2, <3>1, <4>2
    <3> QED BY <3>1
  <2> HIDE DEF T
  <2>3. Nat \subseteq T
    BY <2>1, <2>2, Induction
  <2>4. n \in T
    BY <2>3
  <2> QED BY <2>4 DEF T
<1> DEFINE Pick(n) == CHOOSE f : Sol(f, n)
<1> DEFINE f == [x \in S |-> Pick(h[x] + 1)[x]]
<1> HIDE DEF Sol
<1>3. \A n \in Nat : Sol(Pick(n), n)
  BY <1>1
<1> HIDE DEF Pick
<1>4. f \in [S -> V]
  <2>1. ASSUME NEW x \in S PROVE Pick(h[x] + 1)[x] \in V
    <3>1. Sol(Pick(h[x] + 1), h[x] + 1)
      BY <1>3
    <3> QED BY <3>1 DEF Sol
  <2> QED BY <2>1
<1>5. ASSUME NEW x \in S PROVE f[x] = F[x][f]
  <2> DEFINE g == Pick(h[x] + 1)
  <2> HIDE DEF g
  <2>1. Sol(g, h[x] + 1)
    BY <1>3 DEF g
  <2>2. ASSUME NEW y \in S, h[y] < h[x] PROVE f[y] = g[y]
    <3> h[x] \in Nat /\ h[y] \in Nat
      OBVIOUS
    <3>1. Sol(g, h[y] + 1)
      <4>1. ASSUME NEW z \in S, h[z] < h[y] + 1 PROVE h[z] < h[x] + 1
        BY <2>2, <4>1
      <4> QED BY <2>1, <4>1 DEF Sol
    <3>2. Sol(Pick(h[y] + 1), h[y] + 1)
      BY <1>3
    <3>3. Pick(h[y] + 1)[y] = g[y]
      <4>1. h[y] + 1 \in Nat /\ h[y] < h[y] + 1
        OBVIOUS
      <4>2. \A z \in S : h[z] < h[y] + 1 => Pick(h[y] + 1)[z] = g[z]
        BY <3>1, <3>2, <4>1, <1>2
      <4> QED BY <4>1, <4>2
    <3> QED BY <3>3
  <2>3. f[x] = g[x]
    BY DEF g
  <2> HIDE DEF f
  <2>4. g \in [S -> V] /\ g[x] = F[x][g]
    BY <2>1 DEF Sol
  <2>5. F[x][f] = F[x][g]
    BY <1>4, <2>2, <2>4 DEF LooksBelow
  <2> QED BY <2>3, <2>4, <2>5
<1> HIDE DEF f
<1> QED BY <1>4, <1>5 DEF Solves

\* What a backslash makes of the character after it is a character.
LEMMA EscapesInto == \A ch \in DOMAIN Escapes : Escapes[ch] \in Symbols
<1>1. DOMAIN Escapes = {"n", "t", Quote, Backslash}
  BY DEF Escapes
<1>2. ASSUME NEW ch \in {"n", "t", Quote, Backslash} PROVE Escapes[ch] \in {"\n", "\t", Quote, Backslash}
  BY DEF Escapes
<1> QED BY <1>1, <1>2, CommandParserAssumption

Text == Seq(Symbols)

\* What String and Word may return.
Readings == {Bad} \cup {Read(t, r) : t \in Text, r \in Text}

\* The words of a line.
Splits == {Bad} \cup {Success(ws) : ws \in Seq(Text)}

\* The fields of a reading.
LEMMA ReadingFields ==
  /\ ~Bad.ok
  /\ \A t, r : Read(t, r).ok /\ Read(t, r).value.text = t /\ Read(t, r).value.rest = r
  /\ \A ws : Success(ws).ok /\ Success(ws).value = ws
BY DEF Bad, Read, Success, Failure

\* A reading that is not Bad has a text and a rest.
LEMMA ReadingParts ==
  ASSUME NEW r \in Readings, r.ok
  PROVE  /\ r.value.text \in Text /\ r.value.rest \in Text
         /\ r = Read(r.value.text, r.value.rest)
BY ReadingFields DEF Readings

\* Text before a reading.
LEMMA AfterReading ==
  ASSUME NEW t \in Text, NEW r \in Readings
  PROVE  /\ After(t, r) \in Readings
         /\ After(t, r).ok = r.ok
         /\ r.ok => /\ After(t, r).value.text = t \o r.value.text
                    /\ After(t, r).value.rest = r.value.rest
<1>1. CASE r.ok
  <2>1. r.value.text \in Text /\ r.value.rest \in Text
    BY <1>1, ReadingParts
  <2>2. t \o r.value.text \in Text
    BY <2>1 DEF Text
  <2>3. After(t, r) = Read(t \o r.value.text, r.value.rest)
    BY <1>1 DEF After
  <2>4. /\ After(t, r).ok
        /\ After(t, r).value.text = t \o r.value.text
        /\ After(t, r).value.rest = r.value.rest
    BY <2>3 DEF Read, Success
  <2>5. After(t, r) \in Readings
    BY <2>1, <2>2, <2>3 DEF Readings
  <2> QED
    <3>1. After(t, r).ok = TRUE /\ r.ok = TRUE
      BY <1>1, <2>1, <2>3, ReadingFields, ReadingParts DEF Read, Success
    <3> QED BY <2>4, <2>5, <3>1
<1>2. CASE ~r.ok
  <2>1. r = Bad
    BY <1>2, ReadingFields DEF Readings
  <2> QED BY <2>1, ReadingFields DEF Readings, After
<1> QED BY <1>1, <1>2

\* The first character of a text and the rest.
LEMMA Uncons ==
  ASSUME NEW s \in Text, s # <<>>
  PROVE  /\ Head(s) \in Symbols /\ Head(s) = s[1]
         /\ Tail(s) \in Text /\ Len(Tail(s)) = Len(s) - 1 /\ Len(Tail(s)) < Len(s)
         /\ Len(s) \in Nat \ {0}
BY DEF Text

\* A sequence with an element put before it.
LEMMA Prefixed ==
  ASSUME NEW S, NEW e \in S, NEW s \in Seq(S)
  PROVE  /\ <<e>> \o s \in Seq(S) /\ <<e>> \o s # <<>>
         /\ Head(<<e>> \o s) = e /\ Tail(<<e>> \o s) = s
         /\ Len(<<e>> \o s) = Len(s) + 1
OBVIOUS

\* Induction over the length of texts.
LEMMA TextInduction ==
  ASSUME NEW T,
         \A s \in Text : (\A t \in Text : Len(t) < Len(s) => t \in T) => s \in T
  PROVE  Text \subseteq T
<1> DEFINE N == {n \in Nat : \A t \in Text : Len(t) < n => t \in T}
<1>0. \A t \in Text : Len(t) \in Nat
  BY DEF Text
<1>1. 0 \in N
  BY <1>0
<1>2. ASSUME NEW n \in N PROVE n + 1 \in N
  <2>1. ASSUME NEW s \in Text, Len(s) < n + 1 PROVE s \in T
    <3>1. \A t \in Text : Len(t) < Len(s) => Len(t) < n
      BY <1>0, <2>1
    <3> QED BY <3>1
  <2> QED BY <2>1
<1> HIDE DEF N
<1>3. Nat \subseteq N
  BY <1>1, <1>2, Induction
<1>4. ASSUME NEW s \in Text PROVE s \in T
  <2>1. Len(s) + 1 \in N /\ Len(s) < Len(s) + 1
    BY <1>0, <1>3
  <2> QED BY <2>1 DEF N
<1> QED BY <1>4

\* One step of reading a string, if rec tells how a shorter one is read.
StringStep(s, rec) ==
  IF s = <<>> THEN Bad
  ELSE IF Head(s) = Quote THEN Read(<<>>, Tail(s))
  ELSE IF Head(s) # Backslash THEN After(<<Head(s)>>, rec[Tail(s)])
  ELSE IF Len(s) = 1 \/ s[2] \notin DOMAIN Escapes THEN Bad
  ELSE After(<<Escapes[s[2]]>>, rec[Tail(Tail(s))])

\* The second symbol of a text and what is behind it.
LEMMA SecondSymbol ==
  ASSUME NEW s \in Text, s # <<>>, Len(s) # 1
  PROVE  /\ s[2] \in Symbols /\ Tail(Tail(s)) \in Text
         /\ Len(Tail(Tail(s))) < Len(s)
         /\ Tail(s) # <<>>
<1>1. Len(s) \in Nat \ {0} /\ Len(Tail(s)) = Len(s) - 1 /\ Tail(s) \in Text
  BY Uncons
<1>2. s \in Seq(Symbols) /\ Len(s) >= 2
  BY <1>1 DEF Text
<1>3. s[2] \in Symbols
  BY <1>2
<1>4. Tail(s) # <<>>
  <2>1. Tail(s) = <<>> => Len(Tail(s)) = 0
    BY EmptySeq
  <2>2. Len(Tail(s)) >= 1
    BY <1>1, <1>2
  <2> QED BY <2>1, <2>2
<1>5. Tail(Tail(s)) \in Text /\ Len(Tail(Tail(s))) = Len(Tail(s)) - 1
  BY <1>1, <1>4, Uncons
<1> QED BY <1>1, <1>3, <1>4, <1>5

\* What String makes of a text depends on shorter texts only.
LEMMA StringStepBelow ==
  ASSUME NEW s \in Text, NEW f, NEW g, \A t \in Text : Len(t) < Len(s) => f[t] = g[t]
  PROVE  StringStep(s, f) = StringStep(s, g)
<1>1. s # <<>> => f[Tail(s)] = g[Tail(s)]
  BY Uncons
<1>2. s # <<>> /\ Len(s) # 1 => f[Tail(Tail(s))] = g[Tail(Tail(s))]
  BY SecondSymbol
<1> QED BY <1>1, <1>2 DEF StringStep

\* It is a reading if they have readings.
LEMMA StringStepInto ==
  ASSUME NEW s \in Text, NEW f \in [Text -> Readings]
  PROVE  StringStep(s, f) \in Readings
<1>0. Bad \in Readings
  BY DEF Readings
<1>1. CASE s = <<>>
  BY <1>0, <1>1 DEF StringStep
<1>2. CASE s # <<>> /\ Head(s) = Quote
  <2>1. Tail(s) \in Text /\ <<>> \in Text
    BY <1>2, Uncons DEF Text
  <2> QED BY <1>2, <2>1 DEF StringStep, Readings
<1>3. CASE s # <<>> /\ Head(s) # Quote /\ Head(s) # Backslash
  <2>1. Tail(s) \in Text /\ Head(s) \in Symbols
    BY <1>3, Uncons
  <2>2. f[Tail(s)] \in Readings
    BY <2>1
  <2>3. <<Head(s)>> \in Text
    BY <2>1 DEF Text
  <2> QED BY <1>3, <2>2, <2>3, AfterReading DEF StringStep
<1>4. CASE s # <<>> /\ Head(s) # Quote /\ Head(s) = Backslash
  <2>1. CASE Len(s) = 1 \/ s[2] \notin DOMAIN Escapes
    BY <1>0, <1>4, <2>1 DEF StringStep
  <2>2. CASE ~(Len(s) = 1 \/ s[2] \notin DOMAIN Escapes)
    <3>1. f[Tail(Tail(s))] \in Readings
      BY <1>4, <2>2, SecondSymbol
    <3>2. <<Escapes[s[2]]>> \in Text
      BY <2>2, EscapesInto DEF Text
    <3> QED BY <1>4, <2>2, <3>1, <3>2, AfterReading DEF StringStep
  <2> QED BY <2>1, <2>2
<1> QED BY <1>1, <1>2, <1>3, <1>4

\* String is well defined.
LEMMA StringDefined ==
  /\ \A s \in Text : String[s] = StringStep(s, String)
  /\ \A s \in Text : String[s] \in Readings
<1> DEFINE h == [s \in Text |-> Len(s)]
           F == [s \in Text |-> [f \in [Text -> Readings] |-> StringStep(s, f)]]
<1>1. h \in [Text -> Nat]
  BY DEF Text
<1>2. Bad \in Readings
  BY DEF Readings
<1>3. F \in [Text -> [[Text -> Readings] -> Readings]]
  BY StringStepInto
<1>4. ASSUME NEW s \in Text, NEW f \in [Text -> Readings], NEW g \in [Text -> Readings],
             \A t \in Text : h[t] < h[s] => f[t] = g[t]
      PROVE  F[s][f] = F[s][g]
  BY <1>4, StringStepBelow
<1>5. LooksBelow(Text, Readings, h, F)
  BY <1>4 DEF LooksBelow
<1>6. \A s \in Text : \A f \in [Text -> Readings] : F[s][f] = StringStep(s, f)
  OBVIOUS
<1> HIDE DEF h, F
<1>7. PICK f \in [Text -> Readings] : Solves(f, Text, F)
  BY <1>1, <1>2, <1>3, <1>5, Recursion
<1>8. \E rec : rec = [s \in Text |-> StringStep(s, rec)]
  <2>1. f = [s \in Text |-> StringStep(s, f)]
    BY <1>6, <1>7 DEF Solves
  <2> QED BY <2>1
<1>9. String = [s \in Text |-> StringStep(s, String)]
  <2>1. String = CHOOSE rec : rec = [s \in Text |-> StringStep(s, rec)]
    BY DEF String, StringStep, Text
  <2> QED BY <1>8, <2>1
<1>10. \A s \in Text : String[s] = StringStep(s, String)
  BY <1>9
<1>11. Text \subseteq {s \in Text : String[s] \in Readings}
  <2> DEFINE T == {s \in Text : String[s] \in Readings}
  <2>1. ASSUME NEW s \in Text, \A t \in Text : Len(t) < Len(s) => t \in T
        PROVE  s \in T
    <3> DEFINE g == [t \in Text |-> IF Len(t) < Len(s) THEN String[t] ELSE Bad]
    <3>1. g \in [Text -> Readings]
      BY <1>2, <2>1
    <3>2. \A t \in Text : Len(t) < Len(s) => String[t] = g[t]
      OBVIOUS
    <3> HIDE DEF g
    <3>3. StringStep(s, String) = StringStep(s, g)
      BY <3>2, StringStepBelow
    <3> QED BY <1>10, <3>1, <3>3, StringStepInto
  <2> HIDE DEF T
  <2>2. Text \subseteq T
    BY <2>1, TextInduction
  <2> QED BY <2>2 DEF T
<1> QED BY <1>10, <1>11

\* What is left behind a string is shorter than what was there.
LEMMA StringShortens ==
  \A s \in Text : String[s].ok => Len(String[s].value.rest) < Len(s)
<1> DEFINE T == {s \in Text : String[s].ok => Len(String[s].value.rest) < Len(s)}
<1>0. \A s \in Text : Len(s) \in Nat
  BY DEF Text
<1>1. ASSUME NEW s \in Text, \A t \in Text : Len(t) < Len(s) => t \in T, String[s].ok
      PROVE  Len(String[s].value.rest) < Len(s)
  <2>0. String[s] = StringStep(s, String) /\ String[s].ok
    BY <1>1, StringDefined
  <2>1. s # <<>>
    BY <2>0, ReadingFields DEF StringStep
  <2>2. CASE Head(s) = Quote
    <3>1. String[s] = Read(<<>>, Tail(s))
      BY <2>0, <2>1, <2>2 DEF StringStep
    <3>2. String[s].value.rest = Tail(s)
      BY <3>1 DEF Read, Success
    <3> QED BY <2>1, <3>2, Uncons
  <2>3. CASE Head(s) # Quote
    <3>1. PICK t \in Text, p \in Text : /\ Len(t) < Len(s)
                                        /\ String[s] = After(p, String[t])
      <4>1. CASE Head(s) # Backslash
        <5>1. String[s] = After(<<Head(s)>>, String[Tail(s)])
          BY <2>0, <2>1, <2>3, <4>1 DEF StringStep
        <5>2. <<Head(s)>> \in Text
          BY <2>1, Uncons DEF Text
        <5> QED BY <2>1, <5>1, <5>2, Uncons
      <4>2. CASE Head(s) = Backslash
        <5>1. Len(s) # 1 /\ s[2] \in DOMAIN Escapes
          BY <2>0, <2>1, <2>3, <4>2, ReadingFields DEF StringStep
        <5>2. String[s] = After(<<Escapes[s[2]]>>, String[Tail(Tail(s))])
          BY <2>0, <2>1, <2>3, <4>2, <5>1 DEF StringStep
        <5>3. <<Escapes[s[2]]>> \in Text
          BY <5>1, EscapesInto DEF Text
        <5> QED BY <2>1, <5>1, <5>2, <5>3, SecondSymbol
      <4> QED BY <4>1, <4>2
    <3>2. String[t] \in Readings
      BY StringDefined
    <3>3. String[t].ok /\ String[s].value.rest = String[t].value.rest
      BY <2>0, <3>1, <3>2, AfterReading
    <3>4. String[t].value.rest \in Text
      BY <3>2, <3>3, ReadingParts
    <3>5. Len(String[t].value.rest) < Len(t)
      BY <1>1, <3>1, <3>3
    <3> QED BY <1>0, <3>1, <3>3, <3>4, <3>5
  <2> QED BY <2>2, <2>3
<1>2. ASSUME NEW s \in Text, \A t \in Text : Len(t) < Len(s) => t \in T
      PROVE  s \in T
  BY <1>1, <1>2
<1> HIDE DEF T
<1>3. Text \subseteq T
  BY <1>2, TextInduction
<1> QED BY <1>3 DEF T

\* What Word makes of a text, if rec tells what it makes of shorter ones.
WordStep(s, rec) ==
  IF s = <<>> THEN Read(<<>>, s)
  ELSE IF Head(s) \in Spaces THEN Read(<<>>, s)
  ELSE IF Head(s) # Quote THEN After(<<Head(s)>>, rec[Tail(s)])
  ELSE IF String[Tail(s)].ok
  THEN After(String[Tail(s)].value.text, rec[String[Tail(s)].value.rest])
  ELSE Bad

\* The string in the middle of a word leaves a shorter text.
LEMMA StringInside ==
  ASSUME NEW s \in Text, s # <<>>, String[Tail(s)].ok
  PROVE  /\ String[Tail(s)].value.text \in Text
         /\ String[Tail(s)].value.rest \in Text
         /\ Len(String[Tail(s)].value.rest) < Len(s)
<1>1. Tail(s) \in Text /\ Len(Tail(s)) < Len(s)
  BY Uncons
<1>2. String[Tail(s)] \in Readings
  BY <1>1, StringDefined
<1>3. String[Tail(s)].value.text \in Text /\ String[Tail(s)].value.rest \in Text
  BY <1>2, ReadingParts
<1>4. Len(String[Tail(s)].value.rest) < Len(Tail(s))
  BY <1>1, StringShortens
<1>5. \A t \in Text : Len(t) \in Nat
  BY DEF Text
<1> QED BY <1>1, <1>3, <1>4, <1>5

\* What Word makes of a text depends on shorter texts only.
LEMMA WordStepBelow ==
  ASSUME NEW s \in Text, NEW f, NEW g, \A t \in Text : Len(t) < Len(s) => f[t] = g[t]
  PROVE  WordStep(s, f) = WordStep(s, g)
<1>1. s # <<>> => f[Tail(s)] = g[Tail(s)]
  BY Uncons
<1>2. s # <<>> /\ String[Tail(s)].ok =>
        f[String[Tail(s)].value.rest] = g[String[Tail(s)].value.rest]
  BY StringInside
<1> QED BY <1>1, <1>2 DEF WordStep

\* It is a reading if they have readings.
LEMMA WordStepInto ==
  ASSUME NEW s \in Text, NEW f \in [Text -> Readings]
  PROVE  WordStep(s, f) \in Readings
<1>0. Bad \in Readings
  BY DEF Readings
<1>1. CASE s = <<>> \/ Head(s) \in Spaces
  <2>1. <<>> \in Text
    BY DEF Text
  <2> QED BY <1>1, <2>1 DEF WordStep, Readings
<1>2. CASE s # <<>> /\ Head(s) \notin Spaces /\ Head(s) # Quote
  <2>1. Tail(s) \in Text /\ Head(s) \in Symbols
    BY <1>2, Uncons
  <2>2. f[Tail(s)] \in Readings
    BY <2>1
  <2>3. <<Head(s)>> \in Text
    BY <2>1 DEF Text
  <2> QED BY <1>2, <2>2, <2>3, AfterReading DEF WordStep
<1>3. CASE s # <<>> /\ Head(s) \notin Spaces /\ Head(s) = Quote
  <2>1. CASE String[Tail(s)].ok
    <3>1. f[String[Tail(s)].value.rest] \in Readings
      BY <1>3, <2>1, StringInside
    <3> QED BY <1>3, <2>1, <3>1, StringInside, AfterReading DEF WordStep
  <2>2. CASE ~String[Tail(s)].ok
    BY <1>0, <1>3, <2>2 DEF WordStep
  <2> QED BY <2>1, <2>2
<1> QED BY <1>1, <1>2, <1>3

\* Word is well defined.
LEMMA WordDefined ==
  /\ \A s \in Text : Word[s] = WordStep(s, Word)
  /\ \A s \in Text : Word[s] \in Readings
<1> DEFINE h == [s \in Text |-> Len(s)]
           F == [s \in Text |-> [f \in [Text -> Readings] |-> WordStep(s, f)]]
<1>1. h \in [Text -> Nat]
  BY DEF Text
<1>2. Bad \in Readings
  BY DEF Readings
<1>3. F \in [Text -> [[Text -> Readings] -> Readings]]
  BY WordStepInto
<1>4. ASSUME NEW s \in Text, NEW f \in [Text -> Readings], NEW g \in [Text -> Readings],
             \A t \in Text : h[t] < h[s] => f[t] = g[t]
      PROVE  F[s][f] = F[s][g]
  BY <1>4, WordStepBelow
<1>5. LooksBelow(Text, Readings, h, F)
  BY <1>4 DEF LooksBelow
<1>6. \A s \in Text : \A f \in [Text -> Readings] : F[s][f] = WordStep(s, f)
  OBVIOUS
<1> HIDE DEF h, F
<1>7. PICK f \in [Text -> Readings] : Solves(f, Text, F)
  BY <1>1, <1>2, <1>3, <1>5, Recursion
<1>8. \E rec : rec = [s \in Text |-> WordStep(s, rec)]
  <2>1. f = [s \in Text |-> WordStep(s, f)]
    BY <1>6, <1>7 DEF Solves
  <2> QED BY <2>1
<1>9. Word = [s \in Text |-> WordStep(s, Word)]
  <2>1. Word = CHOOSE rec : rec = [s \in Text |-> WordStep(s, rec)]
    BY DEF Word, WordStep, Text
  <2> QED BY <1>8, <2>1
<1>10. \A s \in Text : Word[s] = WordStep(s, Word)
  BY <1>9
<1>11. Text \subseteq {s \in Text : Word[s] \in Readings}
  <2> DEFINE T == {s \in Text : Word[s] \in Readings}
  <2>1. ASSUME NEW s \in Text, \A t \in Text : Len(t) < Len(s) => t \in T
        PROVE  s \in T
    <3> DEFINE g == [t \in Text |-> IF Len(t) < Len(s) THEN Word[t] ELSE Bad]
    <3>1. g \in [Text -> Readings]
      BY <1>2, <2>1
    <3>2. \A t \in Text : Len(t) < Len(s) => Word[t] = g[t]
      OBVIOUS
    <3> HIDE DEF g
    <3>3. WordStep(s, Word) = WordStep(s, g)
      BY <3>2, WordStepBelow
    <3> QED BY <1>10, <3>1, <3>3, WordStepInto
  <2> HIDE DEF T
  <2>2. Text \subseteq T
    BY <2>1, TextInduction
  <2> QED BY <2>2 DEF T
<1> QED BY <1>10, <1>11

\* A word takes something from the text, unless it is empty.
LEMMA WordShortens ==
  \A s \in Text : Word[s].ok =>
    /\ Len(Word[s].value.rest) <= Len(s)
    /\ s # <<>> /\ Head(s) \notin Spaces => Len(Word[s].value.rest) < Len(s)
<1> DEFINE T == {s \in Text : Word[s].ok =>
                   /\ Len(Word[s].value.rest) <= Len(s)
                   /\ s # <<>> /\ Head(s) \notin Spaces => Len(Word[s].value.rest) < Len(s)}
<1>0. \A s \in Text : Len(s) \in Nat
  BY DEF Text
<1>1. ASSUME NEW s \in Text, \A t \in Text : Len(t) < Len(s) => t \in T, Word[s].ok
      PROVE  /\ Len(Word[s].value.rest) <= Len(s)
             /\ s # <<>> /\ Head(s) \notin Spaces => Len(Word[s].value.rest) < Len(s)
  <2>0. Word[s] = WordStep(s, Word) /\ Word[s].ok
    BY <1>1, WordDefined
  <2>1. CASE s = <<>> \/ Head(s) \in Spaces
    <3>1. Word[s] = Read(<<>>, s)
      BY <2>0, <2>1 DEF WordStep
    <3>2. Word[s].value.rest = s
      BY <3>1 DEF Read, Success
    <3> QED BY <1>0, <2>1, <3>2
  <2>2. CASE s # <<>> /\ Head(s) \notin Spaces
    <3>1. PICK t \in Text, p \in Text : /\ Len(t) < Len(s)
                                        /\ Word[s] = After(p, Word[t])
      <4>1. CASE Head(s) # Quote
        <5>1. Word[s] = After(<<Head(s)>>, Word[Tail(s)])
          BY <2>0, <2>2, <4>1 DEF WordStep
        <5>2. <<Head(s)>> \in Text
          BY <2>2, Uncons DEF Text
        <5> QED BY <2>2, <5>1, <5>2, Uncons
      <4>2. CASE Head(s) = Quote
        <5>1. String[Tail(s)].ok
          BY <2>0, <2>2, <4>2, ReadingFields DEF WordStep
        <5>2. Word[s] = After(String[Tail(s)].value.text, Word[String[Tail(s)].value.rest])
          BY <2>0, <2>2, <4>2, <5>1 DEF WordStep
        <5> QED BY <2>2, <5>1, <5>2, StringInside
      <4> QED BY <4>1, <4>2
    <3>2. Word[t] \in Readings
      BY WordDefined
    <3>3. Word[t].ok /\ Word[s].value.rest = Word[t].value.rest
      BY <2>0, <3>1, <3>2, AfterReading
    <3>4. Word[t].value.rest \in Text
      BY <3>2, <3>3, ReadingParts
    <3>5. Len(Word[t].value.rest) <= Len(t)
      BY <1>1, <3>1, <3>3
    <3> QED BY <1>0, <3>1, <3>3, <3>4, <3>5
  <2> QED BY <2>1, <2>2
<1>2. ASSUME NEW s \in Text, \A t \in Text : Len(t) < Len(s) => t \in T
      PROVE  s \in T
  BY <1>1, <1>2
<1> HIDE DEF T
<1>3. Text \subseteq T
  BY <1>2, TextInduction
<1> QED BY <1>3 DEF T

\* The words of a line, with words before them.
LEMMA AddWordsInto ==
  ASSUME NEW ws \in Seq(Text), NEW r \in Splits
  PROVE  /\ AddWords(ws, r) \in Splits
         /\ r.ok => AddWords(ws, r) = Success(ws \o r.value) /\ r.value \in Seq(Text)
         /\ ~r.ok => AddWords(ws, r) = Bad /\ r = Bad
<1>1. CASE r = Bad
  <2>1. AddWords(ws, r) = Bad /\ ~r.ok
    BY <1>1, ReadingFields DEF AddWords
  <2> QED BY <1>1, <2>1 DEF Splits
<1>2. ASSUME NEW vs \in Seq(Text), r = Success(vs)
      PROVE  /\ AddWords(ws, r) \in Splits /\ r.ok
             /\ AddWords(ws, r) = Success(ws \o r.value) /\ r.value \in Seq(Text)
  <2>1. r.ok /\ r.value = vs
    BY <1>2 DEF Success
  <2>2. ws \o vs \in Seq(Text)
    OBVIOUS
  <2>3. AddWords(ws, r) = Success(ws \o vs)
    BY <2>1 DEF AddWords
  <2> QED BY <2>1, <2>2, <2>3 DEF Splits
<1> QED BY <1>1, <1>2 DEF Splits

\* What Line makes of a text, if rec tells what it makes of shorter ones.
LineStep(s, rec) ==
  IF s = <<>> THEN Success(<<>>)
  ELSE IF Head(s) \in Spaces THEN rec[Tail(s)]
  ELSE IF Word[s].ok THEN AddWords(<<Word[s].value.text>>, rec[Word[s].value.rest])
  ELSE Bad

\* A word leaves a shorter text.
LEMMA WordInFront ==
  ASSUME NEW s \in Text, s # <<>>, Head(s) \notin Spaces, Word[s].ok
  PROVE  /\ Word[s].value.text \in Text
         /\ Word[s].value.rest \in Text
         /\ Len(Word[s].value.rest) < Len(s)
<1>1. Word[s] \in Readings
  BY WordDefined
<1> QED BY <1>1, WordShortens, ReadingParts

\* What Line makes of a text depends on shorter texts only.
LEMMA LineStepBelow ==
  ASSUME NEW s \in Text, NEW f, NEW g, \A t \in Text : Len(t) < Len(s) => f[t] = g[t]
  PROVE  LineStep(s, f) = LineStep(s, g)
<1>1. s # <<>> => f[Tail(s)] = g[Tail(s)]
  BY Uncons
<1>2. s # <<>> /\ Head(s) \notin Spaces /\ Word[s].ok =>
        f[Word[s].value.rest] = g[Word[s].value.rest]
  BY WordInFront
<1> QED BY <1>1, <1>2 DEF LineStep

\* It is a list of words if they are.
LEMMA LineStepInto ==
  ASSUME NEW s \in Text, NEW f \in [Text -> Splits]
  PROVE  LineStep(s, f) \in Splits
<1>1. CASE s = <<>>
  <2>1. <<>> \in Seq(Text)
    OBVIOUS
  <2> QED BY <1>1, <2>1 DEF LineStep, Splits
<1>2. CASE s # <<>> /\ Head(s) \in Spaces
  BY <1>2, Uncons DEF LineStep
<1>3. CASE s # <<>> /\ Head(s) \notin Spaces
  <2>1. CASE Word[s].ok
    <3>1. f[Word[s].value.rest] \in Splits
      BY <1>3, <2>1, WordInFront
    <3>2. <<Word[s].value.text>> \in Seq(Text)
      BY <1>3, <2>1, WordInFront
    <3> QED BY <1>3, <2>1, <3>1, <3>2, AddWordsInto DEF LineStep
  <2>2. CASE ~Word[s].ok
    BY <1>3, <2>2 DEF LineStep, Splits
  <2> QED BY <2>1, <2>2
<1> QED BY <1>1, <1>2, <1>3

\* Line is well defined.
LEMMA LineDefined ==
  /\ \A s \in Text : Line[s] = LineStep(s, Line)
  /\ \A s \in Text : Line[s] \in Splits
<1> DEFINE h == [s \in Text |-> Len(s)]
           F == [s \in Text |-> [f \in [Text -> Splits] |-> LineStep(s, f)]]
<1>1. h \in [Text -> Nat]
  BY DEF Text
<1>2. Bad \in Splits
  BY DEF Splits
<1>3. F \in [Text -> [[Text -> Splits] -> Splits]]
  BY LineStepInto
<1>4. ASSUME NEW s \in Text, NEW f \in [Text -> Splits], NEW g \in [Text -> Splits],
             \A t \in Text : h[t] < h[s] => f[t] = g[t]
      PROVE  F[s][f] = F[s][g]
  BY <1>4, LineStepBelow
<1>5. LooksBelow(Text, Splits, h, F)
  BY <1>4 DEF LooksBelow
<1>6. \A s \in Text : \A f \in [Text -> Splits] : F[s][f] = LineStep(s, f)
  OBVIOUS
<1> HIDE DEF h, F
<1>7. PICK f \in [Text -> Splits] : Solves(f, Text, F)
  BY <1>1, <1>2, <1>3, <1>5, Recursion
<1>8. \E rec : rec = [s \in Text |-> LineStep(s, rec)]
  <2>1. f = [s \in Text |-> LineStep(s, f)]
    BY <1>6, <1>7 DEF Solves
  <2> QED BY <2>1
<1>9. Line = [s \in Text |-> LineStep(s, Line)]
  <2>1. Line = CHOOSE rec : rec = [s \in Text |-> LineStep(s, rec)]
    BY DEF Line, LineStep, Text
  <2> QED BY <1>8, <2>1
<1>10. \A s \in Text : Line[s] = LineStep(s, Line)
  BY <1>9
<1>11. Text \subseteq {s \in Text : Line[s] \in Splits}
  <2> DEFINE T == {s \in Text : Line[s] \in Splits}
  <2>1. ASSUME NEW s \in Text, \A t \in Text : Len(t) < Len(s) => t \in T
        PROVE  s \in T
    <3> DEFINE g == [t \in Text |-> IF Len(t) < Len(s) THEN Line[t] ELSE Bad]
    <3>1. g \in [Text -> Splits]
      BY <1>2, <2>1
    <3>2. \A t \in Text : Len(t) < Len(s) => Line[t] = g[t]
      OBVIOUS
    <3> HIDE DEF g
    <3>3. LineStep(s, Line) = LineStep(s, g)
      BY <3>2, LineStepBelow
    <3> QED BY <1>10, <3>1, <3>3, LineStepInto
  <2> HIDE DEF T
  <2>2. Text \subseteq T
    BY <2>1, TextInduction
  <2> QED BY <2>2 DEF T
<1> QED BY <1>10, <1>11

-----------------------------------------------------------------------------
(* tokenize. *)

States == [tokens: Seq(Text), current: Text, inQuotes: BOOLEAN, escaping: BOOLEAN,
           tokenStarted: BOOLEAN, failed: BOOLEAN]

\* The locals of the loop: an escape begins inside quotes only, and there is no
\* text without a token that has started.
Sound(st) ==
  /\ st \in States
  /\ st.escaping => st.inQuotes
  /\ st.inQuotes => st.tokenStarted
  /\ ~st.tokenStarted => st.current = <<>>

\* What the grammar makes of text s behind the characters c of a word.
FromWord(c, s) ==
  IF Word[s].ok
  THEN AddWords(<<c \o Word[s].value.text>>, Line[Word[s].value.rest])
  ELSE Bad

\* The same inside a string.
FromString(c, s) ==
  IF String[s].ok
  THEN FromWord(c \o String[s].value.text, String[s].value.rest)
  ELSE Bad

\* What the grammar makes of the rest s of a line of which the loop has read the
\* characters that have led to st.
Promise(st, s) ==
  IF st.failed THEN Bad
  ELSE IF st.escaping THEN AddWords(st.tokens, FromString(st.current, <<Backslash>> \o s))
  ELSE IF st.inQuotes THEN AddWords(st.tokens, FromString(st.current, s))
  ELSE IF st.tokenStarted THEN AddWords(st.tokens, FromWord(st.current, s))
  ELSE AddWords(st.tokens, Line[s])

\* A word in front of a line of words.
LEMMA FromWordInto ==
  ASSUME NEW c \in Text, NEW s \in Text
  PROVE  FromWord(c, s) \in Splits
<1>1. CASE Word[s].ok
  <2>1. Word[s].value.text \in Text /\ Word[s].value.rest \in Text
    BY <1>1, WordDefined, ReadingParts
  <2>2. c \o Word[s].value.text \in Text
    BY <2>1 DEF Text
  <2>3. Line[Word[s].value.rest] \in Splits
    BY <2>1, LineDefined
  <2>4. <<c \o Word[s].value.text>> \in Seq(Text)
    BY <2>2
  <2> QED BY <1>1, <2>3, <2>4, AddWordsInto DEF FromWord
<1>2. CASE ~Word[s].ok
  BY <1>2 DEF FromWord, Splits
<1> QED BY <1>1, <1>2

\* A string, the rest of its word, and more words.
LEMMA FromStringInto ==
  ASSUME NEW c \in Text, NEW s \in Text
  PROVE  FromString(c, s) \in Splits
<1>1. CASE String[s].ok
  <2>1. String[s].value.text \in Text /\ String[s].value.rest \in Text
    BY <1>1, StringDefined, ReadingParts
  <2>2. c \o String[s].value.text \in Text
    BY <2>1 DEF Text
  <2> QED BY <1>1, <2>1, <2>2, FromWordInto DEF FromString
<1>2. CASE ~String[s].ok
  BY <1>2 DEF FromString, Splits
<1> QED BY <1>1, <1>2

\* Joining sequences.
LEMMA Joined ==
  ASSUME NEW S
  PROVE  /\ \A a, b, c \in Seq(S) : (a \o b) \o c = a \o (b \o c)
         /\ \A a \in Seq(S), e \in S : Append(a, e) = a \o <<e>> /\ Append(a, e) \in Seq(S)
         /\ \A a \in Seq(S) : a \o <<>> = a /\ <<>> \o a = a
         /\ \A a, b \in Seq(S) : a \o b \in Seq(S)
<1>1. \A a, b, c \in Seq(S) : (a \o b) \o c = a \o (b \o c)
  OBVIOUS
<1>2. \A a \in Seq(S), e \in S : Append(a, e) = a \o <<e>> /\ Append(a, e) \in Seq(S)
  OBVIOUS
<1>3. \A a \in Seq(S) : a \o <<>> = a /\ <<>> \o a = a
  OBVIOUS
<1>4. \A a, b \in Seq(S) : a \o b \in Seq(S)
  OBVIOUS
<1> QED BY <1>1, <1>2, <1>3, <1>4

\* Joining texts.
LEMMA TextsJoined ==
  /\ \A a, b, c \in Text : (a \o b) \o c = a \o (b \o c)
  /\ \A a \in Text, e \in Symbols, b \in Text : a \o (<<e>> \o b) = Append(a, e) \o b
  /\ \A a \in Text, e \in Symbols : Append(a, e) \in Text
  /\ \A a \in Text : a \o <<>> = a /\ <<>> \o a = a
  /\ \A e \in Symbols : <<e>> \in Text
<1>1. \A e \in Symbols : <<e>> \in Seq(Symbols)
  OBVIOUS
<1>2. ASSUME NEW a \in Seq(Symbols), NEW e \in Symbols, NEW b \in Seq(Symbols)
      PROVE  a \o (<<e>> \o b) = Append(a, e) \o b
  OBVIOUS
<1> QED BY <1>1, <1>2, Joined DEF Text

\* Words added twice are words added once.
LEMMA AddWordsTwice ==
  ASSUME NEW vs \in Seq(Text), NEW ws \in Seq(Text), NEW r \in Splits
  PROVE  AddWords(vs, AddWords(ws, r)) = AddWords(vs \o ws, r)
<1>1. CASE r.ok
  <2>1. AddWords(ws, r) = Success(ws \o r.value) /\ r.value \in Seq(Text)
    BY <1>1, AddWordsInto
  <2>2. AddWords(vs, AddWords(ws, r)) = Success(vs \o (ws \o r.value))
    <3>1. AddWords(ws, r).ok /\ AddWords(ws, r).value = ws \o r.value
      BY <2>1 DEF Success
    <3> QED BY <3>1 DEF AddWords
  <2>3. AddWords(vs \o ws, r) = Success((vs \o ws) \o r.value)
    BY <1>1 DEF AddWords
  <2>4. (vs \o ws) \o r.value = vs \o (ws \o r.value)
    <3>1. \A a, b, c \in Seq(Text) : (a \o b) \o c = a \o (b \o c)
      BY Joined
    <3> QED BY <2>1, <3>1
  <2> QED BY <2>2, <2>3, <2>4
<1>2. CASE ~r.ok
  <2>1. AddWords(ws, r) = Bad /\ AddWords(vs \o ws, r) = Bad
    BY <1>2 DEF AddWords
  <2> QED BY <2>1, ReadingFields DEF AddWords
<1> QED BY <1>1, <1>2

\* An ordinary character in a word.
LEMMA WordTakes ==
  ASSUME NEW c \in Text, NEW ch \in Symbols, NEW s \in Text, ch \notin Spaces, ch # Quote
  PROVE  FromWord(c, <<ch>> \o s) = FromWord(Append(c, ch), s)
<1> DEFINE r == <<ch>> \o s
<1>1. r \in Text /\ r # <<>> /\ Head(r) = ch /\ Tail(r) = s
  BY Prefixed DEF Text
<1> HIDE DEF r
<1>2. Word[r] = After(<<ch>>, Word[s])
  BY <1>1, WordDefined DEF WordStep
<1>3. <<ch>> \in Text /\ Word[s] \in Readings
  BY WordDefined DEF Text
<1>4. CASE Word[s].ok
  <2>1. Word[s].value.text \in Text
    BY <1>3, <1>4, ReadingParts
  <2>2. /\ Word[r].ok /\ Word[r].value.text = <<ch>> \o Word[s].value.text
        /\ Word[r].value.rest = Word[s].value.rest
    <3>1. /\ After(<<ch>>, Word[s]).ok = Word[s].ok
          /\ After(<<ch>>, Word[s]).value.text = <<ch>> \o Word[s].value.text
          /\ After(<<ch>>, Word[s]).value.rest = Word[s].value.rest
      BY <1>3, <1>4, AfterReading
    <3> QED BY <1>2, <1>4, <3>1
  <2>3. c \o Word[r].value.text = Append(c, ch) \o Word[s].value.text
    <3>1. c \o (<<ch>> \o Word[s].value.text) = Append(c, ch) \o Word[s].value.text
      BY <2>1, TextsJoined
    <3> QED BY <2>2, <3>1
  <2> QED BY <1>4, <2>2, <2>3 DEF FromWord, r
<1>5. CASE ~Word[s].ok
  <2>1. ~Word[r].ok
    BY <1>2, <1>3, <1>5, AfterReading
  <2> QED BY <1>5, <2>1 DEF FromWord, r
<1> QED BY <1>4, <1>5

\* A string begins in a word.
LEMMA WordOpens ==
  ASSUME NEW c \in Text, NEW s \in Text
  PROVE  FromWord(c, <<Quote>> \o s) = FromString(c, s)
<1> DEFINE r == <<Quote>> \o s
<1>0. Quote \in Symbols /\ Quote \notin Spaces
  BY CommandParserAssumption DEF Quote
<1>1. r \in Text /\ r # <<>> /\ Head(r) = Quote /\ Tail(r) = s
  BY <1>0, Prefixed DEF Text
<1> HIDE DEF r
<1>2. Word[r] = IF String[s].ok
                THEN After(String[s].value.text, Word[String[s].value.rest]) ELSE Bad
  BY <1>0, <1>1, WordDefined DEF WordStep
<1>3. CASE String[s].ok
  <2> DEFINE t == String[s].value.text
             q == String[s].value.rest
  <2>1. t \in Text /\ q \in Text
    BY <1>3, StringDefined, ReadingParts
  <2> HIDE DEF t, q
  <2>2. Word[r] = After(t, Word[q]) /\ Word[q] \in Readings
    BY <1>2, <1>3, <2>1, WordDefined DEF t, q
  <2>3. FromString(c, s) = FromWord(c \o t, q)
    BY <1>3 DEF FromString, t, q
  <2>4. CASE Word[q].ok
    <3>1. Word[q].value.text \in Text
      BY <2>2, <2>4, ReadingParts
    <3>2. /\ Word[r].ok /\ Word[r].value.text = t \o Word[q].value.text
          /\ Word[r].value.rest = Word[q].value.rest
      <4>1. /\ After(t, Word[q]).ok = Word[q].ok
            /\ After(t, Word[q]).value.text = t \o Word[q].value.text
            /\ After(t, Word[q]).value.rest = Word[q].value.rest
        BY <2>1, <2>2, <2>4, AfterReading
      <4> QED BY <2>2, <2>4, <4>1
    <3>3. c \o (t \o Word[q].value.text) = (c \o t) \o Word[q].value.text
      BY <2>1, <3>1, TextsJoined
    <3> QED BY <2>3, <2>4, <3>2, <3>3 DEF FromWord, r
  <2>5. CASE ~Word[q].ok
    <3>1. ~Word[r].ok
      BY <2>1, <2>2, <2>5, AfterReading
    <3> QED BY <2>3, <2>5, <3>1 DEF FromWord, r
  <2> QED BY <2>4, <2>5
<1>4. CASE ~String[s].ok
  BY <1>2, <1>4, ReadingFields DEF FromWord, FromString, r
<1> QED BY <1>3, <1>4

\* A word ends at a space.
LEMMA WordEnds ==
  ASSUME NEW c \in Text, NEW s \in Text, NEW ch \in Spaces
  PROVE  /\ FromWord(c, <<ch>> \o s) = AddWords(<<c>>, Line[s])
         /\ Line[<<ch>> \o s] = Line[s]
<1> DEFINE r == <<ch>> \o s
<1>0. ch \in Symbols
  BY CommandParserAssumption
<1>1. r \in Text /\ r # <<>> /\ Head(r) \in Spaces /\ Tail(r) = s
  BY <1>0, Prefixed DEF Text
<1> HIDE DEF r
<1>2. Word[r] = Read(<<>>, r)
  BY <1>1, WordDefined DEF WordStep
<1>3. Line[r] = Line[s]
  BY <1>1, LineDefined DEF LineStep
<1>4. Word[r].ok /\ Word[r].value.text = <<>> /\ Word[r].value.rest = r
  BY <1>2 DEF Read, Success
<1>5. c \o <<>> = c
  BY DEF Text
<1> QED BY <1>3, <1>4, <1>5 DEF FromWord, r

\* A line that does not begin with a space begins with a word.
LEMMA LineIsWord ==
  ASSUME NEW s \in Text, s # <<>>, Head(s) \notin Spaces
  PROVE  Line[s] = FromWord(<<>>, s)
<1>1. Line[s] = LineStep(s, Line)
  BY LineDefined
<1>2. CASE Word[s].ok
  <2>1. Word[s].value.text \in Text
    BY <1>2, WordInFront
  <2>2. <<>> \o Word[s].value.text = Word[s].value.text
    BY <2>1 DEF Text
  <2> QED BY <1>1, <1>2, <2>2 DEF LineStep, FromWord
<1>3. CASE ~Word[s].ok
  BY <1>1, <1>3 DEF LineStep, FromWord
<1> QED BY <1>2, <1>3

\* A character in front of what a string makes of the rest.
LEMMA StringAfter ==
  ASSUME NEW c \in Text, NEW e \in Symbols, NEW s \in Text, NEW r \in Text,
         String[r] = After(<<e>>, String[s])
  PROVE  FromString(c, r) = FromString(Append(c, e), s)
<1>1. <<e>> \in Text /\ String[s] \in Readings
  BY StringDefined, TextsJoined
<1>2. CASE String[s].ok
  <2>1. String[s].value.text \in Text
    BY <1>1, <1>2, ReadingParts
  <2>2. /\ After(<<e>>, String[s]).ok = String[s].ok
        /\ After(<<e>>, String[s]).value.text = <<e>> \o String[s].value.text
        /\ After(<<e>>, String[s]).value.rest = String[s].value.rest
    BY <1>1, <1>2, AfterReading
  <2>3. c \o (<<e>> \o String[s].value.text) = Append(c, e) \o String[s].value.text
    BY <2>1, TextsJoined
  <2> QED BY <1>2, <2>2, <2>3 DEF FromString
<1>3. CASE ~String[s].ok
  <2>1. ~String[r].ok
    BY <1>1, <1>3, AfterReading
  <2> QED BY <1>3, <2>1 DEF FromString
<1> QED BY <1>2, <1>3

\* An ordinary character in a string.
LEMMA StringTakes ==
  ASSUME NEW c \in Text, NEW ch \in Symbols, NEW s \in Text, ch # Backslash, ch # Quote
  PROVE  FromString(c, <<ch>> \o s) = FromString(Append(c, ch), s)
<1> DEFINE r == <<ch>> \o s
<1>1. r \in Text /\ r # <<>> /\ Head(r) = ch /\ Tail(r) = s
  BY Prefixed DEF Text
<1> HIDE DEF r
<1>2. String[r] = After(<<ch>>, String[s])
  BY <1>1, StringDefined DEF StringStep
<1>3. FromString(c, r) = FromString(Append(c, ch), s)
  BY <1>1, <1>2, StringAfter
<1> QED BY <1>3 DEF r

\* An escape in a string.
LEMMA StringEscapes ==
  ASSUME NEW c \in Text, NEW ch \in Symbols, NEW s \in Text
  PROVE  FromString(c, <<Backslash>> \o (<<ch>> \o s)) =
           IF ch \in DOMAIN Escapes THEN FromString(Append(c, Escapes[ch]), s) ELSE Bad
<1> DEFINE q == <<ch>> \o s
           r == <<Backslash>> \o q
<1>0. Backslash \in Symbols /\ Backslash # Quote
  BY CommandParserAssumption DEF Backslash, Quote
<1>1. q \in Text /\ q # <<>> /\ Head(q) = ch /\ Tail(q) = s /\ Len(q) = Len(s) + 1
  BY Prefixed DEF Text
<1> HIDE DEF q
<1>2. r \in Text /\ r # <<>> /\ Head(r) = Backslash /\ Tail(r) = q /\ Len(r) = Len(q) + 1
  BY <1>0, <1>1, Prefixed DEF Text
<1>3. r[2] = q[1] /\ q[1] = ch
  BY <1>0, <1>1 DEF Text
<1> HIDE DEF r
<1>4. Len(r) # 1
  BY <1>1, <1>2, Len(s) \in Nat DEF Text
<1>5. CASE ch \in DOMAIN Escapes
  <2>1. String[r] = After(<<Escapes[ch]>>, String[s])
    BY <1>0, <1>1, <1>2, <1>3, <1>4, <1>5, StringDefined DEF StringStep
  <2>2. Escapes[ch] \in Symbols
    BY <1>5, EscapesInto
  <2>3. FromString(c, r) = FromString(Append(c, Escapes[ch]), s)
    BY <1>2, <2>1, <2>2, StringAfter
  <2> QED BY <1>5, <2>3 DEF r, q
<1>6. CASE ch \notin DOMAIN Escapes
  <2>1. String[r] = Bad
    BY <1>0, <1>1, <1>2, <1>3, <1>4, <1>6, StringDefined DEF StringStep
  <2> QED BY <1>6, <2>1, ReadingFields DEF FromString, r, q
<1> QED BY <1>5, <1>6

\* A string ends.
LEMMA StringCloses ==
  ASSUME NEW c \in Text, NEW s \in Text
  PROVE  FromString(c, <<Quote>> \o s) = FromWord(c, s)
<1> DEFINE r == <<Quote>> \o s
<1>0. Quote \in Symbols
  BY CommandParserAssumption
<1>1. r \in Text /\ r # <<>> /\ Head(r) = Quote /\ Tail(r) = s
  BY <1>0, Prefixed DEF Text
<1> HIDE DEF r
<1>2. String[r] = Read(<<>>, s)
  BY <1>1, StringDefined DEF StringStep
<1>3. String[r].ok /\ String[r].value.text = <<>> /\ String[r].value.rest = s
  BY <1>2 DEF Read, Success
<1>4. c \o <<>> = c
  BY TextsJoined
<1> QED BY <1>3, <1>4 DEF FromString, r

\* What the loop has promised of the rest of the line when it is at its end.
LEMMA PromiseAtEnd ==
  ASSUME NEW st, Sound(st)
  PROVE  Promise(st, <<>>) = IF st.failed \/ st.escaping \/ st.inQuotes THEN Bad
                             ELSE Success(EndToken(st).tokens)
<1>0. <<>> \in Text /\ st \in States
  BY DEF Text, Sound
<1>1. String[<<>>] = Bad /\ Word[<<>>] = Read(<<>>, <<>>) /\ Line[<<>>] = Success(<<>>)
  BY <1>0, StringDefined, WordDefined, LineDefined DEF StringStep, WordStep, LineStep
<1>2. \A c \in Text : FromString(c, <<>>) = Bad
  BY <1>1, ReadingFields DEF FromString
<1>3. \A ws \in Seq(Text) : AddWords(ws, Bad) = Bad
  BY ReadingFields DEF AddWords
<1>4. \A ws \in Seq(Text) : AddWords(ws, Line[<<>>]) = Success(ws)
  <2>1. \A ws \in Seq(Text) : ws \o <<>> = ws
    BY Joined
  <2>2. Line[<<>>].ok /\ Line[<<>>].value = <<>>
    BY <1>1 DEF Success
  <2> QED BY <2>1, <2>2 DEF AddWords
<1>5. \A c \in Text : FromWord(c, <<>>) = Success(<<c>>)
  <2>1. ASSUME NEW c \in Text PROVE FromWord(c, <<>>) = Success(<<c>>)
    <3>1. /\ Word[<<>>].ok /\ Word[<<>>].value.text = <<>>
          /\ Word[<<>>].value.rest = <<>>
      BY <1>1 DEF Read, Success
    <3>2. c \o <<>> = c /\ <<c>> \in Seq(Text)
      BY TextsJoined
    <3> QED BY <1>4, <3>1, <3>2 DEF FromWord
  <2> QED BY <2>1
<1>6. st.tokens \in Seq(Text) /\ st.current \in Text
  BY <1>0 DEF States
<1>7. CASE st.failed
  BY <1>7 DEF Promise
<1>8. CASE ~st.failed /\ st.escaping
  <2>1. String[<<Backslash>> \o <<>>] = Bad
    <3> DEFINE r == <<Backslash>> \o <<>>
    <3>1. Backslash \in Symbols /\ Backslash # Quote
      BY CommandParserAssumption DEF Backslash, Quote
    <3>2. r \in Text /\ r # <<>> /\ Head(r) = Backslash /\ Len(r) = Len(<<>>) + 1
      BY <1>0, <3>1, Prefixed DEF Text
    <3>3. Len(r) = 1
      BY <3>2, EmptySeq
    <3> HIDE DEF r
    <3>4. String[r] = Bad
      BY <3>1, <3>2, <3>3, StringDefined DEF StringStep
    <3> QED BY <3>4 DEF r
  <2>2. FromString(st.current, <<Backslash>> \o <<>>) = Bad
    BY <2>1, ReadingFields DEF FromString
  <2> QED BY <1>3, <1>6, <1>8, <2>2 DEF Promise
<1>9. CASE ~st.failed /\ ~st.escaping /\ st.inQuotes
  BY <1>2, <1>3, <1>6, <1>9 DEF Promise
<1>10. CASE ~st.failed /\ ~st.escaping /\ ~st.inQuotes /\ st.tokenStarted
  <2>1. AddWords(st.tokens, FromWord(st.current, <<>>)) = Success(st.tokens \o <<st.current>>)
    <3>1. FromWord(st.current, <<>>) = Success(<<st.current>>)
      BY <1>5, <1>6
    <3>2. /\ FromWord(st.current, <<>>).ok
          /\ FromWord(st.current, <<>>).value = <<st.current>>
      BY <3>1 DEF Success
    <3> QED BY <3>2 DEF AddWords
  <2>2. EndToken(st).tokens = Append(st.tokens, st.current)
    BY <1>0, <1>10 DEF EndToken, States
  <2>3. Append(st.tokens, st.current) = st.tokens \o <<st.current>>
    BY <1>6, Joined
  <2> QED BY <1>10, <2>1, <2>2, <2>3 DEF Promise
<1>11. CASE ~st.failed /\ ~st.escaping /\ ~st.inQuotes /\ ~st.tokenStarted
  BY <1>4, <1>6, <1>11 DEF Promise, EndToken
<1> QED BY <1>7, <1>8, <1>9, <1>10, <1>11

\* One iteration of the loop keeps its locals sound.
LEMMA ConsumeSound ==
  ASSUME NEW st, Sound(st), NEW ch \in Symbols
  PROVE  Sound(Consume(st, ch))
<1>0. st \in States
  BY DEF Sound
<1>1. CASE st.failed
  BY <1>1 DEF Consume
<1>2. CASE ~st.failed /\ st.escaping
  <2>1. CASE ch \in DOMAIN Escapes
    <3>1. Escapes[ch] \in Symbols
      BY <2>1, EscapesInto
    <3>2. Append(st.current, Escapes[ch]) \in Text
      BY <1>0, <3>1, TextsJoined DEF States
    <3> QED BY <1>0, <1>2, <2>1, <3>2 DEF Consume, Push, Sound, States
  <2>2. CASE ch \notin DOMAIN Escapes
    BY <1>0, <1>2, <2>2 DEF Consume, Sound, States
  <2> QED BY <2>1, <2>2
<1>3. CASE ~st.failed /\ ~st.escaping /\ BeginsEscape(st, ch)
  BY <1>0, <1>3 DEF Consume, BeginsEscape, Sound, States
<1>4. CASE ~st.failed /\ ~st.escaping /\ ~BeginsEscape(st, ch) /\ ch = Quote
  BY <1>0, <1>4 DEF Consume, Sound, States
<1>5. CASE /\ ~st.failed /\ ~st.escaping /\ ~BeginsEscape(st, ch) /\ ch # Quote
           /\ ~st.inQuotes /\ ch \in Spaces
  <2>1. Append(st.tokens, st.current) \in Seq(Text) /\ <<>> \in Text
    BY <1>0 DEF States, Text
  <2> QED BY <1>0, <1>5, <2>1 DEF Consume, EndToken, Sound, States
<1>6. CASE /\ ~st.failed /\ ~st.escaping /\ ~BeginsEscape(st, ch) /\ ch # Quote
           /\ ~(~st.inQuotes /\ ch \in Spaces)
  <2>1. Append(st.current, ch) \in Text
    BY <1>0, TextsJoined DEF States
  <2> QED BY <1>0, <1>6, <2>1 DEF Consume, Push, Sound, States
<1> QED BY <1>1, <1>2, <1>3, <1>4, <1>5, <1>6

\* One iteration of the loop keeps what it has promised.
LEMMA PromiseKept ==
  ASSUME NEW st, Sound(st), NEW ch \in Symbols, NEW s \in Text
  PROVE  Promise(st, <<ch>> \o s) = Promise(Consume(st, ch), s)
<1>0. /\ st \in States /\ st.tokens \in Seq(Text) /\ st.current \in Text
      /\ <<ch>> \o s \in Text
  BY Prefixed DEF Sound, States, Text
<1>1. CASE st.failed
  BY <1>1 DEF Consume, Promise
<1>2. CASE ~st.failed /\ st.escaping
  <2>1. Promise(st, <<ch>> \o s) = AddWords(st.tokens,
          IF ch \in DOMAIN Escapes THEN FromString(Append(st.current, Escapes[ch]), s) ELSE Bad)
    BY <1>0, <1>2, StringEscapes DEF Promise
  <2>2. CASE ch \in DOMAIN Escapes
    <3> DEFINE n == Consume(st, ch)
    <3>1. /\ ~n.failed /\ ~n.escaping /\ n.inQuotes /\ n.tokens = st.tokens
          /\ n.current = Append(st.current, Escapes[ch])
      BY <1>0, <1>2, <2>2 DEF Consume, Push, Sound, States
    <3> HIDE DEF n
    <3>2. Promise(n, s) = AddWords(st.tokens, FromString(Append(st.current, Escapes[ch]), s))
      BY <3>1 DEF Promise
    <3> QED BY <2>1, <2>2, <3>2 DEF n
  <2>3. CASE ch \notin DOMAIN Escapes
    <3>1. Consume(st, ch).failed
      BY <1>0, <1>2, <2>3 DEF Consume, States
    <3>2. AddWords(st.tokens, Bad) = Bad
      BY ReadingFields DEF AddWords
    <3> QED BY <2>1, <2>3, <3>1, <3>2 DEF Promise
  <2> QED BY <2>2, <2>3
<1>3. CASE ~st.failed /\ ~st.escaping /\ BeginsEscape(st, ch)
  <2> DEFINE n == Consume(st, ch)
  <2>1. /\ ~n.failed /\ n.escaping /\ n.tokens = st.tokens /\ n.current = st.current
        /\ st.inQuotes /\ ch = Backslash
    BY <1>0, <1>3 DEF Consume, BeginsEscape, States
  <2> HIDE DEF n
  <2> QED BY <1>3, <2>1 DEF Promise, n
<1>4. CASE ~st.failed /\ ~st.escaping /\ ~BeginsEscape(st, ch) /\ ch = Quote
  <2> DEFINE n == Consume(st, ch)
  <2>1. /\ ~n.failed /\ ~n.escaping /\ n.tokens = st.tokens /\ n.current = st.current
        /\ n.inQuotes = ~st.inQuotes /\ n.tokenStarted
    BY <1>0, <1>4 DEF Consume, States
  <2> HIDE DEF n
  <2>2. CASE st.inQuotes
    <3>1. Promise(n, s) = AddWords(st.tokens, FromWord(st.current, s))
      BY <2>1, <2>2 DEF Promise
    <3>2. Promise(st, <<ch>> \o s) = AddWords(st.tokens, FromString(st.current, <<Quote>> \o s))
      BY <1>4, <2>2 DEF Promise
    <3> QED BY <1>0, <3>1, <3>2, StringCloses DEF n
  <2>3. CASE ~st.inQuotes
    <3>1. Promise(n, s) = AddWords(st.tokens, FromString(st.current, s))
      BY <2>1, <2>3 DEF Promise
    <3>2. Promise(st, <<ch>> \o s) = AddWords(st.tokens, FromWord(st.current, <<Quote>> \o s))
      <4>1. CASE st.tokenStarted
        BY <1>4, <2>3, <4>1 DEF Promise
      <4>2. CASE ~st.tokenStarted
        <5>1. Line[<<ch>> \o s] = FromWord(<<>>, <<ch>> \o s)
          <6>1. <<ch>> \o s # <<>> /\ Head(<<ch>> \o s) = ch /\ ch \notin Spaces
            BY <1>4, Prefixed, CommandParserAssumption DEF Text
          <6> QED BY <1>0, <6>1, LineIsWord
        <5> QED BY <1>4, <2>3, <4>2, <5>1 DEF Promise, Sound
      <4> QED BY <4>1, <4>2
    <3> QED BY <1>0, <3>1, <3>2, WordOpens DEF n
  <2> QED BY <2>2, <2>3
<1>5. CASE /\ ~st.failed /\ ~st.escaping /\ ~BeginsEscape(st, ch) /\ ch # Quote
           /\ ~st.inQuotes /\ ch \in Spaces
  <2> DEFINE n == Consume(st, ch)
  <2>1. CASE st.tokenStarted
    <3>1. /\ ~n.failed /\ ~n.escaping /\ ~n.inQuotes /\ ~n.tokenStarted
          /\ n.tokens = Append(st.tokens, st.current)
      BY <1>0, <1>5, <2>1 DEF Consume, EndToken, States
    <3> HIDE DEF n
    <3>2. Promise(n, s) = AddWords(Append(st.tokens, st.current), Line[s])
      BY <3>1 DEF Promise
    <3>3. Promise(st, <<ch>> \o s) = AddWords(st.tokens, AddWords(<<st.current>>, Line[s]))
      BY <1>0, <1>5, <2>1, WordEnds DEF Promise
    <3>4. Append(st.tokens, st.current) = st.tokens \o <<st.current>>
      BY <1>0, Joined
    <3>5. <<st.current>> \in Seq(Text) /\ Line[s] \in Splits
      BY <1>0, LineDefined
    <3> QED BY <1>0, <3>2, <3>3, <3>4, <3>5, AddWordsTwice DEF n
  <2>2. CASE ~st.tokenStarted
    <3>1. n = st
      BY <1>5, <2>2 DEF Consume, EndToken
    <3> QED BY <1>5, <2>2, <3>1, WordEnds DEF Promise, n
  <2> QED BY <2>1, <2>2
<1>6. CASE /\ ~st.failed /\ ~st.escaping /\ ~BeginsEscape(st, ch) /\ ch # Quote
           /\ ~(~st.inQuotes /\ ch \in Spaces)
  <2> DEFINE n == Consume(st, ch)
  <2>1. /\ ~n.failed /\ ~n.escaping /\ n.tokens = st.tokens
        /\ n.current = Append(st.current, ch)
        /\ n.inQuotes = st.inQuotes /\ n.tokenStarted
    BY <1>0, <1>6 DEF Consume, Push, States
  <2> HIDE DEF n
  <2>2. CASE st.inQuotes
    <3>1. Promise(n, s) = AddWords(st.tokens, FromString(Append(st.current, ch), s))
      BY <2>1, <2>2 DEF Promise
    <3>2. Promise(st, <<ch>> \o s) = AddWords(st.tokens, FromString(st.current, <<ch>> \o s))
      BY <1>6, <2>2 DEF Promise
    <3>3. ch # Backslash
      BY <1>6, <2>2 DEF BeginsEscape
    <3> QED BY <1>0, <1>6, <3>1, <3>2, <3>3, StringTakes DEF n
  <2>3. CASE ~st.inQuotes
    <3>1. Promise(n, s) = AddWords(st.tokens, FromWord(Append(st.current, ch), s))
      BY <2>1, <2>3 DEF Promise
    <3>2. Promise(st, <<ch>> \o s) = AddWords(st.tokens, FromWord(st.current, <<ch>> \o s))
      <4>1. CASE st.tokenStarted
        BY <1>6, <2>3, <4>1 DEF Promise
      <4>2. CASE ~st.tokenStarted
        <5>1. Line[<<ch>> \o s] = FromWord(<<>>, <<ch>> \o s)
          <6>1. <<ch>> \o s # <<>> /\ Head(<<ch>> \o s) = ch
            BY Prefixed DEF Text
          <6> QED BY <1>0, <1>6, <2>3, <6>1, LineIsWord
        <5> QED BY <1>6, <2>3, <4>2, <5>1 DEF Promise, Sound
      <4> QED BY <4>1, <4>2
    <3> QED BY <1>0, <1>6, <2>3, <3>1, <3>2, WordTakes DEF n
  <2> QED BY <2>2, <2>3
<1> QED BY <1>1, <1>2, <1>3, <1>4, <1>5, <1>6

\* A set of positions has a last one.
LEMMA LastPosition ==
  ASSUME NEW n \in Nat, NEW T \in SUBSET (1..n), T # {}
  PROVE  Max(T) \in T /\ \A i \in T : i <= Max(T)
<1> DEFINE N == {d \in Nat : (\E i \in T : i >= n - d) => \E i \in T : \A j \in T : j <= i}
<1>1. \A i \in T : i \in 1..n
  OBVIOUS
<1>2. 0 \in N
  BY <1>1
<1>3. ASSUME NEW d \in N PROVE d + 1 \in N
  <2>1. ASSUME NEW i \in T, i >= n - (d + 1), ~(\E k \in T : k >= n - d), NEW j \in T
        PROVE  j <= i
    <3>1. i \in Int /\ j \in Int /\ d \in Nat /\ ~(j >= n - d)
      BY <1>1, <2>1
    <3> QED BY <2>1, <3>1
  <2> QED BY <2>1
<1> HIDE DEF N
<1>4. Nat \subseteq N
  BY <1>2, <1>3, Induction
<1>5. n \in N
  BY <1>4
<1>6. PICK i \in T : i >= n - n
  <2>1. n - n = 0
    OBVIOUS
  <2>2. \A i \in T : i >= 0
    BY <1>1
  <2> QED BY <2>1, <2>2
<1>7. \E k \in T : \A j \in T : j <= k
  BY <1>5, <1>6 DEF N
<1>8. \E k \in T : \A j \in T : k >= j
  <2>1. PICK k \in T : \A j \in T : j <= k
    BY <1>7
  <2>2. \A j \in T : k >= j
    BY <1>1, <2>1
  <2> QED BY <2>2
<1>9. Max(T) \in T /\ \A j \in T : Max(T) >= j
  BY <1>8 DEF Max
<1> QED BY <1>1, <1>9

\* Behind an initial part of the positions is the next one.
LEMMA NextPosition ==
  ASSUME NEW i \in Nat \ {0}
  PROVE  /\ 1..i # {} /\ Max(1..i) = i
         /\ (1..i) \ {Max(1..i)} = 1..(i - 1)
<1>1. 1..i # {}
  OBVIOUS
<1>2. Max(1..i) \in 1..i /\ \A j \in 1..i : j <= Max(1..i)
  BY <1>1, LastPosition
<1>3. Max(1..i) = i
  BY <1>2
<1> QED BY <1>1, <1>3

\* One step of the fold that tokenize is: the last position of T comes last.
FoldStep(input, T, f) ==
  IF T = {} THEN Start ELSE Consume(f[T \ {Max(T)}], input[Max(T)])

\* The fold is well defined.
LEMMA FoldDefined ==
  ASSUME NEW input \in Text
  PROVE  \E f : f = [T \in SUBSET DOMAIN input |-> FoldStep(input, T, f)]
<1> DEFINE n == Len(input)
           S == SUBSET DOMAIN input
           h == [T \in S |-> IF T = {} THEN 0 ELSE Max(T)]
           V == {st \in States : Sound(st)}
           F == [T \in S |-> [f \in [S -> V] |-> FoldStep(input, T, f)]]
<1>0. n \in Nat /\ DOMAIN input = 1..n /\ \A i \in 1..n : input[i] \in Symbols
  BY DEF Text
<1> HIDE DEF n
<1>1. ASSUME NEW T \in S, T # {}
      PROVE  /\ Max(T) \in T /\ Max(T) \in 1..n /\ T \ {Max(T)} \in S
             /\ h[T \ {Max(T)}] < h[T]
  <2>0. T \in SUBSET (1..n)
    BY <1>0
  <2>1. Max(T) \in T /\ Max(T) \in 1..n
    BY <1>0, <1>1, <2>0, LastPosition
  <2>2. T \ {Max(T)} \in S /\ T \ {Max(T)} \in SUBSET (1..n)
    BY <1>0
  <2>3. CASE T \ {Max(T)} = {}
    BY <1>1, <2>1, <2>2, <2>3
  <2>4. CASE T \ {Max(T)} # {}
    <3> DEFINE m == Max(T \ {Max(T)})
    <3>1. m \in T \ {Max(T)}
      BY <1>0, <2>2, <2>4, LastPosition
    <3>2. m <= Max(T) /\ m # Max(T) /\ m \in 1..n
      BY <1>0, <1>1, <2>0, <3>1, LastPosition
    <3>3. m < Max(T)
      BY <2>1, <3>2
    <3> QED BY <1>1, <2>1, <2>2, <2>4, <3>3
  <2> QED BY <2>1, <2>2, <2>3, <2>4
<1>2. h \in [S -> Nat]
  <2>1. ASSUME NEW T \in S, T # {} PROVE Max(T) \in Nat
    <3>1. Max(T) \in 1..n
      BY <1>1, <2>1
    <3> QED BY <1>0, <3>1
  <2> QED BY <2>1
<1>3. Start \in V
  <2>1. <<>> \in Seq(Text) /\ <<>> \in Text
    BY DEF Text
  <2> QED BY <2>1 DEF Start, States, Sound
<1>4. ASSUME NEW T \in S, NEW f \in [S -> V] PROVE FoldStep(input, T, f) \in V
  <2>1. CASE T = {}
    BY <1>3, <2>1 DEF FoldStep
  <2>2. CASE T # {}
    <3>1. f[T \ {Max(T)}] \in V /\ input[Max(T)] \in Symbols
      BY <1>0, <1>1, <2>2
    <3>2. Sound(Consume(f[T \ {Max(T)}], input[Max(T)]))
      BY <3>1, ConsumeSound
    <3> QED BY <2>2, <3>2 DEF FoldStep, Sound
  <2> QED BY <2>1, <2>2
<1>5. F \in [S -> [[S -> V] -> V]]
  BY <1>4
<1>6. ASSUME NEW T \in S, NEW f \in [S -> V], NEW g \in [S -> V],
             \A U \in S : h[U] < h[T] => f[U] = g[U]
      PROVE  F[T][f] = F[T][g]
  <2>1. T # {} => f[T \ {Max(T)}] = g[T \ {Max(T)}]
    BY <1>1, <1>6
  <2>2. FoldStep(input, T, f) = FoldStep(input, T, g)
    BY <2>1 DEF FoldStep
  <2> QED BY <2>2
<1>7. LooksBelow(S, V, h, F)
  BY <1>6 DEF LooksBelow
<1>8. \A T \in S : \A f \in [S -> V] : F[T][f] = FoldStep(input, T, f)
  OBVIOUS
<1> HIDE DEF h, F, S, V
<1>9. PICK f \in [S -> V] : Solves(f, S, F)
  BY <1>2, <1>3, <1>5, <1>7, Recursion
<1>10. f = [T \in S |-> FoldStep(input, T, f)]
  BY <1>8, <1>9 DEF Solves
<1> QED BY <1>10 DEF S

\* tokenize runs through the line from its beginning.
LEMMA FoldScans ==
  ASSUME NEW input \in Text
  PROVE  \E scan : /\ scan[0] = Start
                   /\ \A i \in 1..Len(input) : scan[i] = Consume(scan[i - 1], input[i])
                   /\ FoldLeft(Consume, Start, input) = scan[Len(input)]
<1>0. Len(input) \in Nat /\ DOMAIN input = 1..Len(input)
  BY DEF Text
<1> DEFINE it == CHOOSE f : f = [T \in SUBSET DOMAIN input |-> FoldStep(input, T, f)]
           scan == [i \in 0..Len(input) |-> it[1..i]]
<1>1. FoldLeft(Consume, Start, input) = it[DOMAIN input]
  BY DEF FoldLeft, MapThenFoldSet, FoldStep
<1>2. it = [T \in SUBSET DOMAIN input |-> FoldStep(input, T, it)]
  BY FoldDefined
<1> HIDE DEF it
<1>3. \A T \in SUBSET (1..Len(input)) : it[T] = FoldStep(input, T, it)
  BY <1>0, <1>2
<1>4. scan[0] = Start
  <2>1. scan[0] = it[{}]
    BY <1>0
  <2>2. it[{}] = Start
    BY <1>3 DEF FoldStep
  <2> QED BY <2>1, <2>2
<1>5. ASSUME NEW i \in 1..Len(input) PROVE scan[i] = Consume(scan[i - 1], input[i])
  <2>0. i \in Nat \ {0} /\ i \in 0..Len(input) /\ i - 1 \in 0..Len(input)
    BY <1>0
  <2>1. 1..i \in SUBSET (1..Len(input))
    BY <1>0, <2>0
  <2>2. it[1..i] = FoldStep(input, 1..i, it)
    BY <1>3, <2>1
  <2>3. FoldStep(input, 1..i, it) = Consume(it[1..(i - 1)], input[i])
    BY <2>0, NextPosition DEF FoldStep
  <2> QED BY <2>0, <2>2, <2>3
<1>6. scan[Len(input)] = it[DOMAIN input]
  BY <1>0
<1> HIDE DEF scan
<1> QED BY <1>1, <1>4, <1>5, <1>6

\* For every line the tokenizer finds the words that the grammar finds, and refuses
\* the lines that the grammar refuses.
THEOREM TokenizeReads ==
  ASSUME NEW input \in Text
  PROVE  tokenize(input) = Line[input]
<1> DEFINE n == Len(input)
           behind(i) == SubSeq(input, i + 1, n)
<1>1. PICK scan : /\ scan[0] = Start
                  /\ \A i \in 1..n : scan[i] = Consume(scan[i - 1], input[i])
                  /\ FoldLeft(Consume, Start, input) = scan[n]
  BY FoldScans
<1>2. n \in Nat /\ \A i \in 1..n : input[i] \in Symbols
  BY DEF Text
<1>3. behind(0) = input /\ behind(n) = <<>>
  BY SubSeqFull, SubSeqEmpty DEF Text
<1>4. ASSUME NEW i \in 1..n
      PROVE  behind(i - 1) = <<input[i]>> \o behind(i) /\ behind(i) \in Text
  <2>1. SubSeq(input, i, n) = <<input[i]>> \o SubSeq(input, i + 1, n)
    BY <1>2, SubSeqRecursiveFirst DEF Text
  <2>2. (i - 1) + 1 = i
    BY <1>2
  <2>3. SubSeq(input, i + 1, n) \in Text
    BY <1>2 DEF Text
  <2> QED BY <2>1, <2>2, <2>3
<1> HIDE DEF n, behind
<1> DEFINE N == {i \in Nat : i <= n => Sound(scan[i]) /\ Promise(scan[i], behind(i)) = Line[input]}
<1>5. 0 \in N
  <2>1. <<>> \in Seq(Text) /\ <<>> \in Text
    BY DEF Text
  <2>2. Sound(Start)
    BY <2>1 DEF Sound, Start, States
  <2>3. Promise(Start, input) = AddWords(<<>>, Line[input])
    BY DEF Promise, Start
  <2>4. Line[input] \in Splits
    BY LineDefined
  <2>5. AddWords(<<>>, Line[input]) = Line[input]
    <3>1. CASE Line[input] = Bad
      BY <3>1, ReadingFields DEF AddWords
    <3>2. ASSUME NEW ws \in Seq(Text), Line[input] = Success(ws)
          PROVE  AddWords(<<>>, Line[input]) = Line[input]
      <4>1. <<>> \o ws = ws
        BY Joined
      <4>2. Line[input].ok /\ Line[input].value = ws
        BY <3>2 DEF Success
      <4> QED BY <3>2, <4>1, <4>2 DEF AddWords
    <3> QED BY <2>4, <3>1, <3>2 DEF Splits
  <2> QED BY <1>1, <1>3, <2>2, <2>3, <2>5
<1>6. ASSUME NEW j \in N PROVE j + 1 \in N
  <2> SUFFICES ASSUME j + 1 <= n
               PROVE  /\ Sound(scan[j + 1])
                      /\ Promise(scan[j + 1], behind(j + 1)) = Line[input]
    OBVIOUS
  <2>1. j \in Nat /\ j + 1 \in 1..n /\ (j + 1) - 1 = j
    BY <1>2
  <2>2. Sound(scan[j]) /\ Promise(scan[j], behind(j)) = Line[input]
    BY <1>2, <2>1
  <2>3. scan[j + 1] = Consume(scan[j], input[j + 1]) /\ input[j + 1] \in Symbols
    BY <1>1, <1>2, <2>1
  <2>4. behind(j) = <<input[j + 1]>> \o behind(j + 1) /\ behind(j + 1) \in Text
    BY <1>4, <2>1
  <2>5. Sound(scan[j + 1])
    BY <2>2, <2>3, ConsumeSound
  <2>6. Promise(scan[j], <<input[j + 1]>> \o behind(j + 1))
          = Promise(Consume(scan[j], input[j + 1]), behind(j + 1))
    BY <2>2, <2>3, <2>4, PromiseKept
  <2> QED BY <2>2, <2>3, <2>4, <2>5, <2>6
<1> HIDE DEF N
<1>7. n \in N
  BY <1>2, <1>5, <1>6, Induction
<1>8. Sound(scan[n]) /\ Promise(scan[n], <<>>) = Line[input]
  BY <1>2, <1>3, <1>7 DEF N
<1>9. tokenize(input) = IF scan[n].failed \/ scan[n].escaping \/ scan[n].inQuotes THEN Bad
                        ELSE Success(EndToken(scan[n]).tokens)
  BY <1>1 DEF tokenize, Bad
<1> QED BY <1>8, <1>9, PromiseAtEnd

=============================================================================
