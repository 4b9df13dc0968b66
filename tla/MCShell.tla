------------------------------ MODULE MCShell ------------------------------
(* An instance of Shell for TLC. *)
EXTENDS Shell

Space == " "

MCSymbols == STRING
MCSpaces == {Space, "\t"}
MCUpper == ("set" :> "SET") @@ ("get" :> "GET") @@ ("ttl" :> "TTL")
MCNumber == ("0" :> 0) @@ ("1" :> 1) @@ ("2" :> 2) @@ ("3" :> 3) @@ ("4" :> 4) @@ ("9" :> 9)
            @@ ("-1" :> -1) @@ ("99" :> 99)
MCLength == "long" :> 3

\* All lines of up to five of these symbols: a line can begin with a space, open
\* and close a string in the middle of a word, and end after a backslash.
ShortLines == SeqOf({Space, Quote, Backslash, "n"}, 5)

Spaced(tokens) == FoldLeft(LAMBDA s, t : s \o <<Space, t>>, <<>>, tokens)

\* Lines the parser or the engine refuses.
BadLines ==
  {Spaced(<<"SET", "k", "v", "ttl", n>>) : n \in {"3", "9", "0", "-1", "v"}}
  \cup {Spaced(<<c>>) : c \in {"get", "SET", "DEL", "EXISTS", "k"}}
  \cup {Spaced(<<c, "k">>) : c \in {"SET", "STATS", "COMPACT", "HELP", "EXIT", "QUIT"}}
  \cup {Spaced(<<c, "k", "k">>) : c \in {"DELETE", "KEYS"}}
  \cup {Spaced(<<"SET", "long", "v">>), Spaced(<<"SET", "k", "long">>),
        Spaced(<<"SET", "k", "v", "k", "1">>),
        <<"KEYS", "\t", "k">>, <<"SET", Space, Quote, Quote, Space, "v">>, <<"get", Space, Quote, Quote>>}

\* Two keys: k, and k followed by a string.
k2 == <<Space, "k", Quote, "n", Quote>>

CommandLines ==
  {Spaced(<<"set", "k", "v">>), <<"SET">> \o k2 \o <<Space, Quote, Quote>>}
  \cup {Spaced(<<"SET", "k", "w", "ttl", n>>) : n \in {"1", "2"}}
  \cup {<<"SET">> \o k2 \o Spaced(<<"w", "ttl", "1">>)}
  \cup {Spaced(<<c, "k">>) : c \in {"get", "DEL", "EXISTS", "KEYS"}}
  \cup {Spaced(<<c>>) : c \in {"STATS", "COMPACT", "HELP", "QUIT"}}

MCLines(s, n) == CommandLines \cup (IF s = 1 /\ n = 1 THEN BadLines \cup ShortLines ELSE {})

MCArguments ==
  {<<>>, <<"--help">>, <<"--cache">>, <<"k">>, <<"--data", "k", "--cache", "1">>,
   <<"--cache", "0">>, <<"--cleanup-ms", "99">>}
  \cup {<<"--cleanup-ms", n>> : n \in {"1", "0", "9", "-1", "k"}}
=============================================================================
