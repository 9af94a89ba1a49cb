----------------------------- MODULE SqRegular -----------------------------
(***************************************************************************)
(* Regular expressions: how they are written, and what they match.  SqRex  *)
(* reads and matches them the way the library does.                        *)
(*                                                                         *)
(* An expression is a list of nodes: <<"char", c>>, <<"class", c>> (a \d   *)
(* for instance), <<"set", negated, items>>, <<"dot">>, <<"bol">>,         *)
(* <<"eol">>, <<"expr", n, list>> (a group, the n-th one of those in plain *)
(* parentheses, or -1), <<"greedy", node, least, most>>, and, alone in its *)
(* list, <<"or", list, list>>.  An item is a node or <<"range", c, d>>.    *)
(***************************************************************************)
EXTENDS Integers, SequencesExt, FiniteSetsExt

CONSTANT Many      \* the greatest number of repetitions, which stands for any

\* Characters in the order of their codes.  A \d and a \D are written as one.
Ascii == <<"$", "(", ")", "*", "+", ",", "-", ".", "0", "1", "2", ":", "?",
           "[", "]", "^", "a", "b", "c", "{", "|", "}", "\\d", "\\D">>
Code == [c \in Range(Ascii) |-> CHOOSE k \in DOMAIN Ascii : Ascii[k] = c]
Digit == [c \in {"0", "1", "2"} |-> Code[c] - Code["0"]]

IsClass(c) == c \in {"\\d", "\\D"}
InClass(d, c) == (c \in DOMAIN Digit) = (d = "\\d")

InItem(i, c) ==
    CASE i[1] = "char" -> c = i[2]
      [] i[1] = "class" -> InClass(i[2], c)
      [] i[1] = "range" -> Code[c] \in Code[i[2]] .. Code[i[3]]

InSet(items, c) == \E k \in DOMAIN items : InItem(items[k], c)

\* How a node and a list are written.
Written(i) == IF i[1] = "range" THEN <<i[2], "-", i[3]>> ELSE <<i[2]>>

RECURSIVE NumberText(_)
NumberText(n) ==
    (IF n < 10 THEN << >> ELSE NumberText(n \div 10)) \o <<Ascii[Code["0"] + (n % 10)]>>

Often(p, q) ==
    CASE p = 0 /\ q = Many -> <<"*">>
      [] p = 1 /\ q = Many -> <<"+">>
      [] p = 0 /\ q = 1 -> <<"?">>
      [] p = q -> <<"{">> \o NumberText(p) \o <<"}">>
      [] p > 1 /\ q = Many -> <<"{">> \o NumberText(p) \o <<",", "}">>
      [] OTHER -> <<"{">> \o NumberText(p) \o <<",">> \o NumberText(q) \o <<"}">>

RECURSIVE TextOf(_), NodeText(_)
NodeText(n) ==
    CASE n[1] \in {"char", "class"} -> <<n[2]>>
      [] n[1] = "set" -> (IF n[2] THEN <<"[", "^">> ELSE <<"[">>)
                           \o FlattenSeq([k \in DOMAIN n[3] |-> Written(n[3][k])]) \o <<"]">>
      [] n[1] = "dot" -> <<".">>
      [] n[1] = "bol" -> <<"^">>
      [] n[1] = "eol" -> <<"$">>
      [] n[1] = "expr" -> (IF n[2] < 0 THEN <<"(", "?", ":">> ELSE <<"(">>)
                            \o TextOf(n[3]) \o <<")">>
      [] n[1] = "greedy" -> NodeText(n[2]) \o Often(n[3], n[4])
      [] n[1] = "or" -> TextOf(n[2]) \o <<"|">> \o TextOf(n[3])
TextOf(list) == FlattenSeq([k \in DOMAIN list |-> NodeText(list[k])])

\* Where a match of a list, or of a node, may end that begins at i.
RECURSIVE Ends(_, _, _), NodeEnds(_, _, _), TimesEnds(_, _, _, _, _)
Ends(list, text, i) ==
    IF list = << >> THEN {i}
    ELSE UNION {Ends(Tail(list), text, j) : j \in NodeEnds(Head(list), text, i)}

NodeEnds(n, text, i) ==
    LET one(yes) == IF i < Len(text) /\ yes THEN {i + 1} ELSE {}
    IN  CASE n[1] \in {"char", "class"} -> one(i < Len(text) /\ InItem(n, text[i + 1]))
          [] n[1] = "set" -> one(i < Len(text) /\ InSet(n[3], text[i + 1]) # n[2])
          [] n[1] = "dot" -> one(TRUE)
          [] n[1] = "bol" -> IF i = 0 THEN {i} ELSE {}
          [] n[1] = "eol" -> IF i = Len(text) THEN {i} ELSE {}
          [] n[1] = "expr" -> Ends(n[3], text, i)
          [] n[1] = "or" -> Ends(n[2], text, i) \cup Ends(n[3], text, i)
          [] n[1] = "greedy" -> TimesEnds(n[2], n[3], n[4], text, i)

TimesEnds(n, p, q, text, i) ==
    (IF p = 0 THEN {i} ELSE {})
      \cup IF q = 0 THEN {}
           ELSE UNION {IF j = i /\ p = 0 THEN {i}
                       ELSE TimesEnds(n, Max({p - 1, 0}), IF q = Many THEN q ELSE q - 1, text, j)
                          : j \in NodeEnds(n, text, i)}

\* Expressions of which there is one way to read a text: no groups nor choices, and
\* what follows a repetition begins with another character.
Letters(n) ==
    LET C == Range(Ascii) \ {"\\d", "\\D"}
    IN  CASE n[1] \in {"char", "class"} -> {c \in C : InItem(n, c)}
          [] n[1] = "set" -> {c \in C : InSet(n[3], c) # n[2]}
          [] OTHER -> {}

IsLetter(n) == n[1] \in {"char", "class"} \/ (n[1] = "set" /\ ~ n[2])
IsPlain(list) ==
    \A k \in DOMAIN list :
      \/ IsLetter(list[k])
      \/ k = 1 /\ list[k][1] = "bol"
      \/ k = Len(list) /\ list[k][1] = "eol"
      \/ /\ list[k][1] = "greedy" /\ IsLetter(list[k][2])
         /\ k < Len(list) => \/ list[k + 1][1] = "eol"
                             \/ /\ IsLetter(list[k + 1])
                                /\ Letters(list[k][2]) \cap Letters(list[k + 1]) = {}
=============================================================================
