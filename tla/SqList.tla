------------------------------- MODULE SqList -------------------------------
(***************************************************************************)
(* What a script may expect of an array: a sequence of values and what the *)
(* last function called gave back.  Positions count from 0, those of slice *)
(* and splice also from the end.  SqArray keeps the values in memory that  *)
(* grows and shrinks, and sorts them step by step.                         *)
(***************************************************************************)
EXTENDS Integers, SequencesExt, FiniteSetsExt

CONSTANTS Elem,     \* values, numbers in their natural order
          Size      \* lengths that scripts ask for

VARIABLES list,
          did,      \* the last call
          out       \* what it gave back

Null == 0
Error == <<"error">>
Nothing == <<"nothing">>
One(x) == <<"one", x>>
Many(s) == <<"many", s>>
Busy == <<"busy">>     \* sorting, with a script that compares

Index == -2 .. 3
Pieces == {<< >>} \cup {<<x>> : x \in Elem}

\* The calls a script makes, and their arguments; one is the host's.
Calls ==
    {<<op>> : op \in {"pop", "top", "reverse", "clear", "clone", "extend self"}}
      \cup {<<op, x>> : op \in {"append", "remove every", "remove with all",
                             "host removes first"}, x \in Elem}
      \cup {<<"extend", s>> : s \in Pieces}
      \cup {<<op, i>> : op \in {"remove", "get", "slice from"}, i \in Index}
      \cup {<<op, i, x>> : op \in {"insert", "set"}, i \in Index, x \in Elem}
      \cup {<<"resize", n, x>> : n \in Size, x \in Elem}
      \cup {<<"slice", i, j>> : i, j \in Index}
      \cup {<<"splice", i, n, s>> : i, n \in Index, s \in Pieces}

Gives(s, r) == [list |-> s, out |-> r]
Inside(s, i) == i \in 0 .. Len(s) - 1
At(s, i) == IF i < 0 THEN Len(s) + i ELSE i

Slice(s, i, j) ==
    IF At(s, i) <= At(s, j) /\ At(s, j) <= Len(s)
      THEN Gives(s, Many(SubSeq(s, At(s, i) + 1, At(s, j)))) ELSE Gives(s, Error)

\* n values from position i on make way for those of t.
Splice(s, i, n, t) ==
    LET a == At(s, i)
    IN  IF n > 0 /\ a + n <= Len(s)
          THEN Gives(SubSeq(s, 1, a) \o t \o SubSeq(s, a + n + 1, Len(s)),
                     Many(SubSeq(s, a + 1, a + n)))
          ELSE Gives(s, Error)

After(s, c) ==
    LET op == c[1]
    IN  CASE op = "append" -> Gives(Append(s, c[2]), Nothing)
          [] op = "extend" -> Gives(s \o c[2], Nothing)
          [] op = "extend self" -> Gives(s \o s, Nothing)
          [] op = "pop" /\ s # << >> -> Gives(Front(s), One(Last(s)))
          [] op = "top" /\ s # << >> -> Gives(s, One(Last(s)))
          [] op \in {"pop", "top"} /\ s = << >> -> Gives(s, Error)
          [] op = "insert" /\ c[2] \in 0 .. Len(s) -> Gives(InsertAt(s, c[2] + 1, c[3]), Nothing)
          [] op = "insert" /\ c[2] \notin 0 .. Len(s) -> Gives(s, Error)
          [] op = "remove" /\ Inside(s, c[2]) -> Gives(RemoveAt(s, c[2] + 1), One(s[c[2] + 1]))
          [] op = "get" /\ Inside(s, c[2]) -> Gives(s, One(s[c[2] + 1]))
          [] op = "set" /\ Inside(s, c[2]) -> Gives(ReplaceAt(s, c[2] + 1, c[3]), Nothing)
          [] op \in {"remove", "get", "set"} /\ ~ Inside(s, c[2]) -> Gives(s, Error)
          [] op = "remove every" -> Gives(SelectSeq(s, LAMBDA y : y # c[2]), Nothing)
          [] op = "remove with all" -> Gives(s, Error)
          [] op = "host removes first" ->
               Gives(IF Contains(s, c[2])
                       THEN RemoveAt(s, Min({i \in DOMAIN s : s[i] = c[2]})) ELSE s, Nothing)
          [] op = "resize" ->
               Gives([i \in 1 .. c[2] |-> IF i \in DOMAIN s THEN s[i] ELSE c[3]], Nothing)
          [] op = "reverse" -> Gives(Reverse(s), Nothing)
          [] op = "clear" -> Gives(<< >>, Nothing)
          [] op = "clone" -> Gives(s, Many(s))
          [] op = "slice from" -> Slice(s, c[2], Len(s))
          [] op = "slice" -> Slice(s, c[2], c[3])
          [] op = "splice" -> Splice(s, c[2], c[3], c[4])

Init == list \in BoundedSeq(Elem, 3) /\ did = <<"new">> /\ out = Nothing

Call ==
    /\ out # Busy
    /\ did' \in Calls
    /\ LET r == After(list, did') IN list' = r.list /\ out' = r.out

\* Sorting never loses nor doubles a value.  At the end they are in order, if the
\* function that compares two of them knows one; it may also fail.
IsOrdered(s, before) == \A i, j \in DOMAIN s : i < j => before[s[i], s[j]] <= 0

Natural == [x, y \in Elem |-> IF x < y THEN -1 ELSE IF x > y THEN 1 ELSE 0]
Backward == [x, y \in Elem |-> Natural[y, x]]

Permuted(s, t) == \A x \in Elem : Len(SelectSeq(s, LAMBDA y : y = x)) = Len(SelectSeq(t, LAMBDA y : y = x))

Sort ==
    /\ did' \in {<<"sort", o>> : o \in {"natural", "backward", "unknown"}}
    /\ out = Busy => did' = did
    /\ out' \in {Busy, Nothing, Error}
    /\ Len(list') = Len(list) /\ Permuted(list', list)
    /\ out' = Nothing /\ did' = <<"sort", "natural">> => IsOrdered(list', Natural)
    /\ out' = Nothing /\ did' = <<"sort", "backward">> => IsOrdered(list', Backward)

Next == Call \/ Sort

Spec == Init /\ [][Next]_<<list, did, out>>
=============================================================================
