------------------------------ MODULE SqStream ------------------------------
(***************************************************************************)
(* What a script may expect of a stream in memory: a sequence of bytes, a  *)
(* position in it, and what the last function called gave back.  SqBlob    *)
(* keeps the bytes in a buffer that is larger than what it holds.          *)
(*                                                                         *)
(* Bytes have "Base" values, and numbers are written with the low byte     *)
(* first.  A format is a letter: its width in bytes, and whether the       *)
(* number has a sign.  Floats are bytes like any others and left out.      *)
(***************************************************************************)
EXTENDS Integers, SequencesExt, FiniteSetsExt

CONSTANTS Base,
          Offset,     \* positions, distances and sizes that scripts ask for
          Number      \* numbers they write

VARIABLES text, pos, did, out

Byte == 0 .. Base - 1
Format == [c |-> [width |-> 1, signed |-> TRUE], b |-> [width |-> 1, signed |-> FALSE],
           s |-> [width |-> 2, signed |-> TRUE], w |-> [width |-> 2, signed |-> FALSE],
           i |-> [width |-> 4, signed |-> TRUE]]
Letter == DOMAIN Format \cup {"z"}      \* "z" is no format

Error == <<"error">>
Nothing == <<"nothing">>
One(n) == <<"one", n>>
Many(s) == <<"many", s>>

Calls ==
    {<<op>> : op \in {"swap2", "swap4", "tell", "len", "eos"}}
      \cup {<<op, n>> : op \in {"readblob", "resize"}, n \in Offset \cap Nat}
      \cup {<<"writeblob", s>> : s \in {<<1>>, <<0, 1, 1>>}}
      \cup {<<"readn", f>> : f \in Letter}
      \cup {<<"writen", n, f>> : n \in Number, f \in Letter}
      \cup {<<"seek", n, f>> : n \in Offset, f \in {"b", "c", "e", "z"}}
      \cup {<<"get", n>> : n \in Offset}
      \cup {<<"set", n, x>> : n \in Offset, x \in Number}

\* A number and its bytes.
BytesOf(n, width) == [k \in 1 .. width |-> (n \div Base ^ (k - 1)) % Base]
Unsigned(s) == FoldLeftDomain(LAMBDA n, k : n + s[k] * Base ^ (k - 1), 0, s)
NumberOf(s, signed) ==
    IF signed /\ 2 * Unsigned(s) >= Base ^ Len(s) THEN Unsigned(s) - Base ^ Len(s) ELSE Unsigned(s)

\* Every group of n bytes is turned round; what is left at the end is not.
Turned(s, n) ==
    [k \in DOMAIN s |-> LET g == (k - 1) \div n
                        IN  IF (g + 1) * n <= Len(s) THEN s[2 * g * n + n + 1 - k] ELSE s[k]]

Gives(s, p, r) == [text |-> s, pos |-> p, out |-> r]

Write(s, p, t, r) == Gives(SubSeq(s, 1, p) \o t \o SubSeq(s, p + Len(t) + 1, Len(s)), p + Len(t), r)
Seek(s, p, to) == IF to \in 0 .. Len(s) THEN Gives(s, to, One(0)) ELSE Gives(s, p, One(-1))

After(s, p, c) ==
    LET op == c[1]
        left == Len(s) - p
    IN  CASE op = "swap2" -> Gives(Turned(s, 2), p, Nothing)
          [] op = "swap4" -> Gives(Turned(s, 4), p, Nothing)
          [] op = "tell" -> Gives(s, p, One(p))
          [] op = "len" -> Gives(s, p, One(Len(s)))
          [] op = "eos" -> Gives(s, p, IF left = 0 THEN One(1) ELSE Nothing)
          [] op = "readblob" /\ Min({c[2], left}) > 0 ->
               Gives(s, p + Min({c[2], left}), Many(SubSeq(s, p + 1, p + Min({c[2], left}))))
          [] op = "readblob" /\ Min({c[2], left}) = 0 -> Gives(s, p, Error)
          [] op = "resize" -> Gives(SubSeq(s, 1, Min({c[2], Len(s)})), Min({p, c[2]}), Nothing)
          [] op = "writeblob" -> Write(s, p, c[2], One(Len(c[2])))
          \* A number that is cut off is no number, and gone.
          [] op = "readn" /\ c[2] = "z" -> Gives(s, p, Error)
          [] op = "readn" /\ c[2] # "z" ->
               LET f == Format[c[2]]
               IN  IF f.width > left THEN Gives(s, Len(s), Error)
                   ELSE Gives(s, p + f.width, One(NumberOf(SubSeq(s, p + 1, p + f.width), f.signed)))
          [] op = "writen" /\ c[3] = "z" -> Gives(s, p, Error)
          [] op = "writen" /\ c[3] # "z" -> Write(s, p, BytesOf(c[2], Format[c[3]].width), Nothing)
          [] op = "seek" /\ c[3] = "b" -> Seek(s, p, c[2])
          [] op = "seek" /\ c[3] = "c" -> Seek(s, p, p + c[2])
          [] op = "seek" /\ c[3] = "e" ->
               IF c[2] > 0 THEN Gives(s, p, One(-1)) ELSE Seek(s, p, Len(s) + c[2])
          [] op = "seek" /\ c[3] = "z" -> Gives(s, p, Error)
          [] op \in {"get", "set"} /\ c[2] \notin 0 .. Len(s) - 1 -> Gives(s, p, Error)
          [] op = "get" /\ c[2] \in 0 .. Len(s) - 1 -> Gives(s, p, One(s[c[2] + 1]))
          [] op = "set" /\ c[2] \in 0 .. Len(s) - 1 ->
               Gives(ReplaceAt(s, c[2] + 1, c[3] % Base), p, One(c[3]))

Init ==
    /\ text \in Seq(Byte) /\ pos \in 0 .. Len(text)
    /\ did = <<"new">> /\ out = Nothing

Next ==
    LET r == After(text, pos, did')
    IN  /\ did' \in Calls
        /\ text' = r.text /\ pos' = r.pos /\ out' = r.out

Spec == Init /\ [][Next]_<<text, pos, did, out>>
=============================================================================
