------------------------------- MODULE SqBlob -------------------------------
(***************************************************************************)
(* The blob: a buffer of which the first "size" bytes are its text, and    *)
(* the stream functions that a script calls on it.  Sizes below zero are   *)
(* no arguments here, and no blob is written to itself, which reads the    *)
(* buffer that growing it has freed.                                       *)
(*                                                                         *)
(* A definition whose comment begins with "Defect" is a variant of the one *)
(* below it with a plausible bug; Next uses none of them.                  *)
(***************************************************************************)
EXTENDS Integers, SequencesExt, FiniteSetsExt

CONSTANTS Base, Offset, Number,
          MaxBytes, MaxCalls     \* bounds: the text's length, calls of a run

\* Bytes have at least two values; what instantiates this module assumes it.
BlobAssumption ==
    /\ Base \in Nat /\ Base >= 2
    /\ Offset \subseteq Int /\ Number \subseteq Int

VARIABLES blob,     \* the buffer, the size and the position
          did, out, calls

bvars == <<blob, did, out, calls>>

Text == SubSeq(blob.buf, 1, blob.size)
Stream == INSTANCE SqStream WITH text <- Text, pos <- blob.ptr

Allocated(b) == Len(b.buf)
NewBlob(n) == [buf |-> [k \in 1 .. n |-> 0], size |-> n, ptr |-> 0]

\* What does not fit is cut off; a larger buffer is filled with zeros, and the text
\* is no longer for it.
Resize(b, n) ==
    IF n = Allocated(b) THEN b
    ELSE [buf |-> [k \in 1 .. n |-> IF k <= b.size THEN b.buf[k] ELSE 0],
          size |-> Min({b.size, n}), ptr |-> Min({b.ptr, n})]

\* Defect: twice the text is taken to be enough.
GrowBufOfDouble(b, n) ==
    LET grown == IF b.size + n > Allocated(b) THEN Resize(b, b.size * 2) ELSE b
    IN  [grown EXCEPT !.size = Min({b.size + n, Allocated(grown)})]

GrowBufOf(b, n) ==
    LET grown == IF b.size + n > Allocated(b) THEN Resize(b, Max({b.size + n, b.size * 2})) ELSE b
    IN  [grown EXCEPT !.size = b.size + n]

CanAdvance(b, n) == b.ptr + n <= b.size

Put(b, s) ==
    [b EXCEPT !.buf = [k \in DOMAIN b.buf |->
                          IF k \in b.ptr + 1 .. b.ptr + Len(s) THEN s[k - b.ptr] ELSE b.buf[k]],
              !.ptr = b.ptr + Len(s)]

Write(b, s) == Put(IF CanAdvance(b, Len(s)) THEN b ELSE GrowBufOf(b, b.ptr + Len(s) - b.size), s)

\* How much is read, at most what is left.
ReadSize(b, n) == IF CanAdvance(b, n) THEN n ELSE IF b.size > b.ptr THEN b.size - b.ptr ELSE 0
Read(b, n) == [b EXCEPT !.ptr = @ + ReadSize(b, n)]
Bytes(b, n) == SubSeq(b.buf, b.ptr + 1, b.ptr + ReadSize(b, n))

Origin == [b |-> "set", c |-> "current", e |-> "end"]

\* The new position, or -1.
Target(b, offset, origin) ==
    LET to == CASE origin = "set" -> offset
                [] origin = "current" -> b.ptr + offset
                [] origin = "end" -> b.size + offset
    IN  IF to > b.size \/ to < 0 THEN -1 ELSE to

-----------------------------------------------------------------------------
\* The functions of scripts.

Gives(b, r) == blob' = b /\ out' = r
Throws == Gives(blob, Stream!Error)

\* A length that is no multiple of the width leaves bytes at the end.
Swap(width) ==
    LET num == blob.size \div width
    IN  [blob EXCEPT !.buf = [k \in DOMAIN blob.buf |->
            LET g == (k - 1) \div width
            IN  IF g < num THEN blob.buf[g * width + width - ((k - 1) % width)] ELSE blob.buf[k]]]

_blob_swap2 == Gives(Swap(2), Stream!Nothing)
_blob_swap4 == Gives(Swap(4), Stream!Nothing)
_blob_resize(n) == Gives(Resize(blob, n), Stream!Nothing)
InText(i) == i >= 0 /\ i < blob.size
_blob__get(i) == IF InText(i) THEN Gives(blob, Stream!One(blob.buf[i + 1])) ELSE Throws
_blob__set(i, n) ==
    IF InText(i) THEN Gives([blob EXCEPT !.buf[i + 1] = n % Base], Stream!One(n)) ELSE Throws

_stream_readblob(n) ==
    LET size == Min({n, blob.size})
    IN  IF ReadSize(blob, size) <= 0 THEN Throws
        ELSE Gives(Read(blob, size), Stream!Many(Bytes(blob, size)))

\* The bytes are taken from the stream before it is known that they are enough.
_stream_readn(f) ==
    IF f \notin DOMAIN Stream!Format THEN Throws
    ELSE LET n == Stream!Format[f].width
         IN  Gives(Read(blob, n),
                   IF ReadSize(blob, n) # n THEN Stream!Error
                   ELSE Stream!One(Stream!NumberOf(Bytes(blob, n), Stream!Format[f].signed)))

_stream_writeblob(s) == Gives(Write(blob, s), Stream!One(Len(s)))
_stream_writen(n, f) ==
    IF f \notin DOMAIN Stream!Format THEN Throws
    ELSE Gives(Write(blob, Stream!BytesOf(n, Stream!Format[f].width)), Stream!Nothing)

_stream_seek(n, f) ==
    IF f \notin DOMAIN Origin THEN Throws
    ELSE LET to == Target(blob, n, Origin[f])
         IN  IF to = -1 THEN Gives(blob, Stream!One(-1))
             ELSE Gives([blob EXCEPT !.ptr = to], Stream!One(0))

_stream_tell == Gives(blob, Stream!One(blob.ptr))
_stream_len == Gives(blob, Stream!One(blob.size))
_stream_eos == Gives(blob, IF blob.ptr = blob.size THEN Stream!One(1) ELSE Stream!Nothing)

Perform(c) ==
    LET op == c[1]
    IN  CASE op = "swap2" -> _blob_swap2
          [] op = "swap4" -> _blob_swap4
          [] op = "resize" -> _blob_resize(c[2])
          [] op = "get" -> _blob__get(c[2])
          [] op = "set" -> _blob__set(c[2], c[3])
          [] op = "readblob" -> _stream_readblob(c[2])
          [] op = "readn" -> _stream_readn(c[2])
          [] op = "writeblob" -> _stream_writeblob(c[2])
          [] op = "writen" -> _stream_writen(c[2], c[3])
          [] op = "seek" -> _stream_seek(c[2], c[3])
          [] op = "tell" -> _stream_tell
          [] op = "len" -> _stream_len
          [] op = "eos" -> _stream_eos

-----------------------------------------------------------------------------
Unused == blob = NewBlob(0)

Init ==
    /\ blob \in {NewBlob(0), NewBlob(2), Write(NewBlob(2), <<0, 1, 1, 0, 1>>)}
    /\ did = <<"new">> /\ out = Stream!Nothing
    /\ calls = 0

Next ==
    /\ calls < MaxCalls
    /\ calls' = calls + 1
    /\ \E c \in Stream!Calls : did' = c /\ Perform(c)
    /\ blob'.size <= MaxBytes

Spec == Init /\ [][Next]_bvars

-----------------------------------------------------------------------------
\* Properties.

\* A blob does what a stream of bytes does, though it grows, shrinks and moves in
\* memory under the position: nothing written is lost, nothing read is made up.
ImplementsStream == Stream!Spec
=============================================================================
