---------------------------- MODULE SqBlob_proofs ----------------------------
(***************************************************************************)
(* A blob implements a stream of bytes: whatever is written, read, cut off *)
(* or made room for, its text and its position are those of the stream.    *)
(***************************************************************************)
EXTENDS SqBlob, TLAPS

-----------------------------------------------------------------------------
(* The blob's order.                                                       *)

Ordered(b) == b.ptr \in 0 .. b.size /\ b.size \in 0 .. Len(b.buf)

\* The position is in the text or behind it, and the text is in the buffer, whose
\* places all hold something.
Sound(b) ==
    /\ b = [buf |-> b.buf, size |-> b.size, ptr |-> b.ptr]
    /\ \E V : b.buf \in Seq(V)
    /\ Ordered(b)

TextOf(b) == SubSeq(b.buf, 1, b.size)

LEMMA MinOf ==
  ASSUME NEW i \in Int, NEW j \in Int
  PROVE  Min({i, j}) = IF i <= j THEN i ELSE j
<1>1. \E x \in {i, j} : \A y \in {i, j} : x =< y
  OBVIOUS
<1> QED BY <1>1 DEF Min

\* The stream's minimum is the blob's.
LEMMA StreamMin == ASSUME NEW S PROVE Stream!Min(S) = Min(S)
BY DEF Stream!Min, Min

LEMMA MaxOf ==
  ASSUME NEW i \in Int, NEW j \in Int
  PROVE  Max({i, j}) = IF i >= j THEN i ELSE j
<1>1. \E x \in {i, j} : \A y \in {i, j} : x >= y
  OBVIOUS
<1> QED BY <1>1 DEF Max

\* What a text has at its places.
LEMMA TextFacts ==
  ASSUME NEW b, Sound(b)
  PROVE  /\ Len(TextOf(b)) = b.size /\ b.size \in Nat /\ b.ptr \in Nat
         /\ DOMAIN TextOf(b) = 1 .. b.size
         /\ \A k \in 1 .. b.size : TextOf(b)[k] = b.buf[k]
         /\ \E V : TextOf(b) \in Seq(V) /\ b.buf \in Seq(V)
         /\ Len(b.buf) \in Nat /\ DOMAIN b.buf = 1 .. Len(b.buf)
<1>1. PICK V : b.buf \in Seq(V)
  BY DEF Sound
<1>2. b.size \in 0 .. Len(b.buf) /\ b.ptr \in 0 .. b.size /\ Len(b.buf) \in Nat
  BY <1>1 DEF Sound, Ordered
<1> QED BY <1>1, <1>2 DEF TextOf

\* Two sequences are the same if they are as long and have the same at each place.
LEMMA SameText ==
  ASSUME NEW s, NEW t, \E V : s \in Seq(V), \E V : t \in Seq(V),
         Len(s) = Len(t), \A k \in 1 .. Len(s) : s[k] = t[k]
  PROVE  s = t
OBVIOUS

LEMMA FunctionIsText ==
  ASSUME NEW n \in Nat, NEW f, f = [k \in 1 .. n |-> f[k]]
  PROVE  f \in Seq({f[k] : k \in 1 .. n}) /\ Len(f) = n
OBVIOUS

LEMMA Part ==
  ASSUME NEW V, NEW s \in Seq(V), NEW p \in Nat, NEW r \in Nat, p + r <= Len(s)
  PROVE  LET a == SubSeq(s, p + 1, p + r)
         IN  a \in Seq(V) /\ Len(a) = r /\ \A k \in 1 .. r : a[k] = s[p + k]
<1> DEFINE a == SubSeq(s, p + 1, p + r)
<1>1. Len(s) \in Nat
  OBVIOUS
<1>2. a \in Seq(V) /\ Len(a) = r
  <2>1. CASE r = 0
    BY <1>1, <2>1
  <2>2. CASE r > 0
    BY <1>1, <2>2
  <2> QED BY <2>1, <2>2
<1>3. ASSUME NEW k \in 1 .. r PROVE a[k] = s[p + k]
  <2>1. a[k] = s[(p + 1) + k - 1]
    BY <1>1
  <2>2. (p + 1) + k - 1 = p + k
    OBVIOUS
  <2> QED BY <2>1, <2>2
<1> QED BY <1>2, <1>3

-----------------------------------------------------------------------------
(* What changes the buffer.                                                *)

LEMMA ResizeRight ==
  ASSUME NEW b, Sound(b), NEW n \in Nat
  PROVE  LET r == Resize(b, n)
         IN  /\ Sound(r) /\ Len(r.buf) = n
             /\ r.size = Min({b.size, n}) /\ r.ptr = Min({b.ptr, n})
             /\ \A k \in 1 .. r.size : r.buf[k] = b.buf[k]
<1> DEFINE r == Resize(b, n)
<1>1. /\ b.size \in Nat /\ b.ptr \in Nat /\ b.ptr <= b.size /\ b.size <= Len(b.buf)
      /\ Len(b.buf) \in Nat
  BY TextFacts DEF Sound, Ordered
<1>2. /\ Min({b.size, n}) = IF b.size <= n THEN b.size ELSE n
      /\ Min({b.ptr, n}) = IF b.ptr <= n THEN b.ptr ELSE n
  BY <1>1, MinOf
<1>3. CASE n = Len(b.buf)
  BY <1>1, <1>2, <1>3 DEF Resize, Allocated
<1>4. CASE n # Len(b.buf)
  <2> DEFINE g == [k \in 1 .. n |-> IF k <= b.size THEN b.buf[k] ELSE 0]
  <2>1. r = [buf |-> g, size |-> Min({b.size, n}), ptr |-> Min({b.ptr, n})]
    BY <1>4 DEF Resize, Allocated
  <2>2. g \in Seq({g[k] : k \in 1 .. n}) /\ Len(g) = n
    OBVIOUS
  <2>3. \A k \in 1 .. n : k <= b.size => g[k] = b.buf[k]
    OBVIOUS
  <2> HIDE DEF g
  <2>4. r.buf = g /\ r.size = Min({b.size, n}) /\ r.ptr = Min({b.ptr, n})
    BY <2>1
  <2>5. Sound(r)
    BY <1>1, <1>2, <2>1, <2>2, <2>4 DEF Sound, Ordered
  <2> QED BY <1>1, <1>2, <2>2, <2>3, <2>4, <2>5
<1> QED BY <1>3, <1>4

LEMMA GrowRight ==
  ASSUME NEW b, Sound(b), NEW n \in Nat
  PROVE  LET r == GrowBufOf(b, n)
         IN  /\ Sound(r) /\ r.size = b.size + n /\ r.ptr = b.ptr
             /\ \A k \in 1 .. b.size : r.buf[k] = b.buf[k]
<1> DEFINE r == GrowBufOf(b, n)
           m == Max({b.size + n, b.size * 2})
           g == Resize(b, m)
<1>1. /\ b.size \in Nat /\ b.ptr \in Nat /\ b.ptr <= b.size /\ b.size <= Len(b.buf)
      /\ Len(b.buf) \in Nat
  BY TextFacts DEF Sound, Ordered
<1>2. m \in Nat /\ m >= b.size + n
  BY <1>1, MaxOf
<1>3. CASE b.size + n > Len(b.buf)
  <2>1. r = [g EXCEPT !.size = b.size + n]
    BY <1>3 DEF GrowBufOf, Allocated
  <2>2. /\ Sound(g) /\ Len(g.buf) = m
        /\ g.size = Min({b.size, m}) /\ g.ptr = Min({b.ptr, m})
        /\ \A k \in 1 .. g.size : g.buf[k] = b.buf[k]
    BY <1>2, ResizeRight
  <2>3. g.size = b.size /\ g.ptr = b.ptr
    <3> HIDE DEF g, m
    <3>1. Min({b.size, m}) = b.size
      BY <1>1, <1>2, MinOf
    <3>2. Min({b.ptr, m}) = b.ptr
      BY <1>1, <1>2, MinOf
    <3> QED BY <2>2, <3>1, <3>2
  <2> HIDE DEF g, m
  <2>4. g = [buf |-> g.buf, size |-> g.size, ptr |-> g.ptr]
    BY <2>2 DEF Sound
  <2>5. r = [buf |-> g.buf, size |-> b.size + n, ptr |-> g.ptr]
    BY <2>1, <2>4
  <2>6. r.buf = g.buf /\ r.size = b.size + n /\ r.ptr = b.ptr
    BY <2>3, <2>5
  <2>7. Sound(r)
    BY <1>1, <1>2, <2>2, <2>3, <2>5, <2>6 DEF Sound, Ordered
  <2> QED BY <2>2, <2>3, <2>6, <2>7
<1>4. CASE ~ (b.size + n > Len(b.buf))
  <2>1. r = [b EXCEPT !.size = b.size + n]
    BY <1>4 DEF GrowBufOf, Allocated
  <2>2. b = [buf |-> b.buf, size |-> b.size, ptr |-> b.ptr]
    BY DEF Sound
  <2>3. r = [buf |-> b.buf, size |-> b.size + n, ptr |-> b.ptr]
    BY <2>1, <2>2
  <2>4. r.buf = b.buf /\ r.size = b.size + n /\ r.ptr = b.ptr
    BY <2>3
  <2>5. Sound(r)
    BY <1>1, <1>4, <2>3, <2>4 DEF Sound, Ordered
  <2> QED BY <2>4, <2>5
<1> QED BY <1>3, <1>4

LEMMA PutRight ==
  ASSUME NEW b, Sound(b), NEW V, NEW s \in Seq(V), b.ptr + Len(s) <= b.size
  PROVE  LET r == Put(b, s)
         IN  /\ Sound(r) /\ r.size = b.size /\ r.ptr = b.ptr + Len(s)
             /\ \A k \in 1 .. b.size :
                   r.buf[k] = IF k <= b.ptr THEN b.buf[k]
                              ELSE IF k <= b.ptr + Len(s) THEN s[k - b.ptr] ELSE b.buf[k]
<1> DEFINE r == Put(b, s)
           g == [k \in DOMAIN b.buf |->
                    IF k \in b.ptr + 1 .. b.ptr + Len(s) THEN s[k - b.ptr] ELSE b.buf[k]]
<1>1. /\ b.size \in Nat /\ b.ptr \in Nat /\ b.ptr <= b.size /\ b.size <= Len(b.buf)
      /\ Len(b.buf) \in Nat /\ DOMAIN b.buf = 1 .. Len(b.buf) /\ Len(s) \in Nat
  BY TextFacts DEF Sound, Ordered
<1>2. g \in Seq({g[k] : k \in 1 .. Len(b.buf)}) /\ Len(g) = Len(b.buf)
  BY <1>1
<1>3. \A k \in 1 .. b.size :
         g[k] = IF k <= b.ptr THEN b.buf[k]
                ELSE IF k <= b.ptr + Len(s) THEN s[k - b.ptr] ELSE b.buf[k]
  BY <1>1
<1>4. r = [b EXCEPT !.buf = g, !.ptr = b.ptr + Len(s)]
  BY DEF Put
<1> HIDE DEF g
<1>5. b = [buf |-> b.buf, size |-> b.size, ptr |-> b.ptr]
  BY DEF Sound
<1>6. r = [buf |-> g, size |-> b.size, ptr |-> b.ptr + Len(s)]
  BY <1>4, <1>5
<1>7. r.buf = g /\ r.size = b.size /\ r.ptr = b.ptr + Len(s)
  BY <1>6
<1>8. Sound(r)
  BY <1>1, <1>2, <1>6, <1>7 DEF Sound, Ordered
<1> QED BY <1>3, <1>7, <1>8

\* A part of a sequence replaced by one that may go beyond its end.
Replaced(t, s, p) == SubSeq(t, 1, p) \o s \o SubSeq(t, p + Len(s) + 1, Len(t))

LEMMA Spliced ==
  ASSUME NEW X, NEW t \in Seq(X), NEW s \in Seq(X), NEW p \in 0 .. Len(t)
  PROVE  /\ Replaced(t, s, p) \in Seq(X)
         /\ Len(Replaced(t, s, p)) = IF p + Len(s) <= Len(t) THEN Len(t) ELSE p + Len(s)
         /\ \A k \in 1 .. Len(Replaced(t, s, p)) :
               Replaced(t, s, p)[k] = IF k <= p THEN t[k]
                                      ELSE IF k <= p + Len(s) THEN s[k - p] ELSE t[k]
<1> DEFINE n == p + Len(s)
           a == SubSeq(t, 1, p)
           c == SubSeq(t, n + 1, Len(t))
           d == a \o s
           u == d \o c
<1>1. Len(t) \in Nat /\ Len(s) \in Nat /\ n \in Nat /\ p \in Nat /\ p <= Len(t)
  OBVIOUS
<1>2. a \in Seq(X) /\ Len(a) = p /\ \A k \in 1 .. p : a[k] = t[k]
  BY <1>1
<1>3. c \in Seq(X) /\ Len(c) = IF n <= Len(t) THEN Len(t) - n ELSE 0
  <2>1. CASE n + 1 <= Len(t)
    BY <1>1, <2>1
  <2>2. CASE ~ (n + 1 <= Len(t))
    BY <1>1, <2>2
  <2> QED BY <2>1, <2>2
<1>4. \A k \in 1 .. Len(c) : c[k] = t[k + n]
  <2>1. CASE n + 1 <= Len(t)
    <3>1. \A k \in 1 .. Len(t) - (n + 1) + 1 : c[k] = t[(n + 1) + k - 1]
      BY <1>1, <2>1
    <3> HIDE DEF c, n
    <3> TAKE k \in 1 .. Len(c)
    <3>2. k \in 1 .. Len(t) - (n + 1) + 1 /\ (n + 1) + k - 1 = k + n
      BY <1>1, <1>3, <2>1
    <3> QED BY <3>1, <3>2
  <2>2. CASE ~ (n + 1 <= Len(t))
    BY <1>1, <1>3, <2>2
  <2> QED BY <2>1, <2>2
<1> HIDE DEF a, c, n
<1>5. /\ d \in Seq(X) /\ Len(d) = p + Len(s)
      /\ \A k \in 1 .. p : d[k] = t[k]
      /\ \A k \in p + 1 .. p + Len(s) : d[k] = s[k - p]
  BY <1>1, <1>2
<1> HIDE DEF d
<1>6. /\ u \in Seq(X) /\ Len(u) = Len(d) + Len(c)
      /\ \A k \in 1 .. Len(d) : u[k] = d[k]
      /\ \A k \in Len(d) + 1 .. Len(d) + Len(c) : u[k] = c[k - Len(d)]
  <2>1. d \in Seq(X) /\ c \in Seq(X)
    BY <1>3, <1>5
  <2> QED BY <2>1
<1> HIDE DEF u
<1>7. Len(d) = n
  BY <1>5 DEF n
<1>8. Len(u) = IF n <= Len(t) THEN Len(t) ELSE n
  BY <1>1, <1>3, <1>6, <1>7
<1>9. ASSUME NEW k \in 1 .. Len(u)
      PROVE u[k] = IF k <= p THEN t[k] ELSE IF k <= n THEN s[k - p] ELSE t[k]
  <2>1. CASE k <= p
    BY <1>1, <1>5, <1>6, <1>7, <2>1
  <2>2. CASE ~ (k <= p) /\ k <= n
    BY <1>1, <1>5, <1>6, <1>7, <2>2
  <2>3. CASE k > n
    <3>1. k - n \in 1 .. Len(c) /\ k \in n + 1 .. n + Len(c)
      BY <1>1, <1>3, <1>6, <1>7, <2>3
    <3>2. u[k] = c[k - n] /\ c[k - n] = t[(k - n) + n]
      BY <1>4, <1>6, <1>7, <3>1
    <3>3. (k - n) + n = k /\ ~ (k <= p) /\ ~ (k <= n)
      BY <1>1, <2>3, <1>5, <1>7
    <3> QED BY <3>2, <3>3
  <2> QED BY <1>1, <2>1, <2>2, <2>3
<1>10. Replaced(t, s, p) = u /\ p + Len(s) = n
  BY DEF Replaced, u, d, a, c, n
<1> QED BY <1>6, <1>8, <1>9, <1>10

\* What is written is where the position was, and the rest is as before.
LEMMA WriteRight ==
  ASSUME NEW b, Sound(b), NEW V, NEW s \in Seq(V)
  PROVE  LET r == Write(b, s)
             t == TextOf(b)
         IN  /\ Sound(r) /\ r.ptr = b.ptr + Len(s)
             /\ TextOf(r) = SubSeq(t, 1, b.ptr) \o s \o SubSeq(t, b.ptr + Len(s) + 1, Len(t))
<1> DEFINE r == Write(b, s)
           n == b.ptr + Len(s)
           t == TextOf(b)
           w == IF CanAdvance(b, Len(s)) THEN b
                ELSE GrowBufOf(b, b.ptr + Len(s) - b.size)
           u == Replaced(t, s, b.ptr)
<1>1. /\ b.size \in Nat /\ b.ptr \in Nat /\ b.ptr <= b.size /\ b.size <= Len(b.buf)
      /\ Len(b.buf) \in Nat /\ Len(s) \in Nat
  BY TextFacts DEF Sound, Ordered
<1>2. /\ Sound(w) /\ w.ptr = b.ptr /\ w.size = (IF n <= b.size THEN b.size ELSE n)
      /\ \A k \in 1 .. b.size : w.buf[k] = b.buf[k]
  <2>1. CASE n <= b.size
    BY <1>1, <2>1 DEF CanAdvance
  <2>2. CASE n > b.size
    <3> DEFINE g == GrowBufOf(b, b.ptr + Len(s) - b.size)
    <3>1. n - b.size \in Nat /\ b.size + (n - b.size) = n
      BY <1>1, <2>2
    <3>2. w = g
      BY <1>1, <2>2 DEF CanAdvance
    <3>3. /\ Sound(g) /\ g.size = b.size + (b.ptr + Len(s) - b.size) /\ g.ptr = b.ptr
          /\ \A k \in 1 .. b.size : g.buf[k] = b.buf[k]
      <4>1. b.ptr + Len(s) - b.size \in Nat
        BY <1>1, <2>2
      <4> QED BY <4>1, GrowRight
    <3> HIDE DEF g, w
    <3> QED BY <1>1, <2>2, <3>1, <3>2, <3>3
  <2> QED BY <1>1, <2>1, <2>2
<1>3. r = Put(w, s)
  BY DEF Write
<1> HIDE DEF w
<1>4. /\ Sound(r) /\ r.size = w.size /\ r.ptr = b.ptr + Len(s)
      /\ \A k \in 1 .. w.size :
            r.buf[k] = IF k <= b.ptr THEN w.buf[k]
                       ELSE IF k <= n THEN s[k - b.ptr] ELSE w.buf[k]
  <2>1. w.ptr + Len(s) <= w.size
    BY <1>1, <1>2
  <2> QED BY <1>2, <1>3, <2>1, PutRight
<1>5. PICK W : t \in Seq(W)
  BY TextFacts
<1>6. Len(t) = b.size /\ \A k \in 1 .. b.size : t[k] = b.buf[k]
  BY TextFacts
<1>7. /\ u \in Seq(V \cup W) /\ Len(u) = (IF n <= b.size THEN b.size ELSE n)
      /\ \A k \in 1 .. Len(u) :
            u[k] = IF k <= b.ptr THEN t[k] ELSE IF k <= n THEN s[k - b.ptr] ELSE t[k]
  <2> HIDE DEF t
  <2>1. t \in Seq(V \cup W) /\ s \in Seq(V \cup W) /\ b.ptr \in 0 .. Len(t)
    BY <1>1, <1>5, <1>6
  <2>2. /\ u \in Seq(V \cup W) /\ Len(u) = (IF n <= Len(t) THEN Len(t) ELSE n)
        /\ \A k \in 1 .. Len(u) :
              u[k] = IF k <= b.ptr THEN t[k] ELSE IF k <= n THEN s[k - b.ptr] ELSE t[k]
    BY <2>1, Spliced
  <2> QED BY <1>6, <2>2
<1>8. /\ Len(TextOf(r)) = Len(u)
      /\ \A k \in 1 .. Len(u) : TextOf(r)[k] = u[k]
      /\ \E X : TextOf(r) \in Seq(X)
  <2>1. /\ Len(TextOf(r)) = r.size /\ \A k \in 1 .. r.size : TextOf(r)[k] = r.buf[k]
        /\ \E X : TextOf(r) \in Seq(X)
    BY <1>4, TextFacts
  <2>2. r.size = Len(u)
    BY <1>2, <1>4, <1>7
  <2> HIDE DEF u, r, t
  <2>3. ASSUME NEW k \in 1 .. Len(u) PROVE r.buf[k] = u[k]
    <3>1. r.buf[k] = IF k <= b.ptr THEN w.buf[k]
                     ELSE IF k <= n THEN s[k - b.ptr] ELSE w.buf[k]
      BY <1>4, <2>2
    <3>2. k <= b.ptr \/ ~ (k <= n) => k \in 1 .. b.size
      BY <1>1, <1>7
    <3> QED BY <1>2, <1>6, <1>7, <3>1, <3>2
  <2> QED BY <2>1, <2>2, <2>3
<1>9. TextOf(r) = u
  <2> HIDE DEF u, r
  <2> QED BY <1>7, <1>8, SameText
<1> QED BY <1>4, <1>9 DEF Replaced
-----------------------------------------------------------------------------
(* The calls of a script, one after the other.                             *)

\* A call does to the text and the position what it does to the stream's.
Does(c) ==
    /\ Sound(blob')
    /\ TextOf(blob') = Stream!After(TextOf(blob), blob.ptr, c).text
    /\ blob'.ptr = Stream!After(TextOf(blob), blob.ptr, c).pos
    /\ out' = Stream!After(TextOf(blob), blob.ptr, c).out

LEMMA GivenBack ==
  ASSUME NEW s, NEW p, NEW r
  PROVE  /\ Stream!Gives(s, p, r).text = s /\ Stream!Gives(s, p, r).pos = p
         /\ Stream!Gives(s, p, r).out = r
BY DEF Stream!Gives

\* A blob of which only the position has changed.
LEMMA Moved ==
  ASSUME Sound(blob), NEW p \in 0 .. blob.size
  PROVE  LET b == [blob EXCEPT !.ptr = p]
         IN  Sound(b) /\ TextOf(b) = TextOf(blob) /\ b.ptr = p
<1>1. blob = [buf |-> blob.buf, size |-> blob.size, ptr |-> blob.ptr]
  BY DEF Sound
<1>2. [blob EXCEPT !.ptr = p] = [buf |-> blob.buf, size |-> blob.size, ptr |-> p]
  BY <1>1
<1> QED BY <1>2 DEF Sound, Ordered, TextOf

LEMMA Swaps ==
  ASSUME Sound(blob), NEW w \in {2, 4}
  PROVE  LET b == Swap(w)
         IN  Sound(b) /\ TextOf(b) = Stream!Turned(TextOf(blob), w) /\ b.ptr = blob.ptr
<1> DEFINE b == Swap(w)
           t == TextOf(blob)
           g == [k \in DOMAIN blob.buf |->
                   IF (k - 1) \div w < blob.size \div w
                     THEN blob.buf[((k - 1) \div w) * w + w - ((k - 1) % w)] ELSE blob.buf[k]]
<1>1. /\ blob.size \in Nat /\ blob.ptr \in Nat /\ blob.ptr <= blob.size /\ blob.size <= Len(blob.buf)
      /\ Len(blob.buf) \in Nat /\ DOMAIN blob.buf = 1 .. Len(blob.buf)
      /\ Len(t) = blob.size /\ DOMAIN t = 1 .. blob.size
      /\ \A k \in 1 .. blob.size : t[k] = blob.buf[k]
  BY TextFacts DEF Sound, Ordered
<1>2. g \in Seq({g[k] : k \in 1 .. Len(blob.buf)}) /\ Len(g) = Len(blob.buf)
  BY <1>1
<1>3. b = [blob EXCEPT !.buf = g]
  BY DEF Swap
<1>4. blob = [buf |-> blob.buf, size |-> blob.size, ptr |-> blob.ptr]
  BY DEF Sound
<1>5. ASSUME NEW k \in 1 .. blob.size
      PROVE g[k] = Stream!Turned(t, w)[k]
  <2> DEFINE q == (k - 1) \div w
  <2>1. q \in Nat /\ k - 1 = q * w + ((k - 1) % w) /\ (k - 1) % w \in 0 .. w - 1
    <3> DEFINE m == k - 1
    <3>1. m \in Nat
      BY <1>1
    <3>2. CASE w = 2
      <4>1. m \div 2 \in Nat /\ m = (m \div 2) * 2 + (m % 2) /\ m % 2 \in 0 .. 1
        <5> HIDE DEF m
        <5> QED BY <3>1
      <4> QED BY <3>2, <4>1
    <3>3. CASE w = 4
      <4>1. m \div 4 \in Nat /\ m = (m \div 4) * 4 + (m % 4) /\ m % 4 \in 0 .. 3
        <5> HIDE DEF m
        <5> QED BY <3>1
      <4> QED BY <3>3, <4>1
    <3> QED BY <3>2, <3>3
  <2>2. q < blob.size \div w <=> (q + 1) * w <= blob.size
    <3>1. CASE w = 2
      BY <1>1, <2>1, <3>1
    <3>2. CASE w = 4
      BY <1>1, <2>1, <3>2
    <3> QED BY <3>1, <3>2
  <2>3. q * w + w - ((k - 1) % w) = 2 * q * w + w + 1 - k
    <3>1. CASE w = 2
      BY <1>1, <2>1, <3>1
    <3>2. CASE w = 4
      BY <1>1, <2>1, <3>2
    <3> QED BY <3>1, <3>2
  <2>4. (q + 1) * w <= blob.size => 2 * q * w + w + 1 - k \in 1 .. blob.size
    <3> DEFINE r == (k - 1) % w
    <3> HIDE DEF q, r
    <3>1. CASE w = 2
      <4>1. k = q * 2 + r + 1 /\ r \in 0 .. 1 /\ q \in Nat
        BY <1>1, <2>1, <3>1 DEF r
      <4>2. (q + 1) * 2 <= blob.size => 2 * q * 2 + 2 + 1 - k \in 1 .. blob.size
        BY <1>1, <4>1
      <4> QED BY <3>1, <4>2
    <3>2. CASE w = 4
      <4>1. k = q * 4 + r + 1 /\ r \in 0 .. 3 /\ q \in Nat
        BY <1>1, <2>1, <3>2 DEF r
      <4>2. (q + 1) * 4 <= blob.size => 2 * q * 4 + 4 + 1 - k \in 1 .. blob.size
        BY <1>1, <4>1
      <4> QED BY <3>2, <4>2
    <3> QED BY <3>1, <3>2
  <2>5. k \in DOMAIN t /\ k \in DOMAIN blob.buf
    BY <1>1
  <2>6. Stream!Turned(t, w)[k] = IF (q + 1) * w <= blob.size THEN t[2 * q * w + w + 1 - k] ELSE t[k]
    <3> HIDE DEF t
    <3> QED BY <1>1, <2>5 DEF Stream!Turned
  <2>7. g[k] = IF q < blob.size \div w THEN blob.buf[q * w + w - ((k - 1) % w)] ELSE blob.buf[k]
    BY <2>5
  <2> HIDE DEF q, g, t
  <2>8. CASE (q + 1) * w <= blob.size
    BY <1>1, <2>2, <2>3, <2>4, <2>6, <2>7, <2>8
  <2>9. CASE ~ ((q + 1) * w <= blob.size)
    BY <1>1, <2>2, <2>6, <2>7, <2>9
  <2> QED BY <2>8, <2>9
<1>6. Stream!Turned(t, w) \in Seq({Stream!Turned(t, w)[k] : k \in 1 .. blob.size})
      /\ Len(Stream!Turned(t, w)) = blob.size
  <2> HIDE DEF t
  <2> DEFINE h == [k \in 1 .. blob.size |->
                     LET d == (k - 1) \div w
                     IN  IF (d + 1) * w <= Len(t) THEN t[2 * d * w + w + 1 - k] ELSE t[k]]
  <2>1. Stream!Turned(t, w) = h
    BY <1>1 DEF Stream!Turned
  <2>2. h \in Seq({h[k] : k \in 1 .. blob.size}) /\ Len(h) = blob.size
    <3>1. h = [k \in 1 .. blob.size |-> h[k]]
      OBVIOUS
    <3> HIDE DEF h
    <3> QED BY <1>1, <3>1, FunctionIsText
  <2> HIDE DEF h
  <2> QED BY <2>1, <2>2
<1> HIDE DEF g, b
<1>7. b = [buf |-> g, size |-> blob.size, ptr |-> blob.ptr]
  BY <1>3, <1>4
<1>8. b.buf = g /\ b.size = blob.size /\ b.ptr = blob.ptr
  BY <1>7
<1>9. Sound(b)
  BY <1>1, <1>2, <1>7, <1>8 DEF Sound, Ordered
<1>10. TextOf(b) = Stream!Turned(t, w)
  <2>1. /\ Len(TextOf(b)) = blob.size /\ \A k \in 1 .. blob.size : TextOf(b)[k] = g[k]
        /\ \E V : TextOf(b) \in Seq(V)
    BY <1>8, <1>9, TextFacts
  <2> HIDE DEF t
  <2> QED BY <1>5, <1>6, <2>1, SameText
<1> QED BY <1>8, <1>9, <1>10 DEF b

LEMMA DoesSwap2 ==
  ASSUME Sound(blob), NEW c, c = <<"swap2">>, Perform(c) PROVE Does(c)
<1>1. blob' = Swap(2) /\ out' = Stream!Nothing
  BY DEF Perform, _blob_swap2, Gives
<1>2. Stream!After(TextOf(blob), blob.ptr, c)
        = Stream!Gives(Stream!Turned(TextOf(blob), 2), blob.ptr, Stream!Nothing)
  BY DEF Stream!After
<1> QED BY <1>1, <1>2, Swaps, GivenBack DEF Does

LEMMA DoesSwap4 ==
  ASSUME Sound(blob), NEW c, c = <<"swap4">>, Perform(c) PROVE Does(c)
<1>1. blob' = Swap(4) /\ out' = Stream!Nothing
  BY DEF Perform, _blob_swap4, Gives
<1>2. Stream!After(TextOf(blob), blob.ptr, c)
        = Stream!Gives(Stream!Turned(TextOf(blob), 4), blob.ptr, Stream!Nothing)
  BY DEF Stream!After
<1> QED BY <1>1, <1>2, Swaps, GivenBack DEF Does

LEMMA DoesTell ==
  ASSUME Sound(blob), NEW c, c \in {<<"tell">>, <<"len">>, <<"eos">>}, Perform(c) PROVE Does(c)
<1> DEFINE r == CASE c = <<"tell">> -> Stream!One(blob.ptr)
                  [] c = <<"len">> -> Stream!One(blob.size)
                  [] OTHER -> IF blob.ptr = blob.size THEN Stream!One(1) ELSE Stream!Nothing
<1>1. blob' = blob /\ out' = r
  <2>1. CASE c = <<"tell">>
    BY <2>1 DEF Perform, _stream_tell, Gives
  <2>2. CASE c = <<"len">>
    BY <2>2 DEF Perform, _stream_len, Gives
  <2>3. CASE c = <<"eos">>
    BY <2>3 DEF Perform, _stream_eos, Gives
  <2> QED BY <2>1, <2>2, <2>3
<1>2. Len(TextOf(blob)) = blob.size /\ blob.size \in Nat /\ blob.ptr \in Nat
  BY TextFacts
<1>3. Stream!After(TextOf(blob), blob.ptr, c) = Stream!Gives(TextOf(blob), blob.ptr, r)
  <2>1. CASE c = <<"tell">>
    BY <2>1 DEF Stream!After
  <2>2. CASE c = <<"len">>
    BY <1>2, <2>2 DEF Stream!After
  <2>3. CASE c = <<"eos">>
    <3>1. (Len(TextOf(blob)) - blob.ptr = 0) <=> (blob.ptr = blob.size)
      BY <1>2
    <3> QED BY <2>3, <3>1 DEF Stream!After
  <2> QED BY <2>1, <2>2, <2>3
<1> HIDE DEF r
<1> QED BY <1>1, <1>3, GivenBack DEF Does

LEMMA DoesResize ==
  ASSUME Sound(blob), NEW n \in Nat, NEW c, c = <<"resize", n>>, Perform(c) PROVE Does(c)
<1> DEFINE b == Resize(blob, n)
           t == TextOf(blob)
           m == Min({n, Len(t)})
<1>1. blob' = b /\ out' = Stream!Nothing
  BY DEF Perform, _blob_resize, Gives
<1>2. Stream!After(t, blob.ptr, c)
        = Stream!Gives(SubSeq(t, 1, m), Min({blob.ptr, n}), Stream!Nothing)
  <2> HIDE DEF t
  <2>1. c[1] = "resize" /\ c[2] = n
    OBVIOUS
  <2>2. Stream!After(t, blob.ptr, c)
          = Stream!Gives(SubSeq(t, 1, Stream!Min({c[2], Len(t)})), Stream!Min({blob.ptr, c[2]}),
                         Stream!Nothing)
    BY <2>1 DEF Stream!After
  <2> QED BY <2>1, <2>2, StreamMin, Zenon
<1>3. /\ Sound(b) /\ Len(b.buf) = n
      /\ b.size = Min({blob.size, n}) /\ b.ptr = Min({blob.ptr, n})
      /\ \A k \in 1 .. b.size : b.buf[k] = blob.buf[k]
  BY ResizeRight
<1>4. /\ Len(t) = blob.size /\ blob.size \in Nat /\ \A k \in 1 .. blob.size : t[k] = blob.buf[k]
      /\ \E V : t \in Seq(V)
  BY TextFacts
<1>5. m = b.size /\ b.size \in 0 .. blob.size
  BY <1>3, <1>4, MinOf
<1>6. TextOf(b) = SubSeq(t, 1, m)
  <2> HIDE DEF b, t, m
  <2>1. /\ Len(TextOf(b)) = b.size /\ \A k \in 1 .. b.size : TextOf(b)[k] = b.buf[k]
        /\ \E V : TextOf(b) \in Seq(V)
    BY <1>3, TextFacts
  <2>2. PICK V : t \in Seq(V)
    BY <1>4
  <2>3. SubSeq(t, 1, m) \in Seq(V) /\ Len(SubSeq(t, 1, m)) = m
        /\ \A k \in 1 .. m : SubSeq(t, 1, m)[k] = t[k]
    BY <1>4, <1>5, <2>2
  <2>4. \A k \in 1 .. b.size : TextOf(b)[k] = SubSeq(t, 1, m)[k]
    <3> TAKE k \in 1 .. b.size
    <3>1. k \in 1 .. blob.size /\ k \in 1 .. m
      BY <1>4, <1>5
    <3> QED BY <1>3, <1>4, <2>1, <2>3, <3>1
  <2> QED BY <1>5, <2>1, <2>3, <2>4, SameText
<1> DEFINE a == Stream!After(t, blob.ptr, c)
<1>7. a.text = SubSeq(t, 1, m) /\ a.pos = Min({blob.ptr, n}) /\ a.out = Stream!Nothing
  <2> DEFINE g == Stream!Gives(SubSeq(t, 1, m), Min({blob.ptr, n}), Stream!Nothing)
  <2>1. a = g
    BY <1>2
  <2>2. g.text = SubSeq(t, 1, m) /\ g.pos = Min({blob.ptr, n}) /\ g.out = Stream!Nothing
    <3> HIDE DEF t, m
    <3> QED BY DEF Stream!Gives
  <2> HIDE DEF a, g
  <2> QED BY <2>1, <2>2
<1> HIDE DEF b, a, m
<1>8. Sound(blob') /\ TextOf(blob') = a.text /\ blob'.ptr = a.pos /\ out' = a.out
  BY <1>1, <1>3, <1>6, <1>7
<1> QED BY <1>8 DEF Does, a

\* What is read is what the text has there.
LEMMA ReadRight ==
  ASSUME Sound(blob), NEW n \in Nat
  PROVE  /\ ReadSize(blob, n) = Min({n, Len(TextOf(blob)) - blob.ptr})
         /\ ReadSize(blob, n) \in 0 .. blob.size - blob.ptr
         /\ Bytes(blob, n) = SubSeq(TextOf(blob), blob.ptr + 1, blob.ptr + ReadSize(blob, n))
         /\ LET b == Read(blob, n)
            IN  Sound(b) /\ TextOf(b) = TextOf(blob) /\ b.ptr = blob.ptr + ReadSize(blob, n)
<1> DEFINE t == TextOf(blob)
           r == ReadSize(blob, n)
           p == blob.ptr
<1>1. /\ Len(t) = blob.size /\ blob.size \in Nat /\ p \in Nat /\ p <= blob.size
      /\ \A k \in 1 .. blob.size : t[k] = blob.buf[k]
      /\ Len(blob.buf) \in Nat /\ blob.size <= Len(blob.buf)
  BY TextFacts DEF Sound, Ordered
<1>2. PICK V : t \in Seq(V) /\ blob.buf \in Seq(V)
  BY TextFacts
<1>3. r = (IF n <= blob.size - p THEN n ELSE blob.size - p)
  BY <1>1 DEF ReadSize, CanAdvance
<1>4. r = Min({n, Len(t) - p}) /\ r \in 0 .. blob.size - p
  BY <1>1, <1>3, MinOf
<1>5. Bytes(blob, n) = SubSeq(t, p + 1, p + r)
  <2> DEFINE a == SubSeq(blob.buf, p + 1, p + r)
             d == SubSeq(t, p + 1, p + r)
  <2> HIDE DEF t, r
  <2>0. r \in Nat /\ p + r <= blob.size /\ p + r <= Len(blob.buf) /\ p + r <= Len(t)
    BY <1>1, <1>4
  <2>1. a \in Seq(V) /\ Len(a) = r /\ \A k \in 1 .. r : a[k] = blob.buf[p + k]
    <3> HIDE DEF p
    <3> QED BY <1>1, <1>2, <2>0, Part
  <2>2. d \in Seq(V) /\ Len(d) = r /\ \A k \in 1 .. r : d[k] = t[p + k]
    <3> HIDE DEF p
    <3> QED BY <1>1, <1>2, <2>0, Part
  <2> HIDE DEF a, d
  <2>3. \A k \in 1 .. r : a[k] = d[k]
    <3> TAKE k \in 1 .. r
    <3>1. p + k \in 1 .. blob.size
      BY <1>1, <1>4
    <3> QED BY <1>1, <2>1, <2>2, <3>1
  <2>4. a = d
    BY <2>1, <2>2, <2>3, SameText
  <2> QED BY <2>4 DEF Bytes, a, d, r
<1>6. p + r \in 0 .. blob.size
  BY <1>1, <1>4
<1>7. Read(blob, n) = [blob EXCEPT !.ptr = p + r]
  BY DEF Read
<1>8. Sound(Read(blob, n)) /\ TextOf(Read(blob, n)) = t /\ Read(blob, n).ptr = p + r
  BY <1>6, <1>7, Moved
<1> QED BY <1>4, <1>5, <1>8

LEMMA DoesReadBlob ==
  ASSUME Sound(blob), NEW n \in Nat, NEW c, c = <<"readblob", n>>, Perform(c) PROVE Does(c)
<1> DEFINE t == TextOf(blob)
           p == blob.ptr
           z == Min({n, blob.size})
           r == ReadSize(blob, z)
           left == Len(t) - p
<1>1. Len(t) = blob.size /\ blob.size \in Nat /\ p \in Nat /\ p <= blob.size
  BY TextFacts DEF Sound, Ordered
<1>2. z \in Nat /\ z = IF n <= blob.size THEN n ELSE blob.size
  BY <1>1, MinOf
<1>3. /\ r = Min({z, left}) /\ r \in 0 .. blob.size - p
      /\ Bytes(blob, z) = SubSeq(t, p + 1, p + r)
      /\ Sound(Read(blob, z)) /\ TextOf(Read(blob, z)) = t /\ Read(blob, z).ptr = p + r
  BY <1>2, ReadRight
<1>4. r = Min({n, left})
  <2>1. Min({z, left}) = IF z <= left THEN z ELSE left
    BY <1>1, <1>2, MinOf
  <2>2. Min({n, left}) = IF n <= left THEN n ELSE left
    BY <1>1, MinOf
  <2> HIDE DEF r, z
  <2> QED BY <1>1, <1>2, <1>3, <2>1, <2>2
<1>5. IF r <= 0 THEN blob' = blob /\ out' = Stream!Error
      ELSE blob' = Read(blob, z) /\ out' = Stream!Many(Bytes(blob, z))
  BY DEF Perform, _stream_readblob, Throws, Gives
<1> HIDE DEF t, z, r, p
<1>6. Stream!After(t, p, c)
        = IF r > 0 THEN Stream!Gives(t, p + r, Stream!Many(SubSeq(t, p + 1, p + r)))
          ELSE Stream!Gives(t, p, Stream!Error)
  <2>1. c[1] = "readblob" /\ c[2] = n
    OBVIOUS
  <2>2. Stream!Min({c[2], Len(t) - p}) = r
    BY <1>4, <2>1, StreamMin, Zenon
  <2>3. CASE r > 0
    BY <2>1, <2>2, <2>3 DEF Stream!After
  <2>4. CASE ~ (r > 0)
    <3>1. r = 0
      BY <1>3, <2>4
    <3> QED BY <2>1, <2>2, <2>4, <3>1 DEF Stream!After
  <2> QED BY <2>3, <2>4
<1>7. CASE r > 0
  <2>1. ~ (r <= 0)
    BY <1>3, <1>7
  <2> QED BY <1>3, <1>5, <1>6, <1>7, <2>1, GivenBack DEF Does, t, p
<1>8. CASE ~ (r > 0)
  <2>1. r <= 0
    BY <1>3, <1>8
  <2> QED BY <1>5, <1>6, <1>8, <2>1, GivenBack DEF Does, t, p
<1> QED BY <1>7, <1>8

LEMMA FormatFacts ==
  /\ DOMAIN Stream!Format = {"c", "b", "s", "w", "i"}
  /\ \A f \in DOMAIN Stream!Format : Stream!Format[f].width \in {1, 2, 4}
BY DEF Stream!Format

LEMMA DoesReadN ==
  ASSUME Sound(blob), NEW f \in Stream!Letter, NEW c, c = <<"readn", f>>, Perform(c) PROVE Does(c)
<1> DEFINE t == TextOf(blob)
           p == blob.ptr
           n == Stream!Format[f].width
           r == ReadSize(blob, n)
           left == Len(t) - p
<1>1. Len(t) = blob.size /\ blob.size \in Nat /\ p \in Nat /\ p <= blob.size
  BY TextFacts DEF Sound, Ordered
<1>2. CASE f = "z"
  <2>1. f \notin DOMAIN Stream!Format
    BY <1>2, FormatFacts
  <2>2. blob' = blob /\ out' = Stream!Error
    BY <2>1 DEF Perform, _stream_readn, Throws, Gives
  <2>3. Stream!After(t, p, c) = Stream!Gives(t, p, Stream!Error)
    <3> HIDE DEF t, p
    <3> QED BY <1>2 DEF Stream!After
  <2> QED BY <2>2, <2>3, GivenBack DEF Does
<1>3. CASE f # "z"
  <2>1. f \in DOMAIN Stream!Format
    BY <1>3 DEF Stream!Letter
  <2>2. n \in Nat /\ n > 0
    BY <2>1, FormatFacts
  <2>3. /\ r = Min({n, left}) /\ r \in 0 .. blob.size - p
        /\ Bytes(blob, n) = SubSeq(t, p + 1, p + r)
        /\ Sound(Read(blob, n)) /\ TextOf(Read(blob, n)) = t /\ Read(blob, n).ptr = p + r
    BY <2>2, ReadRight
  <2>4. r = IF n <= left THEN n ELSE left
    <3>1. left \in Int
      BY <1>1
    <3>2. Min({n, left}) = IF n <= left THEN n ELSE left
      <4> HIDE DEF n, left
      <4> QED BY <2>2, <3>1, MinOf
    <3> QED BY <2>3, <3>2, Zenon
  <2>5. /\ blob' = Read(blob, n)
        /\ out' = IF r # n THEN Stream!Error
                  ELSE Stream!One(Stream!NumberOf(Bytes(blob, n), Stream!Format[f].signed))
    BY <2>1 DEF Perform, _stream_readn, Throws, Gives
  <2>6. Stream!After(t, p, c)
          = IF n > left THEN Stream!Gives(t, Len(t), Stream!Error)
            ELSE Stream!Gives(t, p + n, Stream!One(
                   Stream!NumberOf(SubSeq(t, p + 1, p + n), Stream!Format[f].signed)))
    <3> HIDE DEF t, p
    <3> QED BY <1>3 DEF Stream!After
  <2> HIDE DEF t, r, p, n
  <2>7. CASE n > left
    <3>1. r # n /\ p + r = Len(t)
      BY <1>1, <2>2, <2>4, <2>7
    <3> QED BY <2>3, <2>5, <2>6, <2>7, <3>1, GivenBack DEF Does, t, p
  <2>8. CASE ~ (n > left)
    <3>1. r = n
      BY <1>1, <2>2, <2>4, <2>8
    <3> QED BY <2>3, <2>5, <2>6, <2>8, <3>1, GivenBack DEF Does, t, p
  <2> QED BY <2>7, <2>8
<1> QED BY <1>2, <1>3

\* What is written, and what it gives back.
LEMMA Writes ==
  ASSUME Sound(blob), NEW V, NEW s \in Seq(V), NEW c, NEW r,
         blob' = Write(blob, s), out' = r,
         Stream!After(TextOf(blob), blob.ptr, c) = Stream!Write(TextOf(blob), blob.ptr, s, r)
  PROVE  Does(c)
<1> DEFINE t == TextOf(blob)
           p == blob.ptr
           u == SubSeq(t, 1, p) \o s \o SubSeq(t, p + Len(s) + 1, Len(t))
<1>1. Sound(blob') /\ blob'.ptr = p + Len(s) /\ TextOf(blob') = u
  BY WriteRight
<1>2. Stream!After(t, p, c) = Stream!Gives(u, p + Len(s), r)
  BY DEF Stream!Write
<1> HIDE DEF u
<1> QED BY <1>1, <1>2, GivenBack DEF Does

LEMMA DoesWriteBlob ==
  ASSUME Sound(blob), NEW s \in Seq(Int), NEW c, c = <<"writeblob", s>>, Perform(c)
  PROVE  Does(c)
<1>1. blob' = Write(blob, s) /\ out' = Stream!One(Len(s))
  BY DEF Perform, _stream_writeblob, Gives
<1>2. Stream!After(TextOf(blob), blob.ptr, c)
        = Stream!Write(TextOf(blob), blob.ptr, s, Stream!One(Len(s)))
  BY DEF Stream!After
<1> QED BY <1>1, <1>2, Writes

LEMMA DoesWriteN ==
  ASSUME Sound(blob), NEW n, NEW f \in Stream!Letter, NEW c, c = <<"writen", n, f>>, Perform(c)
  PROVE  Does(c)
<1>1. CASE f = "z"
  <2>1. f \notin DOMAIN Stream!Format
    BY <1>1, FormatFacts
  <2>2. blob' = blob /\ out' = Stream!Error
    BY <2>1 DEF Perform, _stream_writen, Throws, Gives
  <2>3. Stream!After(TextOf(blob), blob.ptr, c) = Stream!Gives(TextOf(blob), blob.ptr, Stream!Error)
    BY <1>1 DEF Stream!After
  <2> QED BY <2>2, <2>3, GivenBack DEF Does
<1>2. CASE f # "z"
  <2> DEFINE w == Stream!Format[f].width
             s == Stream!BytesOf(n, w)
  <2>1. f \in DOMAIN Stream!Format
    BY <1>2 DEF Stream!Letter
  <2>2. w \in Nat
    BY <2>1, FormatFacts
  <2>3. blob' = Write(blob, s) /\ out' = Stream!Nothing
    BY <2>1 DEF Perform, _stream_writen, Gives
  <2>4. Stream!After(TextOf(blob), blob.ptr, c)
          = Stream!Write(TextOf(blob), blob.ptr, s, Stream!Nothing)
    BY <1>2 DEF Stream!After
  <2>5. s \in Seq({s[k] : k \in 1 .. w})
    <3> HIDE DEF w
    <3>1. s = [k \in 1 .. w |-> s[k]]
      BY DEF Stream!BytesOf
    <3> HIDE DEF s
    <3> QED BY <2>2, <3>1, FunctionIsText
  <2> HIDE DEF s
  <2> QED BY <2>3, <2>4, <2>5, Writes
<1> QED BY <1>1, <1>2

LEMMA DoesSeek ==
  ASSUME Sound(blob), NEW n \in Int, NEW f \in {"b", "c", "e", "z"}, NEW c, c = <<"seek", n, f>>,
         Perform(c)
  PROVE  Does(c)
<1> DEFINE t == TextOf(blob)
           p == blob.ptr
           to == CASE f = "b" -> n [] f = "c" -> p + n [] f = "e" -> blob.size + n [] OTHER -> -1
<1>1. Len(t) = blob.size /\ blob.size \in Nat /\ p \in Nat /\ p <= blob.size
  BY TextFacts DEF Sound, Ordered
<1>2. IF f = "z" THEN blob' = blob /\ out' = Stream!Error
      ELSE IF to \in 0 .. blob.size
             THEN blob' = [blob EXCEPT !.ptr = to] /\ out' = Stream!One(0)
             ELSE blob' = blob /\ out' = Stream!One(-1)
  <2>1. CASE f = "z"
    BY <2>1 DEF Perform, _stream_seek, Origin, Throws, Gives
  <2>2. CASE f # "z"
    <3>1. to \in Int
      BY <1>1
    <3>2. Target(blob, n, Origin[f]) = IF to > blob.size \/ to < 0 THEN -1 ELSE to
      <4>1. CASE f = "b"
        BY <4>1 DEF Target, Origin
      <4>2. CASE f = "c"
        BY <4>2 DEF Target, Origin
      <4>3. CASE f = "e"
        BY <4>3 DEF Target, Origin
      <4> QED BY <2>2, <4>1, <4>2, <4>3
    <3>3. f \in DOMAIN Origin
      BY <2>2 DEF Origin
    <3> HIDE DEF to
    <3>4. LET x == Target(blob, n, Origin[f])
          IN  IF x = -1 THEN blob' = blob /\ out' = Stream!One(-1)
              ELSE blob' = [blob EXCEPT !.ptr = x] /\ out' = Stream!One(0)
      BY <3>3 DEF Perform, _stream_seek, Gives
    <3>5. CASE to \in 0 .. blob.size
      <4>1. Target(blob, n, Origin[f]) = to /\ to # -1
        BY <1>1, <3>1, <3>2, <3>5
      <4> QED BY <2>2, <3>4, <3>5, <4>1
    <3>6. CASE to \notin 0 .. blob.size
      <4>1. Target(blob, n, Origin[f]) = -1
        BY <1>1, <3>1, <3>2, <3>6
      <4> QED BY <2>2, <3>4, <3>6, <4>1
    <3> QED BY <3>5, <3>6
  <2> QED BY <2>1, <2>2
<1>3. Stream!After(t, p, c)
        = IF f = "z" THEN Stream!Gives(t, p, Stream!Error)
          ELSE IF to \in 0 .. blob.size THEN Stream!Gives(t, to, Stream!One(0))
          ELSE Stream!Gives(t, p, Stream!One(-1))
  <2> HIDE DEF t, p
  <2>1. CASE f = "z"
    BY <2>1 DEF Stream!After
  <2>2. CASE f = "b"
    BY <1>1, <2>2 DEF Stream!After, Stream!Seek
  <2>3. CASE f = "c"
    BY <1>1, <2>3 DEF Stream!After, Stream!Seek
  <2>4. CASE f = "e"
    <3>1. CASE n > 0
      <4>1. to \notin 0 .. blob.size
        BY <1>1, <2>4, <3>1
      <4> QED BY <1>1, <2>4, <3>1, <4>1 DEF Stream!After
    <3>2. CASE ~ (n > 0)
      BY <1>1, <2>4, <3>2 DEF Stream!After, Stream!Seek
    <3> QED BY <3>1, <3>2
  <2> QED BY <2>1, <2>2, <2>3, <2>4
<1> HIDE DEF to, t, p
<1>4. CASE f = "z"
  BY <1>2, <1>3, <1>4, GivenBack DEF Does, t, p
<1>5. CASE f # "z" /\ to \in 0 .. blob.size
  <2>1. Sound(blob') /\ TextOf(blob') = TextOf(blob) /\ blob'.ptr = to
    <3>1. blob' = [blob EXCEPT !.ptr = to]
      BY <1>2, <1>5
    <3>2. to \in 0 .. blob.size
      BY <1>5
    <3> QED BY <3>1, <3>2, Moved
  <2> QED BY <1>2, <1>3, <1>5, <2>1, GivenBack DEF Does, t, p
<1>6. CASE f # "z" /\ to \notin 0 .. blob.size
  BY <1>2, <1>3, <1>6, GivenBack DEF Does, t, p
<1> QED BY <1>4, <1>5, <1>6

LEMMA DoesGet ==
  ASSUME Sound(blob), NEW i \in Int, NEW c, c = <<"get", i>>, Perform(c) PROVE Does(c)
<1>1. /\ Len(TextOf(blob)) = blob.size /\ blob.size \in Nat
      /\ \A k \in 1 .. blob.size : TextOf(blob)[k] = blob.buf[k]
  BY TextFacts
<1>2. CASE i \in 0 .. blob.size - 1
  <2>1. blob' = blob /\ out' = Stream!One(blob.buf[i + 1])
    BY <1>1, <1>2 DEF Perform, _blob__get, InText, Gives
  <2>2. TextOf(blob)[i + 1] = blob.buf[i + 1]
    BY <1>1, <1>2
  <2>3. Stream!After(TextOf(blob), blob.ptr, c)
          = Stream!Gives(TextOf(blob), blob.ptr, Stream!One(TextOf(blob)[i + 1]))
    BY <1>1, <1>2 DEF Stream!After
  <2> QED BY <2>1, <2>2, <2>3, GivenBack DEF Does
<1>3. CASE i \notin 0 .. blob.size - 1
  <2>1. blob' = blob /\ out' = Stream!Error
    BY <1>1, <1>3 DEF Perform, _blob__get, InText, Throws, Gives
  <2>2. Stream!After(TextOf(blob), blob.ptr, c) = Stream!Gives(TextOf(blob), blob.ptr, Stream!Error)
    BY <1>1, <1>3 DEF Stream!After
  <2> QED BY <2>1, <2>2, GivenBack DEF Does
<1> QED BY <1>2, <1>3

LEMMA DoesSet ==
  ASSUME Sound(blob), NEW i \in Int, NEW n, NEW c, c = <<"set", i, n>>, Perform(c) PROVE Does(c)
<1> DEFINE t == TextOf(blob)
<1>1. /\ Len(t) = blob.size /\ blob.size \in Nat /\ blob.size <= Len(blob.buf)
      /\ \A k \in 1 .. blob.size : t[k] = blob.buf[k]
      /\ Len(blob.buf) \in Nat /\ DOMAIN t = 1 .. blob.size
  BY TextFacts DEF Sound, Ordered
<1>2. CASE i \in 0 .. blob.size - 1
  <2> DEFINE b == [blob EXCEPT !.buf[i + 1] = n % Base]
             g == [blob.buf EXCEPT ![i + 1] = n % Base]
             u == [t EXCEPT ![i + 1] = n % Base]
  <2>1. blob' = b /\ out' = Stream!One(n)
    BY <1>1, <1>2 DEF Perform, _blob__set, InText, Gives
  <2>2. PICK V : t \in Seq(V) /\ blob.buf \in Seq(V)
    BY TextFacts
  <2>3. Stream!After(t, blob.ptr, c) = Stream!Gives(u, blob.ptr, Stream!One(n))
    <3> HIDE DEF t
    <3> QED BY <1>1, <1>2 DEF Stream!After, Stream!ReplaceAt
  <2>4. i + 1 \in 1 .. blob.size /\ i + 1 \in 1 .. Len(blob.buf)
    BY <1>1, <1>2
  <2>5. blob = [buf |-> blob.buf, size |-> blob.size, ptr |-> blob.ptr]
    BY DEF Sound
  <2> DEFINE W == V \cup {n % Base}
  <2>6. g \in Seq(W) /\ Len(g) = Len(blob.buf)
        /\ \A k \in 1 .. Len(blob.buf) : g[k] = IF k = i + 1 THEN n % Base ELSE blob.buf[k]
    BY <1>1, <2>2, <2>4
  <2>7. u \in Seq(W) /\ Len(u) = blob.size
        /\ \A k \in 1 .. blob.size : u[k] = IF k = i + 1 THEN n % Base ELSE t[k]
    <3> HIDE DEF t
    <3> QED BY <1>1, <2>2, <2>4
  <2>8. b = [buf |-> g, size |-> blob.size, ptr |-> blob.ptr]
    <3> HIDE DEF g
    <3>1. b = [blob EXCEPT !.buf = g]
      BY DEF g
    <3> QED BY <2>5, <3>1
  <2> HIDE DEF b, g, u, t, W
  <2>9. b.buf = g /\ b.size = blob.size /\ b.ptr = blob.ptr
    BY <2>8
  <2>10. Sound(b)
    BY <1>1, <2>6, <2>8, <2>9 DEF Sound, Ordered
  <2>11. TextOf(b) = u
    <3>1. /\ Len(TextOf(b)) = blob.size /\ \A k \in 1 .. blob.size : TextOf(b)[k] = g[k]
          /\ \E X : TextOf(b) \in Seq(X)
      BY <2>9, <2>10, TextFacts
    <3>2. \A k \in 1 .. blob.size : g[k] = u[k]
      <4> TAKE k \in 1 .. blob.size
      <4>1. k \in 1 .. Len(blob.buf)
        BY <1>1
      <4> QED BY <1>1, <2>6, <2>7, <4>1
    <3> QED BY <2>7, <3>1, <3>2, SameText
  <2> QED BY <2>1, <2>3, <2>9, <2>10, <2>11, GivenBack DEF Does, t
<1>3. CASE i \notin 0 .. blob.size - 1
  <2>1. blob' = blob /\ out' = Stream!Error
    BY <1>1, <1>3 DEF Perform, _blob__set, InText, Throws, Gives
  <2>2. Stream!After(t, blob.ptr, c) = Stream!Gives(t, blob.ptr, Stream!Error)
    <3> HIDE DEF t
    <3> QED BY <1>1, <1>3 DEF Stream!After
  <2> QED BY <2>1, <2>2, GivenBack DEF Does
<1> QED BY <1>2, <1>3

\* Whatever a script calls does what the stream does.
LEMMA CallRight ==
  ASSUME BlobAssumption, Sound(blob), NEW c \in Stream!Calls, Perform(c)
  PROVE  Does(c)
<1>1. CASE c \in {<<op>> : op \in {"swap2", "swap4", "tell", "len", "eos"}}
  BY <1>1, DoesSwap2, DoesSwap4, DoesTell
<1>2. CASE \E n \in Offset \cap Nat : c = <<"readblob", n>> \/ c = <<"resize", n>>
  BY <1>2, DoesReadBlob, DoesResize
<1>3. CASE \E s \in {<<1>>, <<0, 1, 1>>} : c = <<"writeblob", s>>
  <2>1. <<1>> \in Seq(Int) /\ <<0, 1, 1>> \in Seq(Int)
    OBVIOUS
  <2> QED BY <1>3, <2>1, DoesWriteBlob
<1>4. CASE \E f \in Stream!Letter : c = <<"readn", f>>
  BY <1>4, DoesReadN
<1>5. CASE \E n \in Number, f \in Stream!Letter : c = <<"writen", n, f>>
  BY <1>5, DoesWriteN
<1>6. CASE \E n \in Offset, f \in {"b", "c", "e", "z"} : c = <<"seek", n, f>>
  BY <1>6, DoesSeek DEF BlobAssumption
<1>7. CASE \E n \in Offset : c = <<"get", n>>
  BY <1>7, DoesGet DEF BlobAssumption
<1>8. CASE \E n \in Offset, x \in Number : c = <<"set", n, x>>
  BY <1>8, DoesSet DEF BlobAssumption
<1> QED BY <1>1, <1>2, <1>3, <1>4, <1>5, <1>6, <1>7, <1>8 DEF Stream!Calls

LEMMA SoundInit ==
  ASSUME BlobAssumption, Init
  PROVE  Sound(blob) /\ Stream!Init
<1> DEFINE Zero(n) == [k \in 1 .. n |-> 0]
<1>1. ASSUME NEW n \in Nat
      PROVE  /\ Sound(NewBlob(n)) /\ TextOf(NewBlob(n)) \in Seq(Stream!Byte)
             /\ NewBlob(n).ptr = 0 /\ NewBlob(n).size = n
  <2>1. Zero(n) \in Seq({0}) /\ Len(Zero(n)) = n
    OBVIOUS
  <2> DEFINE z == Zero(n)
  <2>2. NewBlob(n) = [buf |-> z, size |-> n, ptr |-> 0]
    BY DEF NewBlob
  <2> HIDE DEF z
  <2>3. NewBlob(n).buf = z /\ NewBlob(n).size = n /\ NewBlob(n).ptr = 0
    BY <2>2
  <2>4. Sound(NewBlob(n))
    BY <2>1, <2>2, <2>3 DEF Sound, Ordered, z
  <2>5. 0 \in Stream!Byte
    BY DEF BlobAssumption, Stream!Byte
  <2>6. SubSeq(z, 1, n) \in Seq(Stream!Byte)
    <3>1. z \in Seq(Stream!Byte) /\ Len(z) = n
      BY <2>1, <2>5 DEF z
    <3> QED BY <3>1
  <2> QED BY <2>3, <2>4, <2>6 DEF TextOf
<1>2. blob \in {NewBlob(0), NewBlob(2), Write(NewBlob(2), <<0, 1, 1, 0, 1>>)}
      /\ did = <<"new">> /\ out = Stream!Nothing
  BY DEF Init
<1>3. ASSUME blob = Write(NewBlob(2), <<0, 1, 1, 0, 1>>)
      PROVE  Sound(blob) /\ TextOf(blob) \in Seq(Stream!Byte)
  <2> DEFINE b == NewBlob(2)
             s == <<0, 1, 1, 0, 1>>
             t == TextOf(b)
  <2>1. s \in Seq(Stream!Byte)
    BY DEF BlobAssumption, Stream!Byte
  <2>2. Sound(b) /\ t \in Seq(Stream!Byte) /\ b.ptr = 0 /\ b.size = 2 /\ Len(t) = 2
    BY <1>1, TextFacts
  <2>3. /\ Sound(blob)
        /\ TextOf(blob) = SubSeq(t, 1, b.ptr) \o s \o SubSeq(t, b.ptr + Len(s) + 1, Len(t))
    <3> HIDE DEF b, s
    <3> QED BY <1>3, <2>1, <2>2, WriteRight DEF b, s
  <2> HIDE DEF b, s, t
  <2>4. b.ptr \in 0 .. Len(t)
    BY <2>2
  <2> QED BY <2>1, <2>2, <2>3, <2>4, Spliced
<1>4. Sound(blob) /\ TextOf(blob) \in Seq(Stream!Byte)
  BY <1>1, <1>2, <1>3
<1>5. blob.ptr \in 0 .. Len(TextOf(blob))
  BY <1>4, TextFacts DEF Sound, Ordered
<1> QED BY <1>2, <1>4, <1>5 DEF Stream!Init, Text, TextOf

\* A blob does what a stream of bytes does, though it grows, shrinks and moves in
\* memory under the position (sqstdblob.h, sqstdstream.cpp): whatever is written,
\* read, cut off or swapped, in any order, with any offsets and numbers.
THEOREM ImplementsStreamAlways ==
  ASSUME BlobAssumption
  PROVE  Spec => ImplementsStream
<1>1. Init => Sound(blob) /\ Stream!Init
  BY SoundInit
<1>2. Sound(blob) /\ [Next]_bvars => Sound(blob)'
                                     /\ [Stream!Next]_<<Text, blob.ptr, did, out>>
  <2> SUFFICES ASSUME Sound(blob), [Next]_bvars
               PROVE  Sound(blob') /\ [Stream!Next]_<<Text, blob.ptr, did, out>>
    OBVIOUS
  <2>1. CASE UNCHANGED bvars
    BY <2>1 DEF bvars, Text
  <2>2. CASE Next
    <3>1. PICK c \in Stream!Calls : did' = c /\ Perform(c)
      BY <2>2 DEF Next
    <3>2. Does(c)
      BY <3>1, CallRight
    <3>3. TextOf(blob) = Text /\ TextOf(blob') = Text'
      BY DEF TextOf, Text
    <3>4. Stream!Next
      BY <3>1, <3>2, <3>3 DEF Does, Stream!Next
    <3> QED BY <3>2, <3>4 DEF Does
  <2> QED BY <2>1, <2>2
<1> QED BY <1>1, <1>2, PTL DEF Spec, ImplementsStream, Stream!Spec
=============================================================================
