------------------------- MODULE SqContinuous_proofs -------------------------
(***************************************************************************)
(* Theorems about the handler lists of SqContinuous and the pass over      *)
(* them, for every set of handlers.                                        *)
(***************************************************************************)
EXTENDS SqContinuous, SqListOps_proofs, FiniteSetTheorems

\* The loop variables: a handler runs in a pass only, and is one that the loop
\* has counted.
LoopSound ==
    /\ i # 0
    /\ cur # Null => phase \in Kind /\ i <= max

\* The place in the list that the loop has come to.
Come == IF cur = Null THEN i - 1 ELSE i

\* Whoever has stayed stands in front, in order: newcomers are behind.
Standing(l, start, left) ==
    /\ Len(left) <= Len(l)
    /\ \A j \in 1 .. Len(left) : l[j] = start[left[j]]

\* The calls are those of places that increase, up to the z-th, and then those
\* of newcomers: as many as removals have left room for, and none before the
\* loop has come by all that have stayed.  Who has stayed and lies ahead comes
\* after all that have been called.
InOrder(called, left, n, removed) ==
    \E z \in 0 .. Len(called) :
        /\ \A m \in 1 .. Len(called) : called[m] = 0 <=> z < m
        /\ Len(called) - z <= removed
        /\ z < Len(called) => (Len(called) - z) + Len(left) <= n
        /\ \A a, b \in 1 .. z : a < b => called[a] < called[b]
        /\ \A a \in 1 .. z, j \in 1 .. Len(left) : n < j => called[a] < left[j]

\* Why a place that has stayed may have got no call.
Cause(p, lost, removed) ==
    \E q \in lost : IF removed = 0 THEN q = p - 1 ELSE q < p

Met(called, left, lost, n, removed) ==
    \A j \in 1 .. Len(left) :
        j <= n => left[j] \in ToSet(called) \/ Cause(left[j], lost, removed)

\* As long as handlers remove none, nobody is missing ahead of the loop.
Rest(left, from, n) == \A j \in from .. Len(left) : left[j] = j + (n - Len(left))

PassSound ==
    phase \in Kind =>
        /\ IsInjective(log.start)
        /\ ToSet(log.left) \subseteq 1 .. Len(log.start) /\ Increasing(log.left)
        /\ Len(log.left) <= max /\ max <= Len(log.left) + log.removed
        /\ InOrder(log.called, log.left, Come, log.removed)
        /\ Met(log.called, log.left, log.lost, Come, log.removed)
        /\ log.removed = 0 => Rest(log.left, i, Len(log.start))
        /\ ~ freed => /\ Standing(list[phase], log.start, log.left)
                      /\ cur # Null /\ ~ log.moved => i <= Len(list[phase]) /\ cur = list[phase][i]

IInv == TypeOK /\ RegisteredOnce /\ LoopSound /\ PassSound

\* The same as the first three.
ListsSound ==
    /\ list \in [Kind -> Seq(Handler)] /\ log \in Log
    /\ i \in Nat \ {0} /\ max \in Nat /\ freed \in BOOLEAN
    /\ cur \in Handler \cup {Null} /\ phase \in Phase
    /\ \A k \in Kind : IsInjective(list[k])
    /\ cur # Null => phase \in Kind /\ i <= max

-----------------------------------------------------------------------------
\* What the observer notes, as far as it is about sequences of places alone.

\* Taking the p-th of increasing places out.
LEMMA PlacesWithout ==
  ASSUME NEW L \in Seq(Nat), Increasing(L), NEW p \in 1 .. Len(L),
         NEW M, M = RemoveAt(L, p)
  PROVE  /\ M \in Seq(Nat) /\ Len(M) = Len(L) - 1 /\ Increasing(M)
         /\ ToSet(M) \subseteq ToSet(L)
         /\ \A j \in 1 .. Len(M) : (j < p => M[j] = L[j]) /\ (~ (j < p) => M[j] = L[j + 1])
         /\ \A j \in 1 .. Len(M) : L[j] <= M[j] /\ (p <= j => L[p] < M[j])
<1>1. Len(L) \in Nat /\ DOMAIN L = 1 .. Len(L) /\ \A j \in 1 .. Len(L) : L[j] \in Nat
  OBVIOUS
<1>2. /\ M \in Seq(Nat) /\ Len(M) = Len(L) - 1 /\ ToSet(M) \subseteq ToSet(L)
      /\ \A j \in 1 .. Len(M) : M[j] = IF j < p THEN L[j] ELSE L[j + 1]
  <2>1. p \in DOMAIN L
    BY <1>1
  <2>2. M \in Seq(Nat) /\ Len(M) = Len(L) - 1 /\ ToSet(M) \subseteq ToSet(L)
    BY <2>1, RemoveAtElements
  <2>3. \A j \in 1 .. (Len(L) - 1) : RemoveAt(L, p)[j] = IF j < p THEN L[j] ELSE L[j + 1]
    <3>1. ASSUME NEW s \in Seq(Nat), NEW k \in DOMAIN s
          PROVE  \A j \in 1 .. (Len(s) - 1) : RemoveAt(s, k)[j] = IF j < k THEN s[j] ELSE s[j + 1]
      BY RemoveAtElements
    <3> QED BY <2>1, <3>1
  <2> QED BY <2>2, <2>3
<1>3. DOMAIN M = 1 .. Len(M) /\ Len(M) \in Nat
  <2>1. M \in Seq(Nat)
    BY <1>2
  <2> QED BY <2>1
<1>4. \A a, b \in 1 .. Len(L) : a < b => L[a] < L[b]
  BY <1>1 DEF Increasing
<1>5. Increasing(M)
  <2> SUFFICES ASSUME NEW a \in 1 .. Len(M), NEW b \in 1 .. Len(M), a < b
               PROVE  M[a] < M[b]
    BY <1>3 DEF Increasing
  <2>1. /\ a \in 1 .. Len(L) /\ a + 1 \in 1 .. Len(L) /\ b \in 1 .. Len(L) /\ b + 1 \in 1 .. Len(L)
        /\ a < b + 1 /\ a + 1 < b + 1
    BY <1>1, <1>2
  <2>2. L[a] < L[b] /\ L[a] < L[b + 1] /\ L[a + 1] < L[b + 1]
    BY <1>4, <2>1
  <2>3. M[a] = (IF a < p THEN L[a] ELSE L[a + 1]) /\ M[b] = (IF b < p THEN L[b] ELSE L[b + 1])
    BY <1>2
  <2>4. ~ (b < p) \/ a < p
    BY <1>1
  <2> QED BY <2>2, <2>3, <2>4
<1>6. ASSUME NEW j \in 1 .. Len(M) PROVE L[j] <= M[j] /\ (p <= j => L[p] < M[j])
  <2>1. j \in 1 .. Len(L) /\ j + 1 \in 1 .. Len(L) /\ j < j + 1 /\ p \in Nat /\ j \in Nat
    BY <1>1, <1>2
  <2>2. L[j] < L[j + 1] /\ (p <= j => L[p] < L[j + 1])
    BY <1>4, <2>1
  <2>3. M[j] = (IF j < p THEN L[j] ELSE L[j + 1]) /\ L[j] \in Nat /\ L[j + 1] \in Nat
    BY <1>1, <1>2, <2>1
  <2> QED BY <2>1, <2>2, <2>3
<1> QED BY <1>2, <1>5, <1>6

LEMMA PlaceWithout ==
  ASSUME NEW L \in Seq(Nat), Increasing(L), NEW p \in 1 .. Len(L),
         NEW M, M = RemoveAt(L, p), NEW j \in 1 .. Len(M)
  PROVE  /\ j < p => M[j] = L[j]
         /\ ~ (j < p) => M[j] = L[j + 1]
         /\ L[j] <= M[j] /\ (p <= j => L[p] < M[j])
<1>1. \A k \in 1 .. Len(M) : L[k] <= M[k] /\ (p <= k => L[p] < M[k])
  BY PlacesWithout
<1>2. Len(M) = Len(L) - 1
  BY PlacesWithout
<1>3. p \in DOMAIN L
  OBVIOUS
<1>4. \A k \in 1 .. (Len(L) - 1) : RemoveAt(L, p)[k] = IF k < p THEN L[k] ELSE L[k + 1]
  <2>1. ASSUME NEW s \in Seq(Nat), NEW q \in DOMAIN s
        PROVE  \A k \in 1 .. (Len(s) - 1) : RemoveAt(s, q)[k] = IF k < q THEN s[k] ELSE s[k + 1]
    BY RemoveAtElements
  <2> QED BY <1>3, <2>1
<1> QED BY <1>1, <1>2, <1>4

LEMMA IncreasingOnce ==
  ASSUME NEW L \in Seq(Nat), Increasing(L)
  PROVE  IsInjective(L)
<1>1. DOMAIN L = 1 .. Len(L) /\ \A j \in 1 .. Len(L) : L[j] \in Nat
  OBVIOUS
<1> SUFFICES ASSUME NEW a \in 1 .. Len(L), NEW b \in 1 .. Len(L), L[a] = L[b] PROVE a = b
  BY <1>1 DEF IsInjective
<1>2. a < b => L[a] < L[b]
  BY <1>1 DEF Increasing
<1>3. b < a => L[b] < L[a]
  BY <1>1 DEF Increasing
<1> QED BY <1>1, <1>2, <1>3

\* Who has stayed stands in front still when the p-th of the list goes.
LEMMA StandingWithout ==
  ASSUME NEW C \in Seq(Handler), NEW start, NEW L \in Seq(Nat), Increasing(L),
         Standing(C, start, L), NEW p \in DOMAIN C,
         NEW M, M = IF p <= Len(L) THEN RemoveAt(L, p) ELSE L
  PROVE  Standing(RemoveAt(C, p), start, M)
<1>1. Len(L) \in Nat /\ Len(C) \in Nat /\ p \in 1 .. Len(C) /\ Len(L) <= Len(C)
  BY DEF Standing
<1>2. PICK D : D = RemoveAt(C, p)
  OBVIOUS
<1>3. Len(D) = Len(C) - 1 /\ \A j \in 1 .. (Len(C) - 1) : D[j] = IF j < p THEN C[j] ELSE C[j + 1]
  <2>1. Len(D) = Len(C) - 1
    BY <1>2, RemoveAtElements
  <2>2. \A j \in 1 .. (Len(C) - 1) : RemoveAt(C, p)[j] = IF j < p THEN C[j] ELSE C[j + 1]
    BY RemoveAtElements
  <2> QED BY <1>2, <2>1, <2>2
<1>4. \A j \in 1 .. Len(L) : C[j] = start[L[j]]
  BY DEF Standing
<1>5. CASE p <= Len(L)
  <2>1. p \in 1 .. Len(L) /\ M = RemoveAt(L, p)
    BY <1>1, <1>5
  <2>2. Len(M) = Len(L) - 1 /\ \A j \in 1 .. Len(M) : M[j] = IF j < p THEN L[j] ELSE L[j + 1]
    <3>1. p \in DOMAIN L
      BY <1>1, <2>1
    <3>2. Len(RemoveAt(L, p)) = Len(L) - 1
      BY <3>1, RemoveAtElements
    <3>3. \A j \in 1 .. (Len(L) - 1) : RemoveAt(L, p)[j] = IF j < p THEN L[j] ELSE L[j + 1]
      BY <3>1, RemoveAtElements
    <3> QED BY <2>1, <3>2, <3>3
  <2>3. ASSUME NEW j \in 1 .. Len(M) PROVE D[j] = start[M[j]]
    <3>1. j \in 1 .. Len(L) /\ j + 1 \in 1 .. Len(L) /\ j \in 1 .. (Len(C) - 1)
      BY <1>1, <2>2
    <3> QED BY <1>3, <1>4, <2>2, <3>1
  <2> QED BY <1>1, <1>2, <1>3, <2>2, <2>3 DEF Standing
<1>6. CASE ~ (p <= Len(L))
  <2>1. \A j \in 1 .. Len(L) : j < p /\ j \in 1 .. (Len(C) - 1)
    BY <1>1, <1>6
  <2> QED BY <1>1, <1>2, <1>3, <1>4, <1>6, <2>1 DEF Standing
<1> QED BY <1>5, <1>6

\* The place that goes with the p-th of the list.
LEMMA PlaceOfOne ==
  ASSUME NEW C \in Seq(Handler), IsInjective(C), NEW start, NEW L \in Seq(Nat),
         Standing(C, start, L), NEW p \in DOMAIN C, NEW q \in ToSet(L)
  PROVE  start[q] = C[p] <=> p <= Len(L) /\ q = L[p]
<1>1. Len(L) \in Nat /\ p \in 1 .. Len(C) /\ DOMAIN L = 1 .. Len(L) /\ Len(L) <= Len(C) /\ Len(C) \in Nat
  BY DEF Standing
<1>2. \A j \in 1 .. Len(L) : C[j] = start[L[j]]
  BY DEF Standing
<1>3. PICK j \in 1 .. Len(L) : q = L[j]
  BY <1>1 DEF ToSet
<1>4. j \in DOMAIN C /\ C[j] = start[q]
  BY <1>1, <1>2, <1>3
<1>5. ASSUME start[q] = C[p] PROVE p <= Len(L) /\ q = L[p]
  <2>1. j = p
    BY <1>4, <1>5 DEF IsInjective
  <2> QED BY <1>1, <1>3, <2>1
<1>6. ASSUME p <= Len(L), q = L[p] PROVE start[q] = C[p]
  BY <1>1, <1>2, <1>6
<1> QED BY <1>5, <1>6

LEMMA EntryType ==
  ASSUME NEW s \in Seq(Nat), NEW a \in 1 .. Len(s)
  PROVE  s[a] \in Nat
OBVIOUS

LEMMA LessLess ==
  ASSUME NEW a \in Nat, NEW b \in Nat, NEW c \in Nat, a < b, b <= c
  PROVE  a < c
OBVIOUS

LEMMA OneLess ==
  ASSUME NEW a \in Nat, NEW b \in Nat, NEW c \in Nat, NEW d, d = c - 1,
         NEW x, x = (a + 1) + (b - c)
  PROVE  x = a + (b - d)
OBVIOUS

\* The order of the calls is kept when fewer are left and more have gone.
LEMMA InOrderFewer ==
  ASSUME NEW called \in Seq(Nat), NEW L \in Seq(Nat), NEW M \in Seq(Nat), Len(M) <= Len(L),
         \A j \in 1 .. Len(M) : L[j] <= M[j],
         NEW n \in Int, NEW m \in Int, n <= m, NEW r \in Nat, NEW t \in Nat, r <= t,
         InOrder(called, L, n, r)
  PROVE  InOrder(called, M, m, t)
<1>1. PICK z \in 0 .. Len(called) :
        /\ \A a \in 1 .. Len(called) : called[a] = 0 <=> z < a
        /\ Len(called) - z <= r
        /\ z < Len(called) => (Len(called) - z) + Len(L) <= n
        /\ \A a, b \in 1 .. z : a < b => called[a] < called[b]
        /\ \A a \in 1 .. z, j \in 1 .. Len(L) : n < j => called[a] < L[j]
  BY DEF InOrder
<1>2. Len(called) \in Nat /\ Len(L) \in Nat /\ Len(M) \in Nat /\ z \in Nat
  OBVIOUS
<1>3. Len(called) - z <= t
  BY <1>1, <1>2
<1>4. z < Len(called) => (Len(called) - z) + Len(M) <= m
  BY <1>1, <1>2
<1>5. ASSUME NEW a \in 1 .. z, NEW j \in 1 .. Len(M), m < j PROVE called[a] < M[j]
  <2>1. j \in 1 .. Len(L) /\ n < j /\ a \in 1 .. Len(called)
    BY <1>2, <1>5
  <2>2. called[a] \in Nat /\ L[j] \in Nat /\ M[j] \in Nat
    BY <2>1, EntryType
  <2>3. called[a] < L[j] /\ L[j] <= M[j]
    BY <1>1, <2>1
  <2> QED BY <2>2, <2>3, LessLess
<1> QED BY <1>1, <1>3, <1>4, <1>5 DEF InOrder

\* The call of the n-th of the list: of whom has stayed, or of a newcomer.
LEMMA InOrderCall ==
  ASSUME NEW called \in Seq(Nat), NEW L \in Seq(Nat), Increasing(L),
         \A j \in 1 .. Len(L) : L[j] # 0, NEW r \in Nat,
         NEW n \in Nat, n # 0, n <= Len(L) + r, InOrder(called, L, n - 1, r),
         NEW x \in Nat, x = IF n <= Len(L) THEN L[n] ELSE 0
  PROVE  InOrder(Append(called, x), L, n, r)
<1>1. PICK z \in 0 .. Len(called) :
        /\ \A a \in 1 .. Len(called) : called[a] = 0 <=> z < a
        /\ Len(called) - z <= r
        /\ z < Len(called) => (Len(called) - z) + Len(L) <= n - 1
        /\ \A a, b \in 1 .. z : a < b => called[a] < called[b]
        /\ \A a \in 1 .. z, j \in 1 .. Len(L) : n - 1 < j => called[a] < L[j]
  BY DEF InOrder
<1>2. PICK c : c = Append(called, x)
  OBVIOUS
<1>3. PICK k : k = Len(called)
  OBVIOUS
<1>4. /\ Len(c) = k + 1 /\ c[k + 1] = x /\ \A a \in 1 .. k : c[a] = called[a]
      /\ k \in Nat /\ Len(L) \in Nat /\ z \in 0 .. k
  BY <1>2, <1>3
<1>5. \A a \in 1 .. k : called[a] \in Nat
  BY <1>3
<1>6. CASE n <= Len(L)
  <2>1. z = k
    BY <1>1, <1>3, <1>4, <1>6
  <2>2. n \in 1 .. Len(L) /\ x = L[n] /\ x # 0
    BY <1>4, <1>6
  <2>3. \A a \in 1 .. (k + 1) : c[a] # 0
    <3> TAKE a \in 1 .. (k + 1)
    <3>1. CASE a = k + 1
      BY <1>4, <2>2, <3>1
    <3>2. CASE a \in 1 .. k
      BY <1>1, <1>3, <1>4, <2>1, <3>2
    <3> QED BY <1>4, <3>1, <3>2
  <2>4. \A a \in 1 .. k : called[a] < x
    <3>1. n - 1 < n
      OBVIOUS
    <3> QED BY <1>1, <2>1, <2>2, <3>1
  <2>5. ASSUME NEW a \in 1 .. (k + 1), NEW b \in 1 .. (k + 1), a < b PROVE c[a] < c[b]
    <3>1. a \in 1 .. k
      BY <1>4, <2>5
    <3>2. CASE b = k + 1
      BY <1>4, <2>4, <3>1, <3>2
    <3>3. CASE b \in 1 .. k
      BY <1>1, <1>4, <2>1, <2>5, <3>1, <3>3
    <3> QED BY <1>4, <3>2, <3>3
  <2>6. ASSUME NEW a \in 1 .. (k + 1), NEW j \in 1 .. Len(L), n < j PROVE c[a] < L[j]
    <3>1. x < L[j]
      <4>1. DOMAIN L = 1 .. Len(L)
        OBVIOUS
      <4> QED BY <2>2, <2>6, <4>1 DEF Increasing
    <3>2. CASE a = k + 1
      BY <1>4, <3>1, <3>2
    <3>3. CASE a \in 1 .. k
      <4>1. called[a] < L[j]
        <5>1. n - 1 < j
          BY <1>4, <2>6
        <5> QED BY <1>1, <2>1, <3>3, <5>1
      <4> QED BY <1>4, <3>3, <4>1
    <3> QED BY <1>4, <3>2, <3>3
  <2>7. k + 1 \in 0 .. Len(c) /\ ~ (k + 1 < Len(c)) /\ Len(c) - (k + 1) <= r
    BY <1>4
  <2>8. \A a \in 1 .. Len(c) : c[a] = 0 <=> k + 1 < a
    BY <1>4, <2>3
  <2>9. InOrder(c, L, n, r)
    BY <2>5, <2>6, <2>7, <2>8 DEF InOrder
  <2> QED BY <1>2, <2>9
<1>7. CASE ~ (n <= Len(L))
  <2>1. x = 0
    BY <1>7
  <2>2. z \in 0 .. Len(c) /\ Len(c) - z <= r /\ (Len(c) - z) + Len(L) <= n
    BY <1>1, <1>3, <1>4, <1>7
  <2>3. \A a \in 1 .. Len(c) : c[a] = 0 <=> z < a
    <3> TAKE a \in 1 .. Len(c)
    <3>1. CASE a = k + 1
      BY <1>4, <2>1, <3>1
    <3>2. CASE a \in 1 .. k
      BY <1>1, <1>3, <1>4, <3>2
    <3> QED BY <1>4, <3>1, <3>2
  <2>4. \A a, b \in 1 .. z : a < b => c[a] < c[b]
    <3>1. \A a \in 1 .. z : a \in 1 .. k
      BY <1>4
    <3> QED BY <1>1, <1>4, <3>1
  <2>5. \A j \in 1 .. Len(L) : ~ (n < j)
    BY <1>4, <1>7
  <2>6. InOrder(c, L, n, r)
    BY <2>2, <2>3, <2>4, <2>5 DEF InOrder
  <2> QED BY <1>2, <2>6
<1> QED BY <1>6, <1>7

\* Whoever lies behind the loop has had a call or a reason, also when another
\* goes, the p-th: that is the reason of the one that comes to lie where the
\* loop is.
LEMMA MetFewer ==
  ASSUME NEW called \in Seq(Nat), NEW L \in Seq(Nat), Increasing(L),
         NEW lost \in SUBSET Nat, NEW n \in Nat, NEW r \in Nat, Met(called, L, lost, n, r),
         NEW p \in 1 .. Len(L), NEW M, M = RemoveAt(L, p),
         NEW gone \in SUBSET Nat, lost \subseteq gone, p <= n => L[p] \in gone,
         NEW t \in Nat, r <= t, NEW s \in Nat, t # 0 \/ (p = n /\ Rest(L, n, s))
  PROVE  Met(called, M, gone, n, t)
<1> SUFFICES ASSUME NEW j \in 1 .. Len(M), j <= n
             PROVE  M[j] \in ToSet(called) \/ Cause(M[j], gone, t)
  BY DEF Met
<1>1. /\ Len(L) \in Nat /\ Len(M) = Len(L) - 1 /\ M \in Seq(Nat)
      /\ j < p => M[j] = L[j]
      /\ ~ (j < p) => M[j] = L[j + 1]
      /\ L[j] <= M[j] /\ (p <= j => L[p] < M[j])
  <2>1. Len(L) \in Nat
    OBVIOUS
  <2>2. M \in Seq(Nat) /\ Len(M) = Len(L) - 1
    BY PlacesWithout
  <2>3. (j < p => M[j] = L[j]) /\ (~ (j < p) => M[j] = L[j + 1])
    BY PlaceWithout
  <2>4. L[j] <= M[j] /\ (p <= j => L[p] < M[j])
    BY PlaceWithout
  <2> QED BY <2>1, <2>2, <2>3, <2>4
<1>2. j \in 1 .. Len(L) /\ j + 1 \in 1 .. Len(L) /\ j \in Nat /\ p \in Nat
  BY <1>1
<1>3. CASE j < p
  <2>1. M[j] = L[j] /\ M[j] \in Nat
    BY <1>1, <1>2, <1>3, EntryType
  <2>2. M[j] \in ToSet(called) \/ Cause(M[j], lost, r)
    BY <1>2, <2>1 DEF Met
  <2>3. ASSUME NEW q \in lost, IF r = 0 THEN q = M[j] - 1 ELSE q < M[j]
        PROVE  q \in gone /\ IF t = 0 THEN q = M[j] - 1 ELSE q < M[j]
    BY <2>1, <2>3
  <2> QED BY <2>2, <2>3 DEF Cause
<1>4. CASE ~ (j < p)
  <2>1. p <= j /\ p <= n
    BY <1>2, <1>4
  <2>2. L[p] \in gone /\ L[p] < M[j] /\ M[j] = L[j + 1]
    BY <1>1, <1>4, <2>1
  <2>3. CASE t # 0
    BY <2>2, <2>3 DEF Cause
  <2>4. CASE t = 0
    <3>1. p = n /\ j = n /\ Rest(L, n, s)
      BY <1>2, <2>1, <2>4
    <3>2. n \in n .. Len(L) /\ n + 1 \in n .. Len(L)
      BY <1>1, <1>2, <3>1
    <3>3. L[n] = n + (s - Len(L)) /\ L[n + 1] = (n + 1) + (s - Len(L))
      BY <3>1, <3>2 DEF Rest
    <3>4. L[p] = M[j] - 1
      BY <1>1, <2>2, <3>1, <3>3
    <3> QED BY <2>2, <2>4, <3>4 DEF Cause
  <2> QED BY <2>3, <2>4
<1> QED BY <1>3, <1>4

-----------------------------------------------------------------------------
\* What the observer notes.

LEMMA NotedIs ==
  ASSUME log \in Log, NEW l, NEW g, g = Noted(l),
         NEW D, D = {q \in ToSet(log.left) : log.start[q] \in ToSet(list[phase]) \ ToSet(l)}
  PROVE  /\ g \in Log
         /\ g.start = log.start /\ g.called = log.called /\ g.removed = log.removed
         /\ g.left = Without(log.left, D)
         /\ log.lost \subseteq g.lost
<1> DEFINE gone == ToSet(list[phase]) \ ToSet(l)
           come == {list[phase][j] : j \in {m \in DOMAIN list[phase] : m <= i}}
           K == {p \in ToSet(log.left) : log.start[p] \in gone \cap come}
           b == log.moved \/ gone \cap come # {}
<1>1. g = [log EXCEPT !.left = Without(log.left, D), !.lost = log.lost \cup K, !.moved = b]
  BY DEF Noted
<1>2. K \subseteq ToSet(log.left) /\ b \in BOOLEAN
  OBVIOUS
<1> HIDE DEF gone, come, K, b
<1>3. /\ log = [start |-> log.start, left |-> log.left, lost |-> log.lost,
                called |-> log.called, removed |-> log.removed, moved |-> log.moved]
      /\ log.start \in Seq(Handler) /\ log.left \in Seq(Nat) /\ log.lost \in SUBSET Nat
      /\ log.called \in Seq(Nat) /\ log.removed \in Nat /\ log.moved \in BOOLEAN
  BY DEF Log
<1>4. /\ g.start = log.start /\ g.called = log.called /\ g.removed = log.removed
      /\ g.left = Without(log.left, D) /\ g.lost = log.lost \cup K
  BY <1>1, <1>3
<1>5. ToSet(log.left) \subseteq Nat
  BY <1>3 DEF ToSet
<1>6. Without(log.left, D) \in Seq(Nat)
  BY <1>3, WithoutElements
<1>7. g \in Log
  <2>1. log.lost \cup K \in SUBSET Nat
    BY <1>2, <1>3, <1>5
  <2> QED BY <1>1, <1>2, <1>3, <1>6, <2>1 DEF Log
<1> QED BY <1>4, <1>7

LEMMA PlaceType ==
  ASSUME log \in Log, NEW h
  PROVE  Place(h) \in Nat
<1>1. ToSet(log.left) \subseteq Nat
  BY DEF Log, ToSet
<1> QED BY <1>1 DEF Place

-----------------------------------------------------------------------------
\* Types, the lists and the loop variables.

LEMMA ListsStep ==
  ASSUME IInv, Next
  PROVE  (TypeOK /\ RegisteredOnce /\ LoopSound)'
<1> USE DEF IInv
<1>1. /\ list \in [Kind -> Seq(Handler)] /\ log \in Log
      /\ i \in Nat \ {0} /\ max \in Nat /\ freed \in BOOLEAN
      /\ cur \in Handler \cup {Null} /\ phase \in Phase
  BY DEF TypeOK, LoopSound
<1>2. \A k \in Kind : IsInjective(list[k])
  BY DEF RegisteredOnce
<1>3. cur # Null => phase \in Kind /\ i <= max
  BY DEF LoopSound
<1>4. << >> \in Seq(Handler) /\ IsInjective(<< >>) /\ << >> \in Seq(Nat)
  BY DEF IsInjective
<1>none. NoLog \in Log
  BY <1>4 DEF NoLog, Log
<1>5. SUFFICES ListsSound'
  BY DEF ListsSound, TypeOK, RegisteredOnce, LoopSound
<1> USE DEF ListsSound
<1> HIDE DEF IInv
<1>6. CASE BeginPass
  <2>1. phase' \in Kind /\ phase \notin Kind /\ phase' \in Phase
    BY <1>6 DEF BeginPass, Kind, Phase
  <2> DEFINE n == Len(list[phase'])
             all == [p \in 1 .. n |-> p]
  <2>2. log' = [start |-> list[phase'], left |-> all, lost |-> {},
                called |-> << >>, removed |-> 0, moved |-> FALSE]
    <3>1. list' = list
      BY <1>6 DEF BeginPass
    <3> QED BY <1>6, <3>1 DEF BeginPass, NoLog
  <2>3. n \in Nat /\ list[phase'] \in Seq(Handler)
    BY <1>1, <2>1
  <2> HIDE DEF n
  <2>4. all \in Seq(Nat)
    BY <2>3
  <2> HIDE DEF all
  <2>5. log' \in Log
    BY <1>4, <2>2, <2>3, <2>4 DEF Log
  <2>6. max' = n
    BY <1>6 DEF BeginPass, n
  <2> QED BY <1>1, <1>2, <1>3, <1>6, <2>1, <2>3, <2>5, <2>6 DEF BeginPass
<1>7. CASE CallNext
  <2>1. phase \in Kind /\ i <= max
    BY <1>7 DEF CallNext
  <2>2. CASE i <= Len(list[phase])
    <3>1. list[phase][i] \in Handler
      BY <1>1, <2>1, <2>2
    <3>2. cur' = list[phase][i] /\ log' = [log EXCEPT !.called = Append(@, Place(list[phase][i]))]
      BY <1>7, <2>2 DEF CallNext
    <3>3. log' \in Log
      <4>1. log.called \in Seq(Nat) /\ Place(list[phase][i]) \in Nat
        BY <1>1, PlaceType DEF Log
      <4>2. Append(log.called, Place(list[phase][i])) \in Seq(Nat)
        BY <4>1, AppendElements
      <4> QED BY <1>1, <3>2, <4>2 DEF Log
    <3> QED BY <1>1, <1>2, <1>7, <2>1, <2>2, <3>1, <3>2, <3>3 DEF CallNext
  <2>3. CASE ~ (i <= Len(list[phase]))
    BY <1>1, <1>2, <1>3, <1>7, <2>1, <2>3 DEF CallNext
  <2> QED BY <2>2, <2>3
<1>8. CASE Return
  <2>1. log' \in Log
    BY <1>1, <1>8 DEF Return, Log
  <2> QED BY <1>1, <1>2, <1>8, <2>1 DEF Return
<1>9. CASE Fail
  <2>1. phase \in Kind /\ i <= max /\ cur \in Handler
    BY <1>1, <1>3, <1>9 DEF Fail
  <2>2. log' \in Log
    <3>1. PICK g : g = Noted(list'[phase])
      OBVIOUS
    <3>2. g \in Log
      BY <1>1, <3>1, NotedIs
    <3>3. log' = [g EXCEPT !.moved = FALSE]
      BY <1>9, <3>1 DEF Fail
    <3> QED BY <3>2, <3>3 DEF Log
  <2>3. list' \in [Kind -> Seq(Handler)] /\ \A k \in Kind : IsInjective(list'[k])
    <3>1. CASE i <= Len(list[phase])
      <4>1. i \in DOMAIN list[phase] /\ list[phase] \in Seq(Handler) /\ IsInjective(list[phase])
        BY <1>1, <1>2, <2>1, <3>1
      <4>2. RemoveAt(list[phase], i) \in Seq(Handler) /\ IsInjective(RemoveAt(list[phase], i))
        BY <4>1, RemoveAtElements
      <4>3. list' = [list EXCEPT ![phase] = RemoveAt(list[phase], i)]
        BY <1>9, <3>1 DEF Fail
      <4> QED BY <1>1, <1>2, <4>2, <4>3
    <3>2. CASE ~ (i <= Len(list[phase]))
      BY <1>1, <1>2, <1>9, <3>2 DEF Fail
    <3> QED BY <3>1, <3>2
  <2> QED BY <1>1, <1>9, <2>1, <2>2, <2>3 DEF Fail
<1>10. CASE EndPass
  BY <1>1, <1>2, <1>10, <1>none DEF EndPass, Phase
<1>11. CASE Done
  <2>1. cur = Null
    BY <1>3, <1>11 DEF Done, Kind
  <2> QED BY <1>1, <1>4, <1>11, <2>1 DEF Done, Phase
<1>12. ASSUME NEW h \in Handler, NEW k \in Kind, AddHandler(h, k) PROVE ListsSound'
  <2>1. /\ Append(list[k], h) \in Seq(Handler) /\ IsInjective(Append(list[k], h))
    BY <1>1, <1>2, <1>12, AppendElements DEF AddHandler
  <2>2. list' = [list EXCEPT ![k] = Append(list[k], h)]
    BY <1>12 DEF AddHandler
  <2>3. list' \in [Kind -> Seq(Handler)] /\ \A j \in Kind : IsInjective(list'[j])
    BY <1>1, <1>2, <2>1, <2>2
  <2> QED BY <1>1, <1>3, <1>12, <2>3 DEF AddHandler
<1>13. ASSUME NEW h \in Handler, NEW k \in Kind, RemoveHandler(h, k) PROVE ListsSound'
  <2>1. /\ Without(list[k], {h}) \in Seq(Handler) /\ IsInjective(Without(list[k], {h}))
    BY <1>1, <1>2, WithoutElements
  <2>2. list' = [list EXCEPT ![k] = Without(list[k], {h})]
    BY <1>13 DEF RemoveHandler
  <2>3. list' \in [Kind -> Seq(Handler)] /\ \A j \in Kind : IsInjective(list'[j])
    BY <1>1, <1>2, <2>1, <2>2
  <2>4. log' \in Log
    <3>1. CASE k # phase
      BY <1>1, <1>13, <3>1 DEF RemoveHandler
    <3>2. CASE k = phase
      <4>1. PICK g : g = Noted(list'[k])
        OBVIOUS
      <4>2. g \in Log
        BY <1>1, <4>1, NotedIs
      <4>3. log' = [g EXCEPT !.removed = IF Place(h) = 0 THEN g.removed ELSE g.removed + 1]
        BY <1>13, <3>2, <4>1 DEF RemoveHandler
      <4>4. g.removed \in Nat
        BY <4>2 DEF Log
      <4>5. PICK m \in Nat : log' = [g EXCEPT !.removed = m]
        BY <4>3, <4>4
      <4> QED BY <4>2, <4>5 DEF Log
    <3> QED BY <3>1, <3>2
  <2> QED BY <1>1, <1>3, <1>13, <2>3, <2>4 DEF RemoveHandler
<1>14. CASE ClearHandlers
  BY <1>1, <1>3, <1>4, <1>14 DEF ClearHandlers
<1>15. CASE UseFreed
  BY <1>1, <1>2, <1>15 DEF UseFreed, Phase
<1> QED
  BY <1>6, <1>7, <1>8, <1>9, <1>10, <1>11, <1>12, <1>13, <1>14, <1>15 DEF Next

-----------------------------------------------------------------------------
\* The pass.

\* What holds in a pass, with names for the parts.
LEMMA InPass ==
  ASSUME IInv, phase \in Kind
  PROVE  /\ log \in Log /\ log.start \in Seq(Handler) /\ log.left \in Seq(Nat)
         /\ log.lost \in SUBSET Nat /\ log.called \in Seq(Nat) /\ log.removed \in Nat
         /\ list[phase] \in Seq(Handler) /\ IsInjective(list[phase])
         /\ i \in Nat \ {0} /\ max \in Nat /\ Len(log.start) \in Nat /\ Len(log.left) \in Nat
         /\ cur # Null => i <= max
         /\ IsInjective(log.start) /\ Increasing(log.left)
         /\ ToSet(log.left) \subseteq 1 .. Len(log.start)
         /\ \A j \in 1 .. Len(log.left) : log.left[j] \in 1 .. Len(log.start)
<1>1. /\ log \in Log /\ list \in [Kind -> Seq(Handler)] /\ i \in Nat /\ max \in Nat
  BY DEF IInv, TypeOK
<1>2. i # 0 /\ (cur # Null => i <= max) /\ IsInjective(list[phase])
  BY DEF IInv, LoopSound, RegisteredOnce
<1>3. /\ log.start \in Seq(Handler) /\ log.left \in Seq(Nat) /\ log.lost \in SUBSET Nat
      /\ log.called \in Seq(Nat) /\ log.removed \in Nat
  BY <1>1 DEF Log
<1>4. /\ IsInjective(log.start) /\ Increasing(log.left)
      /\ ToSet(log.left) \subseteq 1 .. Len(log.start)
  BY DEF IInv, PassSound
<1>5. Len(log.start) \in Nat /\ Len(log.left) \in Nat
  BY <1>3
<1>6. \A j \in 1 .. Len(log.left) : log.left[j] \in ToSet(log.left)
  BY <1>3 DEF ToSet
<1> QED BY <1>1, <1>2, <1>3, <1>4, <1>5, <1>6

\* What is noted when the p-th of the list goes.
LEMMA NotedAt ==
  ASSUME IInv, phase \in Kind, ~ freed, NEW p \in DOMAIN list[phase],
         NEW g, g = Noted(RemoveAt(list[phase], p))
  PROVE  /\ p <= Len(log.left) => g.left = RemoveAt(log.left, p)
         /\ ~ (p <= Len(log.left)) => g.left = log.left
         /\ p <= Len(log.left) /\ p <= i => log.left[p] \in g.lost
         /\ p <= i => g.moved
<1> DEFINE C == list[phase]
           l == RemoveAt(C, p)
           gone == ToSet(C) \ ToSet(l)
           come == {C[j] : j \in {m \in DOMAIN C : m <= i}}
           D == {q \in ToSet(log.left) : log.start[q] \in gone}
           K == {q \in ToSet(log.left) : log.start[q] \in gone \cap come}
<1>1. /\ C \in Seq(Handler) /\ IsInjective(C) /\ log.start \in Seq(Handler) /\ IsInjective(log.start)
      /\ log.left \in Seq(Nat) /\ Increasing(log.left)
      /\ ToSet(log.left) \subseteq 1 .. Len(log.start) /\ log \in Log
      /\ Len(log.left) \in Nat
  BY InPass
<1>2. Standing(C, log.start, log.left)
  BY DEF IInv, PassSound
<1>3. g = [log EXCEPT !.left = Without(log.left, D), !.lost = log.lost \cup K,
                      !.moved = log.moved \/ gone \cap come # {}]
  BY DEF Noted
<1>c. p \in DOMAIN C
  OBVIOUS
<1> HIDE DEF C
<1>4. gone = {C[p]}
  <2>1. /\ ToSet(C) \ {C[p]} \subseteq ToSet(l) /\ ToSet(l) \subseteq ToSet(C)
        /\ C[p] \notin ToSet(l)
    BY <1>1, <1>c, RemoveAtElements
  <2>2. C[p] \in ToSet(C)
    BY <1>c DEF ToSet
  <2> QED BY <2>1, <2>2
<1> HIDE DEF gone
<1>5. D = {q \in ToSet(log.left) : log.start[q] = C[p]}
  BY <1>4
<1>6. p <= i => C[p] \in come
  BY <1>c
<1> HIDE DEF come
<1>7. p <= i => gone \cap come # {} /\ K = D
  BY <1>4, <1>6
<1> HIDE DEF D, K
<1>8. /\ g.left = Without(log.left, D) /\ g.lost = log.lost \cup K
      /\ g.moved = (log.moved \/ gone \cap come # {})
  BY <1>1, <1>3 DEF Log
<1>9. /\ p <= Len(log.left) => D = {log.left[p]} /\ Without(log.left, D) = RemoveAt(log.left, p)
      /\ ~ (p <= Len(log.left)) => D = {} /\ Without(log.left, D) = log.left
  <2>1. PICK L : L = log.left
    OBVIOUS
  <2>2. L \in Seq(Nat) /\ Increasing(L) /\ p \in 1 .. Len(C) /\ DOMAIN L = 1 .. Len(L)
    BY <1>1, <1>c, <2>1
  <2>3. \A q \in ToSet(L) : log.start[q] = C[p] <=> p <= Len(L) /\ q = L[p]
    BY <1>1, <1>2, <1>c, <2>1, PlaceOfOne
  <2>4. CASE p <= Len(L)
    <3>1. p \in DOMAIN L
      BY <2>2, <2>4
    <3>2. L[p] \in ToSet(L)
      BY <3>1 DEF ToSet
    <3>3. D = {L[p]}
      BY <1>5, <2>1, <2>3, <2>4, <3>2
    <3>4. IsInjective(L)
      BY <2>2, IncreasingOnce
    <3>5. Without(L, {L[p]}) = RemoveAt(L, p)
      BY <2>2, <3>1, <3>4, WithoutOne
    <3> QED BY <2>1, <2>4, <3>3, <3>5
  <2>5. CASE ~ (p <= Len(L))
    <3>1. D = {}
      BY <1>5, <2>1, <2>3, <2>5
    <3>2. ToSet(L) \cap {} = {}
      OBVIOUS
    <3>3. Without(L, {}) = L
      BY <2>2, <3>2, WithoutNothing
    <3> QED BY <2>1, <2>5, <3>1, <3>3
  <2> QED BY <2>1, <2>4, <2>5
<1> QED BY <1>7, <1>8, <1>9

LEMMA MovedStays ==
  ASSUME log \in Log, NEW l, NEW g, g = Noted(l), log.moved
  PROVE  g.moved
BY DEF Log, Noted

\* The p-th of the list that is walked goes: the failed one, where the loop is,
\* or one that the running handler removes.
LEMMA LossStep ==
  ASSUME IInv, phase \in Kind, ~ freed, cur # Null, NEW p \in DOMAIN list[phase],
         phase' = phase, freed' = freed, list'[phase] = RemoveAt(list[phase], p),
         NEW g, g = Noted(RemoveAt(list[phase], p)),
         log'.start = g.start, log'.called = g.called, log'.left = g.left, log'.lost = g.lost,
         log'.removed \in Nat, log.removed <= log'.removed,
         i' \in Nat, max' \in Nat, i <= i',
         cur' = Null => i' = i + 1, cur' # Null => i' = i,
         \/ /\ p = i /\ cur' = Null
            /\ max' = max - 1 /\ log'.removed = log.removed
         \/ /\ cur' = cur /\ max' = max
            /\ p <= i => log'.moved
            /\ ~ log'.moved => ~ log.moved
            /\ log'.removed = IF p <= Len(log.left) THEN log.removed + 1 ELSE log.removed
  PROVE  PassSound'
<1> DEFINE C == list[phase]  L == log.left  M == log'.left  r == log.removed  t == log'.removed
<1>1. /\ log \in Log /\ log.start \in Seq(Handler) /\ L \in Seq(Nat)
      /\ log.lost \in SUBSET Nat /\ log.called \in Seq(Nat) /\ r \in Nat
      /\ C \in Seq(Handler) /\ IsInjective(C)
      /\ i \in Nat \ {0} /\ max \in Nat /\ Len(log.start) \in Nat /\ Len(L) \in Nat
      /\ i <= max /\ IsInjective(log.start) /\ Increasing(L)
      /\ ToSet(L) \subseteq 1 .. Len(log.start)
  BY InPass
<1>2. /\ Len(L) <= max /\ max <= Len(L) + r
      /\ InOrder(log.called, L, Come, r)
      /\ Met(log.called, L, log.lost, Come, r)
      /\ r = 0 => Rest(L, i, Len(log.start))
      /\ Standing(C, log.start, L)
      /\ ~ log.moved => i <= Len(C) /\ cur = C[i]
  BY DEF IInv, PassSound
<1>3. g \in Log /\ g.start = log.start /\ g.called = log.called /\ log.lost \subseteq g.lost
  BY <1>1, NotedIs
<1>4. /\ p <= Len(L) => M = RemoveAt(L, p)
      /\ ~ (p <= Len(L)) => M = L
      /\ p <= Len(L) /\ p <= i => L[p] \in log'.lost
  BY NotedAt
<1>5. /\ log'.start = log.start /\ log'.called = log.called
      /\ log'.lost \in SUBSET Nat /\ log.lost \subseteq log'.lost
  BY <1>3 DEF Log
<1>6. Come = i /\ Come' = i
  <2>1. Come = i
    BY DEF Come
  <2>2. CASE cur' = Null
    BY <1>1, <2>2 DEF Come
  <2>3. CASE cur' # Null
    BY <1>1, <2>3 DEF Come
  <2> QED BY <2>1, <2>2, <2>3
<1>7. p \in 1 .. Len(C) /\ Len(C) \in Nat
  BY <1>1
<1>8. /\ M \in Seq(Nat) /\ Increasing(M) /\ ToSet(M) \subseteq ToSet(L)
      /\ Len(M) = IF p <= Len(L) THEN Len(L) - 1 ELSE Len(L)
      /\ \A j \in 1 .. Len(M) : L[j] <= M[j]
  <2>1. CASE p <= Len(L)
    <3>1. p \in 1 .. Len(L) /\ M = RemoveAt(L, p)
      BY <1>4, <1>7, <2>1
    <3> HIDE DEF L, M
    <3>2. M \in Seq(Nat) /\ Increasing(M) /\ ToSet(M) \subseteq ToSet(L) /\ Len(M) = Len(L) - 1
      BY <1>1, <3>1, PlacesWithout
    <3>3. \A j \in 1 .. Len(M) : L[j] <= M[j] /\ (p <= j => L[p] < M[j])
      BY <1>1, <3>1, PlacesWithout
    <3> QED BY <2>1, <3>2, <3>3
  <2>2. CASE ~ (p <= Len(L))
    <3>1. M = L
      BY <1>4, <2>2
    <3>2. \A j \in 1 .. Len(L) : L[j] \in Nat
      BY <1>1
    <3> QED BY <1>1, <2>2, <3>1, <3>2
  <2> QED BY <2>1, <2>2
<1>9. Standing(list'[phase'], log'.start, M)
  <2>1. M = IF p <= Len(L) THEN RemoveAt(L, p) ELSE L
    BY <1>4
  <2> HIDE DEF L, M, C
  <2>2. Standing(RemoveAt(C, p), log.start, M)
    BY <1>1, <1>2, <1>7, <2>1, StandingWithout DEF C
  <2> QED BY <1>5, <2>2 DEF C
<1> HIDE DEF L, M, r, t, C
<1>10. r \in Nat /\ t \in Nat /\ r <= t
  BY <1>1 DEF r, t
<1>11. Len(M) <= max' /\ max' <= Len(M) + t
  <2>1. CASE p = i /\ max' = max - 1 /\ t = r
    BY <1>1, <1>2, <1>8, <2>1
  <2>2. CASE max' = max /\ t = IF p <= Len(L) THEN r + 1 ELSE r
    BY <1>1, <1>2, <1>8, <1>10, <2>2
  <2> QED BY <2>1, <2>2 DEF r, t, L
<1>12. InOrder(log'.called, M, Come', t)
  <2>1. InOrder(log.called, L, i, r)
    BY <1>2, <1>6
  <2>2. Len(M) <= Len(L) /\ i \in Int /\ i <= i
    BY <1>1, <1>8
  <2>3. InOrder(log.called, M, i, t)
    BY <1>1, <1>8, <1>10, <2>1, <2>2, InOrderFewer
  <2> QED BY <1>5, <1>6, <2>3
<1>13. Met(log'.called, M, log'.lost, Come', t)
  <2>1. CASE p <= Len(L)
    <3>1. p \in 1 .. Len(L) /\ M = RemoveAt(L, p) /\ (p <= i => L[p] \in log'.lost)
      BY <1>4, <1>7, <2>1 DEF L, M
    <3>2. t # 0 \/ (p = i /\ Rest(L, i, Len(log.start)))
      <4>1. CASE p = i /\ t = r
        BY <1>2, <4>1
      <4>2. CASE t = r + 1
        BY <1>10, <4>2
      <4> QED BY <2>1, <4>1, <4>2 DEF r, t, L
    <3>3. Met(log.called, L, log.lost, i, r)
      BY <1>2, <1>6
    <3>4. PICK called, lost, gone, s :
            called = log.called /\ lost = log.lost /\ gone = log'.lost /\ s = Len(log.start)
      OBVIOUS
    <3>5. /\ called \in Seq(Nat) /\ lost \in SUBSET Nat /\ gone \in SUBSET Nat
          /\ lost \subseteq gone /\ s \in Nat /\ i \in Nat /\ (p <= i => L[p] \in gone)
          /\ Met(called, L, lost, i, r)
          /\ t # 0 \/ (p = i /\ Rest(L, i, s))
      BY <1>1, <1>5, <3>1, <3>2, <3>3, <3>4
    <3>6. Met(called, M, gone, i, t)
      BY <1>1, <1>10, <3>1, <3>5, MetFewer
    <3> QED BY <1>5, <1>6, <3>4, <3>6
  <2>2. CASE ~ (p <= Len(L))
    <3>1. M = L /\ t = r
      BY <1>4, <2>2 DEF L, M, r, t
    <3>2. \A x : Cause(x, log.lost, r) => Cause(x, log'.lost, r)
      BY <1>5 DEF Cause
    <3> QED BY <1>2, <1>5, <1>6, <3>1, <3>2 DEF Met
  <2> QED BY <2>1, <2>2
<1>14. t = 0 => Rest(M, i', Len(log'.start))
  <2> SUFFICES ASSUME t = 0, NEW j \in i' .. Len(M)
               PROVE  M[j] = j + (Len(log.start) - Len(M))
    BY <1>5 DEF Rest
  <2>1. r = 0 /\ Rest(L, i, Len(log.start))
    BY <1>2, <1>10
  <2>2. CASE p <= Len(L)
    <3>1. p = i /\ cur' = Null /\ i' = i + 1
      BY <1>10, <2>2 DEF r, t, L
    <3>2. p \in 1 .. Len(L) /\ M = RemoveAt(L, p) /\ j \in 1 .. Len(M) /\ ~ (j < p) /\ Len(M) = Len(L) - 1
      BY <1>1, <1>4, <1>7, <1>8, <2>2, <3>1 DEF L, M
    <3>3. M[j] = L[j + 1]
      <4>1. L \in Seq(Nat) /\ Increasing(L)
        BY <1>1
      <4>2. ASSUME NEW q \in 1 .. Len(L), NEW K, K = RemoveAt(L, q), NEW a \in 1 .. Len(K), ~ (a < q)
            PROVE  K[a] = L[a + 1]
        BY <4>1, <4>2, PlaceWithout
      <4> QED BY <3>2, <4>2
    <3>4. j + 1 \in i .. Len(L) /\ j \in Nat
      BY <1>1, <3>1, <3>2
    <3>5. L[j + 1] = (j + 1) + (Len(log.start) - Len(L))
      BY <2>1, <3>4 DEF Rest
    <3>6. Len(M) = Len(L) - 1 /\ Len(L) \in Nat /\ Len(log.start) \in Nat /\ j \in Nat
      BY <1>1, <3>2, <3>4
    <3>7. M[j] = (j + 1) + (Len(log.start) - Len(L))
      BY <3>3, <3>5
    <3>8. PICK a, b, c, d, x : /\ a = j /\ b = Len(log.start) /\ c = Len(L)
                               /\ d = Len(M) /\ x = M[j]
      OBVIOUS
    <3>9. a \in Nat /\ b \in Nat /\ c \in Nat /\ d = c - 1 /\ x = (a + 1) + (b - c)
      BY <3>6, <3>7, <3>8
    <3>10. x = a + (b - d)
      BY <3>9, OneLess
    <3> QED BY <3>8, <3>10
  <2>3. CASE ~ (p <= Len(L))
    <3>1. M = L
      BY <1>4, <2>3 DEF L, M
    <3>2. j \in i .. Len(L)
      BY <1>1, <3>1
    <3> QED BY <2>1, <3>1, <3>2 DEF Rest
  <2> QED BY <2>2, <2>3
<1>15. cur' # Null /\ ~ log'.moved => i' <= Len(list'[phase']) /\ cur' = list'[phase'][i']
  <2> SUFFICES ASSUME cur' # Null, ~ log'.moved
               PROVE  i <= Len(list'[phase]) /\ cur' = list'[phase][i]
    OBVIOUS
  <2>1. cur' = cur /\ ~ log.moved /\ ~ (p <= i)
    OBVIOUS
  <2>2. i <= Len(C) /\ cur = C[i] /\ i < p
    BY <1>1, <1>2, <1>7, <2>1
  <2>3. Len(RemoveAt(C, p)) = Len(C) - 1
    BY <1>1, RemoveAtElements DEF C
  <2>4. \A j \in 1 .. (Len(C) - 1) : RemoveAt(C, p)[j] = IF j < p THEN C[j] ELSE C[j + 1]
    <3>1. ASSUME NEW s \in Seq(Handler), NEW q \in DOMAIN s
          PROVE  \A j \in 1 .. (Len(s) - 1) : RemoveAt(s, q)[j] = IF j < q THEN s[j] ELSE s[j + 1]
      BY RemoveAtElements
    <3>2. p \in DOMAIN C
      BY DEF C
    <3> QED BY <1>1, <3>1, <3>2
  <2>5. i \in 1 .. (Len(C) - 1)
    BY <1>1, <1>7, <2>2
  <2>6. list'[phase] = RemoveAt(C, p)
    BY DEF C
  <2> QED BY <1>7, <2>1, <2>2, <2>3, <2>4, <2>5, <2>6
<1>16. IsInjective(log'.start) /\ ToSet(M) \subseteq 1 .. Len(log'.start) /\ Increasing(M)
  BY <1>1, <1>5, <1>8
<1> QED BY <1>9, <1>11, <1>12, <1>13, <1>14, <1>15, <1>16 DEF PassSound, M, t

\* Steps that take nothing from the list and leave the pass as far as it was.
LEMMA SameStep ==
  ASSUME IInv, phase \in Kind, phase' = phase, max' = max,
         log'.start = log.start, log'.left = log.left, log'.called = log.called,
         log'.lost = log.lost, log'.removed = log.removed,
         Come' = Come, i' \in Nat, i <= i',
         freed' \/ Standing(list'[phase], log.start, log.left),
         freed' \/ (cur' # Null /\ ~ log'.moved =>
                       i' <= Len(list'[phase]) /\ cur' = list'[phase][i'])
  PROVE  PassSound'
<1>1. /\ IsInjective(log.start)
      /\ ToSet(log.left) \subseteq 1 .. Len(log.start) /\ Increasing(log.left)
      /\ Len(log.left) <= max /\ max <= Len(log.left) + log.removed
      /\ InOrder(log.called, log.left, Come, log.removed)
      /\ Met(log.called, log.left, log.lost, Come, log.removed)
      /\ log.removed = 0 => Rest(log.left, i, Len(log.start))
  BY DEF IInv, PassSound
<1>2. log.removed = 0 => Rest(log.left, i', Len(log.start))
  <2>1. i \in Nat /\ Len(log.left) \in Nat
    BY InPass
  <2>2. i' .. Len(log.left) \subseteq i .. Len(log.left)
    BY <2>1
  <2> QED BY <1>1, <2>2 DEF Rest
<1> QED BY <1>1, <1>2 DEF PassSound

\* The place of the n-th of the list, 0 if it is a newcomer's.
LEMMA PlaceIs ==
  ASSUME IInv, phase \in Kind, ~ freed, NEW n \in DOMAIN list[phase]
  PROVE  Place(list[phase][n]) = IF n <= Len(log.left) THEN log.left[n] ELSE 0
<1>1. PICK L, C : L = log.left /\ C = list[phase]
  OBVIOUS
<1>2. /\ C \in Seq(Handler) /\ IsInjective(C) /\ L \in Seq(Nat) /\ n \in DOMAIN C
  BY <1>1, InPass
<1>3. Standing(C, log.start, L)
  BY <1>1 DEF IInv, PassSound
<1>4. \A q \in ToSet(L) : log.start[q] = C[n] <=> n <= Len(L) /\ q = L[n]
  BY <1>2, <1>3, PlaceOfOne
<1>5. Place(C[n]) = IF \E p \in ToSet(L) : log.start[p] = C[n]
                      THEN CHOOSE p \in ToSet(L) : log.start[p] = C[n] ELSE 0
  BY <1>1 DEF Place
<1>6. CASE n <= Len(L)
  <2>1. L[n] \in ToSet(L)
    BY <1>2, <1>6 DEF ToSet
  <2> QED BY <1>1, <1>4, <1>5, <1>6, <2>1
<1>7. CASE ~ (n <= Len(L))
  BY <1>1, <1>4, <1>5, <1>7
<1> QED BY <1>6, <1>7

LEMMA PassBegins ==
  ASSUME IInv, BeginPass, ListsSound'
  PROVE  PassSound'
<1>1. /\ phase' \in Kind /\ list' = list /\ cur' = cur /\ i' = 1 /\ max' = Len(list'[phase'])
      /\ cur = Null
  BY DEF IInv, LoopSound, BeginPass, Kind
<1>2. PICK l : l = list'[phase']
  OBVIOUS
<1>3. l \in Seq(Handler) /\ IsInjective(l) /\ Len(l) \in Nat
  BY <1>1, <1>2 DEF ListsSound
<1> DEFINE all == [p \in 1 .. Len(l) |-> p]
<1>4. log' = [start |-> l, left |-> all, lost |-> {}, called |-> << >>, removed |-> 0, moved |-> FALSE]
  BY <1>2 DEF BeginPass, NoLog
<1>5. all \in Seq(Nat) /\ Len(all) = Len(l) /\ \A j \in 1 .. Len(l) : all[j] = j
  BY <1>3
<1>6. DOMAIN all = 1 .. Len(l)
  OBVIOUS
<1> HIDE DEF all
<1>7. ToSet(all) \subseteq 1 .. Len(l) /\ Increasing(all)
  BY <1>5, <1>6 DEF ToSet, Increasing
<1>8. Standing(l, l, all)
  BY <1>3, <1>5 DEF Standing
<1>9. Come' = 0
  BY <1>1 DEF Come
<1>10. InOrder(<< >>, all, 0, 0)
  <2>1. Len(<< >>) = 0 /\ 0 \in 0 .. 0
    OBVIOUS
  <2> QED BY <2>1 DEF InOrder
<1>11. Met(<< >>, all, {}, 0, 0)
  BY DEF Met
<1>12. Rest(all, 1, Len(l))
  BY <1>3, <1>5 DEF Rest
<1>13. /\ log'.start = l /\ log'.left = all /\ log'.lost = {} /\ log'.called = << >>
       /\ log'.removed = 0
  BY <1>4
<1> QED BY <1>1, <1>2, <1>3, <1>5, <1>7, <1>8, <1>9, <1>10, <1>11, <1>12, <1>13 DEF PassSound

LEMMA PassCalls ==
  ASSUME IInv, CallNext
  PROVE  PassSound'
<1>1. /\ phase \in Kind /\ cur = Null /\ i <= max /\ ~ freed
      /\ phase' = phase /\ freed' = freed /\ list' = list
  BY DEF CallNext
<1>2. PICK C, L, r, called : C = list[phase] /\ L = log.left /\ r = log.removed /\ called = log.called
  OBVIOUS
<1>3. /\ log \in Log /\ L \in Seq(Nat) /\ log.lost \in SUBSET Nat /\ called \in Seq(Nat) /\ r \in Nat
      /\ C \in Seq(Handler) /\ i \in Nat \ {0} /\ max \in Nat /\ Len(L) \in Nat /\ Len(C) \in Nat
      /\ Increasing(L)
  BY <1>1, <1>2, InPass
<1>4. \A j \in 1 .. Len(L) : L[j] # 0
  <2>1. /\ Len(log.start) \in Nat
        /\ \A j \in 1 .. Len(log.left) : log.left[j] \in 1 .. Len(log.start)
    BY <1>1, InPass
  <2> QED BY <1>2, <2>1
<1>5. /\ IsInjective(log.start) /\ ToSet(L) \subseteq 1 .. Len(log.start)
      /\ Len(L) <= max /\ max <= Len(L) + r
      /\ InOrder(called, L, Come, r)
      /\ Met(called, L, log.lost, Come, r)
      /\ r = 0 => Rest(L, i, Len(log.start))
      /\ Standing(C, log.start, L) /\ Len(L) <= Len(C)
  BY <1>1, <1>2 DEF IInv, PassSound, Standing
<1>6. Come = i - 1
  BY <1>1 DEF Come
<1>7. CASE i <= Len(C)
  <2>1. PICK x : x = IF i <= Len(L) THEN L[i] ELSE 0
    OBVIOUS
  <2>2. Place(C[i]) = x
    <3>1. i \in DOMAIN list[phase]
      BY <1>2, <1>3, <1>7
    <3> QED BY <1>1, <1>2, <2>1, <3>1, PlaceIs
  <2>3. cur' = C[i] /\ log' = [log EXCEPT !.called = Append(called, x)] /\ i' = i /\ max' = max
    BY <1>2, <1>7, <2>2 DEF CallNext
  <2>4. /\ log'.start = log.start /\ log'.left = L /\ log'.lost = log.lost
        /\ log'.removed = r /\ log'.called = Append(called, x)
    BY <1>2, <1>3, <2>3 DEF Log
  <2>5. C[i] \in Handler /\ C[i] # Null
    BY <1>3, <1>7, HandlerAssumption
  <2>6. Come' = i
    BY <2>3, <2>5 DEF Come
  <2>7. x \in Nat
    BY <1>3, <2>1
  <2>8. InOrder(Append(called, x), L, i, r)
    <3>1. i \in Nat /\ i # 0 /\ i <= Len(L) + r /\ InOrder(called, L, i - 1, r)
      BY <1>1, <1>3, <1>5, <1>6
    <3> QED BY <1>3, <1>4, <2>1, <2>7, <3>1, InOrderCall
  <2>9. Met(Append(called, x), L, log.lost, i, r)
    <3> SUFFICES ASSUME NEW j \in 1 .. Len(L), j <= i
                 PROVE  L[j] \in ToSet(Append(called, x)) \/ Cause(L[j], log.lost, r)
      BY DEF Met
    <3>1. ToSet(Append(called, x)) = ToSet(called) \cup {x}
      BY <1>3, <2>7, AppendElements
    <3>2. CASE j = i
      BY <2>1, <3>1, <3>2
    <3>3. CASE j # i
      <4>1. j <= Come
        BY <1>3, <1>6, <3>3
      <4> QED BY <1>5, <3>1, <4>1 DEF Met
    <3> QED BY <3>2, <3>3
  <2> QED BY <1>1, <1>2, <1>3, <1>5, <1>7, <2>3, <2>4, <2>6, <2>8, <2>9 DEF PassSound
<1>8. CASE ~ (i <= Len(C))
  <2>1. i' = i + 1 /\ max' = max - 1 /\ cur' = Null /\ log' = log
    BY <1>1, <1>2, <1>8 DEF CallNext
  <2>2. Come' = i
    BY <1>3, <2>1 DEF Come
  <2>3. Len(L) <= max - 1 /\ max - 1 <= Len(L) + r /\ Len(L) < i
    BY <1>1, <1>3, <1>5, <1>8
  <2>4. InOrder(called, L, i, r)
    <3>1. \A j \in 1 .. Len(L) : L[j] <= L[j]
      <4>1. \A j \in 1 .. Len(L) : L[j] \in Nat
        BY <1>3
      <4> QED BY <4>1
    <3>2. Len(L) <= Len(L) /\ i - 1 \in Int /\ i \in Int /\ i - 1 <= i /\ r <= r
          /\ InOrder(called, L, i - 1, r)
      BY <1>3, <1>5, <1>6
    <3> QED BY <1>3, <3>1, <3>2, InOrderFewer
  <2>5. Met(called, L, log.lost, i, r)
    <3>1. \A j \in 1 .. Len(L) : j <= Come
      BY <1>3, <1>6, <2>3
    <3> QED BY <1>5, <3>1 DEF Met
  <2>6. Rest(L, i + 1, Len(log.start))
    <3>1. (i + 1) .. Len(L) = {}
      BY <1>3, <2>3
    <3> QED BY <3>1 DEF Rest
  <2> QED BY <1>1, <1>2, <1>3, <1>5, <2>1, <2>2, <2>3, <2>4, <2>5, <2>6 DEF PassSound
<1> QED BY <1>7, <1>8

LEMMA PassFails ==
  ASSUME IInv, Fail
  PROVE  PassSound'
<1>1. /\ cur # Null /\ ~ freed /\ cur' = Null /\ i' = i + 1 /\ max' = max - 1
      /\ phase' = phase /\ freed' = freed
  BY DEF Fail
<1>2. phase \in Kind /\ list \in [Kind -> Seq(Handler)]
  BY <1>1 DEF IInv, LoopSound, TypeOK
<1>3. /\ i \in Nat \ {0} /\ max \in Nat /\ i <= max /\ log.removed \in Nat
      /\ list[phase] \in Seq(Handler) /\ log \in Log /\ log.left \in Seq(Nat)
  BY <1>1, <1>2, InPass
<1>4. PICK g : g = Noted(list'[phase])
  OBVIOUS
<1>5. g \in Log /\ g.removed = log.removed
  BY <1>3, <1>4, NotedIs
<1>6. log' = [g EXCEPT !.moved = FALSE]
  BY <1>4 DEF Fail
<1>7. /\ log'.start = g.start /\ log'.called = g.called /\ log'.left = g.left
      /\ log'.lost = g.lost /\ log'.removed = g.removed
  BY <1>5, <1>6 DEF Log
<1>8. CASE i <= Len(list[phase])
  <2>1. list'[phase] = RemoveAt(list[phase], i)
    BY <1>2, <1>8 DEF Fail
  <2>2. i \in DOMAIN list[phase]
    BY <1>3, <1>8
  <2>3. g = Noted(RemoveAt(list[phase], i))
    BY <1>4, <2>1
  <2>4. PICK p \in DOMAIN list[phase] : p = i
    BY <2>2
  <2>5. /\ log'.removed \in Nat /\ log.removed <= log'.removed /\ log'.removed = log.removed
        /\ i' \in Nat /\ max' \in Nat /\ i <= i'
    BY <1>1, <1>3, <1>5, <1>7
  <2> QED BY <1>1, <1>2, <1>7, <2>1, <2>3, <2>4, <2>5, LossStep
<1>9. CASE ~ (i <= Len(list[phase]))
  <2>1. list' = list
    BY <1>9 DEF Fail
  <2> DEFINE D == {q \in ToSet(log.left) : log.start[q] \in ToSet(list[phase]) \ ToSet(list'[phase])}
  <2>2. D = {}
    BY <2>1
  <2> HIDE DEF D
  <2>3. /\ g.start = log.start /\ g.called = log.called /\ g.left = Without(log.left, D)
        /\ log.lost \subseteq g.lost
    BY <1>3, <1>4, NotedIs DEF D
  <2>4. Without(log.left, D) = log.left
    BY <1>3, <2>2, WithoutNothing
  <2> DEFINE L == log.left  r == log.removed
  <2>5. /\ log'.start = log.start /\ log'.called = log.called /\ log'.left = L
        /\ log'.removed = r /\ log.lost \subseteq log'.lost
    BY <1>5, <1>7, <2>3, <2>4
  <2>6. /\ IsInjective(log.start) /\ ToSet(L) \subseteq 1 .. Len(log.start) /\ Increasing(L)
        /\ Len(L) <= max /\ max <= Len(L) + r
        /\ InOrder(log.called, L, Come, r)
        /\ Met(log.called, L, log.lost, Come, r)
        /\ Standing(list[phase], log.start, L) /\ Len(L) <= Len(list[phase])
    BY <1>1, <1>2 DEF IInv, PassSound, Standing
  <2>7. Len(L) \in Nat /\ Len(list[phase]) \in Nat
    BY <1>3
  <2> HIDE DEF L, r
  <2>8. Come = i /\ Come' = i
    BY <1>1, <1>3 DEF Come
  <2>9. Len(L) < i /\ Len(L) <= max - 1 /\ max - 1 <= Len(L) + r
    BY <1>3, <1>9, <2>6, <2>7 DEF r
  <2>10. Met(log.called, L, log'.lost, i, r)
    <3>1. \A x : Cause(x, log.lost, r) => Cause(x, log'.lost, r)
      BY <2>5 DEF Cause
    <3> QED BY <2>6, <2>8, <3>1 DEF Met
  <2>11. Rest(L, i + 1, Len(log.start))
    <3>1. (i + 1) .. Len(L) = {}
      BY <1>3, <2>7, <2>9
    <3> QED BY <3>1 DEF Rest
  <2> QED BY <1>1, <2>1, <2>5, <2>6, <2>8, <2>9, <2>10, <2>11 DEF PassSound
<1> QED BY <1>8, <1>9

LEMMA PassLoses ==
  ASSUME IInv, NEW h \in Handler, NEW k \in Kind, RemoveHandler(h, k), phase \in Kind
  PROVE  PassSound'
<1>1. /\ UNCHANGED <<freed, phase, i, max, cur>> /\ ~ freed /\ cur # Null
      /\ list' = [list EXCEPT ![k] = Without(list[k], {h})] /\ h \in ToSet(list[k])
  BY DEF RemoveHandler, CanCall, Kind
<1>2. /\ list \in [Kind -> Seq(Handler)] /\ i \in Nat /\ max \in Nat /\ log \in Log
      /\ i <= i /\ log.removed \in Nat
  BY DEF IInv, TypeOK, Log
<1>c. Come' = Come
  BY <1>1 DEF Come
<1>3. CASE k # phase
  <2>1. log' = log /\ list'[phase] = list[phase]
    BY <1>1, <1>2, <1>3 DEF RemoveHandler
  <2>2. /\ Standing(list[phase], log.start, log.left)
        /\ cur # Null /\ ~ log.moved => i <= Len(list[phase]) /\ cur = list[phase][i]
    BY <1>1 DEF IInv, PassSound
  <2> QED BY <1>1, <1>2, <1>c, <2>1, <2>2, SameStep
<1>4. CASE k = phase
  <2>1. /\ list[phase] \in Seq(Handler) /\ IsInjective(list[phase]) /\ Len(log.left) \in Nat
        /\ \A j \in 1 .. Len(log.left) : log.left[j] \in 1 .. Len(log.start)
    BY InPass
  <2>2. PICK p \in DOMAIN list[phase] : h = list[phase][p]
    BY <1>1, <1>4 DEF ToSet
  <2>3. list'[phase] = RemoveAt(list[phase], p)
    <3>1. list'[phase] = Without(list[phase], {h})
      BY <1>1, <1>2, <1>4
    <3> QED BY <2>1, <2>2, <3>1, WithoutOne
  <2>4. PICK g : g = Noted(RemoveAt(list[phase], p))
    OBVIOUS
  <2>5. g \in Log /\ g.removed = log.removed
    BY <1>2, <2>4, NotedIs
  <2>6. PICK t : t = IF p <= Len(log.left) THEN log.removed + 1 ELSE log.removed
    OBVIOUS
  <2>7. Place(h) = IF p <= Len(log.left) THEN log.left[p] ELSE 0
    BY <1>1, <2>2, PlaceIs
  <2>8. p <= Len(log.left) => log.left[p] # 0
    <3>1. p \in Nat /\ p # 0 /\ Len(log.start) \in Nat
      BY <2>1, InPass
    <3>2. p <= Len(log.left) => p \in 1 .. Len(log.left)
      BY <2>1, <3>1
    <3> QED BY <2>1, <3>1, <3>2
  <2>9. log' = [g EXCEPT !.removed = t]
    <3>1. t = IF Place(h) = 0 THEN g.removed ELSE g.removed + 1
      BY <2>5, <2>6, <2>7, <2>8
    <3>2. g = Noted(list'[k])
      BY <1>4, <2>3, <2>4
    <3>3. log' = [g EXCEPT !.removed = IF Place(h) = 0 THEN g.removed ELSE g.removed + 1]
      BY <1>4, <3>2 DEF RemoveHandler
    <3> QED BY <3>1, <3>3
  <2>10. /\ log'.start = g.start /\ log'.called = g.called /\ log'.left = g.left
         /\ log'.lost = g.lost /\ log'.removed = t /\ log'.moved = g.moved
    BY <2>5, <2>9 DEF Log
  <2>11. p <= i => log'.moved
    BY <1>1, <2>4, <2>10, NotedAt
  <2>12. ~ log'.moved => ~ log.moved
    <3>1. ASSUME log.moved PROVE log'.moved
      <4>1. g.moved
        BY <1>2, <2>4, <3>1, MovedStays
      <4> QED BY <2>10, <4>1
    <3> QED BY <3>1
  <2>13. t \in Nat /\ log.removed <= t
    BY <1>2, <2>6
  <2> QED
    BY <1>1, <1>2, <2>3, <2>4, <2>6, <2>10, <2>11, <2>12, <2>13, LossStep
<1> QED BY <1>3, <1>4

LEMMA PassStep ==
  ASSUME IInv, Next
  PROVE  PassSound'
<1>0. ListsSound'
  BY ListsStep DEF IInv, ListsSound, TypeOK, RegisteredOnce, LoopSound
<1>1. /\ list \in [Kind -> Seq(Handler)] /\ log \in Log /\ i \in Nat /\ max \in Nat
      /\ cur # Null => phase \in Kind
  BY DEF IInv, TypeOK, LoopSound
<1>2. phase \in Kind =>
         /\ ~ freed => Standing(list[phase], log.start, log.left)
         /\ ~ freed /\ cur # Null /\ ~ log.moved => i <= Len(list[phase]) /\ cur = list[phase][i]
  BY DEF IInv, PassSound
<1>3. CASE BeginPass
  BY <1>0, <1>3, PassBegins
<1>4. CASE CallNext
  BY <1>4, PassCalls
<1>5. CASE Return
  <2>1. /\ cur # Null /\ cur' = Null /\ i' = i + 1 /\ UNCHANGED <<list, freed, phase, max>>
        /\ log' = [log EXCEPT !.moved = FALSE]
    BY <1>5 DEF Return
  <2>2. phase \in Kind
    BY <1>1, <2>1
  <2>3. /\ log'.start = log.start /\ log'.left = log.left /\ log'.called = log.called
        /\ log'.lost = log.lost /\ log'.removed = log.removed
    BY <1>1, <2>1 DEF Log
  <2>4. Come' = Come
    BY <1>1, <2>1 DEF Come
  <2> QED BY <1>1, <1>2, <2>1, <2>2, <2>3, <2>4, SameStep
<1>6. CASE Fail
  BY <1>6, PassFails
<1>7. CASE EndPass \/ Done \/ UseFreed
  BY <1>7 DEF EndPass, Done, UseFreed, PassSound, Kind
<1>8. ASSUME NEW h \in Handler, NEW k \in Kind, AddHandler(h, k) PROVE PassSound'
  <2>1. /\ UNCHANGED <<freed, phase, i, max, cur, log>> /\ ~ freed
        /\ list' = [list EXCEPT ![k] = Append(list[k], h)]
    BY <1>8 DEF AddHandler
  <2>2. CASE phase \in Kind
    <3>1. PICK l, m : l = list[phase] /\ m = list'[phase]
      OBVIOUS
    <3>2. /\ l \in Seq(Handler) /\ Len(l) \in Nat /\ Len(m) \in Nat /\ Len(l) <= Len(m)
          /\ \A j \in 1 .. Len(l) : m[j] = l[j]
      BY <1>1, <2>1, <2>2, <3>1
    <3>3. Standing(m, log.start, log.left)
      <4>1. Standing(l, log.start, log.left) /\ Len(log.left) \in Nat
        BY <1>2, <2>1, <2>2, <3>1, InPass
      <4>2. \A j \in 1 .. Len(log.left) : j \in 1 .. Len(l)
        BY <3>2, <4>1 DEF Standing
      <4> QED BY <3>2, <4>1, <4>2 DEF Standing
    <3>4. cur # Null /\ ~ log.moved => i <= Len(m) /\ cur = m[i]
      <4>1. i # 0
        BY DEF IInv, LoopSound
      <4>2. i <= Len(l) => i \in 1 .. Len(l)
        BY <1>1, <3>2, <4>1
      <4> QED BY <1>1, <1>2, <2>1, <2>2, <3>1, <3>2, <4>2
    <3>5. Come' = Come
      BY <2>1 DEF Come
    <3>6. /\ Standing(list'[phase], log.start, log.left) /\ phase' = phase /\ max' = max
          /\ cur' # Null /\ ~ log'.moved => i' <= Len(list'[phase]) /\ cur' = list'[phase][i']
      BY <2>1, <3>1, <3>3, <3>4
    <3>7. i' \in Nat /\ i <= i' /\ log' = log
      BY <1>1, <2>1
    <3> QED BY <2>2, <3>5, <3>6, <3>7, SameStep
  <2>3. CASE phase \notin Kind
    BY <2>1, <2>3 DEF PassSound
  <2> QED BY <2>2, <2>3
<1>9. ASSUME NEW h \in Handler, NEW k \in Kind, RemoveHandler(h, k) PROVE PassSound'
  <2>1. CASE phase \in Kind
    BY <1>9, <2>1, PassLoses
  <2>2. CASE phase \notin Kind
    BY <1>9, <2>2 DEF PassSound, RemoveHandler
  <2> QED BY <2>1, <2>2
<1>10. CASE ClearHandlers
  <2>1. freed' /\ UNCHANGED <<phase, i, max, cur, log>>
    BY <1>10 DEF ClearHandlers
  <2>2. Come' = Come
    BY <2>1 DEF Come
  <2>3. CASE phase \in Kind
    BY <1>1, <2>1, <2>2, <2>3, SameStep
  <2>4. CASE phase \notin Kind
    BY <2>1, <2>4 DEF PassSound
  <2> QED BY <2>3, <2>4
<1> QED
  BY <1>3, <1>4, <1>5, <1>6, <1>7, <1>8, <1>9, <1>10 DEF Next

-----------------------------------------------------------------------------
\* The theorems.

LEMMA InitSound == Init => IInv
<1> SUFFICES ASSUME Init PROVE IInv
  OBVIOUS
<1>1. << >> \in Seq(Handler) /\ IsInjective(<< >>) /\ << >> \in Seq(Nat)
  BY DEF IsInjective
<1>2. NoLog \in Log
  BY <1>1 DEF NoLog, Log
<1>3. TypeOK
  BY <1>1, <1>2 DEF Init, TypeOK, Phase
<1>4. RegisteredOnce /\ LoopSound
  BY <1>1 DEF Init, RegisteredOnce, LoopSound
<1>5. PassSound
  BY DEF Init, PassSound, Kind
<1> QED BY <1>3, <1>4, <1>5 DEF IInv

LEMMA InvariantAlways == Spec => []IInv
<1>1. IInv /\ [Next]_vars => IInv'
  <2> SUFFICES ASSUME IInv, [Next]_vars PROVE IInv'
    OBVIOUS
  <2>1. CASE UNCHANGED vars
    BY <2>1 DEF vars, IInv, TypeOK, RegisteredOnce, LoopSound, PassSound, Come
  <2> QED BY <2>1, ListsStep, PassStep DEF IInv
<1> QED BY <1>1, InitSound, PTL DEF Spec

\* A pass calls in the order of registration what was registered when it began,
\* nobody twice, and whoever registers meanwhile after them, one at most for
\* each that handlers have removed: whatever handlers register, remove and
\* clear, and whichever of them fail.
THEOREM CallsInOrderAlways == Spec => []CallsInOrder
<1>1. IInv => CallsInOrder
  <2> SUFFICES ASSUME IInv, phase \in Kind
               PROVE  /\ \A m, n \in DOMAIN log.called :
                            m < n /\ log.called[n] # 0 => log.called[m] \in 1 .. log.called[n] - 1
                      /\ Cardinality({n \in DOMAIN log.called : log.called[n] = 0}) <= log.removed
    BY DEF IInv, CallsInOrder
  <2>1. PICK called, r : called = log.called /\ r = log.removed
    OBVIOUS
  <2>2. called \in Seq(Nat) /\ r \in Nat
    BY <2>1, InPass
  <2>3. InOrder(called, log.left, Come, r)
    BY <2>1 DEF IInv, PassSound
  <2>4. PICK z \in 0 .. Len(called) :
          /\ \A m \in 1 .. Len(called) : called[m] = 0 <=> z < m
          /\ Len(called) - z <= r
          /\ \A a, b \in 1 .. z : a < b => called[a] < called[b]
    BY <2>3 DEF InOrder
  <2>5. DOMAIN called = 1 .. Len(called) /\ Len(called) \in Nat /\ z \in Nat
    BY <2>2
  <2>6. ASSUME NEW m \in 1 .. Len(called), NEW n \in 1 .. Len(called), m < n, called[n] # 0
        PROVE  called[m] \in 1 .. called[n] - 1
    <3>1. m \in 1 .. z /\ n \in 1 .. z
      BY <2>4, <2>5, <2>6
    <3>2. called[m] < called[n] /\ called[m] # 0
      BY <2>4, <2>5, <2>6, <3>1
    <3>3. called[m] \in Nat /\ called[n] \in Nat
      BY <2>2, EntryType
    <3> QED BY <3>2, <3>3
  <2>7. {n \in DOMAIN called : called[n] = 0} = (z + 1) .. Len(called)
    BY <2>4, <2>5
  <2>8. Cardinality((z + 1) .. Len(called)) <= r
    <3>1. PICK a, b : a = z + 1 /\ b = Len(called)
      OBVIOUS
    <3>2. a \in Int /\ b \in Int
      BY <2>5, <3>1
    <3>3. Cardinality(a .. b) = IF a > b THEN 0 ELSE b - a + 1
      BY <3>2, FS_Interval
    <3>4. (IF a > b THEN 0 ELSE b - a + 1) <= r
      BY <2>2, <2>4, <2>5, <3>1
    <3> QED BY <3>1, <3>3, <3>4
  <2> QED BY <2>1, <2>5, <2>6, <2>7, <2>8
<1> QED BY <1>1, InvariantAlways, PTL

\* A pass that ends has called everyone that was registered when it began and
\* has stayed so, except those behind one that went while the loop was at it or
\* past it: behind one that failed, or that a handler removed.  Without such a
\* removal the one left out stands right behind one that failed.
THEOREM SkipsOnlyAfterLossAlways == Spec => SkipsOnlyAfterLoss
<1> DEFINE Complete == \A p \in ToSet(log.left) :
                          \/ p \in ToSet(log.called)
                          \/ \E q \in log.lost : IF log.removed = 0 THEN q = p - 1 ELSE q < p
<1>1. IInv /\ EndPass => Complete
  <2> SUFFICES ASSUME IInv, EndPass, NEW p \in ToSet(log.left)
               PROVE  p \in ToSet(log.called) \/ Cause(p, log.lost, log.removed)
    BY DEF Cause
  <2>1. phase \in Kind /\ cur = Null /\ i > max
    BY DEF EndPass
  <2>2. PICK L : L = log.left
    OBVIOUS
  <2>3. /\ Len(L) <= max /\ Met(log.called, L, log.lost, Come, log.removed)
    BY <2>1, <2>2 DEF IInv, PassSound
  <2>4. L \in Seq(Nat) /\ i \in Nat /\ max \in Nat /\ Len(L) \in Nat
    BY <2>1, <2>2, InPass
  <2>5. PICK j \in 1 .. Len(L) : p = L[j]
    BY <2>2, <2>4 DEF ToSet
  <2>6. j <= Come
    BY <2>1, <2>3, <2>4 DEF Come
  <2> QED BY <2>3, <2>5, <2>6 DEF Met
<1>2. IInv /\ [Next]_vars => [EndPass /\ ~ freed => Complete]_vars
  BY <1>1
<1> QED BY <1>2, InvariantAlways, PTL DEF Spec, SkipsOnlyAfterLoss

\* The loop unregisters the handler whose call failed and no other, unless that
\* one, or one before it, was removed during the call; then it unregisters one
\* handler at most, the one that has come to stand where the failed one stood.
THEOREM DropsOnlyFailedAlways == Spec => DropsOnlyFailed
<1> DEFINE Drops == i' # i /\ phase \in Kind /\ ~ freed =>
                      \A k \in Kind : \/ Dropped(k) \subseteq {cur}
                                      \/ log.moved /\ Cardinality(Dropped(k)) = 1
<1>1. IInv /\ Next => Drops
  <2> SUFFICES ASSUME IInv, Next, i' # i, phase \in Kind, ~ freed, NEW k \in Kind
               PROVE  \/ Dropped(k) \subseteq {cur}
                      \/ log.moved /\ Cardinality(Dropped(k)) = 1
    OBVIOUS
  <2>1. list' = list => Dropped(k) = {}
    BY DEF Dropped
  <2>2. CASE CallNext \/ Return \/ EndPass
    BY <2>1, <2>2 DEF CallNext, Return, EndPass
  <2>3. CASE Fail
    <3>1. cur # Null
      BY <2>3 DEF Fail
    <3>2. /\ list[phase] \in Seq(Handler) /\ IsInjective(list[phase]) /\ i \in Nat \ {0}
          /\ list \in [Kind -> Seq(Handler)]
      BY InPass DEF IInv, TypeOK
    <3>3. ~ log.moved => cur = list[phase][i]
      BY <3>1 DEF IInv, PassSound
    <3>4. CASE i <= Len(list[phase]) /\ k = phase
      <4>1. i \in DOMAIN list[phase]
        BY <3>2, <3>4
      <4>2. list'[phase] = RemoveAt(list[phase], i)
        BY <2>3, <3>2, <3>4 DEF Fail
      <4>3. /\ ToSet(list[phase]) \ {list[phase][i]} \subseteq ToSet(RemoveAt(list[phase], i))
            /\ list[phase][i] \notin ToSet(RemoveAt(list[phase], i))
        BY <3>2, <4>1, RemoveAtElements
      <4>4. list[phase][i] \in ToSet(list[phase])
        BY <4>1 DEF ToSet
      <4>5. Dropped(k) = {list[phase][i]}
        BY <3>4, <4>2, <4>3, <4>4 DEF Dropped
      <4>6. Cardinality(Dropped(k)) = 1
        BY <4>5, FS_Singleton
      <4>7. log.moved \/ ~ log.moved
        OBVIOUS
      <4> QED BY <3>3, <4>5, <4>6, <4>7
    <3>5. CASE ~ (i <= Len(list[phase]) /\ k = phase)
      <4>1. list'[k] = list[k]
        BY <2>3, <3>2, <3>5 DEF Fail
      <4> QED BY <4>1 DEF Dropped
    <3> QED BY <3>4, <3>5
  <2>4. i' = i \/ phase \notin Kind \/ freed \/ CallNext \/ Return \/ Fail \/ EndPass
    BY DEF Next, BeginPass, Done, AddHandler, RemoveHandler, ClearHandlers, UseFreed, Kind
  <2> QED BY <2>2, <2>3, <2>4
<1>2. IInv /\ [Next]_vars => [Drops]_vars
  BY <1>1
<1> QED BY <1>2, InvariantAlways, PTL DEF Spec, DropsOnlyFailed
=============================================================================
