--------------------------- MODULE SqListOps_proofs --------------------------
(***************************************************************************)
(* What the operations on lists leave in a list: which elements, and each  *)
(* of them once if it was there once.                                      *)
(***************************************************************************)
EXTENDS SqListOps, WellFoundedInduction, TLAPS

-----------------------------------------------------------------------------
\* Induction over the naturals for a set, from the well-foundedness of <.
LEMMA SetInduction ==
  ASSUME NEW A, 0 \in A, \A n \in Nat : n \in A => n + 1 \in A
  PROVE  Nat \subseteq A
<1> DEFINE T == Nat \ A
<1>1. SUFFICES ASSUME T # {} PROVE FALSE
  OBVIOUS
<1> HIDE DEF T
<1>2. T \subseteq Nat
  BY DEF T
<1>3. PICK x \in T : \A y \in T : ~ (<<y, x>> \in OpToRel(<,Nat))
  BY <1>1, <1>2, NatLessThanWellFounded, WFMin
<1>4. x \in Nat /\ x # 0
  BY <1>2 DEF T
<1>5. x - 1 \in Nat /\ x - 1 < x
  BY <1>4
<1>6. <<x - 1, x>> \in OpToRel(<,Nat)
  BY <1>4, <1>5 DEF OpToRel
<1>7. x - 1 \in A
  BY <1>3, <1>5, <1>6 DEF T
<1>8. x \in A
  BY <1>4, <1>5, <1>7
<1> QED BY <1>3, <1>8 DEF T

LEMMA SmallestExists ==
  ASSUME NEW T \in SUBSET Nat, T # {}
  PROVE  \E i \in T : \A j \in T : i <= j
<1>1. PICK x \in T : \A y \in T : ~ (<<y, x>> \in OpToRel(<,Nat))
  BY NatLessThanWellFounded, WFMin
<1>2. \A y \in T : ~ (y < x)
  BY <1>1 DEF OpToRel
<1> QED BY <1>2

-----------------------------------------------------------------------------
\* Without is defined by a recursive function on 0 .. Len(s).  KeptSpec says
\* that f is that function up to n.
KeptSpec(s, S, n, f) ==
    /\ f \in [0 .. n -> Seq(ToSet(s))]
    /\ f = [i \in 0 .. n |-> IF i = 0 THEN << >>
                             ELSE IF s[i] \in S THEN f[i - 1]
                             ELSE Append(f[i - 1], s[i])]

LEMMA KeptExists ==
  ASSUME NEW X, NEW s \in Seq(X), NEW S
  PROVE  \E f : KeptSpec(s, S, Len(s), f)
<1> DEFINE A == {n \in Nat : n <= Len(s) => \E f : KeptSpec(s, S, n, f)}
<1>1. 0 \in A
  <2> DEFINE f == [i \in 0 .. 0 |-> << >>]
  <2>1. KeptSpec(s, S, 0, f)
    BY DEF KeptSpec
  <2> QED BY <2>1
<1>2. ASSUME NEW n \in Nat, n \in A PROVE n + 1 \in A
  <2>1. SUFFICES ASSUME n + 1 <= Len(s) PROVE \E f : KeptSpec(s, S, n + 1, f)
    OBVIOUS
  <2>2. PICK f : KeptSpec(s, S, n, f)
    BY <1>2, <2>1
  <2> DEFINE last == IF s[n + 1] \in S THEN f[n] ELSE Append(f[n], s[n + 1])
             g == [i \in 0 .. (n + 1) |-> IF i = n + 1 THEN last ELSE f[i]]
  <2>3. f[n] \in Seq(ToSet(s))
    BY <2>2 DEF KeptSpec
  <2>4. s[n + 1] \in ToSet(s)
    BY <2>1 DEF ToSet
  <2>5. last \in Seq(ToSet(s))
    BY <2>3, <2>4
  <2>6. g \in [0 .. (n + 1) -> Seq(ToSet(s))]
    BY <2>2, <2>5 DEF KeptSpec
  <2>7. ASSUME NEW i \in 0 .. n PROVE g[i] = f[i]
    OBVIOUS
  <2>8. g[n + 1] = last
    OBVIOUS
  <2>9. g = [i \in 0 .. (n + 1) |-> g[i]]
    OBVIOUS
  <2> HIDE DEF g
  <2>10. ASSUME NEW i \in 0 .. (n + 1)
         PROVE g[i] = IF i = 0 THEN << >> ELSE IF s[i] \in S THEN g[i - 1]
                      ELSE Append(g[i - 1], s[i])
    <3>1. CASE i = n + 1
      BY <3>1, <2>7, <2>8
    <3>2. CASE i \in 0 .. n
      <4>1. i = 0 \/ i - 1 \in 0 .. n
        BY <3>2
      <4>2. f[i] = IF i = 0 THEN << >> ELSE IF s[i] \in S THEN f[i - 1]
                   ELSE Append(f[i - 1], s[i])
        BY <2>2, <3>2 DEF KeptSpec
      <4> QED BY <2>7, <3>2, <4>1, <4>2
    <3> QED BY <3>1, <3>2
  <2>11. KeptSpec(s, S, n + 1, g)
    BY <2>6, <2>9, <2>10 DEF KeptSpec
  <2> QED BY <2>11
<1>3. Nat \subseteq A
  BY <1>1, <1>2, SetInduction
<1> QED BY <1>3

LEMMA AppendElements ==
  ASSUME NEW X, NEW s \in Seq(X), NEW x \in X
  PROVE  /\ Append(s, x) \in Seq(X)
         /\ ToSet(Append(s, x)) = ToSet(s) \cup {x}
         /\ IsInjective(s) /\ x \notin ToSet(s) => IsInjective(Append(s, x))
<1> DEFINE n == Len(s)  a == Append(s, x)
<1>1. a \in Seq(X) /\ Len(a) = n + 1 /\ n \in Nat
  OBVIOUS
<1>2. \A i \in 1 .. n : a[i] = s[i]
  OBVIOUS
<1>3. a[n + 1] = x
  OBVIOUS
<1>4. DOMAIN a = 1 .. (n + 1) /\ DOMAIN s = 1 .. n
  BY <1>1
<1> HIDE DEF a, n
<1>5. ToSet(a) = ToSet(s) \cup {x}
  BY <1>1, <1>2, <1>3, <1>4 DEF ToSet
<1>6. ASSUME IsInjective(s), x \notin ToSet(s) PROVE IsInjective(a)
  <2> SUFFICES ASSUME NEW i \in 1 .. (n + 1), NEW j \in 1 .. (n + 1), a[i] = a[j]
               PROVE  i = j
    BY <1>4 DEF IsInjective
  <2>1. \A k \in 1 .. n : a[k] # x
    BY <1>2, <1>4, <1>6 DEF ToSet
  <2>2. CASE i \in 1 .. n /\ j \in 1 .. n
    BY <1>2, <1>4, <1>6, <2>2 DEF IsInjective
  <2>3. CASE ~ (i \in 1 .. n /\ j \in 1 .. n)
    BY <1>1, <1>3, <2>1, <2>3
  <2> QED BY <2>2, <2>3
<1> QED BY <1>1, <1>5, <1>6 DEF a

\* ObjectInfo::removeValue removes every occurrence and nothing else.
\* Without is the last of the sequences KeptSpec describes.
LEMMA WithoutKept ==
  ASSUME NEW X, NEW s \in Seq(X), NEW S
  PROVE  \E f : KeptSpec(s, S, Len(s), f) /\ Without(s, S) = f[Len(s)]
<1> DEFINE F(f) == [i \in 0 .. Len(s) |-> IF i = 0 THEN << >>
                                          ELSE IF s[i] \in S THEN f[i - 1]
                                          ELSE Append(f[i - 1], s[i])]
           kept == CHOOSE f : f = F(f)
<1>1. PICK f : KeptSpec(s, S, Len(s), f)
  BY KeptExists
<1>2. kept = F(kept)
  <2>1. f = F(f)
    BY <1>1 DEF KeptSpec
  <2> HIDE DEF F
  <2> QED BY <2>1
<1>3. Without(s, S) = kept[Len(s)]
  BY DEF Without
<1> HIDE DEF kept
<1>8. ASSUME NEW g, g = F(g), NEW i \in 1 .. Len(s)
      PROVE  g[i] = IF s[i] \in S THEN g[i - 1] ELSE Append(g[i - 1], s[i])
  <2>1. g[i] = F(g)[i]
    BY <1>8
  <2>2. i \in 0 .. Len(s) /\ i # 0
    OBVIOUS
  <2>3. F(g)[i] = IF s[i] \in S THEN g[i - 1] ELSE Append(g[i - 1], s[i])
    BY <2>2
  <2> QED BY <2>1, <2>3
<1>9. f = F(f)
  BY <1>1 DEF KeptSpec
<1>10. kept[0] = << >> /\ f[0] = << >>
  BY <1>2, <1>9
<1> HIDE DEF F
<1> DEFINE A == {n \in Nat : n <= Len(s) => kept[n] = f[n]}
<1>4. 0 \in A
  BY <1>10
<1>5. ASSUME NEW n \in Nat, n \in A PROVE n + 1 \in A
  <2>1. SUFFICES ASSUME n + 1 <= Len(s) PROVE kept[n + 1] = f[n + 1]
    OBVIOUS
  <2>2. kept[n] = f[n] /\ n + 1 \in 1 .. Len(s) /\ n + 1 - 1 = n
    BY <1>5, <2>1
  <2>3. kept[n + 1] = IF s[n + 1] \in S THEN kept[n] ELSE Append(kept[n], s[n + 1])
    BY <1>2, <1>8, <2>2
  <2>4. f[n + 1] = IF s[n + 1] \in S THEN f[n] ELSE Append(f[n], s[n + 1])
    BY <1>8, <1>9, <2>2
  <2> QED BY <2>2, <2>3, <2>4
<1>6. Nat \subseteq A
  <2> HIDE DEF A
  <2> QED BY <1>4, <1>5, SetInduction
<1>7. kept[Len(s)] = f[Len(s)]
  BY <1>6
<1> QED BY <1>1, <1>3, <1>7

LEMMA SameSequence ==
  ASSUME NEW X, NEW Y, NEW s \in Seq(X), NEW t \in Seq(Y), Len(s) = Len(t),
         \A i \in 1 .. Len(s) : s[i] = t[i]
  PROVE  s = t
<1>1. s = [i \in 1 .. Len(s) |-> s[i]] /\ t = [i \in 1 .. Len(t) |-> t[i]]
  OBVIOUS
<1> QED BY <1>1

\* KeptSpec, step by step.
LEMMA KeptAt ==
  ASSUME NEW s, NEW S, Len(s) \in Nat, NEW f, KeptSpec(s, S, Len(s), f)
  PROVE  /\ f \in [0 .. Len(s) -> Seq(ToSet(s))]
         /\ f[0] = << >>
         /\ \A i \in 1 .. Len(s) : f[i] = IF s[i] \in S THEN f[i - 1] ELSE Append(f[i - 1], s[i])
<1> DEFINE F(g) == [i \in 0 .. Len(s) |-> IF i = 0 THEN << >>
                                          ELSE IF s[i] \in S THEN g[i - 1]
                                          ELSE Append(g[i - 1], s[i])]
<1>1. f = F(f)
  BY DEF KeptSpec
<1>2. ASSUME NEW g, NEW i \in 0 .. Len(s)
      PROVE  F(g)[i] = IF i = 0 THEN << >>
                       ELSE IF s[i] \in S THEN g[i - 1] ELSE Append(g[i - 1], s[i])
  OBVIOUS
<1> HIDE DEF F
<1>3. \A i \in 0 .. Len(s) : f[i] = IF i = 0 THEN << >>
                       ELSE IF s[i] \in S THEN f[i - 1] ELSE Append(f[i - 1], s[i])
  BY <1>1, <1>2
<1>4. f \in [0 .. Len(s) -> Seq(ToSet(s))]
  BY DEF KeptSpec
<1>5. 0 \in 0 .. Len(s) /\ \A i \in 1 .. Len(s) : i \in 0 .. Len(s) /\ i # 0
  OBVIOUS
<1>6. f[0] = << >>
  BY <1>3, <1>5
<1>7. \A i \in 1 .. Len(s) : f[i] = IF s[i] \in S THEN f[i - 1] ELSE Append(f[i - 1], s[i])
  BY <1>3, <1>5
<1> QED BY <1>4, <1>6, <1>7

LEMMA WithoutElements ==
  ASSUME NEW X, NEW s \in Seq(X), NEW S
  PROVE  /\ Without(s, S) \in Seq(X)
         /\ ToSet(Without(s, S)) = ToSet(s) \ S
         /\ IsInjective(s) => IsInjective(Without(s, S))
<1> DEFINE F(f) == [i \in 0 .. Len(s) |-> IF i = 0 THEN << >>
                                          ELSE IF s[i] \in S THEN f[i - 1]
                                          ELSE Append(f[i - 1], s[i])]
           kept == CHOOSE f : f = F(f)
<1>1. kept = F(kept)
  <2>1. PICK f : KeptSpec(s, S, Len(s), f)
    BY KeptExists
  <2>2. f = F(f)
    BY <2>1 DEF KeptSpec
  <2> HIDE DEF F
  <2> QED BY <2>2
<1>2. Without(s, S) = kept[Len(s)]
  BY DEF Without
<1> HIDE DEF kept
<1> DEFINE Seen(n) == {s[i] : i \in 1 .. n}
           Good(n) == /\ kept[n] \in Seq(X) /\ ToSet(kept[n]) = Seen(n) \ S
                      /\ IsInjective(s) => IsInjective(kept[n])
           A == {n \in Nat : n <= Len(s) => Good(n)}
<1>3. 0 \in A
  <2>1. kept[0] = << >>
    BY <1>1
  <2>2. Seen(0) = {} /\ ToSet(<< >>) = {} /\ << >> \in Seq(X) /\ IsInjective(<< >>)
    BY DEF ToSet, IsInjective
  <2> QED BY <2>1, <2>2
<1>4. ASSUME NEW n \in Nat, n \in A PROVE n + 1 \in A
  <2>1. SUFFICES ASSUME n + 1 <= Len(s)
                 PROVE Good(n + 1)
    OBVIOUS
  <2>2. /\ kept[n] \in Seq(X) /\ ToSet(kept[n]) = Seen(n) \ S
        /\ IsInjective(s) => IsInjective(kept[n])
    BY <1>4, <2>1
  <2>3. Seen(n + 1) = Seen(n) \cup {s[n + 1]}
    OBVIOUS
  <2>4. kept[n + 1] = IF s[n + 1] \in S THEN kept[n] ELSE Append(kept[n], s[n + 1])
    <3>1. n + 1 \in 0 .. Len(s) /\ n + 1 # 0 /\ (n + 1) - 1 = n
      BY <2>1
    <3>2. F(kept)[n + 1] = IF s[n + 1] \in S THEN kept[(n + 1) - 1]
                           ELSE Append(kept[(n + 1) - 1], s[n + 1])
      BY <3>1
    <3> HIDE DEF F
    <3> QED BY <1>1, <3>1, <3>2
  <2>5. s[n + 1] \in X
    BY <2>1
  <2>5a. IsInjective(s) => s[n + 1] \notin Seen(n)
    BY <2>1 DEF IsInjective
  <2> HIDE DEF Seen
  <2>6. CASE s[n + 1] \in S
    BY <2>2, <2>3, <2>4, <2>6
  <2>7. CASE s[n + 1] \notin S
    <3>1. /\ Append(kept[n], s[n + 1]) \in Seq(X)
          /\ ToSet(Append(kept[n], s[n + 1])) = ToSet(kept[n]) \cup {s[n + 1]}
          /\ IsInjective(kept[n]) /\ s[n + 1] \notin ToSet(kept[n])
               => IsInjective(Append(kept[n], s[n + 1]))
      BY <2>2, <2>5, AppendElements
    <3> QED BY <2>2, <2>3, <2>4, <2>5a, <2>7, <3>1
  <2> QED BY <2>6, <2>7
<1>5. Nat \subseteq A
  BY <1>3, <1>4, SetInduction
<1>6. Good(Len(s))
  <2>1. Len(s) \in Nat /\ Len(s) <= Len(s)
    OBVIOUS
  <2> HIDE DEF Good
  <2> QED BY <1>5, <2>1
<1>7. ToSet(s) = Seen(Len(s))
  BY DEF ToSet
<1> QED BY <1>2, <1>6, <1>7

LEMMA RemoveAtElements ==
  ASSUME NEW X, NEW s \in Seq(X), NEW k \in DOMAIN s
  PROVE  /\ RemoveAt(s, k) \in Seq(X)
         /\ ToSet(s) \ {s[k]} \subseteq ToSet(RemoveAt(s, k))
         /\ ToSet(RemoveAt(s, k)) \subseteq ToSet(s)
         /\ Len(RemoveAt(s, k)) = Len(s) - 1
         /\ \A i \in 1 .. (Len(s) - 1) : RemoveAt(s, k)[i] = IF i < k THEN s[i] ELSE s[i + 1]
         /\ IsInjective(s) => IsInjective(RemoveAt(s, k)) /\ s[k] \notin ToSet(RemoveAt(s, k))
<1> DEFINE n == Len(s)
           r == RemoveAt(s, k)
<1>1. n \in Nat /\ k \in 1 .. n /\ DOMAIN s = 1 .. n
  OBVIOUS
<1>2. r \in Seq(X) /\ Len(r) = n - 1
  BY <1>1, SMTT(30) DEF RemoveAt
<1>3. \A i \in 1 .. (n - 1) : r[i] = IF i < k THEN s[i] ELSE s[i + 1]
  <2> DEFINE a == SubSeq(s, 1, k - 1)
             b == SubSeq(s, k + 1, n)
  <2>1. a \in Seq(X) /\ Len(a) = k - 1 /\ \A i \in 1 .. (k - 1) : a[i] = s[i]
    BY <1>1, SMTT(30)
  <2>2. b \in Seq(X) /\ Len(b) = n - k /\ \A i \in 1 .. (n - k) : b[i] = s[k + i]
    BY <1>1, SMTT(30)
  <2>3. r = a \o b
    BY DEF RemoveAt
  <2> HIDE DEF a, b, r, n
  <2> TAKE i \in 1 .. (n - 1)
  <2>4. CASE i < k
    <3>1. r[i] = a[i]
      BY <1>1, <2>1, <2>2, <2>3, <2>4
    <3> QED BY <1>1, <2>1, <2>4, <3>1
  <2>5. CASE ~ (i < k)
    <3>1. i - (k - 1) \in 1 .. (n - k) /\ k + (i - (k - 1)) = i + 1
      BY <1>1, <2>5
    <3>2. i \in (Len(a) + 1) .. (Len(a) + Len(b)) /\ i - Len(a) = i - (k - 1)
      BY <1>1, <2>1, <2>2, <2>5
    <3>3. \A j \in (Len(a) + 1) .. (Len(a) + Len(b)) : (a \o b)[j] = b[j - Len(a)]
      BY <2>1, <2>2
    <3>4. r[i] = b[i - (k - 1)]
      BY <2>3, <3>2, <3>3
    <3> QED BY <2>2, <2>5, <3>1, <3>4
  <2> QED BY <2>4, <2>5
<1>4. DOMAIN r = 1 .. (n - 1)
  BY <1>1, <1>2
<1> HIDE DEF r, n
<1>5. ToSet(r) \subseteq ToSet(s)
  <2> SUFFICES ASSUME NEW i \in 1 .. (n - 1) PROVE r[i] \in ToSet(s)
    BY <1>4 DEF ToSet
  <2>1. i \in 1 .. n /\ i + 1 \in 1 .. n
    BY <1>1
  <2> QED BY <1>1, <1>3, <2>1 DEF ToSet
<1>6. ToSet(s) \ {s[k]} \subseteq ToSet(r)
  <2> SUFFICES ASSUME NEW j \in 1 .. n, s[j] # s[k] PROVE s[j] \in ToSet(r)
    BY <1>1 DEF ToSet
  <2>1. CASE j < k
    <3>1. j \in 1 .. (n - 1)
      BY <1>1, <2>1
    <3>2. r[j] = s[j]
      BY <1>3, <2>1, <3>1
    <3> QED BY <1>4, <3>1, <3>2 DEF ToSet
  <2>2. CASE k < j
    <3>1. j - 1 \in 1 .. (n - 1) /\ ~ (j - 1 < k) /\ (j - 1) + 1 = j
      BY <1>1, <2>2
    <3>2. r[j - 1] = s[j]
      BY <1>3, <3>1
    <3> QED BY <1>4, <3>1, <3>2 DEF ToSet
  <2>3. j < k \/ k < j
    BY <1>1
  <2> QED BY <2>1, <2>2, <2>3
<1>7. ASSUME IsInjective(s) PROVE IsInjective(r) /\ s[k] \notin ToSet(r)
  <2> DEFINE at(i) == IF i < k THEN i ELSE i + 1
  <2>1. \A i \in 1 .. (n - 1) : at(i) \in 1 .. n /\ at(i) # k /\ r[i] = s[at(i)]
    BY <1>1, <1>3
  <2>2. \A i, j \in 1 .. (n - 1) : at(i) = at(j) => i = j
    BY <1>1
  <2> HIDE DEF at
  <2> QED BY <1>1, <1>4, <1>7, <2>1, <2>2 DEF IsInjective, ToSet
<1> QED BY <1>2, <1>3, <1>5, <1>6, <1>7 DEF r, n

LEMMA RepeatElements ==
  ASSUME NEW X, NEW s \in Seq(X), NEW x \in X, NEW m \in Nat \ {0}
  PROVE  /\ s \o [i \in 1 .. m |-> x] \in Seq(X)
         /\ ToSet(s \o [i \in 1 .. m |-> x]) = ToSet(s) \cup {x}
<1> DEFINE n == Len(s)
           e == [i \in 1 .. m |-> x]
           r == s \o e
<1>1. n \in Nat /\ DOMAIN s = 1 .. n
  OBVIOUS
<1>2. e \in Seq(X) /\ Len(e) = m
  OBVIOUS
<1>3. r \in Seq(X) /\ Len(r) = n + m /\ DOMAIN r = 1 .. (n + m)
  BY <1>2
<1>4. \A i \in 1 .. (n + m) : r[i] = IF i <= n THEN s[i] ELSE x
  BY <1>1, <1>2
<1> HIDE DEF r, n
<1>5. ToSet(r) \subseteq ToSet(s) \cup {x}
  BY <1>1, <1>3, <1>4 DEF ToSet
<1>6. ToSet(s) \subseteq ToSet(r)
  <2> SUFFICES ASSUME NEW i \in 1 .. n PROVE s[i] \in ToSet(r)
    BY <1>1 DEF ToSet
  <2>1. i \in 1 .. (n + m) /\ i <= n
    BY <1>1
  <2> QED BY <1>3, <1>4, <2>1 DEF ToSet
<1>7. x \in ToSet(r)
  <2>1. n + 1 \in 1 .. (n + m) /\ ~ (n + 1 <= n)
    BY <1>1
  <2> QED BY <1>3, <1>4, <2>1 DEF ToSet
<1> QED BY <1>3, <1>5, <1>6, <1>7 DEF r

LEMMA TailElements ==
  ASSUME NEW X, NEW s \in Seq(X), s # << >>
  PROVE  /\ ToSet(s) = {Head(s)} \cup ToSet(Tail(s))
         /\ Head(s) \in X /\ Tail(s) \in Seq(X)
<1>1. Len(s) \in Nat \ {0} /\ DOMAIN s = 1 .. Len(s) /\ Head(s) = s[1]
  OBVIOUS
<1>2. Tail(s) \in Seq(X) /\ DOMAIN Tail(s) = 1 .. (Len(s) - 1)
  OBVIOUS
<1>3. \A i \in 1 .. (Len(s) - 1) : Tail(s)[i] = s[i + 1]
  OBVIOUS
<1>4. ToSet(s) \subseteq {Head(s)} \cup ToSet(Tail(s))
  <2> SUFFICES ASSUME NEW i \in 1 .. Len(s), i # 1 PROVE s[i] \in ToSet(Tail(s))
    BY <1>1 DEF ToSet
  <2>1. i - 1 \in 1 .. (Len(s) - 1) /\ (i - 1) + 1 = i
    BY <1>1
  <2> QED BY <1>2, <1>3, <2>1 DEF ToSet
<1>5. {Head(s)} \cup ToSet(Tail(s)) \subseteq ToSet(s)
  <2>1. \A i \in 1 .. (Len(s) - 1) : i + 1 \in 1 .. Len(s)
    BY <1>1
  <2>2. 1 \in 1 .. Len(s)
    BY <1>1
  <2> QED BY <1>1, <1>2, <1>3, <2>1, <2>2 DEF ToSet
<1> QED BY <1>1, <1>2, <1>4, <1>5

LEMMA FrontElements ==
  ASSUME NEW X, NEW s \in Seq(X), s # << >>
  PROVE  /\ Front(s) \in Seq(X) /\ Last(s) \in X
         /\ ToSet(s) = ToSet(Front(s)) \cup {Last(s)}
         /\ IsInjective(s) => IsInjective(Front(s)) /\ Last(s) \notin ToSet(Front(s))
<1> DEFINE n == Len(s)  f == Front(s)
<1>1. n \in Nat \ {0} /\ DOMAIN s = 1 .. n /\ Last(s) = s[n]
  BY DEF Last
<1>2. f \in Seq(X) /\ Len(f) = n - 1 /\ DOMAIN f = 1 .. (n - 1)
  <2>1. n - 1 \in Nat /\ n - 1 <= n
    BY <1>1
  <2>2. f = SubSeq(s, 1, n - 1)
    BY DEF Front
  <2> HIDE DEF f, n
  <2> QED BY <1>1, <2>1, <2>2 DEF n
<1>3. \A i \in 1 .. (n - 1) : f[i] = s[i]
  BY DEF Front
<1> HIDE DEF n, f
<1>4. ToSet(s) = ToSet(f) \cup {s[n]}
  <2>1. 1 .. n = (1 .. (n - 1)) \cup {n}
    BY <1>1
  <2> QED BY <1>1, <1>2, <1>3, <2>1 DEF ToSet
<1>5. IsInjective(s) => IsInjective(f) /\ s[n] \notin ToSet(f)
  BY <1>1, <1>2, <1>3 DEF IsInjective, ToSet
<1>6. s[n] \in X
  BY <1>1
<1> QED BY <1>1, <1>2, <1>4, <1>5, <1>6 DEF f
-----------------------------------------------------------------------------
\* What is not there cannot be removed.
LEMMA WithoutNothing ==
  ASSUME NEW X, NEW s \in Seq(X), NEW S, ToSet(s) \cap S = {}
  PROVE  Without(s, S) = s
<1>1. PICK f : KeptSpec(s, S, Len(s), f) /\ Without(s, S) = f[Len(s)]
  BY WithoutKept
<1>2. /\ f \in [0 .. Len(s) -> Seq(ToSet(s))]
      /\ f[0] = << >>
      /\ \A i \in 1 .. Len(s) : f[i] = IF s[i] \in S THEN f[i - 1] ELSE Append(f[i - 1], s[i])
  BY <1>1, KeptAt
<1>3. \A i \in 1 .. Len(s) : s[i] \in ToSet(s) /\ s[i] \notin S
  BY DEF ToSet
<1> DEFINE Same(n) == Len(f[n]) = n /\ \A i \in 1 .. n : f[n][i] = s[i]
           A == {n \in Nat : n <= Len(s) => Same(n)}
<1>4. 0 \in A
  BY <1>2
<1>5. ASSUME NEW n \in Nat, n \in A PROVE n + 1 \in A
  <2>1. SUFFICES ASSUME n + 1 <= Len(s) PROVE Same(n + 1)
    OBVIOUS
  <2>2. Same(n) /\ n + 1 \in 1 .. Len(s) /\ (n + 1) - 1 = n /\ f[n] \in Seq(ToSet(s))
    BY <1>2, <1>5, <2>1
  <2>3. f[n + 1] = Append(f[n], s[n + 1])
    BY <1>2, <1>3, <2>2
  <2>4. ASSUME NEW t \in Seq(ToSet(s)), NEW x \in ToSet(s), Len(t) = n
        PROVE  /\ Len(Append(t, x)) = n + 1 /\ Append(t, x)[n + 1] = x
               /\ \A i \in 1 .. n : Append(t, x)[i] = t[i]
    BY <2>4
  <2> QED BY <1>3, <2>2, <2>3, <2>4
<1>6. Same(Len(s))
  <2>1. Len(s) \in Nat /\ Len(s) <= Len(s)
    OBVIOUS
  <2>2. Nat \subseteq A
    <3> HIDE DEF A
    <3> QED BY <1>4, <1>5, SetInduction
  <2> QED BY <2>1, <2>2
<1>7. f[Len(s)] \in Seq(ToSet(s))
  BY <1>2
<1> QED BY <1>1, <1>6, <1>7, SameSequence

\* Removing a value that is there once is removing it by its position.
LEMMA WithoutOne ==
  ASSUME NEW X, NEW s \in Seq(X), IsInjective(s), NEW p \in DOMAIN s
  PROVE  Without(s, {s[p]}) = RemoveAt(s, p)
<1>0. PICK S : S = {s[p]}
  OBVIOUS
<1>l. Len(s) \in Nat
  OBVIOUS
<1>1. PICK f : KeptSpec(s, S, Len(s), f) /\ Without(s, S) = f[Len(s)]
  BY WithoutKept
<1>2. /\ f \in [0 .. Len(s) -> Seq(ToSet(s))]
      /\ f[0] = << >>
      /\ \A i \in 1 .. Len(s) : f[i] = IF s[i] \in S THEN f[i - 1] ELSE Append(f[i - 1], s[i])
  <2>1. KeptSpec(s, S, Len(s), f)
    BY <1>1
  <2> QED BY <1>l, <2>1, KeptAt, SMTT(30)
<1>3. \A i \in 1 .. Len(s) : s[i] \in ToSet(s) /\ (s[i] \in S <=> i = p)
  BY <1>0 DEF ToSet, IsInjective
<1>p. p \in 1 .. Len(s) /\ Len(s) \in Nat
  OBVIOUS
<1> DEFINE Kept(n) == /\ Len(f[n]) = IF n < p THEN n ELSE n - 1
                      /\ \A i \in 1 .. Len(f[n]) : f[n][i] = IF i < p THEN s[i] ELSE s[i + 1]
           A == {n \in Nat : n <= Len(s) => Kept(n)}
<1>4. 0 \in A
  BY <1>2, <1>p
<1>5. ASSUME NEW n \in Nat, n \in A PROVE n + 1 \in A
  <2>1. SUFFICES ASSUME n + 1 <= Len(s) PROVE Kept(n + 1)
    OBVIOUS
  <2>2. Kept(n) /\ n + 1 \in 1 .. Len(s) /\ (n + 1) - 1 = n /\ f[n] \in Seq(ToSet(s))
    <3>1. n + 1 \in 1 .. Len(s) /\ (n + 1) - 1 = n /\ n \in 0 .. Len(s) /\ n <= Len(s)
      BY <1>p, <2>1
    <3>2. Kept(n)
      BY <1>5, <3>1
    <3> HIDE DEF Kept
    <3> QED BY <1>2, <3>1, <3>2
  <2>3. CASE n + 1 = p
    <3>1. f[n + 1] = f[n]
      BY <1>2, <1>3, <2>2, <2>3
    <3> QED BY <2>2, <2>3, <3>1
  <2>4. CASE n + 1 # p
    <3>1. f[n + 1] = Append(f[n], s[n + 1])
      BY <1>2, <1>3, <2>2, <2>4
    <3>2. ASSUME NEW t \in Seq(ToSet(s)), NEW x \in ToSet(s)
          PROVE  /\ Len(Append(t, x)) = Len(t) + 1 /\ Append(t, x)[Len(t) + 1] = x
                 /\ \A i \in 1 .. Len(t) : Append(t, x)[i] = t[i]
      BY <3>2
    <3>3. /\ Len(f[n + 1]) = Len(f[n]) + 1 /\ f[n + 1][Len(f[n]) + 1] = s[n + 1]
          /\ \A i \in 1 .. Len(f[n]) : f[n + 1][i] = f[n][i]
      BY <1>3, <2>2, <3>1, <3>2
    <3>4. CASE n < p
      BY <1>p, <2>2, <2>4, <3>3, <3>4
    <3>5. CASE ~ (n < p)
      BY <1>p, <2>2, <2>4, <3>3, <3>5
    <3> QED BY <3>4, <3>5
  <2> QED BY <2>3, <2>4
<1>6. Kept(Len(s))
  <2>1. Len(s) \in Nat /\ Len(s) <= Len(s)
    OBVIOUS
  <2>2. Nat \subseteq A
    <3> HIDE DEF A
    <3> QED BY <1>4, <1>5, SetInduction
  <2> QED BY <2>1, <2>2
<1>7. f[Len(s)] \in Seq(ToSet(s))
  BY <1>2
<1>8. /\ RemoveAt(s, p) \in Seq(X) /\ Len(RemoveAt(s, p)) = Len(s) - 1
      /\ \A i \in 1 .. (Len(s) - 1) : RemoveAt(s, p)[i] = IF i < p THEN s[i] ELSE s[i + 1]
  BY RemoveAtElements
<1>9. Len(f[Len(s)]) = Len(s) - 1
  BY <1>6, <1>p
<1>10. \A i \in 1 .. (Len(s) - 1) : f[Len(s)][i] = IF i < p THEN s[i] ELSE s[i + 1]
  BY <1>6, <1>9
<1>11. f[Len(s)] = RemoveAt(s, p)
  <2> DEFINE t == f[Len(s)]  r == RemoveAt(s, p)
  <2>1. t \in Seq(ToSet(s)) /\ r \in Seq(X) /\ Len(t) = Len(r)
    BY <1>7, <1>8, <1>9
  <2>2. \A i \in 1 .. Len(t) : t[i] = r[i]
    BY <1>8, <1>9, <1>10
  <2> HIDE DEF t, r
  <2>3. t = r
    BY <2>1, <2>2, SameSequence
  <2> QED BY <2>3 DEF t, r
<1> QED BY <1>0, <1>1, <1>11
=============================================================================
