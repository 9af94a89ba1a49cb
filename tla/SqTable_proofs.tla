--------------------------- MODULE SqTable_proofs ----------------------------
(***************************************************************************)
(* The nodes of a table are in order after every call, whatever the keys,  *)
(* their hashes and the sizes are; so a table is a function from keys to   *)
(* values, and a loop over it meets every slot that stays exactly once.    *)
(***************************************************************************)
EXTENDS SqTable, FiniteSetTheorems, TLAPS

Lists == INSTANCE SqListOps_proofs

-----------------------------------------------------------------------------
(* Sizes: the powers of two from MINPOWER2 on.                             *)

Power(n) == \E e \in Nat : n = MINPOWER2 * 2 ^ e

\* Shifting a power of two to the left doubles it: a set with one element
\* more has twice as many subsets.
LEMMA Doubles == ASSUME NEW e \in Nat PROVE 2 ^ (e + 1) = 2 * 2 ^ e
<1> DEFINE S == 1 .. e
           x == e + 1
           With == {T \cup {x} : T \in SUBSET S}
           add == [T \in SUBSET S |-> T \cup {x}]
<1>1. IsFiniteSet(S) /\ Cardinality(S) = e /\ x \notin S
  BY FS_Interval
<1>2. IsFiniteSet(S \cup {x}) /\ Cardinality(S \cup {x}) = e + 1
  BY <1>1, FS_AddElement
<1> HIDE DEF S, x
<1>3. IsFiniteSet(SUBSET S) /\ Cardinality(SUBSET S) = 2 ^ e
  BY <1>1, FS_SUBSET
<1>4. Cardinality(SUBSET (S \cup {x})) = 2 ^ (e + 1)
  BY <1>2, FS_SUBSET
<1>5. add \in Bijection(SUBSET S, With)
  <2>1. add \in [SUBSET S -> With]
    OBVIOUS
  <2>2. ASSUME NEW T \in SUBSET S, NEW U \in SUBSET S, add[T] = add[U] PROVE T = U
    <3>1. x \notin T /\ x \notin U
      BY <1>1
    <3>2. T \cup {x} = U \cup {x}
      BY <2>2
    <3> QED BY <3>1, <3>2
  <2>3. \A y \in With : \E T \in SUBSET S : add[T] = y
    OBVIOUS
  <2> HIDE DEF add, With
  <2> QED BY <2>1, <2>2, <2>3 DEF Bijection, Injection, Surjection, IsInjective
<1>6. IsFiniteSet(With) /\ Cardinality(With) = 2 ^ e
  BY <1>3, <1>5, FS_Bijection DEF ExistsBijection
<1>7. SUBSET (S \cup {x}) = (SUBSET S) \cup With
  <2>1. ASSUME NEW T \in SUBSET (S \cup {x}), T \notin SUBSET S PROVE T \in With
    <3>1. T = (T \ {x}) \cup {x} /\ T \ {x} \in SUBSET S
      BY <2>1
    <3> QED BY <3>1
  <2> QED BY <2>1
<1>8. (SUBSET S) \cap With = {}
  BY <1>1
<1> DEFINE p == 2 ^ e
<1> HIDE DEF With, p
<1>9. Cardinality((SUBSET S) \cup With) = p + p - 0
  <2>1. Cardinality((SUBSET S) \cap With) = 0
    BY <1>8, FS_EmptySet
  <2> QED BY <1>3, <1>6, <2>1, FS_Union DEF p
<1>10. p \in Nat
  BY <1>3, FS_CardinalityType DEF p
<1>11. 2 ^ (e + 1) = p + p
  <2>1. Cardinality(SUBSET (S \cup {x})) = Cardinality((SUBSET S) \cup With)
    BY <1>7, Zenon
  <2>2. p + p - 0 = p + p
    BY <1>10
  <2> QED BY <1>4, <1>9, <2>1, <2>2
<1>12. p + p = 2 * p
  BY <1>10
<1>13. 2 ^ (e + 1) = 2 * p
  BY <1>11, <1>12
<1> QED BY <1>13, Zenon DEF p

LEMMA Grows == \A e \in Nat : 2 ^ e \in Nat /\ e < 2 ^ e
<1> DEFINE A == {e \in Nat : 2 ^ e \in Nat /\ e < 2 ^ e}
<1>1. 0 \in A
  OBVIOUS
<1>2. ASSUME NEW e \in Nat, e \in A PROVE e + 1 \in A
  BY <1>2, Doubles
<1>3. Nat \subseteq A
  <2> HIDE DEF A
  <2> QED BY <1>1, <1>2, Lists!SetInduction
<1> QED BY <1>3

LEMMA PowerType ==
  ASSUME NEW n, Power(n)
  PROVE  /\ n \in Nat /\ n >= 4 /\ n \div 4 >= 1
         /\ n > MINPOWER2 => n >= 8 /\ n % 4 = 0 /\ Power(n \div 2)
         /\ Power(n * 2)
         /\ \E e \in 0 .. n : n = MINPOWER2 * 2 ^ e
<1>1. PICK e \in Nat : n = 4 * 2 ^ e
  BY DEF Power, MINPOWER2
<1>2. 2 ^ e \in Nat /\ e < 2 ^ e
  BY Grows
<1> DEFINE p == 2 ^ e
<1>3. p \in Nat /\ e < p /\ n = 4 * p
  BY <1>1, <1>2
<1>4. 2 ^ (e + 1) = 2 * p
  BY Doubles
<1> HIDE DEF p
<1>5. n \in Nat /\ n >= 4 /\ n \div 4 >= 1 /\ e \in 0 .. n
  BY <1>3
<1>6. Power(n * 2)
  <2>1. n * 2 = 4 * (2 * p) /\ e + 1 \in Nat
    BY <1>3
  <2> QED BY <1>4, <2>1 DEF Power, MINPOWER2
<1>7. ASSUME n > 4 PROVE n >= 8 /\ n % 4 = 0 /\ Power(n \div 2)
  <2>1. e # 0
    <3>1. 2 ^ 0 = 1
      OBVIOUS
    <3>2. e = 0 => n = 4 * 2 ^ 0
      BY <1>1
    <3> QED BY <1>7, <3>1, <3>2
  <2>2. e - 1 \in Nat /\ (e - 1) + 1 = e
    BY <2>1
  <2>3. 2 ^ e = 2 * 2 ^ (e - 1)
    BY <2>2, Doubles
  <2> DEFINE h == 2 ^ (e - 1)
  <2>4. h \in Nat /\ p = 2 * h
    BY <2>2, <2>3, Grows DEF p
  <2> HIDE DEF h
  <2>5. n \div 2 = 4 * h /\ n = 8 * h /\ h >= 1
    BY <1>3, <2>4
  <2>6. Power(n \div 2)
    BY <2>2, <2>5 DEF Power, MINPOWER2, h
  <2> QED BY <2>4, <2>5, <2>6
<1> QED BY <1>1, <1>5, <1>6, <1>7 DEF MINPOWER2

\* The constructor finds a size.
LEMMA SizeFound ==
  ASSUME NEW n \in Nat
  PROVE  Power(PowerOfTwo(n)) /\ PowerOfTwo(n) >= n
<1> DEFINE T == {e \in Nat : 4 * 2 ^ e >= n}
           Fits(p) == p >= n /\ (p > MINPOWER2 => p \div 2 < n)
<1>1. T \in SUBSET Nat /\ n \in T
  <2>1. 2 ^ n \in Nat /\ n < 2 ^ n
    BY Grows
  <2> DEFINE p == 2 ^ n
  <2>2. p \in Nat /\ n < p
    BY <2>1
  <2> HIDE DEF p
  <2>3. 4 * p >= n
    BY <2>2
  <2> QED BY <2>3 DEF p
<1>2. PICK e \in T : \A d \in T : e <= d
  <2> HIDE DEF T
  <2> QED BY <1>1, Lists!SmallestExists
<1> DEFINE p == 4 * 2 ^ e
<1>3. e \in 0 .. n /\ p \in Nat /\ p >= n
  <2>1. e \in Nat /\ 2 ^ e \in Nat /\ e <= n
    BY <1>1, <1>2, Grows
  <2>2. p >= n
    BY <1>2
  <2> QED BY <2>1, <2>2
<1>4. p > 4 => p \div 2 < n
  <2> SUFFICES ASSUME p > 4 PROVE p \div 2 < n
    OBVIOUS
  <2>1. e # 0
    <3>1. 2 ^ 0 = 1
      OBVIOUS
    <3>2. e = 0 => p = 4 * 2 ^ 0
      OBVIOUS
    <3> HIDE DEF p
    <3> QED BY <3>1, <3>2
  <2>2. e - 1 \in Nat /\ (e - 1) + 1 = e /\ ~ (e <= e - 1)
    BY <1>3, <2>1
  <2>3. e - 1 \notin T
    BY <1>2, <2>2
  <2> DEFINE h == 2 ^ (e - 1)
  <2>4. h \in Nat /\ 2 ^ e = 2 * h
    BY <2>2, Doubles, Grows
  <2>5. ~ (4 * h >= n)
    BY <2>2, <2>3
  <2> HIDE DEF h
  <2>6. p \div 2 = 4 * h
    BY <2>4
  <2> QED BY <2>4, <2>5, <2>6
<1>5. p \in {MINPOWER2 * 2 ^ d : d \in 0 .. n} /\ Fits(p)
  BY <1>3, <1>4 DEF MINPOWER2
<1> DEFINE S == {MINPOWER2 * 2 ^ d : d \in 0 .. n}
<1>6. PowerOfTwo(n) = CHOOSE q \in S : Fits(q)
  BY DEF PowerOfTwo
<1>7. PowerOfTwo(n) \in S /\ Fits(PowerOfTwo(n))
  <2>1. \E q \in S : Fits(q)
    BY <1>5
  <2> HIDE DEF S, Fits
  <2> QED BY <1>6, <2>1, Zenon
<1> QED BY <1>7 DEF Power

-----------------------------------------------------------------------------
(* A loop over 0 .. n - 1 that starts from x and keeps its d-th result in  *)
(* X[d].                                                                   *)

LEMMA LoopStays ==
  ASSUME NEW n \in Nat, NEW X, NEW f, f[0] \in X[0],
         \A d \in 1 .. n : f[d - 1] \in X[d - 1] => f[d] \in X[d]
  PROVE  \A d \in 0 .. n : f[d] \in X[d]
<1> DEFINE A == {d \in Nat : d <= n => f[d] \in X[d]}
<1>1. 0 \in A
  OBVIOUS
<1>2. ASSUME NEW d \in Nat, d \in A PROVE d + 1 \in A
  <2>1. SUFFICES ASSUME d + 1 <= n PROVE f[d + 1] \in X[d + 1]
    OBVIOUS
  <2>2. f[d] \in X[d] /\ d + 1 \in 1 .. n /\ (d + 1) - 1 = d
    BY <1>2, <2>1
  <2> QED BY <2>2
<1>3. Nat \subseteq A
  <2> HIDE DEF A
  <2> QED BY <1>1, <1>2, Lists!SetInduction
<1> QED BY <1>3

LoopOf(n, x, G, f) == f = [d \in 0 .. n |-> IF d = 0 THEN x ELSE G[d][f[d - 1]]]

LEMMA LoopExists ==
  ASSUME NEW n \in Nat, NEW x, NEW G
  PROVE  \E f : LoopOf(n, x, G, f)
<1> DEFINE Is(m, f) == LoopOf(m, x, G, f)
           A == {m \in Nat : \E f : Is(m, f)}
<1>1. 0 \in A
  <2>1. Is(0, [d \in 0 .. 0 |-> x])
    BY DEF LoopOf
  <2> QED BY <2>1
<1>2. ASSUME NEW m \in Nat, m \in A PROVE m + 1 \in A
  <2>1. PICK f : Is(m, f)
    BY <1>2
  <2> DEFINE g == [d \in 0 .. (m + 1) |-> IF d = m + 1 THEN G[d][f[m]] ELSE f[d]]
  <2>2. \A d \in 0 .. m : f[d] = IF d = 0 THEN x ELSE G[d][f[d - 1]]
    BY <2>1 DEF LoopOf
  <2>3. \A d \in 0 .. m : g[d] = f[d]
    OBVIOUS
  <2>4. g[m + 1] = G[m + 1][f[m]]
    OBVIOUS
  <2>5. ASSUME NEW d \in 0 .. (m + 1) PROVE g[d] = IF d = 0 THEN x ELSE G[d][g[d - 1]]
    <3>1. CASE d = m + 1
      <4>1. d # 0 /\ d - 1 = m /\ m \in 0 .. m
        BY <3>1
      <4> HIDE DEF g
      <4> QED BY <2>3, <2>4, <3>1, <4>1
    <3>2. CASE d # m + 1
      <4>1. d \in 0 .. m /\ (d # 0 => d - 1 \in 0 .. m)
        BY <3>2
      <4> HIDE DEF g
      <4> QED BY <2>2, <2>3, <4>1
    <3> QED BY <3>1, <3>2
  <2>6. g = [d \in 0 .. (m + 1) |-> g[d]]
    OBVIOUS
  <2> HIDE DEF g
  <2>7. Is(m + 1, g)
    BY <2>5, <2>6 DEF LoopOf
  <2> QED BY <2>7
<1>3. Nat \subseteq A
  <2> HIDE DEF A
  <2> QED BY <1>1, <1>2, Lists!SetInduction
<1> QED BY <1>3

-----------------------------------------------------------------------------
(* Chains.  Reach(tb, i) is the least set that holds i and whatever follows *)
(* one of its nodes; the lemmas below are all the rest of the module uses.  *)

TableOf(n) ==
    [key : [Nodes(n) -> Key \cup {Null}], val : [Nodes(n) -> Value \cup {Null}],
     next : [Nodes(n) -> Nodes(n) \cup {None}], firstfree : Nodes(n), used : Nat]

Home(n, k) == Hash[k] % n

\* The nodes can be numbered so that the numbers rise along every chain.
Acyclic(tb, n) ==
    \E M \in Nat : \E r \in [Nodes(n) -> 0 .. M] :
        \A i \in Nodes(n) : tb.next[i] # None => r[i] < r[tb.next[i]]

LEMMA SizeIs ==
  ASSUME NEW n \in Nat, NEW tb \in TableOf(n)
  PROVE  Size(tb) = n /\ IsFiniteSet(Nodes(n)) /\ Cardinality(Nodes(n)) = n
<1>1. DOMAIN tb.key = 0 .. n - 1
  BY DEF TableOf, Nodes
<1>2. IsFiniteSet(0 .. n - 1) /\ Cardinality(0 .. n - 1) = n
  BY FS_Interval
<1> QED BY <1>1, <1>2 DEF Size, Nodes

LEMMA MainIs ==
  ASSUME NEW n \in Nat \ {0}, NEW tb \in TableOf(n)
  PROVE  /\ \A k \in Key : Main(tb, k) = Home(n, k) /\ Home(n, k) \in Nodes(n)
         /\ Main(tb, Null) = 0 /\ 0 \in Nodes(n)
<1>1. \A k \in Key : k # Null /\ Hash[k] \in Nat
  BY TableAssumption
<1>2. \A k \in Key : Hash[k] % n \in 0 .. n - 1
  BY <1>1
<1> QED BY <1>1, <1>2, SizeIs DEF Main, Home, Nodes

LEMMA ChainIs ==
  ASSUME NEW n \in Nat, NEW tb \in TableOf(n), NEW i \in Nodes(n) \cup {None},
         NEW c, c = Chain(tb, i)
  PROVE  /\ c[0] = i
         /\ \A d \in 1 .. n : c[d] = Follow(tb, c[d - 1])
         /\ \A d \in 0 .. n : c[d] \in Nodes(n) \cup {None}
<1> DEFINE D == Nodes(n) \cup {None}
           F(f) == [d \in 0 .. Size(tb) |-> IF d = 0 THEN i ELSE Follow(tb, f[d - 1])]
           G == [d \in 1 .. n |-> [x \in D |-> Follow(tb, x)]]
           X == [d \in 0 .. n |-> D]
<1>1. \A x \in D : Follow(tb, x) \in D
  BY DEF Follow, TableOf
<1>2. \A d \in 1 .. n : \A x \in X[d - 1] : G[d][x] = Follow(tb, x) /\ G[d][x] \in X[d]
  BY <1>1
<1>3. Chain(tb, i) = CHOOSE f : f = F(f)
  BY DEF Chain
<1>4. \E f : f = F(f)
  <2>1. PICK f : LoopOf(n, i, G, f)
    BY LoopExists
  <2>2. f[0] \in X[0] /\ \A d \in 1 .. n : f[d] = G[d][f[d - 1]]
    <3> HIDE DEF G
    <3> QED BY <2>1 DEF LoopOf
  <2>3. \A d \in 0 .. n : f[d] \in X[d]
    <3>1. \A d \in 1 .. n : f[d - 1] \in X[d - 1] => f[d] \in X[d]
      <4> HIDE DEF G, X
      <4> QED BY <1>2, <2>2
    <3> HIDE DEF G, X
    <3> QED BY <2>2, <3>1, LoopStays
  <2>4. \A d \in 0 .. n : d # 0 => G[d][f[d - 1]] = Follow(tb, f[d - 1])
    <3> TAKE d \in 0 .. n
    <3> HAVE d # 0
    <3>1. d \in 1 .. n /\ f[d - 1] \in X[d - 1]
      BY <2>3
    <3> HIDE DEF G, X
    <3> QED BY <1>2, <3>1
  <2>5. f = F(f)
    <3> HIDE DEF G, X
    <3> QED BY <2>1, <2>4, SizeIs DEF LoopOf
  <2> QED BY <2>5
<1>5. c = F(c)
  <2> HIDE DEF F
  <2> QED BY <1>3, <1>4
<1>6. c[0] = i /\ \A d \in 1 .. n : c[d] = Follow(tb, c[d - 1])
  BY <1>5, SizeIs
<1>7. c[0] \in X[0] /\ \A d \in 1 .. n : c[d - 1] \in X[d - 1] => c[d] \in X[d]
  BY <1>1, <1>6
<1>8. \A d \in 0 .. n : c[d] \in X[d]
  <2> HIDE DEF X
  <2> QED BY <1>7, LoopStays
<1> QED BY <1>6, <1>8

LEMMA ReachStarts ==
  ASSUME NEW n \in Nat, NEW tb \in TableOf(n), NEW i \in Nodes(n)
  PROVE  i \in Reach(tb, i) /\ Reach(tb, i) \subseteq Nodes(n)
<1> DEFINE c == Chain(tb, i)
<1>1. c[0] = i /\ \A d \in 0 .. n : c[d] \in Nodes(n) \cup {None}
  BY ChainIs
<1>2. Reach(tb, i) = {c[d] : d \in 0 .. n} \ {None} /\ i # None
  BY SizeIs DEF Reach, Nodes, None
<1> QED BY <1>1, <1>2

LEMMA ReachLeast ==
  ASSUME NEW n \in Nat, NEW tb \in TableOf(n), NEW i \in Nodes(n),
         NEW S, i \in S,
         \A x \in S \cap Nodes(n) : tb.next[x] # None => tb.next[x] \in S
  PROVE  Reach(tb, i) \subseteq S
<1> DEFINE c == Chain(tb, i)
           A == {d \in Nat : d <= n => c[d] \in S \cup {None}}
<1>1. /\ c[0] = i /\ \A d \in 1 .. n : c[d] = Follow(tb, c[d - 1])
      /\ \A d \in 0 .. n : c[d] \in Nodes(n) \cup {None}
  BY ChainIs
<1> HIDE DEF c
<1>2. 0 \in A
  BY <1>1
<1>3. ASSUME NEW d \in Nat, d \in A PROVE d + 1 \in A
  <2>1. SUFFICES ASSUME d + 1 <= n PROVE c[d + 1] \in S \cup {None}
    OBVIOUS
  <2>2. d + 1 \in 1 .. n /\ (d + 1) - 1 = d /\ c[d] \in S \cup {None} /\ d \in 0 .. n
    BY <1>3, <2>1
  <2>3. c[d + 1] = Follow(tb, c[d]) /\ c[d] \in Nodes(n) \cup {None}
    BY <1>1, <2>2
  <2> QED BY <2>2, <2>3 DEF Follow
<1>4. Nat \subseteq A
  <2> HIDE DEF A
  <2> QED BY <1>2, <1>3, Lists!SetInduction
<1>5. Reach(tb, i) = {c[d] : d \in 0 .. n} \ {None}
  BY SizeIs DEF Reach, c
<1> QED BY <1>4, <1>5

\* A chain has ended after as many steps as there are nodes: otherwise it
\* would meet two of them twice.
LEMMA ChainEnds ==
  ASSUME NEW n \in Nat, NEW tb \in TableOf(n), NEW i \in Nodes(n), Acyclic(tb, n)
  PROVE  Chain(tb, i)[n] = None
<1> DEFINE c == Chain(tb, i)
<1>1. /\ c[0] = i /\ \A d \in 1 .. n : c[d] = Follow(tb, c[d - 1])
      /\ \A d \in 0 .. n : c[d] \in Nodes(n) \cup {None}
  BY ChainIs
<1> HIDE DEF c
<1>2. PICK M \in Nat : \E r \in [Nodes(n) -> 0 .. M] :
           \A x \in Nodes(n) : tb.next[x] # None => r[x] < r[tb.next[x]]
  BY DEF Acyclic
<1>2a. PICK r \in [Nodes(n) -> 0 .. M] :
           \A x \in Nodes(n) : tb.next[x] # None => r[x] < r[tb.next[x]]
  BY <1>2
<1>3. SUFFICES ASSUME c[n] # None PROVE FALSE
  BY DEF c
<1>4. ASSUME NEW d \in 0 .. n, c[d] = None PROVE FALSE
  <2> DEFINE A == {j \in Nat : d + j <= n => c[d + j] = None}
  <2>1. 0 \in A
    BY <1>4
  <2>2. ASSUME NEW j \in Nat, j \in A PROVE j + 1 \in A
    <3>1. SUFFICES ASSUME d + (j + 1) <= n PROVE c[d + (j + 1)] = None
      OBVIOUS
    <3>2. d + (j + 1) \in 1 .. n /\ (d + (j + 1)) - 1 = d + j /\ c[d + j] = None
      BY <2>2, <3>1
    <3> QED BY <1>1, <3>2 DEF Follow
  <2>3. Nat \subseteq A
    <3> HIDE DEF A
    <3> QED BY <2>1, <2>2, Lists!SetInduction
  <2>4. n - d \in Nat /\ d + (n - d) = n
    OBVIOUS
  <2> QED BY <1>3, <2>3, <2>4
<1>5. \A d \in 0 .. n : c[d] \in Nodes(n)
  BY <1>1, <1>4
<1>6. \A d \in 1 .. n : c[d] = tb.next[c[d - 1]] /\ r[c[d - 1]] < r[c[d]]
  <2> TAKE d \in 1 .. n
  <2>1. d - 1 \in 0 .. n /\ d \in 0 .. n
    OBVIOUS
  <2>2. c[d - 1] # None /\ c[d] # None /\ c[d] = Follow(tb, c[d - 1])
    BY <1>1, <1>4, <2>1
  <2> QED BY <1>2a, <1>5, <2>1, <2>2 DEF Follow
<1> DEFINE B == {e \in Nat : e <= n => \A d \in 0 .. n : d < e => r[c[d]] < r[c[e]]}
<1>7. 0 \in B
  OBVIOUS
<1>8. ASSUME NEW e \in Nat, e \in B PROVE e + 1 \in B
  <2>1. SUFFICES ASSUME e + 1 <= n, NEW d \in 0 .. n, d < e + 1
                 PROVE  r[c[d]] < r[c[e + 1]]
    OBVIOUS
  <2>2. e + 1 \in 1 .. n /\ (e + 1) - 1 = e /\ e \in 0 .. n /\ e + 1 \in 0 .. n
    BY <2>1
  <2>3. r[c[e]] < r[c[e + 1]]
    BY <1>6, <2>2
  <2>4. r[c[e]] \in Int /\ r[c[e + 1]] \in Int /\ r[c[d]] \in Int
    BY <1>5, <2>2
  <2>5. d = e \/ r[c[d]] < r[c[e]]
    BY <1>8, <2>1, <2>2
  <2> QED BY <2>3, <2>4, <2>5
<1>9. Nat \subseteq B
  <2> HIDE DEF B
  <2> QED BY <1>7, <1>8, Lists!SetInduction
<1> DEFINE g == [d \in 0 .. n |-> c[d]]
<1>10. IsFiniteSet(0 .. n) /\ Cardinality(0 .. n) = n + 1
  BY FS_Interval
<1>11. g \in [0 .. n -> Nodes(n)]
  BY <1>5
<1>12. PICK d \in 0 .. n, e \in 0 .. n : d # e /\ g[d] = g[e]
  <2> HIDE DEF g
  <2>1. IsFiniteSet(Nodes(n)) /\ Cardinality(Nodes(n)) < Cardinality(0 .. n)
    BY <1>10, SizeIs
  <2> QED BY <1>10, <1>11, <2>1, FS_PigeonHole
<1>13. r[c[d]] \in Int /\ c[d] = c[e]
  BY <1>5, <1>12
<1>14. (d < e => r[c[d]] < r[c[e]]) /\ (e < d => r[c[e]] < r[c[d]])
  BY <1>9
<1> HIDE DEF B, g
<1> QED BY <1>12, <1>13, <1>14

LEMMA ReachClosed ==
  ASSUME NEW n \in Nat, NEW tb \in TableOf(n), NEW i \in Nodes(n), Acyclic(tb, n),
         NEW x \in Reach(tb, i), tb.next[x] # None
  PROVE  tb.next[x] \in Reach(tb, i)
<1> DEFINE c == Chain(tb, i)
<1>1. c[n] = None
  BY ChainEnds
<1>2. \A d \in 1 .. n : c[d] = Follow(tb, c[d - 1])
  BY ChainIs
<1>3. Reach(tb, i) = {c[d] : d \in 0 .. n} \ {None}
  BY SizeIs DEF Reach
<1> HIDE DEF c
<1>4. PICK d \in 0 .. n : x = c[d] /\ x # None
  BY <1>3
<1>5. d # n
  BY <1>1, <1>4
<1>6. d + 1 \in 1 .. n /\ (d + 1) - 1 = d /\ d + 1 \in 0 .. n
  BY <1>5
<1>7. c[d + 1] = tb.next[x]
  BY <1>2, <1>4, <1>6 DEF Follow
<1> QED BY <1>3, <1>6, <1>7

-----------------------------------------------------------------------------
(* Walking along a chain for a key.                                        *)

WalkOf(tb, k, f) ==
    f = [i \in DOMAIN tb.key \cup {None} |->
            IF i = None THEN None ELSE IF tb.key[i] = k THEN i ELSE f[tb.next[i]]]

LEMMA WalkExists ==
  ASSUME NEW n \in Nat, NEW tb \in TableOf(n), Acyclic(tb, n), NEW k
  PROVE  \E f : WalkOf(tb, k, f)
<1> DEFINE D == Nodes(n) \cup {None}
           Body(f, i) == IF i = None THEN None
                         ELSE IF tb.key[i] = k THEN i ELSE f[tb.next[i]]
<1>1. PICK M \in Nat : \E r \in [Nodes(n) -> 0 .. M] :
           \A x \in Nodes(n) : tb.next[x] # None => r[x] < r[tb.next[x]]
  BY DEF Acyclic
<1>2. PICK r \in [Nodes(n) -> 0 .. M] :
           \A x \in Nodes(n) : tb.next[x] # None => r[x] < r[tb.next[x]]
  BY <1>1
<1>3. /\ DOMAIN tb.key = Nodes(n) /\ None \notin Nodes(n)
      /\ \A i \in Nodes(n) : tb.next[i] \in D /\ r[i] \in 0 .. M
  BY DEF TableOf, Nodes, None
<1> DEFINE Done(b, i) == i = None \/ r[i] + b > M
           Right(b, f) == /\ f = [i \in D |-> f[i]]
                          /\ \A i \in D : Done(b, i) => f[i] = Body(f, i)
           A == {b \in Nat : \E f : Right(b, f)}
<1>4. 0 \in A
  <2>1. Right(0, [i \in D |-> None])
    BY <1>3
  <2> QED BY <2>1
<1>5. ASSUME NEW b \in Nat, b \in A PROVE b + 1 \in A
  <2>1. PICK f : Right(b, f)
    BY <1>5
  <2> DEFINE g == [i \in D |-> IF Done(b, i) THEN f[i] ELSE Body(f, i)]
  <2>2. ASSUME NEW i \in D, Done(b + 1, i) PROVE g[i] = Body(g, i)
    <3>1. CASE i = None
      BY <2>1, <3>1
    <3>2. CASE i # None
      <4>1. i \in Nodes(n) /\ tb.next[i] \in D /\ r[i] \in 0 .. M /\ r[i] + (b + 1) > M
        BY <1>3, <2>2, <3>2
      <4>2. Done(b, tb.next[i])
        <5>1. CASE tb.next[i] = None
          BY <5>1
        <5>2. CASE tb.next[i] # None
          <6>1. r[i] < r[tb.next[i]] /\ r[tb.next[i]] \in 0 .. M
            BY <1>2, <1>3, <4>1, <5>2
          <6> QED BY <4>1, <6>1
        <5> QED BY <5>1, <5>2
      <4>3. g[tb.next[i]] = f[tb.next[i]]
        BY <4>1, <4>2
      <4>4. g[i] = Body(f, i)
        <5>1. g[i] = IF Done(b, i) THEN f[i] ELSE Body(f, i)
          OBVIOUS
        <5>2. Done(b, i) => f[i] = Body(f, i)
          BY <2>1
        <5> HIDE DEF g, Done, Body
        <5> QED BY <5>1, <5>2
      <4> HIDE DEF g
      <4> QED BY <4>3, <4>4
    <3> QED BY <3>1, <3>2
  <2>3. g = [i \in D |-> g[i]]
    OBVIOUS
  <2> HIDE DEF g, Done, Body
  <2>4. Right(b + 1, g)
    BY <2>2, <2>3
  <2> QED BY <2>4
<1>6. Nat \subseteq A
  <2> HIDE DEF A
  <2> QED BY <1>4, <1>5, Lists!SetInduction
<1>7. PICK f : Right(M + 1, f)
  <2>1. M + 1 \in Nat
    OBVIOUS
  <2> HIDE DEF Right
  <2> QED BY <1>6, <2>1
<1>8. \A i \in D : f[i] = Body(f, i)
  <2> TAKE i \in D
  <2>1. Done(M + 1, i)
    BY <1>3
  <2> HIDE DEF Done, Body
  <2> QED BY <1>7, <2>1
<1>9. f = [i \in D |-> Body(f, i)]
  <2> HIDE DEF Done, Body
  <2> QED BY <1>7, <1>8
<1> QED BY <1>3, <1>9 DEF WalkOf

\* The key lies where the chains lead to, and nowhere else.
Walkable(tb, n) ==
    /\ tb \in TableOf(n)
    /\ Acyclic(tb, n)
    /\ \A i \in Nodes(n) : tb.key[i] # Null => i \in Reach(tb, Home(n, tb.key[i]))
    /\ \A i, j \in Nodes(n) : tb.key[i] = tb.key[j] /\ tb.key[i] # Null => i = j

\* _Get finds a node with the key it looks for, if there is one; it may be
\* asked for the null object.
LEMMA FindRight ==
  ASSUME NEW n \in Nat \ {0}, NEW tb, Walkable(tb, n), NEW k \in Key \cup {Null}
  PROVE  /\ Find(tb, k) \in Nodes(n) \cup {None}
         /\ Find(tb, k) # None => tb.key[Find(tb, k)] = k
         /\ Find(tb, k) = None => (k # Null => \A i \in Nodes(n) : tb.key[i] # k)
<1> DEFINE m == Main(tb, k)
           c == Chain(tb, m)
           w == CHOOSE f : WalkOf(tb, k, f)
<1>1. tb \in TableOf(n) /\ Acyclic(tb, n)
  BY DEF Walkable
<1>2. m \in Nodes(n) /\ (k # Null => m = Home(n, k))
  BY <1>1, MainIs
<1>3. Find(tb, k) = w[m]
  BY DEF Find, WalkOf
<1>4. WalkOf(tb, k, w)
  BY <1>1, WalkExists
<1>5. /\ DOMAIN tb.key = Nodes(n) /\ None \notin Nodes(n)
      /\ \A i \in Nodes(n) : tb.next[i] \in Nodes(n) \cup {None}
  BY <1>1 DEF TableOf, Nodes, None
<1>6. /\ w[None] = None
      /\ \A i \in Nodes(n) : w[i] = IF tb.key[i] = k THEN i ELSE w[tb.next[i]]
  BY <1>4, <1>5 DEF WalkOf
<1>7. /\ c[0] = m /\ \A d \in 1 .. n : c[d] = Follow(tb, c[d - 1])
      /\ \A d \in 0 .. n : c[d] \in Nodes(n) \cup {None}
      /\ c[n] = None
  BY <1>1, <1>2, ChainIs, ChainEnds
<1> HIDE DEF w, c, m
<1> DEFINE Hit == w[m] \in Nodes(n) /\ tb.key[w[m]] = k
           A == {d \in Nat : d <= n => Hit \/ w[m] = w[c[d]]}
<1>8. 0 \in A
  BY <1>7
<1>9. ASSUME NEW d \in Nat, d \in A PROVE d + 1 \in A
  <2>1. SUFFICES ASSUME d + 1 <= n, w[m] = w[c[d]] PROVE Hit \/ w[m] = w[c[d + 1]]
    BY <1>9
  <2>2. d \in 0 .. n /\ d + 1 \in 1 .. n /\ (d + 1) - 1 = d
    BY <2>1
  <2>3. c[d + 1] = Follow(tb, c[d]) /\ c[d] \in Nodes(n) \cup {None}
    BY <1>7, <2>2
  <2> QED BY <1>6, <2>1, <2>3 DEF Follow
<1>10. Nat \subseteq A
  <2> HIDE DEF A
  <2> QED BY <1>8, <1>9, Lists!SetInduction
<1>11. Hit \/ w[m] = None
  BY <1>6, <1>7, <1>10
<1>12. ASSUME w[m] = None, k # Null, NEW i \in Nodes(n), tb.key[i] = k PROVE FALSE
  <2> DEFINE S == {x \in Nodes(n) : w[x] = None /\ tb.key[x] # k}
  <2>1. m \in S
    BY <1>2, <1>5, <1>6, <1>12
  <2>2. ASSUME NEW x \in S, tb.next[x] # None PROVE tb.next[x] \in S
    BY <1>5, <1>6, <2>2
  <2>3. Reach(tb, m) \subseteq S
    <3> HIDE DEF S
    <3> QED BY <1>1, <1>2, <2>1, <2>2, ReachLeast
  <2>4. i \in Reach(tb, m)
    BY <1>2, <1>12 DEF Walkable
  <2> QED BY <1>12, <2>3, <2>4
<1> QED BY <1>3, <1>5, <1>11, <1>12

\* The table gives k the value v.
Holds(tb, n, k, v) == \E i \in Nodes(n) : tb.key[i] = k /\ tb.val[i] = v

\* A key has one node, and Find returns it.
LEMMA FindUnique ==
  ASSUME NEW n \in Nat \ {0}, NEW tb, Walkable(tb, n), NEW k \in Key
  PROVE  /\ \A i \in Nodes(n) : tb.key[i] = k => Find(tb, k) = i
         /\ Exist(tb, k) <=> \E i \in Nodes(n) : tb.key[i] = k
         /\ \A v : Holds(tb, n, k, v) <=> Exist(tb, k) /\ Get(tb, k) = v
<1>1. k # Null /\ None \notin Nodes(n)
  BY TableAssumption DEF Nodes, None
<1>2. \A i, j \in Nodes(n) : tb.key[i] = tb.key[j] /\ tb.key[i] # Null => i = j
  BY DEF Walkable
<1>3. \A i \in Nodes(n) : tb.key[i] = k => Find(tb, k) = i
  BY <1>1, <1>2, FindRight
<1>4. Exist(tb, k) <=> \E i \in Nodes(n) : tb.key[i] = k
  BY <1>1, <1>3, FindRight DEF Exist
<1>5. \A v : Holds(tb, n, k, v) <=> Exist(tb, k) /\ Get(tb, k) = v
  BY <1>1, <1>3, <1>4, FindRight DEF Holds, Get
<1> QED BY <1>3, <1>4, <1>5

-----------------------------------------------------------------------------
(* NewSlot, first half: the place of a key that is not there.              *)

\* A node has one predecessor.  Whatever was taken from the free nodes lies
\* above firstfree: the nodes that chains lead to, and the keys that do not
\* lie in their main position.  And where such a key lies, no key is at home:
\* that one would have pushed it aside.
Ordered(tb, n) ==
    /\ \A i, j \in Nodes(n) : tb.next[i] = tb.next[j] /\ tb.next[i] # None => i = j
    /\ \A i \in Nodes(n) : tb.next[i] # None => tb.firstfree < tb.next[i]
    /\ \A i \in Nodes(n) : tb.key[i] # Null /\ Home(n, tb.key[i]) # i => tb.firstfree < i
    /\ \A i, j \in Nodes(n) : tb.key[i] # Null /\ Home(n, tb.key[i]) # i /\ tb.key[j] # Null
                                => Home(n, tb.key[j]) # i

Orderly(tb, n) == Walkable(tb, n) /\ Ordered(tb, n) /\ IsFree(tb, tb.firstfree)

Lacks(tb, n, k) == \A i \in Nodes(n) : tb.key[i] # k

\* No key has been removed yet: the nodes without a key are all free, and
\* all of them can still be taken.
Fresh(tb, n) ==
    \A i \in Nodes(n) : tb.key[i] = Null => tb.next[i] = None /\ i <= tb.firstfree

\* p is tb with k placed in it, before firstfree is corrected.
Placed(p, tb, n, k) ==
    /\ Walkable(p, n)
    /\ \A i, j \in Nodes(n) : p.next[i] = p.next[j] /\ p.next[i] # None => i = j
    /\ \A i \in Nodes(n) : p.next[i] # None =>
          \/ tb.firstfree < p.next[i]
          \/ tb.firstfree = p.next[i] /\ p.key[tb.firstfree] # Null
    /\ \A i \in Nodes(n) : p.key[i] # Null /\ Home(n, p.key[i]) # i => tb.firstfree <= i
    /\ \A i, j \in Nodes(n) : p.key[i] # Null /\ Home(n, p.key[i]) # i /\ p.key[j] # Null
                                => Home(n, p.key[j]) # i
    /\ p.firstfree = tb.firstfree /\ p.used = tb.used
    /\ \E x \in Nodes(n) : x \notin Occupied(tb) /\ Occupied(p) = Occupied(tb) \cup {x}
    /\ \E x \in Nodes(n) : p.key[x] = k
    /\ \A kk \in Key \ {k} : \A v : Holds(p, n, kk, v) <=> Holds(tb, n, kk, v)
    /\ Fresh(tb, n) => Fresh(p, n)

LEMMA OccupiedIs ==
  ASSUME NEW n \in Nat, NEW tb \in TableOf(n)
  PROVE  /\ Occupied(tb) = {i \in Nodes(n) : tb.key[i] # Null}
         /\ IsFiniteSet(Occupied(tb)) /\ Cardinality(Occupied(tb)) \in Nat
         /\ Cardinality(Occupied(tb)) <= n
<1>1. Occupied(tb) = {i \in Nodes(n) : tb.key[i] # Null}
  BY DEF Occupied, TableOf
<1>2. Occupied(tb) \in SUBSET Nodes(n)
  BY <1>1
<1> QED BY <1>1, <1>2, SizeIs, FS_Subset, FS_CardinalityType

LEMMA HomeIs ==
  ASSUME NEW n \in Nat \ {0}, NEW tb \in TableOf(n)
  PROVE  /\ \A k \in Key : k # Null /\ Home(n, k) \in Nodes(n)
         /\ \A i \in Nodes(n) : tb.key[i] # Null => tb.key[i] \in Key
  BY MainIs, TableAssumption DEF TableOf

\* Chains that lead on to the same nodes reach the same nodes.
LEMMA ReachSame ==
  ASSUME NEW n \in Nat, NEW tb \in TableOf(n), NEW p \in TableOf(n),
         p.next = tb.next, Acyclic(tb, n), NEW i \in Nodes(n)
  PROVE  Acyclic(p, n) /\ Reach(p, i) = Reach(tb, i)
<1>1. Acyclic(p, n)
  BY DEF Acyclic
<1>2. i \in Reach(p, i) /\ i \in Reach(tb, i)
  BY ReachStarts
<1>3. \A x \in Reach(p, i) : p.next[x] # None => p.next[x] \in Reach(p, i)
  BY <1>1, ReachClosed
<1>4. \A x \in Reach(tb, i) : tb.next[x] # None => tb.next[x] \in Reach(tb, i)
  BY ReachClosed
<1>5. Reach(p, i) \subseteq Reach(tb, i)
  BY <1>2, <1>4, ReachLeast
<1>6. Reach(tb, i) \subseteq Reach(p, i)
  BY <1>2, <1>3, ReachLeast
<1> QED BY <1>1, <1>5, <1>6

\* The free place is no key's main position.
LEMMA NobodysHome ==
  ASSUME NEW n \in Nat \ {0}, NEW tb, Orderly(tb, n), NEW i \in Nodes(n), tb.key[i] # Null
  PROVE  Home(n, tb.key[i]) # tb.firstfree
<1> DEFINE f == tb.firstfree
<1>1. tb \in TableOf(n) /\ f \in Nodes(n) /\ tb.key[f] = Null /\ tb.next[f] = None
  BY DEF Orderly, Walkable, TableOf, IsFree
<1>2. Reach(tb, f) \subseteq {f}
  <2> HIDE DEF f
  <2> QED BY <1>1, ReachLeast
<1>3. i \in Reach(tb, Home(n, tb.key[i]))
  BY DEF Orderly, Walkable
<1> QED BY <1>1, <1>2, <1>3

LEMMA PlaceAtHome ==
  ASSUME NEW n \in Nat \ {0}, NEW tb, Orderly(tb, n), NEW k \in Key, Lacks(tb, n, k),
         NEW p \in TableOf(n), NEW mp, mp = Home(n, k), tb.key[mp] = Null,
         \A i \in Nodes(n) : p.key[i] = IF i = mp THEN k ELSE tb.key[i],
         p.val = tb.val, p.next = tb.next, p.firstfree = tb.firstfree, p.used = tb.used
  PROVE  Placed(p, tb, n, k)
<1>1. tb \in TableOf(n) /\ Acyclic(tb, n) /\ tb.firstfree \in Nodes(n)
  BY DEF Orderly, Walkable, TableOf
<1>2. mp \in Nodes(n) /\ k # Null
  BY <1>1, HomeIs
<1>3. Acyclic(p, n) /\ \A i \in Nodes(n) : Reach(p, i) = Reach(tb, i)
  BY <1>1, <1>2, ReachSame
<1>4. \A i \in Nodes(n) : p.key[i] # Null => i \in Reach(p, Home(n, p.key[i]))
  <2> SUFFICES ASSUME NEW i \in Nodes(n), p.key[i] # Null
               PROVE  i \in Reach(p, Home(n, p.key[i]))
    OBVIOUS
  <2>1. CASE i = mp
    BY <1>2, <2>1, ReachStarts
  <2>2. CASE i # mp
    <3>1. p.key[i] = tb.key[i] /\ Home(n, tb.key[i]) \in Nodes(n)
      BY <1>1, <2>2, HomeIs
    <3> QED BY <1>3, <3>1 DEF Orderly, Walkable
  <2> QED BY <2>1, <2>2
<1>5. \A i, j \in Nodes(n) : p.key[i] = p.key[j] /\ p.key[i] # Null => i = j
  BY <1>2 DEF Orderly, Walkable, Lacks
<1>6. Walkable(p, n)
  BY <1>3, <1>4, <1>5 DEF Walkable
<1>7. /\ \A i, j \in Nodes(n) : p.next[i] = p.next[j] /\ p.next[i] # None => i = j
      /\ \A i \in Nodes(n) : p.next[i] # None => tb.firstfree < p.next[i]
  BY DEF Orderly, Ordered
<1>8. \A i \in Nodes(n) : p.key[i] # Null /\ Home(n, p.key[i]) # i => tb.firstfree <= i
  <2>1. Nodes(n) \subseteq Int
    BY DEF Nodes
  <2> QED BY <1>1, <2>1 DEF Orderly, Ordered
<1>9. \A i, j \in Nodes(n) : p.key[i] # Null /\ Home(n, p.key[i]) # i /\ p.key[j] # Null
                                => Home(n, p.key[j]) # i
  BY <1>2 DEF Orderly, Ordered
<1>10. mp \notin Occupied(tb) /\ Occupied(p) = Occupied(tb) \cup {mp}
  BY <1>1, <1>2, OccupiedIs
<1>11. \A kk \in Key \ {k} : \A v : Holds(p, n, kk, v) <=> Holds(tb, n, kk, v)
  BY <1>1, HomeIs DEF Holds
<1>12. Fresh(tb, n) => Fresh(p, n)
  BY <1>2 DEF Fresh
<1> QED BY <1>2, <1>6, <1>7, <1>8, <1>9, <1>10, <1>11, <1>12 DEF Placed

LEMMA PlaceBehind ==
  ASSUME NEW n \in Nat \ {0}, NEW tb, Orderly(tb, n), NEW k \in Key, Lacks(tb, n, k),
         NEW p \in TableOf(n), NEW mp, mp = Home(n, k), NEW f, f = tb.firstfree,
         tb.key[mp] # Null, Home(n, tb.key[mp]) = mp,
         \A i \in Nodes(n) : p.key[i] = IF i = f THEN k ELSE tb.key[i],
         \A i \in Nodes(n) : p.next[i] = IF i = f THEN tb.next[mp]
                                         ELSE IF i = mp THEN f ELSE tb.next[i],
         p.val = tb.val, p.firstfree = f, p.used = tb.used
  PROVE  Placed(p, tb, n, k)
<1>1. /\ tb \in TableOf(n) /\ Acyclic(tb, n) /\ f \in Nodes(n)
      /\ tb.key[f] = Null /\ tb.next[f] = None
  BY DEF Orderly, Walkable, TableOf, IsFree
<1>2. mp \in Nodes(n) /\ k # Null /\ f # mp /\ None \notin Nodes(n)
  BY <1>1, HomeIs DEF Nodes, None
<1>3. /\ \A i, j \in Nodes(n) : tb.next[i] = tb.next[j] /\ tb.next[i] # None => i = j
      /\ \A i \in Nodes(n) : tb.next[i] # None => f < tb.next[i] /\ tb.next[i] \in Nodes(n)
  BY <1>1 DEF Orderly, Ordered, TableOf
<1>3a. \A i \in Nodes(n) : i \in Int /\ ~ (i < i)
  BY DEF Nodes
<1>4. Acyclic(p, n)
  <2>1. PICK M \in Nat : \E r \in [Nodes(n) -> 0 .. M] :
           \A x \in Nodes(n) : tb.next[x] # None => r[x] < r[tb.next[x]]
    BY <1>1 DEF Acyclic
  <2>2. PICK r \in [Nodes(n) -> 0 .. M] :
           \A x \in Nodes(n) : tb.next[x] # None => r[x] < r[tb.next[x]]
    BY <2>1
  <2> DEFINE q == [x \in Nodes(n) |-> IF x = f THEN 2 * r[mp] + 1 ELSE 2 * r[x]]
             N == 2 * M + 1
  <2>3. q \in [Nodes(n) -> 0 .. N] /\ N \in Nat
    <3>1. \A x \in Nodes(n) : r[x] \in 0 .. M
      OBVIOUS
    <3> QED BY <1>2, <3>1
  <2>4. ASSUME NEW x \in Nodes(n), p.next[x] # None PROVE q[x] < q[p.next[x]]
    <3>1. CASE x = f
      <4>1. p.next[x] = tb.next[mp] /\ tb.next[mp] \in Nodes(n) /\ tb.next[mp] # f
        BY <1>1, <1>2, <1>3, <1>3a, <2>4, <3>1
      <4>2. r[mp] < r[tb.next[mp]] /\ r[mp] \in Nat /\ r[tb.next[mp]] \in Nat
        BY <1>2, <2>2, <2>4, <4>1
      <4>3. q[x] = 2 * r[mp] + 1 /\ q[tb.next[mp]] = 2 * r[tb.next[mp]]
        BY <3>1, <4>1
      <4> HIDE DEF q
      <4> QED BY <4>1, <4>2, <4>3
    <3>2. CASE x = mp
      <4>1. p.next[x] = f /\ q[x] = 2 * r[mp] /\ q[f] = 2 * r[mp] + 1 /\ r[mp] \in Nat
        BY <1>1, <1>2, <3>2
      <4> HIDE DEF q
      <4> QED BY <4>1
    <3>3. CASE x # f /\ x # mp
      <4>1. p.next[x] = tb.next[x] /\ tb.next[x] \in Nodes(n) /\ tb.next[x] # f
        BY <1>1, <1>3, <1>3a, <2>4, <3>3
      <4>2. r[x] < r[tb.next[x]] /\ r[x] \in Nat /\ r[tb.next[x]] \in Nat
        BY <2>2, <2>4, <4>1
      <4>3. q[x] = 2 * r[x] /\ q[tb.next[x]] = 2 * r[tb.next[x]]
        BY <3>3, <4>1
      <4> HIDE DEF q
      <4> QED BY <4>1, <4>2, <4>3
    <3> QED BY <3>1, <3>2, <3>3
  <2> HIDE DEF q, N
  <2> QED BY <2>3, <2>4 DEF Acyclic
<1>5. ASSUME NEW s \in Nodes(n) PROVE Reach(tb, s) \subseteq Reach(p, s)
  <2>1. s \in Reach(p, s) /\ Reach(p, s) \subseteq Nodes(n)
    BY ReachStarts
  <2>2. \A x \in Reach(p, s) : p.next[x] # None => p.next[x] \in Reach(p, s)
    BY <1>4, ReachClosed
  <2>3. ASSUME NEW x \in Reach(p, s), tb.next[x] # None PROVE tb.next[x] \in Reach(p, s)
    <3>1. CASE x = mp
      <4>1. f \in Reach(p, s)
        BY <1>1, <1>2, <2>1, <2>2, <3>1
      <4> QED BY <1>1, <2>2, <2>3, <3>1, <4>1
    <3>2. CASE x # mp
      BY <1>1, <2>1, <2>2, <2>3, <3>2
    <3> QED BY <3>1, <3>2
  <2> QED BY <1>1, <2>1, <2>3, ReachLeast
<1>6. \A i \in Nodes(n) : p.key[i] # Null => i \in Reach(p, Home(n, p.key[i]))
  <2> SUFFICES ASSUME NEW i \in Nodes(n), p.key[i] # Null
               PROVE  i \in Reach(p, Home(n, p.key[i]))
    OBVIOUS
  <2>1. CASE i = f
    <3>1. mp \in Reach(p, mp) /\ p.next[mp] = f /\ f # None
      BY <1>1, <1>2, ReachStarts
    <3>2. f \in Reach(p, mp)
      BY <1>2, <1>4, <3>1, ReachClosed
    <3> QED BY <2>1, <3>2
  <2>2. CASE i # f
    <3>1. p.key[i] = tb.key[i] /\ Home(n, tb.key[i]) \in Nodes(n)
      BY <1>1, <2>2, HomeIs
    <3>2. i \in Reach(tb, Home(n, tb.key[i]))
      BY <3>1 DEF Orderly, Walkable
    <3> QED BY <1>5, <3>1, <3>2
  <2> QED BY <2>1, <2>2
<1>7. \A i, j \in Nodes(n) : p.key[i] = p.key[j] /\ p.key[i] # Null => i = j
  BY <1>2 DEF Orderly, Walkable, Lacks
<1>8. Walkable(p, n)
  BY <1>4, <1>6, <1>7 DEF Walkable
<1>9. \A i, j \in Nodes(n) : p.next[i] = p.next[j] /\ p.next[i] # None => i = j
  BY <1>1, <1>2, <1>3, <1>3a
<1>10. \A i \in Nodes(n) : p.next[i] # None =>
          \/ f < p.next[i]
          \/ f = p.next[i] /\ p.key[f] # Null
  BY <1>1, <1>2, <1>3
<1>11. \A i \in Nodes(n) : p.key[i] # Null /\ Home(n, p.key[i]) # i => f <= i
  BY <1>1, <1>3a DEF Orderly, Ordered
<1>12. \A i, j \in Nodes(n) : p.key[i] # Null /\ Home(n, p.key[i]) # i /\ p.key[j] # Null
                                => Home(n, p.key[j]) # i
  <2> SUFFICES ASSUME NEW i \in Nodes(n), NEW j \in Nodes(n), p.key[i] # Null,
                      Home(n, p.key[i]) # i, p.key[j] # Null
               PROVE  Home(n, p.key[j]) # i
    OBVIOUS
  <2>1. CASE i = f
    BY <1>2, <2>1, NobodysHome
  <2>2. CASE i # f
    BY <2>2 DEF Orderly, Ordered
  <2> QED BY <2>1, <2>2
<1>13. f \notin Occupied(tb) /\ Occupied(p) = Occupied(tb) \cup {f}
  BY <1>1, <1>2, OccupiedIs
<1>14. \A kk \in Key \ {k} : \A v : Holds(p, n, kk, v) <=> Holds(tb, n, kk, v)
  BY <1>1, HomeIs DEF Holds
<1>15. Fresh(tb, n) => Fresh(p, n)
  BY <1>1, <1>2 DEF Fresh
<1> QED BY <1>1, <1>8, <1>9, <1>10, <1>11, <1>12, <1>13, <1>14, <1>15 DEF Placed

\* A node off its main position is behind another one in its chain.
LEMMA BeforeExists ==
  ASSUME NEW n \in Nat \ {0}, NEW tb, Walkable(tb, n), NEW mp \in Nodes(n),
         tb.key[mp] # Null, NEW h, h = Home(n, tb.key[mp]), h # mp
  PROVE  \E i \in Reach(tb, h) : tb.next[i] = mp
<1>1. tb \in TableOf(n) /\ Acyclic(tb, n) /\ mp \in Reach(tb, h)
  BY DEF Walkable
<1>2. h \in Nodes(n)
  BY <1>1, HomeIs
<1>3. SUFFICES ASSUME \A i \in Reach(tb, h) : tb.next[i] # mp PROVE FALSE
  OBVIOUS
<1> DEFINE S == Reach(tb, h) \ {mp}
<1>4. h \in S
  BY <1>1, <1>2, ReachStarts
<1>5. \A x \in S : tb.next[x] # None => tb.next[x] \in S
  BY <1>1, <1>2, <1>3, ReachClosed
<1>6. Reach(tb, h) \subseteq S
  <2> HIDE DEF S
  <2> QED BY <1>1, <1>2, <1>4, <1>5, ReachLeast
<1> QED BY <1>1, <1>6

LEMMA PlaceAside ==
  ASSUME NEW n \in Nat \ {0}, NEW tb, Orderly(tb, n), NEW k \in Key, Lacks(tb, n, k),
         NEW p \in TableOf(n), NEW mp, mp = Home(n, k), NEW f, f = tb.firstfree,
         tb.key[mp] # Null, Home(n, tb.key[mp]) # mp,
         NEW before \in Nodes(n), tb.next[before] = mp,
         \A i \in Nodes(n) : p.key[i] = IF i = mp THEN k ELSE IF i = f THEN tb.key[mp]
                                        ELSE tb.key[i],
         \A i \in Nodes(n) : p.val[i] = IF i = mp THEN Null ELSE IF i = f THEN tb.val[mp]
                                        ELSE tb.val[i],
         \A i \in Nodes(n) : p.next[i] = IF i = mp THEN None ELSE IF i = f THEN tb.next[mp]
                                         ELSE IF i = before THEN f ELSE tb.next[i],
         p.firstfree = f, p.used = tb.used
  PROVE  Placed(p, tb, n, k)
<1>1. /\ tb \in TableOf(n) /\ Acyclic(tb, n) /\ f \in Nodes(n)
      /\ tb.key[f] = Null /\ tb.next[f] = None
  BY DEF Orderly, Walkable, TableOf, IsFree
<1>2. mp \in Nodes(n) /\ k # Null /\ f # mp /\ None \notin Nodes(n) /\ before # f
  BY <1>1, HomeIs DEF Nodes, None
<1>3. /\ \A i, j \in Nodes(n) : tb.next[i] = tb.next[j] /\ tb.next[i] # None => i = j
      /\ \A i \in Nodes(n) : tb.next[i] # None => f < tb.next[i] /\ tb.next[i] \in Nodes(n)
  BY <1>1 DEF Orderly, Ordered, TableOf
<1>3a. \A i \in Nodes(n) : i \in Int /\ ~ (i < i)
  BY DEF Nodes
<1>3b. PICK M \in Nat : \E r \in [Nodes(n) -> 0 .. M] :
           \A x \in Nodes(n) : tb.next[x] # None => r[x] < r[tb.next[x]]
  BY <1>1 DEF Acyclic
<1>3c. PICK r \in [Nodes(n) -> 0 .. M] :
           \A x \in Nodes(n) : tb.next[x] # None => r[x] < r[tb.next[x]]
  BY <1>3b
<1>3d. before # mp /\ tb.next[mp] # mp
  <2>1. \A x \in Nodes(n) : r[x] \in Int /\ ~ (r[x] < r[x])
    OBVIOUS
  <2> QED BY <1>2, <1>3c, <2>1
<1>4. Acyclic(p, n)
  <2> DEFINE q == [x \in Nodes(n) |-> IF x = f THEN r[mp] ELSE r[x]]
  <2>1. q \in [Nodes(n) -> 0 .. M]
    BY <1>2
  <2>2. ASSUME NEW x \in Nodes(n), p.next[x] # None PROVE q[x] < q[p.next[x]]
    <3>1. CASE x = f
      <4>1. p.next[x] = tb.next[mp] /\ tb.next[mp] \in Nodes(n) /\ tb.next[mp] # f
        BY <1>1, <1>2, <1>3, <1>3a, <2>2, <3>1
      <4> QED BY <1>2, <1>3c, <2>2, <3>1, <4>1
    <3>2. CASE x = before
      <4>1. p.next[x] = f /\ q[f] = r[mp] /\ q[x] = r[x] /\ r[x] < r[mp]
        BY <1>1, <1>2, <1>3c, <1>3d, <3>2
      <4> HIDE DEF q
      <4> QED BY <4>1
    <3>3. CASE x # f /\ x # before
      <4>1. p.next[x] = tb.next[x] /\ tb.next[x] \in Nodes(n) /\ tb.next[x] # f
        BY <1>1, <1>2, <1>3, <1>3a, <2>2, <3>3
      <4> QED BY <1>3c, <2>2, <3>3, <4>1
    <3> QED BY <3>1, <3>2, <3>3
  <2> HIDE DEF q
  <2> QED BY <2>1, <2>2 DEF Acyclic
\* The nodes that a chain reached, it still reaches; only the one pushed
\* aside has f's place now.
<1>5. ASSUME NEW s \in Nodes(n), s # mp
      PROVE  \A x \in Reach(tb, s) : IF x = mp THEN f \in Reach(p, s) ELSE x \in Reach(p, s)
  <2> DEFINE S == {x \in Nodes(n) : IF x = mp THEN f \in Reach(p, s) ELSE x \in Reach(p, s)}
  <2>1. s \in Reach(p, s) /\ Reach(p, s) \subseteq Nodes(n)
    BY ReachStarts
  <2>2. \A x \in Reach(p, s) : p.next[x] # None => p.next[x] \in Reach(p, s)
    BY <1>4, ReachClosed
  <2>3. ASSUME NEW x \in S, tb.next[x] # None PROVE tb.next[x] \in S
    <3>0. x \in Nodes(n) /\ tb.next[x] \in Nodes(n) /\ x # f
      BY <1>1, <1>3, <2>3
    <3>1. CASE x = mp
      <4>1. f \in Reach(p, s) /\ p.next[f] = tb.next[mp] /\ tb.next[mp] # mp
        BY <1>1, <1>2, <1>3d, <2>3, <3>1
      <4> QED BY <2>2, <2>3, <3>0, <3>1, <4>1
    <3>2. CASE x = before
      <4>1. x \in Reach(p, s) /\ p.next[x] = f /\ f # None
        BY <1>1, <1>2, <1>3d, <2>3, <3>2
      <4> QED BY <1>2, <2>2, <3>2, <4>1
    <3>3. CASE x # mp /\ x # before
      <4>1. x \in Reach(p, s) /\ p.next[x] = tb.next[x] /\ tb.next[x] # mp
        BY <1>2, <1>3, <2>3, <3>0, <3>3
      <4> QED BY <2>2, <2>3, <3>0, <4>1
    <3> QED BY <3>1, <3>2, <3>3
  <2>4. s \in S
    BY <2>1, <1>5
  <2>5. Reach(tb, s) \subseteq S
    <3> HIDE DEF S
    <3> QED BY <1>1, <2>3, <2>4, ReachLeast
  <2> QED BY <2>5
<1>6. \A i \in Nodes(n) : p.key[i] # Null => i \in Reach(p, Home(n, p.key[i]))
  <2> SUFFICES ASSUME NEW i \in Nodes(n), p.key[i] # Null
               PROVE  i \in Reach(p, Home(n, p.key[i]))
    OBVIOUS
  <2>1. CASE i = mp
    BY <1>2, <2>1, ReachStarts
  <2>2. CASE i = f
    <3>1. p.key[i] = tb.key[mp] /\ Home(n, tb.key[mp]) \in Nodes(n)
      BY <1>1, <1>2, <2>2, HomeIs
    <3>2. mp \in Reach(tb, Home(n, tb.key[mp]))
      BY <1>2 DEF Orderly, Walkable
    <3> QED BY <1>5, <2>2, <3>1, <3>2
  <2>3. CASE i # f /\ i # mp
    <3>1. p.key[i] = tb.key[i] /\ Home(n, tb.key[i]) \in Nodes(n)
      BY <1>1, <2>3, HomeIs
    <3>2. i \in Reach(tb, Home(n, tb.key[i])) /\ Home(n, tb.key[i]) # mp
      BY <1>2, <3>1 DEF Orderly, Walkable, Ordered
    <3> QED BY <1>5, <2>3, <3>1, <3>2
  <2> QED BY <2>1, <2>2, <2>3
<1>7. \A i, j \in Nodes(n) : p.key[i] = p.key[j] /\ p.key[i] # Null => i = j
  <2>1. \A i, j \in Nodes(n) : tb.key[i] = tb.key[j] /\ tb.key[i] # Null => i = j
    BY DEF Orderly, Walkable
  <2> QED BY <1>1, <1>2, <2>1 DEF Lacks
<1>8. Walkable(p, n)
  BY <1>4, <1>6, <1>7 DEF Walkable
<1>9. \A i, j \in Nodes(n) : p.next[i] = p.next[j] /\ p.next[i] # None => i = j
  BY <1>1, <1>2, <1>3, <1>3a
<1>10. \A i \in Nodes(n) : p.next[i] # None =>
          \/ f < p.next[i]
          \/ f = p.next[i] /\ p.key[f] # Null
  BY <1>1, <1>2, <1>3
<1>11. \A i \in Nodes(n) : p.key[i] # Null /\ Home(n, p.key[i]) # i => f <= i
  BY <1>1, <1>3a DEF Orderly, Ordered
<1>12. \A i, j \in Nodes(n) : p.key[i] # Null /\ Home(n, p.key[i]) # i /\ p.key[j] # Null
                                => Home(n, p.key[j]) # i
  <2> SUFFICES ASSUME NEW i \in Nodes(n), NEW j \in Nodes(n), p.key[i] # Null,
                      Home(n, p.key[i]) # i, p.key[j] # Null
               PROVE  Home(n, p.key[j]) # i
    OBVIOUS
  <2>1. CASE i = f
    <3>1. \A x \in Nodes(n) : tb.key[x] # Null => Home(n, tb.key[x]) # f
      BY NobodysHome
    <3> QED BY <1>2, <2>1, <3>1
  <2>2. CASE i # f
    <3>1. i # mp /\ tb.key[i] # Null /\ Home(n, tb.key[i]) # i
      BY <2>2
    <3>2. \A x \in Nodes(n) : tb.key[x] # Null => Home(n, tb.key[x]) # i
      BY <3>1 DEF Orderly, Ordered
    <3> QED BY <1>2, <3>1, <3>2
  <2> QED BY <2>1, <2>2
<1>13. f \notin Occupied(tb) /\ Occupied(p) = Occupied(tb) \cup {f}
  BY <1>1, <1>2, OccupiedIs
<1>14. \A kk \in Key \ {k} : \A v : Holds(p, n, kk, v) <=> Holds(tb, n, kk, v)
  <2> SUFFICES ASSUME NEW kk \in Key \ {k}, NEW v
               PROVE  Holds(p, n, kk, v) <=> Holds(tb, n, kk, v)
    OBVIOUS
  <2>1. kk # Null
    BY <1>1, HomeIs
  <2>2. ASSUME NEW i \in Nodes(n), tb.key[i] = kk, tb.val[i] = v PROVE Holds(p, n, kk, v)
    <3>1. CASE i = mp
      <4>1. p.key[f] = kk /\ p.val[f] = v
        BY <1>1, <1>2, <2>2, <3>1
      <4> QED BY <1>1, <4>1 DEF Holds
    <3>2. CASE i # mp
      <4>1. p.key[i] = kk /\ p.val[i] = v
        BY <1>1, <2>1, <2>2, <3>2
      <4> QED BY <4>1 DEF Holds
    <3> QED BY <3>1, <3>2
  <2>3. ASSUME NEW i \in Nodes(n), p.key[i] = kk, p.val[i] = v PROVE Holds(tb, n, kk, v)
    <3>1. CASE i = f
      <4>1. tb.key[mp] = kk /\ tb.val[mp] = v
        BY <1>2, <2>3, <3>1
      <4> QED BY <1>2, <4>1 DEF Holds
    <3>2. CASE i # f
      <4>1. tb.key[i] = kk /\ tb.val[i] = v
        BY <2>3, <3>2
      <4> QED BY <4>1 DEF Holds
    <3> QED BY <3>1, <3>2
  <2> QED BY <2>2, <2>3 DEF Holds
<1>15. Fresh(tb, n) => Fresh(p, n)
  BY <1>1, <1>2 DEF Fresh
<1> QED BY <1>1, <1>2, <1>8, <1>9, <1>10, <1>11, <1>12, <1>13, <1>14, <1>15 DEF Placed

LEMMA PlaceKeyPlaces ==
  ASSUME NEW n \in Nat \ {0}, NEW tb, Orderly(tb, n), NEW k \in Key, Lacks(tb, n, k)
  PROVE  Placed(PlaceKey(tb, k), tb, n, k)
<1>0. SUFFICES ASSUME NEW mp, mp = Home(n, k), NEW f, f = tb.firstfree,
                      NEW p, p = PlaceKey(tb, k)
               PROVE  Placed(p, tb, n, k)
  OBVIOUS
<1> DEFINE h == Home(n, tb.key[mp])
           before == CHOOSE i \in Reach(tb, Main(tb, tb.key[mp])) : tb.next[i] = mp
<1>1. /\ tb \in TableOf(n) /\ f \in Nodes(n) /\ tb.key[f] = Null /\ tb.next[f] = None
      /\ Acyclic(tb, n) /\ Walkable(tb, n)
  BY <1>0 DEF Orderly, Walkable, TableOf, IsFree
<1>2. Main(tb, k) = mp /\ mp \in Nodes(n) /\ k # Null
  BY <1>0, <1>1, MainIs, HomeIs
<1>3. tb.key[mp] # Null => Main(tb, tb.key[mp]) = h /\ h \in Nodes(n)
  BY <1>1, <1>2, MainIs, HomeIs
<1>3a. /\ tb.key \in [Nodes(n) -> Key \cup {Null}]
       /\ tb.val \in [Nodes(n) -> Value \cup {Null}]
       /\ tb.next \in [Nodes(n) -> Nodes(n) \cup {None}]
  BY <1>1 DEF TableOf
<1>4. CASE tb.key[mp] = Null
  <2>1. p = [tb EXCEPT !.key[mp] = k]
    BY <1>0, <1>2, <1>4 DEF PlaceKey
  <2>2. /\ p \in TableOf(n) /\ p.val = tb.val /\ p.next = tb.next
        /\ p.firstfree = tb.firstfree /\ p.used = tb.used
        /\ \A i \in Nodes(n) : p.key[i] = IF i = mp THEN k ELSE tb.key[i]
    BY <1>1, <1>2, <2>1 DEF TableOf
  <2> QED BY <1>0, <1>4, <2>2, PlaceAtHome
<1>5. CASE tb.key[mp] # Null /\ ~ (mp > f /\ h # mp)
  <2> DEFINE key == [tb.key EXCEPT ![f] = k]
             next == [tb.next EXCEPT ![f] = tb.next[mp], ![mp] = f]
  <2>1. p = [tb EXCEPT !.key = key, !.next = next]
    BY <1>0, <1>1, <1>2, <1>3, <1>5 DEF PlaceKey, TableOf
  <2>2. f # mp
    BY <1>1, <1>5
  <2>3. /\ key \in [Nodes(n) -> Key \cup {Null}] /\ next \in [Nodes(n) -> Nodes(n) \cup {None}]
        /\ \A i \in Nodes(n) : key[i] = IF i = f THEN k ELSE tb.key[i]
        /\ \A i \in Nodes(n) : next[i] = IF i = f THEN tb.next[mp]
                                         ELSE IF i = mp THEN f ELSE tb.next[i]
    BY <1>1, <1>2, <1>3a, <2>2
  <2> HIDE DEF key, next
  <2>4. /\ p \in TableOf(n) /\ p.key = key /\ p.next = next
        /\ p.val = tb.val /\ p.firstfree = f /\ p.used = tb.used
    BY <1>0, <1>1, <2>1, <2>3 DEF TableOf
  <2>5. h = mp
    <3>1. h # mp => f < mp
      BY <1>0, <1>2, <1>5 DEF Orderly, Ordered
    <3>2. f \in Int /\ mp \in Int
      BY <1>1, <1>2 DEF Nodes
    <3> HIDE DEF h
    <3> QED BY <1>5, <3>1, <3>2
  <2> QED BY <1>0, <1>5, <2>3, <2>4, <2>5, PlaceBehind
<1>6. CASE tb.key[mp] # Null /\ mp > f /\ h # mp
  <2> DEFINE key == [tb.key EXCEPT ![f] = tb.key[mp], ![mp] = k]
             val == [tb.val EXCEPT ![f] = tb.val[mp], ![mp] = Null]
             next == [tb.next EXCEPT ![before] = f, ![f] = tb.next[mp], ![mp] = None]
  <2>1. p = [tb EXCEPT !.key = key, !.val = val, !.next = next]
    BY <1>0, <1>1, <1>2, <1>3, <1>6 DEF PlaceKey, TableOf
  <2>2. before \in Reach(tb, h) /\ tb.next[before] = mp
    <3>1. \E i \in Reach(tb, h) : tb.next[i] = mp
      BY <1>1, <1>2, <1>6, BeforeExists
    <3>2. before = CHOOSE i \in Reach(tb, h) : tb.next[i] = mp
      BY <1>3, <1>6
    <3> HIDE DEF before, h
    <3> QED BY <3>1, <3>2
  <2>3. before \in Nodes(n)
    BY <1>1, <1>3, <1>6, <2>2, ReachStarts
  <2> HIDE DEF before
  <2>4. f # mp /\ before # f /\ before # mp
    <3>1. PICK M \in Nat : \E r \in [Nodes(n) -> 0 .. M] :
             \A x \in Nodes(n) : tb.next[x] # None => r[x] < r[tb.next[x]]
      BY <1>1 DEF Acyclic
    <3>2. PICK r \in [Nodes(n) -> 0 .. M] :
             \A x \in Nodes(n) : tb.next[x] # None => r[x] < r[tb.next[x]]
      BY <3>1
    <3>3. mp # None
      BY <1>2 DEF Nodes, None
    <3>4. \A x \in Nodes(n) : r[x] \in Int /\ ~ (r[x] < r[x])
      OBVIOUS
    <3> QED BY <1>1, <1>2, <1>6, <2>2, <2>3, <3>2, <3>3, <3>4
  <2>5. /\ key \in [Nodes(n) -> Key \cup {Null}] /\ val \in [Nodes(n) -> Value \cup {Null}]
        /\ next \in [Nodes(n) -> Nodes(n) \cup {None}]
        /\ \A i \in Nodes(n) : key[i] = IF i = mp THEN k ELSE IF i = f THEN tb.key[mp]
                                        ELSE tb.key[i]
        /\ \A i \in Nodes(n) : val[i] = IF i = mp THEN Null ELSE IF i = f THEN tb.val[mp]
                                        ELSE tb.val[i]
        /\ \A i \in Nodes(n) : next[i] = IF i = mp THEN None ELSE IF i = f THEN tb.next[mp]
                                         ELSE IF i = before THEN f ELSE tb.next[i]
    BY <1>1, <1>2, <1>3a, <2>3, <2>4
  <2> HIDE DEF key, val, next
  <2>6. /\ p \in TableOf(n) /\ p.key = key /\ p.next = next
        /\ p.val = val /\ p.firstfree = f /\ p.used = tb.used
    BY <1>0, <1>1, <2>1, <2>5 DEF TableOf
  <2> QED BY <1>0, <1>6, <2>2, <2>3, <2>5, <2>6, PlaceAside
<1> QED BY <1>4, <1>5, <1>6

-----------------------------------------------------------------------------
(* NewSlot as long as free nodes remain.                                   *)

Sound(tb, n) == Orderly(tb, n) /\ tb.used = Cardinality(Occupied(tb))

\* q gives k the value v and the other keys what tb gives them.
Gives(q, m, k, v, tb, n) ==
    \A kk \in Key : \A w : Holds(q, m, kk, w) <=>
                          IF kk = k THEN w = v ELSE Holds(tb, n, kk, w)

\* A table stays in order when keys are taken away and values changed.
LEMMA Lessened ==
  ASSUME NEW n \in Nat \ {0}, NEW tb, Orderly(tb, n), NEW q \in TableOf(n),
         q.next = tb.next, q.firstfree = tb.firstfree,
         \A i \in Nodes(n) : q.key[i] = tb.key[i] \/ q.key[i] = Null
  PROVE  Orderly(q, n)
<1>1. tb \in TableOf(n) /\ Acyclic(tb, n) /\ tb.firstfree \in Nodes(n)
  BY DEF Orderly, Walkable, TableOf
<1>2. Acyclic(q, n) /\ \A i \in Nodes(n) : Reach(q, i) = Reach(tb, i)
  BY <1>1, HomeIs, ReachSame, MainIs
<1>3. \A i \in Nodes(n) : q.key[i] # Null => i \in Reach(q, Home(n, q.key[i]))
  BY <1>1, <1>2, HomeIs DEF Orderly, Walkable
<1>4. \A i, j \in Nodes(n) : q.key[i] = q.key[j] /\ q.key[i] # Null => i = j
  BY DEF Orderly, Walkable
<1>5. Walkable(q, n)
  BY <1>2, <1>3, <1>4 DEF Walkable
<1>6. Ordered(q, n)
  BY DEF Orderly, Ordered
<1>7. IsFree(q, q.firstfree)
  BY <1>1 DEF Orderly, IsFree
<1> QED BY <1>5, <1>6, <1>7 DEF Orderly

LEMMA MaxIs ==
  ASSUME NEW m \in Nat, NEW S \in SUBSET (0 .. m), S # {}
  PROVE  Max(S) \in S /\ \A y \in S : y <= Max(S)
<1> DEFINE T == {m - x : x \in S}
<1>0. \A y \in S : y \in Nat /\ m - y \in Nat
  OBVIOUS
<1>1. T \in SUBSET Nat /\ T # {}
  BY <1>0
<1>2. PICK i \in T : \A j \in T : i <= j
  <2> HIDE DEF T
  <2> QED BY <1>1, Lists!SmallestExists
<1>3. PICK x \in S : i = m - x
  BY <1>2
<1>4. \A y \in S : x >= y
  <2> TAKE y \in S
  <2>1. m - y \in T
    OBVIOUS
  <2>2. m - x <= m - y
    <3> HIDE DEF T
    <3> QED BY <1>2, <1>3, <2>1
  <2> QED BY <1>0, <2>2
<1>5. Max(S) \in S /\ \A y \in S : Max(S) >= y
  BY <1>4 DEF Max
<1>6. \A y \in S : y \in Int
  OBVIOUS
<1> QED BY <1>5, <1>6

LEMMA OneMore ==
  ASSUME NEW S, IsFiniteSet(S), NEW y, y \notin S
  PROVE  Cardinality(S \cup {y}) = Cardinality(S) + 1
BY FS_AddElement

LEMMA NotFound ==
  ASSUME NEW n \in Nat \ {0}, NEW tb, Walkable(tb, n), NEW k \in Key
  PROVE  Find(tb, k) = None <=> Lacks(tb, n, k)
BY FindRight, FindUnique, TableAssumption DEF Lacks, Nodes, None

LEMMA InsertNew ==
  ASSUME NEW n \in Nat \ {0}, NEW tb, Sound(tb, n), NEW k \in Key, Lacks(tb, n, k),
         NEW v \in Value \cup {Null}, FreeBelow(PlaceKey(tb, k)) # {},
         NEW q, q = Insert(tb, k, v)
  PROVE  /\ Sound(q, n) /\ Gives(q, n, k, v, tb, n) /\ q.used = tb.used + 1
         /\ Fresh(tb, n) => Fresh(q, n)
<1>0. SUFFICES ASSUME NEW p, p = PlaceKey(tb, k), NEW f, f = tb.firstfree,
                      NEW g, g = Max(FreeBelow(p)), NEW x, x = Find(p, k)
               PROVE  /\ Sound(q, n) /\ Gives(q, n, k, v, tb, n) /\ q.used = tb.used + 1
                      /\ Fresh(tb, n) => Fresh(q, n)
  OBVIOUS
<1>1. Orderly(tb, n) /\ tb \in TableOf(n) /\ f \in Nodes(n) /\ Walkable(tb, n)
  BY <1>0 DEF Sound, Orderly, Walkable, TableOf
<1>2. Placed(p, tb, n, k)
  BY <1>0, <1>1, PlaceKeyPlaces
<1>3. p \in TableOf(n) /\ Walkable(p, n) /\ p.firstfree = f /\ p.used = tb.used
  BY <1>0, <1>2 DEF Placed, Walkable
<1>4. /\ g \in 0 .. f /\ p.key[g] = Null /\ p.next[g] = None /\ g \in Nodes(n)
      /\ \A i \in 0 .. f : p.key[i] = Null /\ p.next[i] = None => i <= g
  <2>1. FreeBelow(p) = {i \in 0 .. f : p.key[i] = Null /\ p.next[i] = None} /\ f \in Nat
    BY <1>1, <1>3 DEF FreeBelow, IsFree, Nodes
  <2>2. FreeBelow(p) \in SUBSET (0 .. f)
    BY <2>1
  <2>3. g \in FreeBelow(p) /\ \A y \in FreeBelow(p) : y <= g
    BY <1>0, <2>1, <2>2, MaxIs
  <2>4. 0 .. f \subseteq Nodes(n)
    BY <1>1 DEF Nodes
  <2> QED BY <2>1, <2>3, <2>4
<1>5. x \in Nodes(n) /\ p.key[x] = k
  BY <1>0, <1>2, <1>3, FindUnique DEF Placed
<1>6. q = [p EXCEPT !.firstfree = g, !.val[x] = v, !.used = @ + 1]
  <2>1. Find(tb, k) = None
    BY <1>1, NotFound
  <2> QED BY <1>0, <2>1 DEF Insert
<1>7. /\ q \in TableOf(n) /\ q.key = p.key /\ q.next = p.next /\ q.firstfree = g
      /\ q.used = tb.used + 1
      /\ \A i \in Nodes(n) : q.val[i] = IF i = x THEN v ELSE p.val[i]
  <2>1. tb.used + 1 \in Nat
    BY <1>1 DEF TableOf
  <2> DEFINE val == [p.val EXCEPT ![x] = v]
  <2>2. /\ val \in [Nodes(n) -> Value \cup {Null}]
        /\ \A i \in Nodes(n) : val[i] = IF i = x THEN v ELSE p.val[i]
    BY <1>3 DEF TableOf
  <2>3. q = [p EXCEPT !.firstfree = g, !.val = val, !.used = tb.used + 1]
    BY <1>3, <1>6 DEF TableOf
  <2> HIDE DEF val
  <2> QED BY <1>3, <1>4, <2>1, <2>2, <2>3 DEF TableOf
<1>8. Walkable(q, n)
  <2>1. Acyclic(q, n) /\ \A i \in Nodes(n) : Reach(q, i) = Reach(p, i)
    BY <1>3, <1>5, <1>7, ReachSame DEF Walkable
  <2>2. \A i \in Nodes(n) : q.key[i] # Null => Home(n, q.key[i]) \in Nodes(n)
    BY <1>7, HomeIs
  <2> QED BY <1>3, <1>7, <2>1, <2>2 DEF Walkable
<1>9. Ordered(q, n)
  <2>1. \A i \in Nodes(n) : q.next[i] # None => g < q.next[i]
    <3> SUFFICES ASSUME NEW i \in Nodes(n), q.next[i] # None PROVE g < q.next[i]
      OBVIOUS
    <3>1. q.next[i] \in Int /\ g \in Int /\ f \in Int /\ g <= f
      BY <1>1, <1>4, <1>7 DEF TableOf, Nodes
    <3>2. f < q.next[i] \/ (f = q.next[i] /\ p.key[f] # Null)
      BY <1>0, <1>2, <1>7 DEF Placed
    <3> QED BY <1>4, <3>1, <3>2
  <2>2. \A i \in Nodes(n) : q.key[i] # Null /\ Home(n, q.key[i]) # i => g < i
    <3> SUFFICES ASSUME NEW i \in Nodes(n), q.key[i] # Null, Home(n, q.key[i]) # i
                 PROVE  g < i
      OBVIOUS
    <3>1. i \in Int /\ g \in Int /\ f \in Int /\ g <= f
      BY <1>1, <1>4 DEF Nodes
    <3>2. f <= i /\ i # g
      BY <1>0, <1>2, <1>4, <1>7 DEF Placed
    <3> QED BY <3>1, <3>2
  <2>3. \A i, j \in Nodes(n) : q.next[i] = q.next[j] /\ q.next[i] # None => i = j
    BY <1>2, <1>7 DEF Placed
  <2>4. \A i, j \in Nodes(n) : q.key[i] # Null /\ Home(n, q.key[i]) # i /\ q.key[j] # Null
                                => Home(n, q.key[j]) # i
    BY <1>2, <1>7 DEF Placed
  <2> QED BY <1>7, <2>1, <2>2, <2>3, <2>4 DEF Ordered
<1>10. Orderly(q, n)
  BY <1>4, <1>7, <1>8, <1>9 DEF Orderly, IsFree
<1>11. q.used = Cardinality(Occupied(q))
  <2>1. PICK y \in Nodes(n) : y \notin Occupied(tb) /\ Occupied(p) = Occupied(tb) \cup {y}
    BY <1>2 DEF Placed
  <2>2. Occupied(q) = Occupied(p)
    BY <1>7 DEF Occupied
  <2>3. Cardinality(Occupied(q)) = Cardinality(Occupied(tb)) + 1
    BY <1>1, <2>1, <2>2, OccupiedIs, OneMore
  <2> QED BY <1>7, <2>3 DEF Sound
<1>12. Gives(q, n, k, v, tb, n)
  <2> SUFFICES ASSUME NEW kk \in Key, NEW w
               PROVE  Holds(q, n, kk, w) <=> IF kk = k THEN w = v ELSE Holds(tb, n, kk, w)
    BY DEF Gives
  <2>1. CASE kk = k
    <3>1. k # Null
      BY TableAssumption
    <3>2. \A i \in Nodes(n) : q.key[i] = k => i = x
      BY <1>5, <1>7, <1>8, <3>1 DEF Walkable
    <3> QED BY <1>5, <1>7, <2>1, <3>2 DEF Holds
  <2>2. CASE kk # k
    <3>1. Holds(q, n, kk, w) <=> Holds(p, n, kk, w)
      BY <1>5, <1>7, <2>2 DEF Holds
    <3> QED BY <1>2, <2>2, <3>1 DEF Placed
  <2> QED BY <2>1, <2>2
<1>13. Fresh(tb, n) => Fresh(q, n)
  <2> SUFFICES ASSUME Fresh(tb, n), NEW i \in Nodes(n), q.key[i] = Null
               PROVE  q.next[i] = None /\ i <= q.firstfree
    BY DEF Fresh
  <2>1. p.next[i] = None /\ i <= f
    BY <1>2, <1>3, <1>7 DEF Placed, Fresh
  <2>2. i \in 0 .. f
    BY <1>1, <2>1 DEF Nodes
  <2> QED BY <1>4, <1>7, <2>1, <2>2
<1> QED BY <1>7, <1>10, <1>11, <1>12, <1>13 DEF Sound

\* As long as fewer slots than nodes are in a table from which nothing was
\* removed, the next one does not use up the free nodes.
LEMMA FreshNotFull ==
  ASSUME NEW n \in Nat \ {0}, NEW tb, Sound(tb, n), NEW k \in Key, Lacks(tb, n, k),
         Fresh(tb, n), tb.used + 1 < n
  PROVE  FreeBelow(PlaceKey(tb, k)) # {}
<1>0. SUFFICES ASSUME NEW p, p = PlaceKey(tb, k), NEW f, f = tb.firstfree
               PROVE  FreeBelow(p) # {}
  OBVIOUS
<1>1. Orderly(tb, n) /\ tb \in TableOf(n) /\ f \in Nodes(n)
  BY <1>0 DEF Sound, Orderly, Walkable, TableOf
<1>2. Placed(p, tb, n, k)
  BY <1>0, <1>1, PlaceKeyPlaces
<1>3. p \in TableOf(n) /\ p.firstfree = f
  BY <1>0, <1>2 DEF Placed, Walkable
<1>4. Cardinality(Occupied(p)) = tb.used + 1
  <2>1. PICK y \in Nodes(n) : y \notin Occupied(tb) /\ Occupied(p) = Occupied(tb) \cup {y}
    BY <1>2 DEF Placed
  <2>2. Cardinality(Occupied(p)) = Cardinality(Occupied(tb)) + 1
    BY <1>1, <2>1, OccupiedIs, OneMore
  <2> QED BY <2>2 DEF Sound
<1>5. Occupied(p) # Nodes(n)
  <2>1. tb.used \in Nat /\ ~ (n < n)
    BY <1>1 DEF TableOf
  <2> QED BY <1>1, <1>4, <2>1, SizeIs
<1>6. PICK i \in Nodes(n) : p.key[i] = Null
  BY <1>3, <1>5, OccupiedIs
<1>7. p.next[i] = None /\ i <= f
  BY <1>2, <1>3, <1>6 DEF Placed, Fresh
<1>8. i \in 0 .. f
  BY <1>1, <1>7 DEF Nodes
<1> QED BY <1>3, <1>6, <1>7, <1>8 DEF FreeBelow, IsFree

-----------------------------------------------------------------------------
(* Rehash and Clone fill an empty table, node by node.                     *)

LEMMA EmptySound ==
  ASSUME NEW m \in Nat \ {0}
  PROVE  /\ Empty(m) \in TableOf(m) /\ Sound(Empty(m), m) /\ Fresh(Empty(m), m)
         /\ Empty(m).used = 0 /\ Occupied(Empty(m)) = {}
         /\ \A k \in Key : \A v : ~ Holds(Empty(m), m, k, v)
<1>0. SUFFICES ASSUME NEW q, q = Empty(m)
               PROVE  /\ q \in TableOf(m) /\ Sound(q, m) /\ Fresh(q, m)
                      /\ q.used = 0 /\ Occupied(q) = {}
                      /\ \A k \in Key : \A v : ~ Holds(q, m, k, v)
  OBVIOUS
<1>1. /\ q \in TableOf(m) /\ q.used = 0 /\ q.firstfree = m - 1
      /\ \A i \in Nodes(m) : q.key[i] = Null /\ q.next[i] = None
  <2>1. m - 1 \in Nodes(m)
    BY DEF Nodes
  <2> QED BY <1>0, <2>1 DEF Empty, TableOf
<1>2. Acyclic(q, m)
  <2> DEFINE r == [i \in Nodes(m) |-> 0]
  <2>1. r \in [Nodes(m) -> 0 .. 0]
    OBVIOUS
  <2>2. \A i \in Nodes(m) : q.next[i] # None => r[i] < r[q.next[i]]
    BY <1>1
  <2>3. 0 \in Nat
    OBVIOUS
  <2> HIDE DEF r
  <2> QED BY <2>1, <2>2, <2>3 DEF Acyclic
<1>3. Walkable(q, m) /\ Ordered(q, m) /\ IsFree(q, q.firstfree)
  <2>1. q.firstfree \in Nodes(m)
    BY <1>1 DEF TableOf
  <2> QED BY <1>1, <1>2, <2>1 DEF Walkable, Ordered, IsFree
<1>4. Occupied(q) = {}
  BY <1>1, OccupiedIs
<1>5. Fresh(q, m)
  BY <1>1 DEF Fresh, Nodes
<1>6. \A k \in Key : \A v : ~ Holds(q, m, k, v)
  BY <1>1, TableAssumption DEF Holds
<1>7. Cardinality({}) = 0
  BY FS_EmptySet
<1> QED BY <1>1, <1>3, <1>4, <1>5, <1>6, <1>7 DEF Sound, Orderly

\* No two nodes have the same key.
Distinct(old, n) ==
    \A i, j \in Nodes(n) : old.key[i] = old.key[j] /\ old.key[i] # Null => i = j

Below(old, j) == {i \in Occupied(old) : i < j}

\* x has the slots of the first j nodes of old.
Filled(x, m, old, n, j) ==
    /\ x \in TableOf(m) /\ Sound(x, m) /\ Fresh(x, m)
    /\ x.used = Cardinality(Below(old, j))
    /\ \A k \in Key : \A v : Holds(x, m, k, v) <=>
          \E i \in Nodes(n) : i < j /\ old.key[i] = k /\ old.val[i] = v

LEMMA FillNode ==
  ASSUME NEW n \in Nat \ {0}, NEW m \in Nat \ {0}, NEW old \in TableOf(n), Distinct(old, n),
         Cardinality(Occupied(old)) < m, NEW j \in Nodes(n), NEW x, Filled(x, m, old, n, j)
  PROVE  /\ Filled(InsertNode(x, old, j), m, old, n, j + 1)
         /\ CloneNode(x, old, j) = InsertNode(x, old, j)
<1>1. /\ Occupied(old) = {i \in Nodes(n) : old.key[i] # Null}
      /\ IsFiniteSet(Occupied(old)) /\ j \in Int /\ Nodes(n) \subseteq Int
  BY OccupiedIs DEF Nodes
<1>2. x \in TableOf(m) /\ Sound(x, m) /\ Fresh(x, m) /\ Walkable(x, m)
  BY DEF Filled, Sound, Orderly
<1>3. CASE old.key[j] = Null
  <2>1. InsertNode(x, old, j) = x /\ CloneNode(x, old, j) = x
    BY <1>3 DEF InsertNode, CloneNode
  <2>2. Below(old, j + 1) = Below(old, j)
    BY <1>1, <1>3 DEF Below
  <2>3. \A k \in Key : \A i \in Nodes(n) : old.key[i] = k => (i < j <=> i < j + 1)
    BY <1>1, <1>3, TableAssumption
  <2>4. Filled(x, m, old, n, j + 1)
    BY <2>2, <2>3 DEF Filled
  <2> QED BY <2>1, <2>4
<1>4. CASE old.key[j] # Null
  <2> DEFINE k == old.key[j]
             v == old.val[j]
             q == Insert(x, k, v)
  <2>1. k \in Key /\ v \in Value \cup {Null}
    BY <1>4, HomeIs DEF TableOf
  <2>2. Lacks(x, m, k)
    <3> SUFFICES ASSUME NEW y \in Nodes(m), x.key[y] = k PROVE FALSE
      BY DEF Lacks
    <3>1. Holds(x, m, k, x.val[y])
      BY DEF Holds
    <3>2. PICK i \in Nodes(n) : i < j /\ old.key[i] = k
      BY <2>1, <3>1 DEF Filled
    <3>3. i = j
      BY <1>4, <3>2 DEF Distinct
    <3> QED BY <1>1, <3>2, <3>3
  <2>3. Below(old, j + 1) = Below(old, j) \cup {j} /\ j \notin Below(old, j)
    BY <1>1, <1>4 DEF Below
  <2>4. IsFiniteSet(Below(old, j)) /\ IsFiniteSet(Below(old, j + 1))
        /\ Cardinality(Below(old, j + 1)) <= Cardinality(Occupied(old))
        /\ Cardinality(Below(old, j + 1)) \in Nat /\ Cardinality(Occupied(old)) \in Nat
    <3>1. Below(old, j) \in SUBSET Occupied(old) /\ Below(old, j + 1) \in SUBSET Occupied(old)
      BY DEF Below
    <3> QED BY <1>1, <3>1, FS_Subset, FS_CardinalityType
  <2>5. Cardinality(Below(old, j + 1)) = x.used + 1
    BY <2>3, <2>4, OneMore DEF Filled
  <2>6. x.used + 1 < m
    BY <2>4, <2>5
  <2> HIDE DEF k, v
  <2>7. FreeBelow(PlaceKey(x, k)) # {}
    BY <1>2, <2>1, <2>2, <2>6, FreshNotFull
  <2>8. Sound(q, m) /\ Gives(q, m, k, v, x, m) /\ q.used = x.used + 1 /\ Fresh(q, m)
    BY <1>2, <2>1, <2>2, <2>7, InsertNew
  <2>9. q \in TableOf(m)
    BY <2>8 DEF Sound, Orderly, Walkable
  <2>10. ASSUME NEW kk \in Key, NEW w
         PROVE  Holds(q, m, kk, w) <=>
                  \E i \in Nodes(n) : i < j + 1 /\ old.key[i] = kk /\ old.val[i] = w
    <3>1. CASE kk = k
      <4>1. \A i \in Nodes(n) : old.key[i] = k => i = j
        BY <1>4 DEF Distinct, k
      <4>2. Holds(q, m, k, w) <=> w = v
        BY <2>1, <2>8 DEF Gives
      <4>3. j < j + 1 /\ old.key[j] = k /\ old.val[j] = v
        BY <1>1 DEF k, v
      <4> QED BY <3>1, <4>1, <4>2, <4>3
    <3>2. CASE kk # k
      <4>1. Holds(q, m, kk, w) <=> Holds(x, m, kk, w)
        BY <2>8, <3>2 DEF Gives
      <4>2. Holds(x, m, kk, w) <=>
              \E i \in Nodes(n) : i < j /\ old.key[i] = kk /\ old.val[i] = w
        BY DEF Filled
      <4>3. \A i \in Nodes(n) : old.key[i] = kk => (i < j <=> i < j + 1)
        BY <1>1, <3>2 DEF k
      <4> QED BY <4>1, <4>2, <4>3
    <3> QED BY <3>1, <3>2
  <2>11. Filled(q, m, old, n, j + 1)
    BY <2>5, <2>8, <2>9, <2>10 DEF Filled
  <2>12. InsertNode(x, old, j) = q
    BY <1>4 DEF InsertNode, k, v
  <2>13. CloneNode(x, old, j) = q
    <3>1. ~ Full(x, k)
      BY <2>7 DEF Full
    <3> QED BY <1>4, <3>1 DEF CloneNode, NewSlot, k, v
  <2> QED BY <2>11, <2>12, <2>13
<1> QED BY <1>3, <1>4

\* All the slots of old, and no others, in m nodes.
Moved(q, m, old, n) ==
    /\ Sound(q, m) /\ q.used = Cardinality(Occupied(old))
    /\ \A k \in Key : \A v : Holds(q, m, k, v) <=> Holds(old, n, k, v)

LEMMA FillAll ==
  ASSUME NEW n \in Nat \ {0}, NEW m \in Nat \ {0}, NEW old \in TableOf(n), Distinct(old, n),
         Cardinality(Occupied(old)) < m
  PROVE  /\ Moved(Rebuild(old, m), m, old, n)
         /\ PowerOfTwo(n) = m => Moved(Clone(old), m, old, n)
<1> DEFINE X == [j \in 0 .. n |-> {x \in TableOf(m) : Filled(x, m, old, n, j)}]
           G == [j \in 1 .. n |-> [x \in X[j - 1] |-> InsertNode(x, old, j - 1)]]
           F(f) == [j \in 0 .. Size(old) |-> IF j = 0 THEN Empty(m)
                                             ELSE InsertNode(f[j - 1], old, j - 1)]
           H(f) == [j \in 0 .. Size(old) |-> IF j = 0 THEN Empty(PowerOfTwo(Size(old)))
                                             ELSE CloneNode(f[j - 1], old, j - 1)]
<1>1. \A j \in 0 .. n : \A x : x \in X[j] <=> Filled(x, m, old, n, j)
  BY DEF Filled
<1>2. Empty(m) \in X[0]
  <2>1. Below(old, 0) = {} /\ \A i \in Nodes(n) : ~ (i < 0)
    BY OccupiedIs DEF Below, Nodes
  <2>2. Cardinality({}) = 0
    BY FS_EmptySet
  <2>3. Filled(Empty(m), m, old, n, 0)
    BY <2>1, <2>2, EmptySound DEF Filled
  <2> QED BY <1>1, <2>3
<1>3. \A j \in 1 .. n : \A x \in X[j - 1] :
         /\ InsertNode(x, old, j - 1) \in X[j]
         /\ CloneNode(x, old, j - 1) = InsertNode(x, old, j - 1)
  <2> SUFFICES ASSUME NEW j \in 1 .. n, NEW x \in X[j - 1]
               PROVE  /\ InsertNode(x, old, j - 1) \in X[j]
                      /\ CloneNode(x, old, j - 1) = InsertNode(x, old, j - 1)
    OBVIOUS
  <2>1. j - 1 \in Nodes(n) /\ j - 1 \in 0 .. n /\ (j - 1) + 1 = j /\ j \in 0 .. n
    BY DEF Nodes
  <2>2. Filled(x, m, old, n, j - 1)
    BY <1>1, <2>1
  <2> HIDE DEF X
  <2>3. /\ Filled(InsertNode(x, old, j - 1), m, old, n, (j - 1) + 1)
        /\ CloneNode(x, old, j - 1) = InsertNode(x, old, j - 1)
    BY <2>1, <2>2, FillNode
  <2> QED BY <1>1, <2>1, <2>3
<1>4. \A j \in 1 .. n : \A x \in X[j - 1] : G[j][x] = InsertNode(x, old, j - 1)
  OBVIOUS
<1>5. PICK f : LoopOf(n, Empty(m), G, f)
  BY LoopExists
<1>6. f[0] = Empty(m) /\ \A j \in 1 .. n : f[j] = G[j][f[j - 1]]
  <2> HIDE DEF G, X
  <2> QED BY <1>5 DEF LoopOf
<1> HIDE DEF X, G
<1>7. \A j \in 0 .. n : f[j] \in X[j]
  <2>1. \A j \in 1 .. n : f[j - 1] \in X[j - 1] => f[j] \in X[j]
    BY <1>3, <1>4, <1>6
  <2> QED BY <1>2, <1>6, <2>1, LoopStays
<1>8. \A j \in 0 .. n : j # 0 => /\ G[j][f[j - 1]] = InsertNode(f[j - 1], old, j - 1)
                                 /\ G[j][f[j - 1]] = CloneNode(f[j - 1], old, j - 1)
  <2> TAKE j \in 0 .. n
  <2> HAVE j # 0
  <2>1. j \in 1 .. n /\ f[j - 1] \in X[j - 1]
    BY <1>7
  <2> QED BY <1>3, <1>4, <2>1
<1>9. Size(old) = n
  BY SizeIs
<1>10. f = F(f) /\ (PowerOfTwo(n) = m => f = H(f))
  BY <1>5, <1>8, <1>9 DEF LoopOf
\* Whatever is filled from the first node to the last has moved.
<1>11. ASSUME NEW g, g[0] = Empty(m),
              \A j \in 1 .. n : \/ g[j] = InsertNode(g[j - 1], old, j - 1)
                               \/ g[j] = CloneNode(g[j - 1], old, j - 1)
       PROVE  Moved(g[n], m, old, n)
  <2>1. \A j \in 1 .. n : g[j - 1] \in X[j - 1] => g[j] \in X[j]
    BY <1>3, <1>11
  <2>2. g[n] \in X[n]
    BY <1>2, <1>11, <2>1, LoopStays
  <2>3. Filled(g[n], m, old, n, n)
    BY <1>1, <2>2
  <2>4. \A i \in Nodes(n) : i < n
    BY DEF Nodes
  <2>5. Below(old, n) = Occupied(old)
    BY <2>4, OccupiedIs DEF Below
  <2> QED BY <2>3, <2>4, <2>5 DEF Filled, Moved, Holds
<1>12. Moved(Rebuild(old, m), m, old, n)
  <2> DEFINE ins == CHOOSE g : g = F(g)
  <2>1. Rebuild(old, m) = ins[n]
    BY <1>9 DEF Rebuild
  <2>2. ins = F(ins)
    <3> HIDE DEF F
    <3> QED BY <1>10
  <2> HIDE DEF ins
  <2>3. ins[0] = Empty(m) /\ \A j \in 1 .. n : ins[j] = InsertNode(ins[j - 1], old, j - 1)
    BY <1>9, <2>2
  <2> QED BY <1>11, <2>1, <2>3
<1>13. ASSUME PowerOfTwo(n) = m PROVE Moved(Clone(old), m, old, n)
  <2> DEFINE ins == CHOOSE g : g = H(g)
  <2>1. Clone(old) = ins[n]
    BY <1>9 DEF Clone
  <2>2. ins = H(ins)
    <3> HIDE DEF H
    <3> QED BY <1>10, <1>13
  <2> HIDE DEF ins
  <2>3. ins[0] = Empty(m) /\ \A j \in 1 .. n : ins[j] = CloneNode(ins[j - 1], old, j - 1)
    BY <1>9, <1>13, <2>2
  <2> QED BY <1>11, <2>1, <2>3
<1> QED BY <1>12, <1>13

-----------------------------------------------------------------------------
(* The operations of a table.                                              *)

\* There is always a free node, so fewer slots than nodes.
LEMMA UsedBelow ==
  ASSUME NEW n \in Nat \ {0}, NEW tb, Sound(tb, n)
  PROVE  tb \in TableOf(n) /\ tb.used \in Nat /\ tb.used < n
<1>1. tb \in TableOf(n) /\ tb.firstfree \in Nodes(n) /\ tb.key[tb.firstfree] = Null
  BY DEF Sound, Orderly, Walkable, TableOf, IsFree
<1>2. Occupied(tb) \in SUBSET Nodes(n) /\ Occupied(tb) # Nodes(n)
  BY <1>1, OccupiedIs
<1>3. Cardinality(Occupied(tb)) <= n /\ Cardinality(Occupied(tb)) # n
      /\ Cardinality(Occupied(tb)) \in Nat
  BY <1>1, <1>2, SizeIs, FS_Subset, OccupiedIs
<1> QED BY <1>1, <1>3 DEF Sound

LEMMA Overwritten ==
  ASSUME NEW n \in Nat \ {0}, NEW tb, Sound(tb, n), NEW i \in Nodes(n),
         NEW v \in Value \cup {Null}, NEW q, q = [tb EXCEPT !.val[i] = v]
  PROVE  /\ Sound(q, n) /\ q \in TableOf(n) /\ q.key = tb.key
         /\ \A k \in Key : tb.key[i] = k => Gives(q, n, k, v, tb, n)
         /\ tb.key[i] = Null =>
              \A k \in Key : \A w : Holds(q, n, k, w) <=> Holds(tb, n, k, w)
<1>1. tb \in TableOf(n) /\ Orderly(tb, n)
  BY DEF Sound, Orderly, Walkable
<1>2. /\ q \in TableOf(n) /\ q.key = tb.key /\ q.next = tb.next /\ q.used = tb.used
      /\ q.firstfree = tb.firstfree
      /\ \A j \in Nodes(n) : q.val[j] = IF j = i THEN v ELSE tb.val[j]
  <2> DEFINE val == [tb.val EXCEPT ![i] = v]
  <2>1. /\ val \in [Nodes(n) -> Value \cup {Null}]
        /\ \A j \in Nodes(n) : val[j] = IF j = i THEN v ELSE tb.val[j]
    BY <1>1 DEF TableOf
  <2>2. q = [tb EXCEPT !.val = val]
    BY <1>1 DEF TableOf
  <2> HIDE DEF val
  <2> QED BY <1>1, <2>1, <2>2 DEF TableOf
<1>3. Orderly(q, n)
  BY <1>1, <1>2, Lessened
<1>4. Occupied(q) = Occupied(tb)
  BY <1>2 DEF Occupied
<1>5. Sound(q, n)
  BY <1>2, <1>3, <1>4 DEF Sound
<1>6. ASSUME NEW k \in Key, tb.key[i] = k PROVE Gives(q, n, k, v, tb, n)
  <2>1. \A j \in Nodes(n) : tb.key[j] = k => j = i
    BY <1>1, <1>6, TableAssumption DEF Orderly, Walkable
  <2> QED BY <1>2, <1>6, <2>1 DEF Gives, Holds
<1>7. ASSUME tb.key[i] = Null
      PROVE  \A k \in Key : \A w : Holds(q, n, k, w) <=> Holds(tb, n, k, w)
  <2>1. \A k \in Key : k # Null
    BY TableAssumption
  <2> QED BY <1>2, <1>7, <2>1 DEF Holds
<1> QED BY <1>2, <1>5, <1>6, <1>7

\* Rehash has room for all the slots, and for one that is not counted yet.
LEMMA RehashMoves ==
  ASSUME NEW n, Power(n), NEW p \in TableOf(n), Distinct(p, n),
         NEW c, c = Cardinality(Occupied(p)), p.used <= c, c <= p.used + 1
  PROVE  /\ \E m : Power(m) /\ Moved(Rehash(p, TRUE), m, p, n)
         /\ \/ Rehash(p, FALSE) = p
            \/ \E m : Power(m) /\ m # n /\ Moved(Rehash(p, FALSE), m, p, n)
<1>1. n \in Nat \ {0} /\ n >= 4 /\ n \div 4 >= 1 /\ n \div 4 \in Nat
  BY PowerType
<1>2. Size(p) = n /\ c \in Nat /\ c <= n /\ p.used \in Nat
  BY <1>1, SizeIs, OccupiedIs DEF TableOf
<1>3. CASE p.used >= n - n \div 4
  <2>1. Rehash(p, TRUE) = Rebuild(p, n * 2) /\ Rehash(p, FALSE) = Rebuild(p, n * 2)
    BY <1>2, <1>3 DEF Rehash
  <2>2. Power(n * 2) /\ n * 2 \in Nat \ {0} /\ c < n * 2 /\ n * 2 # n
    BY <1>1, <1>2, PowerType
  <2>3. Moved(Rebuild(p, n * 2), n * 2, p, n)
    BY <1>1, <2>2, FillAll
  <2> QED BY <2>1, <2>2, <2>3
<1>4. CASE p.used < n - n \div 4 /\ p.used <= n \div 4 /\ n > MINPOWER2
  <2>1. Rehash(p, TRUE) = Rebuild(p, n \div 2) /\ Rehash(p, FALSE) = Rebuild(p, n \div 2)
    BY <1>1, <1>2, <1>4 DEF Rehash
  <2>2. Power(n \div 2) /\ n \div 2 \in Nat \ {0} /\ c < n \div 2 /\ n \div 2 # n
    <3>1. n >= 8 /\ n % 4 = 0 /\ Power(n \div 2)
      BY <1>4, PowerType
    <3> DEFINE h == n \div 4
    <3>2. h \in Nat /\ n = 4 * h /\ n \div 2 = 2 * h
      BY <1>1, <3>1
    <3> HIDE DEF h
    <3>3. p.used <= h
      BY <1>4 DEF h
    <3> QED BY <1>1, <1>2, <3>1, <3>2, <3>3
  <2>3. Moved(Rebuild(p, n \div 2), n \div 2, p, n)
    BY <1>1, <2>2, FillAll
  <2> QED BY <2>1, <2>2, <2>3
<1>5. CASE p.used < n - n \div 4 /\ ~ (p.used <= n \div 4 /\ n > MINPOWER2)
  <2>1. Rehash(p, TRUE) = Rebuild(p, n) /\ Rehash(p, FALSE) = p
    BY <1>1, <1>2, <1>5 DEF Rehash
  <2>2. c < n
    BY <1>1, <1>2, <1>5
  <2>3. Moved(Rebuild(p, n), n, p, n)
    BY <1>1, <2>2, FillAll
  <2> QED BY <2>1, <2>3
<1>6. p.used >= n - n \div 4 \/ p.used < n - n \div 4
  BY <1>1, <1>2
<1> QED BY <1>3, <1>4, <1>5, <1>6

LEMMA NewSlotRight ==
  ASSUME NEW n, Power(n), NEW tb, Sound(tb, n), NEW k \in Key, NEW v \in Value
  PROVE  /\ \E m : Power(m) /\ Sound(NewSlot(tb, k, v), m)
                   /\ Gives(NewSlot(tb, k, v), m, k, v, tb, n)
         /\ ~ Lacks(tb, n, k) => /\ NewSlot(tb, k, v) \in TableOf(n)
                                 /\ NewSlot(tb, k, v).key = tb.key
<1>1. n \in Nat \ {0} /\ tb \in TableOf(n) /\ Walkable(tb, n) /\ Orderly(tb, n)
  BY PowerType DEF Sound, Orderly, Walkable
<1>2. CASE ~ Lacks(tb, n, k)
  <2> DEFINE i == Find(tb, k)
  <2>1. i \in Nodes(n) /\ tb.key[i] = k /\ i # None
    BY <1>1, <1>2, FindRight, NotFound
  <2>2. NewSlot(tb, k, v) = [tb EXCEPT !.val[i] = v]
    BY <2>1 DEF NewSlot, Full, Insert
  <2> HIDE DEF i
  <2> QED BY <1>1, <1>2, <2>1, <2>2, Overwritten
<1>3. CASE Lacks(tb, n, k) /\ FreeBelow(PlaceKey(tb, k)) # {}
  <2>1. NewSlot(tb, k, v) = Insert(tb, k, v)
    BY <1>3 DEF NewSlot, Full
  <2> QED BY <1>1, <1>3, <2>1, InsertNew
<1>4. CASE Lacks(tb, n, k) /\ FreeBelow(PlaceKey(tb, k)) = {}
  <2>0. SUFFICES ASSUME NEW p, p = Insert(tb, k, v), NEW r, r = Rehash(p, TRUE),
                        NEW q, q = Insert(r, k, v)
                 PROVE  \E m : Power(m) /\ Sound(q, m) /\ Gives(q, m, k, v, tb, n)
    <3>1. Find(tb, k) = None
      BY <1>1, <1>4, NotFound
    <3>2. NewSlot(tb, k, v) = Insert(Rehash(Insert(tb, k, v), TRUE), k, v)
      BY <1>4, <3>1 DEF NewSlot, Full
    <3> QED BY <1>4, <3>2
  <2>1. p = [PlaceKey(tb, k) EXCEPT !.firstfree = 0]
    <3>1. Find(tb, k) = None
      BY <1>1, <1>4, NotFound
    <3> QED BY <1>4, <2>0, <3>1 DEF Insert
  <2>2. Placed(PlaceKey(tb, k), tb, n, k)
    BY <1>1, <1>4, PlaceKeyPlaces
  <2>3. /\ p \in TableOf(n) /\ p.key = PlaceKey(tb, k).key /\ p.val = PlaceKey(tb, k).val
        /\ p.used = tb.used
    <3>1. 0 \in Nodes(n)
      BY <1>1, MainIs
    <3> QED BY <2>1, <2>2, <3>1 DEF Placed, Walkable, TableOf
  <2>4. Distinct(p, n)
    BY <2>2, <2>3 DEF Placed, Walkable, Distinct
  <2>5. Cardinality(Occupied(p)) = tb.used + 1
    <3>1. PICK y \in Nodes(n) : /\ y \notin Occupied(tb)
                                /\ Occupied(PlaceKey(tb, k)) = Occupied(tb) \cup {y}
      BY <2>2 DEF Placed
    <3>2. Occupied(p) = Occupied(PlaceKey(tb, k))
      BY <2>3 DEF Occupied
    <3>3. Cardinality(Occupied(p)) = Cardinality(Occupied(tb)) + 1
      BY <1>1, <3>1, <3>2, OccupiedIs, OneMore
    <3> QED BY <3>3 DEF Sound
  <2>6. PICK m : Power(m) /\ Moved(r, m, p, n)
    <3>1. p.used <= tb.used + 1 /\ tb.used + 1 <= p.used + 1
      BY <1>1, <2>3 DEF TableOf
    <3> QED BY <2>0, <2>3, <2>4, <2>5, <3>1, RehashMoves
  <2>7. m \in Nat \ {0} /\ Sound(r, m) /\ Walkable(r, m)
    <3>1. m \in Nat \ {0}
      BY <2>6, PowerType
    <3> QED BY <2>6, <3>1 DEF Moved, Sound, Orderly
  <2> DEFINE i == Find(r, k)
  <2>8. \E w : Holds(r, m, k, w)
    <3>1. \E w : Holds(p, n, k, w)
      BY <2>2, <2>3 DEF Placed, Holds
    <3> QED BY <2>6, <3>1 DEF Moved
  <2>9. i \in Nodes(m) /\ r.key[i] = k /\ i # None
    <3>1. ~ Lacks(r, m, k)
      BY <2>8 DEF Holds, Lacks
    <3> QED BY <2>7, <3>1, FindRight, NotFound
  <2>10. q = [r EXCEPT !.val[i] = v]
    BY <2>0, <2>9 DEF Insert
  <2> HIDE DEF i
  <2>11. Sound(q, m) /\ Gives(q, m, k, v, r, m)
    BY <2>7, <2>9, <2>10, Overwritten
  <2>12. ASSUME NEW kk \in Key, NEW w, kk # k
         PROVE  Holds(r, m, kk, w) <=> Holds(tb, n, kk, w)
    <3>1. Holds(p, n, kk, w) <=> Holds(PlaceKey(tb, k), n, kk, w)
      BY <2>3 DEF Holds
    <3>2. Holds(PlaceKey(tb, k), n, kk, w) <=> Holds(tb, n, kk, w)
      BY <2>2, <2>12 DEF Placed
    <3> QED BY <2>6, <3>1, <3>2 DEF Moved
  <2>13. Gives(q, m, k, v, tb, n)
    BY <2>11, <2>12 DEF Gives
  <2> QED BY <2>6, <2>11, <2>13
<1> QED BY <1>2, <1>3, <1>4

\* q holds nothing under k, and the rest of tb.
Takes(q, m, k, tb, n) ==
    \A kk \in Key : \A w : Holds(q, m, kk, w) <=> kk # k /\ Holds(tb, n, kk, w)

LEMMA RemoveRight ==
  ASSUME NEW n, Power(n), NEW tb, Sound(tb, n), NEW k \in Key, ~ Lacks(tb, n, k),
         NEW q, q = Remove(tb, k)
  PROVE  \E m : /\ Power(m) /\ Sound(q, m) /\ Takes(q, m, k, tb, n)
                /\ m = n => \A i \in Nodes(n) : tb.key[i] # k => q.key[i] = tb.key[i]
<1>1. /\ n \in Nat \ {0} /\ tb \in TableOf(n) /\ Walkable(tb, n) /\ Orderly(tb, n)
      /\ k # Null
  BY PowerType, TableAssumption DEF Sound, Orderly, Walkable
<1>2. PICK i \in Nodes(n) : i = Find(tb, k) /\ tb.key[i] = k /\ i # None
  BY <1>1, FindRight, NotFound
<1>3. PICK p : p = [tb EXCEPT !.key[i] = Null, !.val[i] = Null, !.used = tb.used - 1]
  OBVIOUS
<1>4. q = Rehash(p, FALSE)
  BY <1>1, <1>2, <1>3 DEF Remove, TableOf
<1>5. /\ Occupied(tb) = {j \in Nodes(n) : tb.key[j] # Null} /\ IsFiniteSet(Occupied(tb))
      /\ Cardinality(Occupied(tb)) = tb.used /\ tb.used \in Nat /\ i \in Occupied(tb)
  BY <1>1, <1>2, OccupiedIs DEF Sound, TableOf
<1>6. Cardinality(Occupied(tb) \ {i}) = tb.used - 1 /\ tb.used - 1 \in Nat
  <2>1. IsFiniteSet(Occupied(tb) \ {i}) /\ Cardinality(Occupied(tb) \ {i}) = tb.used - 1
    BY <1>5, FS_RemoveElement
  <2> QED BY <2>1, FS_CardinalityType
<1>7. /\ p \in TableOf(n) /\ p.next = tb.next /\ p.firstfree = tb.firstfree
      /\ p.used = tb.used - 1
      /\ \A j \in Nodes(n) : p.key[j] = IF j = i THEN Null ELSE tb.key[j]
      /\ \A j \in Nodes(n) : p.val[j] = IF j = i THEN Null ELSE tb.val[j]
  <2> DEFINE key == [tb.key EXCEPT ![i] = Null]
             val == [tb.val EXCEPT ![i] = Null]
  <2>1. /\ key \in [Nodes(n) -> Key \cup {Null}] /\ val \in [Nodes(n) -> Value \cup {Null}]
        /\ \A j \in Nodes(n) : key[j] = IF j = i THEN Null ELSE tb.key[j]
        /\ \A j \in Nodes(n) : val[j] = IF j = i THEN Null ELSE tb.val[j]
    BY <1>1 DEF TableOf
  <2>2. p = [tb EXCEPT !.key = key, !.val = val, !.used = tb.used - 1]
    BY <1>1, <1>3 DEF TableOf
  <2> HIDE DEF key, val
  <2> QED BY <1>1, <1>6, <2>1, <2>2 DEF TableOf
<1>8. Orderly(p, n)
  BY <1>1, <1>7, Lessened
<1>9. Occupied(p) = Occupied(tb) \ {i}
  BY <1>1, <1>5, <1>7, OccupiedIs
<1>10. Sound(p, n)
  BY <1>6, <1>7, <1>8, <1>9 DEF Sound
<1>11. Takes(p, n, k, tb, n)
  <2> SUFFICES ASSUME NEW kk \in Key, NEW w
               PROVE  Holds(p, n, kk, w) <=> kk # k /\ Holds(tb, n, kk, w)
    BY DEF Takes
  <2>1. kk # Null /\ \A j \in Nodes(n) : tb.key[j] = k => j = i
    BY <1>1, <1>2, TableAssumption DEF Walkable
  <2> QED BY <1>2, <1>7, <2>1 DEF Holds
<1>12. CASE q = p
  <2>1. \A j \in Nodes(n) : tb.key[j] # k => q.key[j] = tb.key[j]
    BY <1>2, <1>7, <1>12
  <2> QED BY <1>10, <1>11, <1>12, <2>1
<1>13. CASE \E m : Power(m) /\ m # n /\ Moved(q, m, p, n)
  BY <1>11, <1>13 DEF Moved, Takes
<1>14. Distinct(p, n) /\ p.used <= Cardinality(Occupied(p)) /\ Cardinality(Occupied(p)) <= p.used + 1
  BY <1>6, <1>7, <1>8, <1>9 DEF Orderly, Walkable, Distinct
<1> QED BY <1>4, <1>7, <1>12, <1>13, <1>14, RehashMoves

LEMMA ClearRight ==
  ASSUME NEW n, Power(n), NEW tb, Sound(tb, n), NEW q, q = Clear(tb)
  PROVE  \E m : Power(m) /\ Sound(q, m) /\ \A k \in Key : \A w : ~ Holds(q, m, k, w)
<1>1. n \in Nat \ {0} /\ tb \in TableOf(n)
  BY PowerType DEF Sound, Orderly, Walkable
<1> DEFINE none == [i \in Nodes(n) |-> Null]
<1>2. PICK p : p = [tb EXCEPT !.key = none, !.val = none, !.used = 0]
  OBVIOUS
<1>3. q = Rehash(p, TRUE)
  BY <1>1, <1>2 DEF Clear, TableOf
<1>4. none \in [Nodes(n) -> Key \cup {Null}] /\ none \in [Nodes(n) -> Value \cup {Null}]
      /\ \A i \in Nodes(n) : none[i] = Null
  OBVIOUS
<1> HIDE DEF none
<1>5. p \in TableOf(n) /\ p.key = none /\ p.used = 0
  BY <1>1, <1>2, <1>4 DEF TableOf
<1>6. Distinct(p, n)
  BY <1>4, <1>5 DEF Distinct
<1>7. Cardinality(Occupied(p)) = 0
  <2>1. Occupied(p) = {}
    BY <1>1, <1>4, <1>5, OccupiedIs
  <2> QED BY <2>1, FS_EmptySet
<1>8. PICK m : Power(m) /\ Moved(q, m, p, n)
  <2>1. p.used <= Cardinality(Occupied(p)) /\ Cardinality(Occupied(p)) <= p.used + 1
    BY <1>5, <1>7
  <2> QED BY <1>3, <1>5, <1>6, <2>1, RehashMoves
<1>9. \A k \in Key : \A w : ~ Holds(p, n, k, w)
  BY <1>4, <1>5, TableAssumption DEF Holds
<1> QED BY <1>8, <1>9 DEF Moved

LEMMA CloneRight ==
  ASSUME NEW n, Power(n), NEW tb, Sound(tb, n), NEW q, q = Clone(tb)
  PROVE  \E m : /\ Power(m) /\ Sound(q, m)
                /\ \A k \in Key : \A w : Holds(q, m, k, w) <=> Holds(tb, n, k, w)
<1>1. n \in Nat \ {0} /\ tb \in TableOf(n) /\ Distinct(tb, n)
  BY PowerType DEF Sound, Orderly, Walkable, Distinct
<1>2. PICK m : m = PowerOfTwo(n) /\ Power(m) /\ m >= n /\ m \in Nat \ {0}
  BY <1>1, SizeFound, PowerType
<1>3. Cardinality(Occupied(tb)) < m
  BY <1>1, <1>2, UsedBelow DEF Sound
<1>4. Moved(q, m, tb, n)
  BY <1>1, <1>2, <1>3, FillAll
<1> QED BY <1>2, <1>4 DEF Moved

-----------------------------------------------------------------------------
(* The specification.                                                      *)

\* While no key is new and the number of nodes is the same, the slots have
\* not moved.
Stays(q, m, tb, n) ==
    m = n /\ Keys(q) \subseteq Keys(tb) => \A k \in Keys(q) : Find(q, k) = Find(tb, k)

\* The loop has shown the slots below its index, and no other.
LoopKept(tb) ==
    /\ loop = [on |-> loop.on, at |-> loop.at, shown |-> loop.shown]
    /\ loop.on \in BOOLEAN /\ loop.at \in Nat
    /\ ~ loop.on => DOMAIN loop.shown = {}
    /\ DOMAIN loop.shown \subseteq Keys(tb)
    /\ \A k \in DOMAIN loop.shown :
          loop.shown[k] = IF Find(tb, k) < loop.at THEN 1 ELSE 0

IInv ==
    /\ \E n : Power(n) /\ Sound(t, n)
    /\ LoopKept(t)

LEMMA KeysAre ==
  ASSUME NEW n, Power(n), NEW tb, Sound(tb, n)
  PROVE  /\ Size(tb) = n /\ n \in Nat \ {0} /\ tb \in TableOf(n) /\ Walkable(tb, n)
         /\ \A k \in Key : k \in Keys(tb) <=> ~ Lacks(tb, n, k)
         /\ \A k \in Keys(tb) : /\ k \in Key /\ Find(tb, k) \in Nodes(n)
                                /\ tb.key[Find(tb, k)] = k
         /\ \A k \in Key : \A i \in Nodes(n) : tb.key[i] = k => Find(tb, k) = i
<1>1. n \in Nat \ {0} /\ Walkable(tb, n) /\ tb \in TableOf(n)
  BY PowerType DEF Sound, Orderly, Walkable
<1>2. Size(tb) = n
  BY <1>1, SizeIs
<1>3. \A k \in Key : k \in Keys(tb) <=> ~ Lacks(tb, n, k)
  BY <1>1, FindUnique DEF Keys, Lacks
<1>4. \A k \in Key : \A i \in Nodes(n) : tb.key[i] = k => Find(tb, k) = i
  BY <1>1, FindUnique
<1>5. \A k \in Keys(tb) : k \in Key /\ Find(tb, k) \in Nodes(n) /\ tb.key[Find(tb, k)] = k
  BY <1>3, <1>4 DEF Keys, Lacks
<1> QED BY <1>1, <1>2, <1>3, <1>4, <1>5

LEMMA DictIs ==
  ASSUME NEW n, Power(n), NEW tb, Sound(tb, n)
  PROVE  /\ \A k \in Key : \A v : Holds(tb, n, k, v) => AsDict(tb)[k] = v
         /\ \A k \in Key : (\A v : ~ Holds(tb, n, k, v)) => AsDict(tb)[k] = "no slot"
         /\ \A k \in Key : Exist(tb, k) => Holds(tb, n, k, AsDict(tb)[k])
         /\ \A k \in Key : ~ Exist(tb, k) => \A v : ~ Holds(tb, n, k, v)
<1>1. n \in Nat \ {0} /\ Walkable(tb, n)
  BY KeysAre
<1>2. \A k \in Key : AsDict(tb)[k] = IF Exist(tb, k) THEN Get(tb, k) ELSE "no slot"
  BY DEF AsDict
<1>3. \A k \in Key : \A v : Holds(tb, n, k, v) <=> Exist(tb, k) /\ Get(tb, k) = v
  BY <1>1, FindUnique
<1> QED BY <1>2, <1>3

\* Tables that hold the same under a key are the same function there.
LEMMA SameDict ==
  ASSUME NEW n, Power(n), NEW tb, Sound(tb, n), NEW m, Power(m), NEW q, Sound(q, m),
         NEW k \in Key, \A w : Holds(q, m, k, w) <=> Holds(tb, n, k, w)
  PROVE  AsDict(q)[k] = AsDict(tb)[k]
<1>1. CASE Exist(tb, k)
  <2>1. Holds(tb, n, k, AsDict(tb)[k])
    BY <1>1, DictIs
  <2>2. Holds(q, m, k, AsDict(tb)[k])
    BY <2>1
  <2> QED BY <2>2, DictIs
<1>2. CASE ~ Exist(tb, k)
  <2>1. \A v : ~ Holds(tb, n, k, v)
    BY <1>2, DictIs
  <2>2. \A v : ~ Holds(q, m, k, v)
    BY <2>1
  <2>3. AsDict(tb)[k] = "no slot"
    BY <2>1, DictIs
  <2>4. AsDict(q)[k] = "no slot"
    BY <2>2, DictIs
  <2> QED BY <2>3, <2>4
<1> QED BY <1>1, <1>2

LEMMA NewSlotStep ==
  ASSUME NEW n, Power(n), NEW tb, Sound(tb, n), NEW k \in Key, NEW v \in Value,
         NEW q, q = NewSlot(tb, k, v)
  PROVE  \E m : /\ Power(m) /\ Sound(q, m) /\ Stays(q, m, tb, n)
                /\ AsDict(q) = [AsDict(tb) EXCEPT ![k] = v]
<1>1. PICK m : Power(m) /\ Sound(q, m) /\ Gives(q, m, k, v, tb, n)
  BY NewSlotRight
<1>2. Stays(q, m, tb, n)
  <2> SUFFICES ASSUME Keys(q) \subseteq Keys(tb), m = n, NEW kk \in Keys(q)
               PROVE  Find(q, kk) = Find(tb, kk)
    BY DEF Stays
  <2>1. k \in Keys(q)
    <3>1. Holds(q, m, k, v)
      BY <1>1 DEF Gives
    <3> QED BY <1>1, <3>1, KeysAre DEF Holds, Lacks
  <2>2. q.key = tb.key
    BY <2>1, KeysAre, NewSlotRight
  <2>3. Find(q, kk) \in Nodes(n) /\ q.key[Find(q, kk)] = kk /\ kk \in Key
    BY <1>1, KeysAre
  <2> QED BY <2>2, <2>3, KeysAre
<1>3. ASSUME NEW kk \in Key PROVE AsDict(q)[kk] = IF kk = k THEN v ELSE AsDict(tb)[kk]
  <2>1. CASE kk = k
    BY <1>1, <2>1, DictIs DEF Gives
  <2>2. CASE kk # k
    <3>1. \A w : Holds(q, m, kk, w) <=> Holds(tb, n, kk, w)
      BY <1>1, <2>2 DEF Gives
    <3> QED BY <1>1, <2>2, <3>1, SameDict
  <2> QED BY <2>1, <2>2
<1>4. AsDict(q) = [AsDict(tb) EXCEPT ![k] = v]
  BY <1>3 DEF AsDict
<1> QED BY <1>1, <1>2, <1>4

LEMMA SetStep ==
  ASSUME NEW n, Power(n), NEW tb, Sound(tb, n), NEW k \in Key \cup {Null}, NEW v \in Value,
         Find(tb, k) # None, NEW q, q = Set(tb, k, v)
  PROVE  \E m : /\ Power(m) /\ Sound(q, m) /\ Stays(q, m, tb, n)
                /\ AsDict(q) = IF k = Null THEN AsDict(tb) ELSE [AsDict(tb) EXCEPT ![k] = v]
<1> DEFINE i == Find(tb, k)
<1>1. i \in Nodes(n) /\ tb.key[i] = k /\ n \in Nat \ {0}
  BY KeysAre, FindRight
<1>2. q = [tb EXCEPT !.val[i] = v]
  BY DEF Set
<1> HIDE DEF i
<1>3. /\ Sound(q, n) /\ q.key = tb.key
      /\ k # Null => Gives(q, n, k, v, tb, n)
      /\ k = Null => \A kk \in Key : \A w : Holds(q, n, kk, w) <=> Holds(tb, n, kk, w)
  BY <1>1, <1>2, Overwritten
<1>4. Stays(q, n, tb, n)
  <2>1. \A kk \in Keys(q) : Find(q, kk) = Find(tb, kk)
    BY <1>3, KeysAre
  <2> QED BY <2>1 DEF Stays
<1>5. ASSUME NEW kk \in Key PROVE AsDict(q)[kk] = IF kk = k THEN v ELSE AsDict(tb)[kk]
  <2>0. kk # Null
    BY TableAssumption
  <2>1. CASE kk = k
    BY <1>3, <2>0, <2>1, DictIs DEF Gives
  <2>2. CASE kk # k
    <3>1. \A w : Holds(q, n, kk, w) <=> Holds(tb, n, kk, w)
      BY <1>3, <2>2 DEF Gives
    <3> QED BY <1>3, <2>2, <3>1, SameDict
  <2> QED BY <2>1, <2>2
<1>6. AsDict(q) = IF k = Null THEN AsDict(tb) ELSE [AsDict(tb) EXCEPT ![k] = v]
  BY <1>5, TableAssumption DEF AsDict
<1> QED BY <1>3, <1>4, <1>6

LEMMA RemoveStep ==
  ASSUME NEW n, Power(n), NEW tb, Sound(tb, n), NEW k \in Key, Exist(tb, k),
         NEW q, q = Remove(tb, k)
  PROVE  \E m : /\ Power(m) /\ Sound(q, m) /\ Stays(q, m, tb, n)
                /\ AsDict(q) = [AsDict(tb) EXCEPT ![k] = "no slot"]
<1>1. ~ Lacks(tb, n, k)
  BY KeysAre DEF Keys
<1>2. PICK m : /\ Power(m) /\ Sound(q, m) /\ Takes(q, m, k, tb, n)
               /\ m = n => \A i \in Nodes(n) : tb.key[i] # k => q.key[i] = tb.key[i]
  BY <1>1, RemoveRight
<1>3. Stays(q, m, tb, n)
  <2> SUFFICES ASSUME Keys(q) \subseteq Keys(tb), m = n, NEW kk \in Keys(q)
               PROVE  Find(q, kk) = Find(tb, kk)
    BY DEF Stays
  <2>1. kk # k
    <3>1. PICK i \in Nodes(m) : q.key[i] = kk
      BY <1>2, KeysAre
    <3>2. Holds(q, m, kk, q.val[i])
      BY <3>1 DEF Holds
    <3> QED BY <1>2, <3>2, KeysAre DEF Takes
  <2>2. Find(tb, kk) \in Nodes(n) /\ tb.key[Find(tb, kk)] = kk
    BY KeysAre
  <2>3. q.key[Find(tb, kk)] = kk
    BY <1>2, <2>1, <2>2
  <2> QED BY <1>2, <2>2, <2>3, KeysAre
<1>4. ASSUME NEW kk \in Key PROVE AsDict(q)[kk] = IF kk = k THEN "no slot" ELSE AsDict(tb)[kk]
  <2>1. CASE kk = k
    BY <1>2, <2>1, DictIs DEF Takes
  <2>2. CASE kk # k
    <3>1. \A w : Holds(q, m, kk, w) <=> Holds(tb, n, kk, w)
      BY <1>2, <2>2 DEF Takes
    <3> QED BY <1>2, <2>2, <3>1, SameDict
  <2> QED BY <2>1, <2>2
<1>5. AsDict(q) = [AsDict(tb) EXCEPT ![k] = "no slot"]
  BY <1>4 DEF AsDict
<1> QED BY <1>2, <1>3, <1>5

LEMMA ClearStep ==
  ASSUME NEW n, Power(n), NEW tb, Sound(tb, n), NEW q, q = Clear(tb)
  PROVE  \E m : /\ Power(m) /\ Sound(q, m) /\ Stays(q, m, tb, n)
                /\ AsDict(q) = [k \in Key |-> "no slot"]
<1>1. PICK m : Power(m) /\ Sound(q, m) /\ \A k \in Key : \A w : ~ Holds(q, m, k, w)
  BY ClearRight
<1>2. Keys(q) = {}
  <2> SUFFICES ASSUME NEW k \in Keys(q) PROVE FALSE
    OBVIOUS
  <2>1. Holds(q, m, k, q.val[Find(q, k)]) /\ k \in Key
    BY <1>1, KeysAre DEF Holds
  <2> QED BY <1>1, <2>1
<1>3. \A k \in Key : AsDict(q)[k] = "no slot"
  BY <1>1, DictIs
<1> QED BY <1>1, <1>2, <1>3 DEF Stays, AsDict

LEMMA CloneStep ==
  ASSUME NEW n, Power(n), NEW tb, Sound(tb, n), NEW q, q = Clone(tb)
  PROVE  (\E m : Power(m) /\ Sound(q, m)) /\ AsDict(q) = AsDict(tb)
<1>1. PICK m : /\ Power(m) /\ Sound(q, m)
               /\ \A k \in Key : \A w : Holds(q, m, k, w) <=> Holds(tb, n, k, w)
  BY CloneRight
<1>2. ASSUME NEW k \in Key PROVE AsDict(q)[k] = AsDict(tb)[k]
  BY <1>1, SameDict
<1> QED BY <1>1, <1>2 DEF AsDict

LEMMA NextNodeIs ==
  ASSUME NEW n \in Nat \ {0}, NEW tb \in TableOf(n), NEW at \in Nat
  PROVE  LET nd == NextNode(tb, at)
         IN  /\ nd = None => \A i \in Occupied(tb) : i < at
             /\ nd # None => /\ nd \in Nodes(n) /\ tb.key[nd] # Null /\ nd >= at
                             /\ \A i \in Occupied(tb) : i >= at => i >= nd
<1> DEFINE rest == {j \in Occupied(tb) : j >= at}
           nd == NextNode(tb, at)
<1>1. /\ Occupied(tb) = {i \in Nodes(n) : tb.key[i] # Null} /\ rest \subseteq Nat
      /\ \A i \in Nodes(n) : i \in Nat /\ i # None
  BY OccupiedIs DEF Nodes, None
<1>2. CASE rest = {}
  <2>1. nd = None
    BY <1>2 DEF NextNode
  <2>2. \A i \in Occupied(tb) : i < at
    BY <1>1, <1>2
  <2> QED BY <2>1, <2>2
<1>3. CASE rest # {}
  <2>1. nd = Min(rest)
    BY <1>3 DEF NextNode
  <2> HIDE DEF nd
  <2>2. \E i \in rest : \A j \in rest : i <= j
    <3> HIDE DEF rest
    <3> QED BY <1>1, <1>3, Lists!SmallestExists
  <2>3. nd \in rest /\ \A j \in rest : nd <= j
    <3> HIDE DEF rest
    <3> QED BY <2>1, <2>2 DEF Min
  <2> QED BY <1>1, <2>3 DEF nd
<1> QED BY <1>2, <1>3

\* The loop keeps count whatever the change of the table is.
LEMMA ChangeKeeps ==
  ASSUME IInv, NEW n, Power(n), Sound(t, n), NEW q, NEW m, Power(m), Sound(q, m),
         Stays(q, m, t, n), Change(q)
  PROVE  IInv'
<1>1. t' = q /\ LoopKept(t)
  BY DEF Change, IInv
<1>2. Size(q) = m /\ Size(t) = n
  BY KeysAre
<1>3. \E e : Power(e) /\ Sound(t', e)
  BY <1>1
<1>4. CASE Keys(q) \subseteq Keys(t) /\ m = n
  <2>1. loop' = [loop EXCEPT !.shown = Restrict(@, DOMAIN @ \cap Keys(q))]
    BY <1>2, <1>4 DEF Change, Watch
  <2> DEFINE left == DOMAIN loop.shown \cap Keys(q)
  <2>2. /\ loop' = [on |-> loop.on, at |-> loop.at, shown |-> Restrict(loop.shown, left)]
        /\ loop.on \in BOOLEAN /\ loop.at \in Nat
    BY <1>1, <2>1 DEF LoopKept
  <2>3. /\ DOMAIN Restrict(loop.shown, left) = left
        /\ \A k \in left : Restrict(loop.shown, left)[k] = loop.shown[k]
    BY DEF Restrict
  <2>4. \A k \in left : Find(q, k) = Find(t, k)
    BY <1>4 DEF Stays
  <2> DEFINE shown == Restrict(loop.shown, left)
  <2>5. shown = loop'.shown /\ loop'.on = loop.on /\ loop'.at = loop.at
    BY <2>2
  <2> HIDE DEF shown
  <2>6. LoopKept(t)'
    BY <1>1, <2>2, <2>3, <2>4, <2>5 DEF LoopKept
  <2> QED BY <1>3, <2>6 DEF IInv
<1>5. CASE ~ (Keys(q) \subseteq Keys(t) /\ m = n)
  <2>1. loop' = [loop EXCEPT !.shown = << >>]
    BY <1>2, <1>5 DEF Change, Watch
  <2>2. /\ loop' = [on |-> loop.on, at |-> loop.at, shown |-> << >>]
        /\ loop.on \in BOOLEAN /\ loop.at \in Nat
    BY <1>1, <2>1 DEF LoopKept
  <2>3. DOMAIN loop'.shown = {}
    BY <2>2
  <2>4. LoopKept(t)'
    BY <2>2, <2>3 DEF LoopKept
  <2> QED BY <1>3, <2>4 DEF IInv
<1> QED BY <1>4, <1>5

LEMMA InitKept == Init => IInv
<1> SUFFICES ASSUME Init PROVE IInv
  OBVIOUS
<1>1. PICK c \in Initial : t = Empty(PowerOfTwo(c))
  BY DEF Init
<1>2. Power(PowerOfTwo(c)) /\ PowerOfTwo(c) \in Nat \ {0}
  BY TableAssumption, SizeFound, PowerType
<1>3. Sound(t, PowerOfTwo(c))
  BY <1>1, <1>2, EmptySound
<1>4. LoopKept(t)
  <2>1. loop = [on |-> FALSE, at |-> 0, shown |-> << >>]
    BY DEF Init, NoLoop
  <2> QED BY <2>1 DEF LoopKept
<1> QED BY <1>2, <1>3, <1>4 DEF IInv

LEMMA BeginLoopKept == ASSUME IInv, BeginLoop PROVE IInv'
<1>1. loop' = [on |-> TRUE, at |-> 0, shown |-> [k \in Keys(t) |-> 0]] /\ t' = t
  BY DEF BeginLoop
<1>2. PICK n : Power(n) /\ Sound(t, n)
  BY DEF IInv
<1> DEFINE zero == [k \in Keys(t) |-> 0]
<1>3. DOMAIN zero = Keys(t) /\ \A k \in Keys(t) : zero[k] = 0
  OBVIOUS
<1> HIDE DEF zero
<1>4. loop'.on = TRUE /\ loop'.at = 0 /\ loop'.shown = zero
  BY <1>1 DEF zero
<1>5. \A k \in Keys(t) : ~ (Find(t, k) < 0)
  BY <1>2, KeysAre DEF Nodes
<1>6. loop' = [on |-> loop'.on, at |-> loop'.at, shown |-> loop'.shown]
  BY <1>1
<1>7. LoopKept(t)'
  BY <1>1, <1>3, <1>4, <1>5, <1>6 DEF LoopKept
<1> QED BY <1>1, <1>2, <1>7 DEF IInv

LEMMA TurnKept == ASSUME IInv, Turn PROVE IInv'
<1>1. PICK n : Power(n) /\ Sound(t, n)
  BY DEF IInv
<1>2. /\ n \in Nat \ {0} /\ t \in TableOf(n)
      /\ \A k \in Keys(t) : /\ k \in Key /\ Find(t, k) \in Nodes(n)
                             /\ t.key[Find(t, k)] = k
      /\ \A k \in Key : \A i \in Nodes(n) : t.key[i] = k => Find(t, k) = i
  BY <1>1, KeysAre
<1>3. /\ loop = [on |-> loop.on, at |-> loop.at, shown |-> loop.shown]
      /\ loop.on = TRUE /\ loop.at \in Nat /\ DOMAIN loop.shown \subseteq Keys(t)
      /\ \A k \in DOMAIN loop.shown :
            loop.shown[k] = IF Find(t, k) < loop.at THEN 1 ELSE 0
  BY DEF IInv, LoopKept, Turn
<1>4. PICK nd : nd = NextNode(t, loop.at)
  OBVIOUS
<1>5. /\ nd # None /\ t' = t
      /\ loop' = [loop EXCEPT !.at = nd + 1, !.shown = Shown(t.key[nd])]
  BY <1>4 DEF Turn
<1>6. /\ nd \in Nodes(n) /\ t.key[nd] # Null /\ nd >= loop.at
      /\ \A i \in Occupied(t) : i >= loop.at => i >= nd
  BY <1>2, <1>3, <1>4, <1>5, NextNodeIs
<1>7. PICK kk : kk = t.key[nd]
  OBVIOUS
<1>8. kk \in Key /\ Find(t, kk) = nd /\ nd \in Nat
  BY <1>2, <1>6, <1>7 DEF TableOf, Nodes
<1>9. PICK shown : shown = Shown(kk)
  OBVIOUS
<1>10. /\ DOMAIN shown = DOMAIN loop.shown
       /\ \A k \in DOMAIN loop.shown :
             shown[k] = IF k = kk THEN loop.shown[k] + 1 ELSE loop.shown[k]
  BY <1>9 DEF Shown
<1>11. loop' = [on |-> TRUE, at |-> nd + 1, shown |-> shown]
  BY <1>3, <1>5, <1>7, <1>9
<1>12. ASSUME NEW k \in DOMAIN loop.shown
       PROVE  shown[k] = IF Find(t, k) < nd + 1 THEN 1 ELSE 0
  <2>1. /\ k \in Key /\ Find(t, k) \in Nodes(n) /\ t.key[Find(t, k)] = k
        /\ loop.shown[k] = IF Find(t, k) < loop.at THEN 1 ELSE 0
    BY <1>2, <1>3
  <2>2. Find(t, k) \in Occupied(t) /\ Find(t, k) \in Nat
    BY <1>2, <2>1, OccupiedIs, TableAssumption DEF Nodes
  <2>3. Find(t, k) >= loop.at => Find(t, k) >= nd
    BY <1>6, <2>2
  <2>4. CASE k = kk
    <3>1. Find(t, k) = nd
      BY <1>8, <2>4
    <3> QED BY <1>3, <1>6, <1>8, <1>10, <2>1, <2>4, <3>1
  <2>5. CASE k # kk
    <3>1. Find(t, k) # nd
      BY <1>7, <2>1, <2>5
    <3> QED BY <1>3, <1>6, <1>8, <1>10, <2>1, <2>2, <2>3, <2>5, <3>1
  <2> QED BY <2>4, <2>5
<1>13. loop'.on = TRUE /\ loop'.at = nd + 1 /\ loop'.shown = shown
  BY <1>11
<1>14. LoopKept(t)'
  <2>1. loop' = [on |-> loop'.on, at |-> loop'.at, shown |-> loop'.shown]
    BY <1>11, <1>13
  <2>2. DOMAIN loop'.shown = DOMAIN loop.shown /\ DOMAIN loop'.shown \subseteq Keys(t')
    BY <1>3, <1>5, <1>10, <1>13
  <2>3. \A k \in DOMAIN loop'.shown :
           loop'.shown[k] = IF Find(t', k) < loop'.at THEN 1 ELSE 0
    BY <1>5, <1>12, <1>13, <2>2
  <2>4. loop'.on \in BOOLEAN /\ loop'.on = TRUE /\ loop'.at \in Nat
    <3>1. nd + 1 \in Nat
      BY <1>8
    <3> QED BY <1>13, <3>1, Zenon
  <2>5. ~ loop'.on => DOMAIN loop'.shown = {}
    BY <2>4
  <2>6. LoopKept(t)' <=>
          /\ loop' = [on |-> loop'.on, at |-> loop'.at, shown |-> loop'.shown]
          /\ loop'.on \in BOOLEAN /\ loop'.at \in Nat
          /\ ~ loop'.on => DOMAIN loop'.shown = {}
          /\ DOMAIN loop'.shown \subseteq Keys(t')
          /\ \A k \in DOMAIN loop'.shown :
                loop'.shown[k] = IF Find(t', k) < loop'.at THEN 1 ELSE 0
    BY Zenon DEF LoopKept
  <2> QED BY <2>1, <2>2, <2>3, <2>4, <2>5, <2>6, Zenon
<1> QED BY <1>1, <1>5, <1>14 DEF IInv

\* A step of the specification keeps IInv, and is one of the function's.
LEMMA StepKept ==
  ASSUME IInv, [Next]_vars
  PROVE  IInv' /\ [Dict!Next]_(AsDict(t))
<1>1. PICK n : Power(n) /\ Sound(t, n)
  BY DEF IInv
<1>2. AsDict(t)' = AsDict(t')
  OBVIOUS
<1>3. ASSUME NEW k \in Key, Exist(t, k) PROVE AsDict(t)[k] # "no slot"
  <2>1. Holds(t, n, k, AsDict(t)[k])
    BY <1>1, <1>3, DictIs
  <2>2. AsDict(t)[k] \in Value \cup {Null}
    BY <1>1, <2>1, KeysAre DEF Holds, TableOf
  <2> QED BY <2>2, NoSlotAssumption
<1>4. ASSUME NEW k \in Key, NEW v \in Value, DoNewSlot(k, v)
      PROVE  IInv' /\ Dict!Next
  <2>1. PICK q : q = NewSlot(t, k, v) /\ Change(q)
    BY <1>4 DEF DoNewSlot
  <2>2. PICK m : /\ Power(m) /\ Sound(q, m) /\ Stays(q, m, t, n)
                 /\ AsDict(q) = [AsDict(t) EXCEPT ![k] = v]
    BY <1>1, <2>1, NewSlotStep
  <2>3. IInv'
    BY <1>1, <2>1, <2>2, ChangeKeeps
  <2>4. Dict!NewSlot(k, v)
    BY <1>2, <2>1, <2>2 DEF Dict!NewSlot, AsDict, Change
  <2> QED BY <2>3, <2>4 DEF Dict!Next
<1>5. ASSUME NEW k \in Key \cup {Null}, NEW v \in Value, DoSet(k, v)
      PROVE  IInv' /\ [Dict!Next]_(AsDict(t))
  <2>1. PICK q : q = Set(t, k, v) /\ Find(t, k) # None /\ Change(q)
    BY <1>5 DEF DoSet
  <2>2. PICK m : /\ Power(m) /\ Sound(q, m) /\ Stays(q, m, t, n)
                 /\ AsDict(q) = IF k = Null THEN AsDict(t)
                                ELSE [AsDict(t) EXCEPT ![k] = v]
    BY <1>1, <2>1, SetStep
  <2>3. IInv'
    BY <1>1, <2>1, <2>2, ChangeKeeps
  <2>4. CASE k = Null
    <3>1. AsDict(t)' = AsDict(t)
      BY <1>2, <2>1, <2>2, <2>4 DEF Change
    <3> QED BY <2>3, <3>1
  <2>5. CASE k # Null
    <3>1. Exist(t, k) /\ k \in Key
      BY <2>1, <2>5 DEF Exist
    <3>2. Dict!Set(k, v)
      BY <1>2, <1>3, <2>1, <2>2, <2>5, <3>1 DEF Dict!Set, AsDict, Change
    <3> QED BY <2>3, <3>1, <3>2 DEF Dict!Next
  <2> QED BY <2>4, <2>5
<1>6. ASSUME NEW k \in Key, DoRemove(k)
      PROVE  IInv' /\ Dict!Next
  <2>1. PICK q : q = Remove(t, k) /\ Exist(t, k) /\ Change(q)
    BY <1>6 DEF DoRemove
  <2>2. PICK m : /\ Power(m) /\ Sound(q, m) /\ Stays(q, m, t, n)
                 /\ AsDict(q) = [AsDict(t) EXCEPT ![k] = "no slot"]
    BY <1>1, <2>1, RemoveStep
  <2>3. IInv'
    BY <1>1, <2>1, <2>2, ChangeKeeps
  <2>4. Dict!Remove(k)
    BY <1>2, <1>3, <2>1, <2>2 DEF Dict!Remove, AsDict, Change
  <2> QED BY <2>3, <2>4 DEF Dict!Next
<1>7. ASSUME DoClear PROVE IInv' /\ Dict!Next
  <2>1. PICK q : q = Clear(t) /\ Change(q)
    BY <1>7 DEF DoClear
  <2>2. PICK m : /\ Power(m) /\ Sound(q, m) /\ Stays(q, m, t, n)
                 /\ AsDict(q) = [k \in Key |-> "no slot"]
    BY <1>1, <2>1, ClearStep
  <2>3. IInv'
    BY <1>1, <2>1, <2>2, ChangeKeeps
  <2>4. Dict!Clear
    BY <1>2, <2>1, <2>2 DEF Dict!Clear, AsDict, Change
  <2> QED BY <2>3, <2>4 DEF Dict!Next
<1>8. ASSUME DoClone PROVE IInv' /\ AsDict(t)' = AsDict(t)
  <2>1. PICK q : q = Clone(t) /\ t' = q /\ loop' = loop /\ ~ loop.on
    BY <1>8 DEF DoClone
  <2>2. (\E m : Power(m) /\ Sound(q, m)) /\ AsDict(q) = AsDict(t)
    BY <1>1, <2>1, CloneStep
  <2>3. LoopKept(t)'
    BY <2>1 DEF IInv, LoopKept
  <2> QED BY <1>2, <2>1, <2>2, <2>3 DEF IInv
<1>9. ASSUME BeginLoop PROVE IInv' /\ t' = t
  BY <1>9, BeginLoopKept DEF BeginLoop
<1>10. ASSUME Turn PROVE IInv' /\ t' = t
  BY <1>10, TurnKept DEF Turn
<1>11. ASSUME EndLoop PROVE IInv' /\ t' = t
  <2>1. t' = t /\ loop' = [on |-> FALSE, at |-> 0, shown |-> << >>]
    BY <1>11 DEF EndLoop, NoLoop
  <2>2. LoopKept(t)'
    BY <2>1 DEF LoopKept
  <2> QED BY <1>1, <2>1, <2>2 DEF IInv
<1>12. ASSUME UNCHANGED vars PROVE IInv' /\ t' = t
  BY <1>12 DEF vars, IInv, LoopKept
<1>13. t' = t => AsDict(t)' = AsDict(t)
  BY <1>2
<1> QED
  BY <1>4, <1>5, <1>6, <1>7, <1>8, <1>9, <1>10, <1>11, <1>12, <1>13 DEF Next

LEMMA Invariant == Spec => []IInv
<1>1. IInv /\ [Next]_vars => IInv'
  BY StepKept
<1> QED BY InitKept, <1>1, PTL DEF Spec

\* The conjuncts of WellFormed, from the table's order.
LEMMA OrderIsForm == IInv => WellFormed
<1> SUFFICES ASSUME IInv PROVE WellFormed
  OBVIOUS
<1>1. PICK n : Power(n) /\ Sound(t, n)
  BY DEF IInv
<1>2. /\ Size(t) = n /\ n \in Nat \ {0} /\ t \in TableOf(n) /\ Walkable(t, n)
      /\ IsFree(t, t.firstfree) /\ t.used = Cardinality(Occupied(t))
  BY <1>1, KeysAre DEF Sound, Orderly
<1>3. TypeOK
  <2>1. \E e \in 0 .. n : n = MINPOWER2 * 2 ^ e
    BY <1>1, PowerType
  <2>2. t.used \in Nat
    BY <1>1, <1>2, UsedBelow
  <2>3. loop.on \in BOOLEAN /\ DOMAIN loop.shown \subseteq Key
    BY DEF IInv, LoopKept, Keys
  <2> QED BY <1>2, <2>1, <2>2, <2>3 DEF TypeOK, TableOf
<1>4. ChainsSound
  <2> SUFFICES ASSUME NEW i \in DOMAIN t.key
               PROVE  /\ Chain(t, i)[Size(t)] = None
                      /\ t.key[i] # Null => i \in Reach(t, Main(t, t.key[i]))
    BY DEF ChainsSound
  <2>1. i \in Nodes(n) /\ Acyclic(t, n)
    BY <1>2 DEF TableOf, Walkable
  <2>2. Chain(t, i)[n] = None
    BY <1>2, <2>1, ChainEnds
  <2>3. ASSUME t.key[i] # Null PROVE i \in Reach(t, Main(t, t.key[i]))
    <3>1. t.key[i] \in Key /\ i \in Reach(t, Home(n, t.key[i]))
      BY <1>2, <2>1, <2>3 DEF TableOf, Walkable
    <3>2. Main(t, t.key[i]) = Home(n, t.key[i])
      BY <1>2, <2>3, <3>1, MainIs
    <3> QED BY <3>1, <3>2
  <2> QED BY <1>2, <2>2, <2>3
<1>5. FreePlaceKept /\ CountRight
  BY <1>2 DEF FreePlaceKept, CountRight
<1> QED BY <1>3, <1>4, <1>5 DEF WellFormed

\* The nodes are in order after every call: every chain ends, every key is
\* found where the chain from its main position leads, the place the next
\* collision takes is free, and the slots are counted right; for any keys,
\* hashes and sizes of tables.
THEOREM WellFormedAlways == Spec => []WellFormed
BY Invariant, OrderIsForm, PTL

\* No loop shows a slot twice, and one that comes to its end has shown every
\* slot that stayed, as long as its body inserts no key and no removal makes
\* the table shrink.
THEOREM EachSlotOnceAlways == Spec => EachSlotOnce
<1> DEFINE Once == loop.on =>
             /\ \A k \in DOMAIN loop.shown : loop.shown[k] <= 1
             /\ EndLoop => \A k \in DOMAIN loop.shown : loop.shown[k] = 1
<1>1. IInv => Once
  <2> SUFFICES ASSUME IInv PROVE Once
    OBVIOUS
  <2>1. PICK n : Power(n) /\ Sound(t, n)
    BY DEF IInv
  <2>2. /\ n \in Nat \ {0} /\ t \in TableOf(n)
        /\ \A k \in Keys(t) : /\ k \in Key /\ Find(t, k) \in Nodes(n)
                               /\ t.key[Find(t, k)] = k
    BY <2>1, KeysAre
  <2>3. /\ loop.at \in Nat /\ DOMAIN loop.shown \subseteq Keys(t)
        /\ \A k \in DOMAIN loop.shown :
              loop.shown[k] = IF Find(t, k) < loop.at THEN 1 ELSE 0
    BY DEF IInv, LoopKept
  <2>4. \A k \in DOMAIN loop.shown : loop.shown[k] <= 1
    BY <2>3
  <2>5. ASSUME EndLoop, NEW k \in DOMAIN loop.shown PROVE loop.shown[k] = 1
    <3>1. \A i \in Occupied(t) : i < loop.at
      BY <2>2, <2>3, <2>5, NextNodeIs DEF EndLoop
    <3>2. Find(t, k) \in Occupied(t)
      BY <2>2, <2>3, OccupiedIs, TableAssumption
    <3> QED BY <2>3, <3>1, <3>2
  <2> QED BY <2>4, <2>5
<1>2. IInv => [Once]_vars
  BY <1>1
<1> QED BY <1>2, Invariant, PTL DEF EachSlotOnce

\* Whatever collides, moves or is rebuilt, for those who use it the table is
\* a function from keys to values, and every call does to the function what
\* its name says.
THEOREM ImplementsDictAlways == Spec => ImplementsDict
<1>1. Init => Dict!Init
  <2> SUFFICES ASSUME Init PROVE Dict!Init
    OBVIOUS
  <2>1. PICK c \in Initial : t = Empty(PowerOfTwo(c))
    BY DEF Init
  <2>2. Power(PowerOfTwo(c)) /\ PowerOfTwo(c) \in Nat \ {0}
    BY TableAssumption, SizeFound, PowerType
  <2>3. Sound(t, PowerOfTwo(c))
    BY <2>1, <2>2, EmptySound
  <2>4. Keys(t) = {}
    <3> SUFFICES ASSUME NEW k \in Keys(t) PROVE FALSE
      OBVIOUS
    <3>1. Find(t, k) \in Nodes(PowerOfTwo(c)) /\ t.key[Find(t, k)] = k /\ k \in Key
      BY <2>2, <2>3, KeysAre
    <3> QED BY <2>1, <3>1, TableAssumption DEF Empty
  <2> QED BY <2>4 DEF Dict!Init, AsDict, Keys
<1> QED BY <1>1, StepKept, Invariant, PTL DEF Spec, ImplementsDict, Dict!Spec
=============================================================================
