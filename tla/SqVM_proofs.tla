---------------------------- MODULE SqVM_proofs -----------------------------
(***************************************************************************)
(* The frames, the traps and the C++ stack of one VM stay in step, for any *)
(* number of frames, traps, generators and extra arguments, in programs    *)
(* that keep away from all that "Allow" names.                             *)
(***************************************************************************)
EXTENDS SqVM, SqListOps_proofs, FiniteSetTheorems

-----------------------------------------------------------------------------
\* What the VM's parts are made of.
Frame == [native : BOOLEAN, gen : Gen \cup {NoGen}, etraps : Nat, vargs : Nat,
          root : BOOLEAN, pbase : Nat, ptop : Nat, home : Nat]

Trap == [base : Nat, top : Nat, nth : Nat]

Suspension == [on : BOOLEAN, traps : Nat, root : BOOLEAN, vargs : Nat]

GenRec == [state : GenState, ci : Frame, size : Nat, traps : Seq(Trap), vargs : Nat]

VMRec == [calls : Seq(Frame), etraps : Seq(Trap), nvargs : Nat, base : Nat, top : Nat,
          susp : Suspension, gens : [Gen -> GenRec], undefined : {FALSE}]

Activation == [native : BOOLEAN, traps : Nat, by : {"script", "call", "resume", "wakeup"}]

\* The traps, extra arguments and stack slots of the first frames.
T(calls) == Sums(EtrapsOf(calls))

V(calls) == Sums(VargsOf(calls))

P(calls) == Sums(PbaseOf(calls))

Marked(f) == f.root \/ f.native

\* What a frame has on the stack at least.
SizeOf(f) == IF f.native THEN 1 ELSE FrameSize

\* What frame i found on the stack at least.
Found(calls, i) ==
    (IF i = 1 THEN 0 ELSE SizeOf(calls[i - 1])) + (IF calls[i].root THEN 1 ELSE 0)

\* Frame i is the VM's first or was called by another that can have called it.
Called(calls, i) ==
    /\ calls[i].native => /\ ~ calls[i].root
                          /\ calls[i].etraps = 0
                          /\ calls[i].gen = NoGen
    /\ i = 1 => calls[i].root
    /\ i > 1 /\ calls[i - 1].native => calls[i].root
    /\ calls[i].home = P(calls)[i]
    /\ calls[i].ptop >= Found(calls, i)

\* The traps of frame i are where it has set them.
TrapsOf(calls, etraps, i) ==
    \A k \in T(calls)[i - 1] + 1 .. T(calls)[i] :
        /\ etraps[k].nth = k - T(calls)[i - 1]
        /\ etraps[k].base = calls[i].home
        /\ etraps[k].top >= calls[i].home + FrameSize

\* The frames and what they have on the other stacks.
Body(calls, etraps, nvargs) ==
    /\ calls \in Seq(Frame)
    /\ etraps \in Seq(Trap)
    /\ nvargs = V(calls)[Len(calls)]
    /\ Len(etraps) = T(calls)[Len(calls)]
    /\ \A i \in 1 .. Len(calls) : Called(calls, i) /\ TrapsOf(calls, etraps, i)

\* The stack of the frame that runs.
At(calls, base, top) ==
    /\ base = P(calls)[Len(calls)]
    /\ top >= base + (IF calls = << >> THEN 0 ELSE SizeOf(Last(calls)))

\* A generator can be resumed from what it has kept.
Resumable(s) ==
    /\ ~ s.ci.native
    /\ s.size >= FrameSize
    /\ s.ci.etraps = Len(s.traps)
    /\ \A k \in 1 .. Len(s.traps) :
          /\ s.traps[k].nth = Len(s.traps) - k + 1
          /\ s.traps[k].top >= s.traps[k].base + FrameSize

Gens(calls, gens) ==
    /\ gens \in [Gen -> GenRec]
    /\ \A g \in Gen :
          /\ gens[g].state = "running" <=> \E i \in 1 .. Len(calls) : calls[i].gen = g
          /\ \A i, j \in 1 .. Len(calls) : calls[i].gen = g /\ calls[j].gen = g => i = j
          /\ gens[g].state = "suspended" => Resumable(gens[g])

Skip(susp) == IF susp.on THEN 1 ELSE 0

Activations(susp, c) == Len(c) + Skip(susp)

Counter(susp, c, m) == IF m <= Skip(susp) THEN susp.traps ELSE c[m - Skip(susp)].traps

\* The frame on top of those of a suspended VM is the one that is to be woken.
Sleeps(f, susp) == ~ f.native /\ f.root = susp.root /\ f.vargs = susp.vargs

\* The activations on the C++ stack, a suspended one first, begin at these
\* frames; the last entry is the first free one.
Linked(at, calls, susp, c) ==
    LET n == Activations(susp, c)
    IN  /\ at \in [1 .. n + 1 -> 1 .. Len(calls) + 1]
        /\ at[1] = 1 /\ at[n + 1] = Len(calls) + 1
        /\ \A m, l \in 1 .. n + 1 : m < l => at[m] < at[l]
        /\ \A i \in 1 .. Len(calls) : Marked(calls[i]) <=> \E m \in 1 .. n : at[m] = i
        /\ \A m \in 1 .. n : Counter(susp, c, m) = T(calls)[at[m + 1] - 1] - T(calls)[at[m] - 1]
        /\ \A m \in 1 .. Len(c) :
              /\ c[m].native = calls[at[m + Skip(susp)]].native
              /\ ~ c[m].native => c[m].by # "script"
        /\ c # << >> => ~ c[1].native
        /\ susp.on => Sleeps(calls[at[2] - 1], susp)

Link(calls, susp, c) ==
    /\ susp \in Suspension
    /\ c \in Seq(Activation)
    /\ \E at \in [1 .. Activations(susp, c) + 1 -> 1 .. Len(calls) + 1] :
          Linked(at, calls, susp, c)

\* The inductive invariant.
Good(v, c) ==
    /\ v \in VMRec
    /\ Body(v.calls, v.etraps, v.nvargs)
    /\ At(v.calls, v.base, v.top)
    /\ Gens(v.calls, v.gens)
    /\ Link(v.calls, v.susp, c)

IInv == Good(vm, cpp)

-----------------------------------------------------------------------------
\* Sums.
LEMMA NatSteps ==
  ASSUME NEW A, 0 \in A, \A n \in Nat : n \in A => n + 1 \in A, NEW n \in Nat
  PROVE  n \in A
BY SetInduction

SumOf(s, n, f) ==
    /\ f \in [0 .. n -> Nat]
    /\ f = [i \in 0 .. n |-> IF i = 0 THEN 0 ELSE f[i - 1] + s[i]]

LEMMA SumExists ==
  ASSUME NEW s \in Seq(Nat)
  PROVE  \E f : SumOf(s, Len(s), f)
<1> DEFINE A == {n \in Nat : n <= Len(s) => \E f : SumOf(s, n, f)}
<1>1. 0 \in A
  <2> DEFINE f == [i \in 0 .. 0 |-> 0]
  <2>1. SumOf(s, 0, f)
    BY DEF SumOf
  <2> QED BY <2>1
<1>2. ASSUME NEW n \in Nat, n \in A PROVE n + 1 \in A
  <2>1. SUFFICES ASSUME n + 1 <= Len(s) PROVE \E f : SumOf(s, n + 1, f)
    OBVIOUS
  <2>2. PICK f : SumOf(s, n, f)
    BY <1>2, <2>1
  <2> DEFINE g == [i \in 0 .. (n + 1) |-> IF i = n + 1 THEN f[n] + s[n + 1] ELSE f[i]]
  <2>3. f \in [0 .. n -> Nat] /\ s[n + 1] \in Nat
    BY <2>1, <2>2 DEF SumOf
  <2>4. g \in [0 .. (n + 1) -> Nat]
    BY <2>3
  <2>5. \A i \in 0 .. n : f[i] = IF i = 0 THEN 0 ELSE f[i - 1] + s[i]
    BY <2>2 DEF SumOf
  <2>6. \A i \in 0 .. n : g[i] = f[i]
    OBVIOUS
  <2>7. g[n + 1] = f[n] + s[n + 1]
    OBVIOUS
  <2>8. g = [i \in 0 .. (n + 1) |-> g[i]]
    OBVIOUS
  <2> HIDE DEF g
  <2>9. \A i \in 0 .. (n + 1) : g[i] = IF i = 0 THEN 0 ELSE g[i - 1] + s[i]
    BY <2>5, <2>6, <2>7
  <2>10. SumOf(s, n + 1, g)
    BY <2>4, <2>8, <2>9 DEF SumOf
  <2> QED BY <2>10
<1>3. Len(s) \in A
  <2> HIDE DEF A
  <2> QED BY <1>1, <1>2, NatSteps
<1> QED BY <1>3

LEMMA SumsAre ==
  ASSUME NEW s \in Seq(Nat)
  PROVE  /\ Sums(s) \in [0 .. Len(s) -> Nat]
         /\ Sums(s)[0] = 0
         /\ \A i \in 1 .. Len(s) : Sums(s)[i] = Sums(s)[i - 1] + s[i]
<1> DEFINE Q(f) == f = [i \in 0 .. Len(s) |-> IF i = 0 THEN 0 ELSE f[i - 1] + s[i]]
<1>1. PICK f : SumOf(s, Len(s), f)
  BY SumExists
<1>2. Q(f)
  BY <1>1 DEF SumOf
<1>3. Sums(s) = CHOOSE g : Q(g)
  BY DEF Sums
<1>4. Q(Sums(s))
  BY <1>2, <1>3
<1> DEFINE S == Sums(s)
           A == {n \in Nat : n <= Len(s) => S[n] \in Nat}
<1>5. \A i \in 0 .. Len(s) : S[i] = IF i = 0 THEN 0 ELSE S[i - 1] + s[i]
  <2> TAKE i \in 0 .. Len(s)
  <2>1. S = [j \in 0 .. Len(s) |-> IF j = 0 THEN 0 ELSE S[j - 1] + s[j]]
    BY <1>4
  <2> HIDE DEF S, Q
  <2> QED BY <2>1
<1>6. DOMAIN S = 0 .. Len(s)
  <2>1. S = [j \in 0 .. Len(s) |-> IF j = 0 THEN 0 ELSE S[j - 1] + s[j]]
    BY <1>4
  <2> HIDE DEF S, Q
  <2> QED BY <2>1
<1>7. S = [i \in 0 .. Len(s) |-> S[i]]
  BY <1>4, <1>6
<1> HIDE DEF S, Q
<1>8. 0 \in A
  BY <1>5
<1>9. ASSUME NEW n \in Nat, n \in A PROVE n + 1 \in A
  BY SMTT(30), <1>5, <1>9
<1>10. \A i \in 0 .. Len(s) : S[i] \in Nat
  <2> TAKE i \in 0 .. Len(s)
  <2>0. i \in Nat
    OBVIOUS
  <2> HIDE DEF A
  <2>1. i \in A
    BY <1>8, <1>9, <2>0, NatSteps
  <2> QED BY <2>1 DEF A
<1> QED BY <1>5, <1>7, <1>10 DEF S

\* Sums depend on no later elements.
LEMMA SumsAgree ==
  ASSUME NEW s \in Seq(Nat), NEW t \in Seq(Nat), NEW n \in Nat, n <= Len(s), n <= Len(t),
         \A i \in 1 .. n : s[i] = t[i]
  PROVE  \A i \in 0 .. n : Sums(s)[i] = Sums(t)[i]
<1> DEFINE A == {i \in Nat : i <= n => Sums(s)[i] = Sums(t)[i]}
<1>1. 0 \in A
  BY SumsAre
<1>2. ASSUME NEW i \in Nat, i \in A PROVE i + 1 \in A
  <2> SUFFICES ASSUME i + 1 <= n PROVE Sums(s)[i + 1] = Sums(t)[i + 1]
    OBVIOUS
  <2>1. i + 1 \in 1 .. n /\ i + 1 \in 1 .. Len(s) /\ i + 1 \in 1 .. Len(t)
    OBVIOUS
  <2>2. Sums(s)[i] = Sums(t)[i]
    BY <1>2
  <2>3. Sums(s)[i + 1] = Sums(s)[i] + s[i + 1] /\ Sums(t)[i + 1] = Sums(t)[i] + t[i + 1]
    BY <2>1, SumsAre
  <2> QED BY <2>1, <2>2, <2>3
<1> SUFFICES ASSUME NEW i \in 0 .. n PROVE i \in A
  OBVIOUS
<1>3. i \in Nat
  OBVIOUS
<1> HIDE DEF A
<1> QED BY <1>1, <1>2, <1>3, NatSteps

\* Sums grow, and only by elements that are not 0.
LEMMA SumsGrow ==
  ASSUME NEW s \in Seq(Nat), NEW i \in 0 .. Len(s), NEW j \in i .. Len(s)
  PROVE  /\ Sums(s)[i] <= Sums(s)[j]
         /\ (\A k \in i + 1 .. j : s[k] = 0) => Sums(s)[i] = Sums(s)[j]
<1> DEFINE G(k) == /\ Sums(s)[i] <= Sums(s)[k]
                   /\ (\A l \in i + 1 .. k : s[l] = 0) => Sums(s)[i] = Sums(s)[k]
           A == {n \in Nat : i + n <= Len(s) => G(i + n)}
<1>1. 0 \in A
  <2>1. i + 0 = i
    OBVIOUS
  <2>2. Sums(s)[i] \in Nat
    BY SumsAre
  <2>3. Sums(s)[i] <= Sums(s)[i]
    BY <2>2
  <2> QED BY <2>1, <2>3
<1>2. ASSUME NEW n \in Nat, n \in A PROVE n + 1 \in A
  <2> SUFFICES ASSUME i + (n + 1) <= Len(s) PROVE G(i + (n + 1))
    <3> HIDE DEF G
    <3> QED OBVIOUS
  <2> DEFINE k == i + n
  <2>1. k \in Nat /\ k + 1 = i + (n + 1) /\ k + 1 \in 1 .. Len(s) /\ k \in 0 .. Len(s)
    OBVIOUS
  <2>2. G(k)
    BY <1>2
  <2>3. Sums(s)[k + 1] = Sums(s)[k] + s[k + 1] /\ s[k + 1] \in Nat
    BY <2>1, SumsAre
  <2>4. Sums(s)[i] \in Nat /\ Sums(s)[k] \in Nat
    BY <2>1, SumsAre
  <2>5. k + 1 \in i + 1 .. k + 1 /\ \A l \in i + 1 .. k : l \in i + 1 .. k + 1
    OBVIOUS
  <2> HIDE DEF k
  <2>6. G(k + 1)
    BY SMTT(30), <2>1, <2>2, <2>3, <2>4, <2>5
  <2> QED BY <2>1, <2>6
<1> DEFINE n == j - i
<1>3. n \in Nat /\ i + n = j
  OBVIOUS
<1>4. n \in A
  <2> HIDE DEF A, n
  <2> QED BY <1>1, <1>2, <1>3, NatSteps
<1> QED BY <1>3, <1>4

LEMMA MaxIs ==
  ASSUME NEW m \in Nat, NEW S \in SUBSET (1 .. m), S # {}
  PROVE  Max(S) \in S /\ \A y \in S : y <= Max(S)
<1> DEFINE R == {m - x : x \in S}
<1>1. \A y \in S : y \in Nat /\ m - y \in Nat
  OBVIOUS
<1>2. R \in SUBSET Nat /\ R # {}
  BY <1>1
<1>3. PICK i \in R : \A j \in R : i <= j
  <2> HIDE DEF R
  <2> QED BY <1>2, SmallestExists
<1>4. PICK x \in S : i = m - x
  BY <1>3
<1>5. \A y \in S : x >= y
  <2> TAKE y \in S
  <2>1. m - y \in R
    OBVIOUS
  <2>2. m - x <= m - y
    <3> HIDE DEF R
    <3> QED BY <1>3, <1>4, <2>1
  <2> QED BY <1>1, <2>2
<1>6. Max(S) \in S /\ \A y \in S : Max(S) >= y
  BY <1>5 DEF Max
<1> QED BY <1>1, <1>6

-----------------------------------------------------------------------------
\* Sums over frames.
LEMMA Fields ==
  ASSUME NEW calls \in Seq(Frame)
  PROVE  /\ EtrapsOf(calls) \in Seq(Nat) /\ Len(EtrapsOf(calls)) = Len(calls)
         /\ VargsOf(calls) \in Seq(Nat) /\ Len(VargsOf(calls)) = Len(calls)
         /\ PbaseOf(calls) \in Seq(Nat) /\ Len(PbaseOf(calls)) = Len(calls)
         /\ \A i \in 1 .. Len(calls) : /\ EtrapsOf(calls)[i] = calls[i].etraps
                                       /\ VargsOf(calls)[i] = calls[i].vargs
                                       /\ PbaseOf(calls)[i] = calls[i].pbase
<1> DEFINE n == Len(calls)
<1>1. n \in Nat /\ DOMAIN calls = 1 .. n
  OBVIOUS
<1>2. \A i \in 1 .. n : calls[i] \in Frame
  OBVIOUS
<1> HIDE DEF n
<1>3. \A i \in 1 .. n : calls[i].etraps \in Nat /\ calls[i].vargs \in Nat /\ calls[i].pbase \in Nat
  BY <1>2 DEF Frame
<1>4. \A f \in [1 .. n -> Nat] : f \in Seq(Nat) /\ Len(f) = n
  BY <1>1
<1>5. EtrapsOf(calls) \in [1 .. n -> Nat] /\ \A i \in 1 .. n : EtrapsOf(calls)[i] = calls[i].etraps
  BY <1>1, <1>3 DEF EtrapsOf
<1>6. VargsOf(calls) \in [1 .. n -> Nat] /\ \A i \in 1 .. n : VargsOf(calls)[i] = calls[i].vargs
  BY <1>1, <1>3 DEF VargsOf
<1>7. PbaseOf(calls) \in [1 .. n -> Nat] /\ \A i \in 1 .. n : PbaseOf(calls)[i] = calls[i].pbase
  BY <1>1, <1>3 DEF PbaseOf
<1> QED BY <1>4, <1>5, <1>6, <1>7 DEF n

LEMMA CallSums ==
  ASSUME NEW calls \in Seq(Frame)
  PROVE  /\ T(calls) \in [0 .. Len(calls) -> Nat] /\ T(calls)[0] = 0
         /\ V(calls) \in [0 .. Len(calls) -> Nat] /\ V(calls)[0] = 0
         /\ P(calls) \in [0 .. Len(calls) -> Nat] /\ P(calls)[0] = 0
         /\ \A i \in 1 .. Len(calls) : /\ T(calls)[i] = T(calls)[i - 1] + calls[i].etraps
                                       /\ V(calls)[i] = V(calls)[i - 1] + calls[i].vargs
                                       /\ P(calls)[i] = P(calls)[i - 1] + calls[i].pbase
<1>1. /\ T(calls) \in [0 .. Len(calls) -> Nat] /\ T(calls)[0] = 0
      /\ \A i \in 1 .. Len(calls) : T(calls)[i] = T(calls)[i - 1] + EtrapsOf(calls)[i]
  BY Fields, SumsAre DEF T
<1>2. /\ V(calls) \in [0 .. Len(calls) -> Nat] /\ V(calls)[0] = 0
      /\ \A i \in 1 .. Len(calls) : V(calls)[i] = V(calls)[i - 1] + VargsOf(calls)[i]
  BY Fields, SumsAre DEF V
<1>3. /\ P(calls) \in [0 .. Len(calls) -> Nat] /\ P(calls)[0] = 0
      /\ \A i \in 1 .. Len(calls) : P(calls)[i] = P(calls)[i - 1] + PbaseOf(calls)[i]
  BY Fields, SumsAre DEF P
<1> QED BY <1>1, <1>2, <1>3, Fields

LEMMA CallsAgree ==
  ASSUME NEW calls \in Seq(Frame), NEW more \in Seq(Frame), NEW n \in Nat,
         n <= Len(calls), n <= Len(more), \A i \in 1 .. n : calls[i] = more[i]
  PROVE  \A i \in 0 .. n : /\ T(calls)[i] = T(more)[i]
                           /\ V(calls)[i] = V(more)[i]
                           /\ P(calls)[i] = P(more)[i]
<1>1. \A i \in 1 .. n : i \in 1 .. Len(calls) /\ i \in 1 .. Len(more)
  OBVIOUS
<1>2. \A i \in 1 .. n : /\ EtrapsOf(calls)[i] = EtrapsOf(more)[i]
                       /\ VargsOf(calls)[i] = VargsOf(more)[i]
                       /\ PbaseOf(calls)[i] = PbaseOf(more)[i]
  <2> TAKE i \in 1 .. n
  <2>1. /\ EtrapsOf(calls)[i] = calls[i].etraps
        /\ VargsOf(calls)[i] = calls[i].vargs
        /\ PbaseOf(calls)[i] = calls[i].pbase
    BY <1>1, Fields
  <2>2. /\ EtrapsOf(more)[i] = more[i].etraps
        /\ VargsOf(more)[i] = more[i].vargs
        /\ PbaseOf(more)[i] = more[i].pbase
    BY <1>1, Fields
  <2>3. calls[i] = more[i]
    OBVIOUS
  <2> QED BY <2>1, <2>2, <2>3
<1>3. \A i \in 0 .. n : T(calls)[i] = T(more)[i]
  BY <1>2, Fields, SumsAgree DEF T
<1>4. \A i \in 0 .. n : V(calls)[i] = V(more)[i]
  BY <1>2, Fields, SumsAgree DEF V
<1>5. \A i \in 0 .. n : P(calls)[i] = P(more)[i]
  BY <1>2, Fields, SumsAgree DEF P
<1> QED BY <1>3, <1>4, <1>5

LEMMA TrapsGrow ==
  ASSUME NEW calls \in Seq(Frame), NEW i \in 0 .. Len(calls), NEW j \in i .. Len(calls)
  PROVE  /\ T(calls)[i] <= T(calls)[j]
         /\ (\A k \in i + 1 .. j : calls[k].etraps = 0) => T(calls)[i] = T(calls)[j]
<1>1. \A k \in i + 1 .. j : k \in 1 .. Len(calls)
  OBVIOUS
<1>2. (\A k \in i + 1 .. j : calls[k].etraps = 0)
        => \A k \in i + 1 .. j : EtrapsOf(calls)[k] = 0
  BY <1>1, Fields
<1> DEFINE s == EtrapsOf(calls)
<1>3. s \in Seq(Nat) /\ i \in 0 .. Len(s) /\ j \in i .. Len(s)
  BY Fields
<1>4. /\ Sums(s)[i] <= Sums(s)[j]
      /\ (\A k \in i + 1 .. j : s[k] = 0) => Sums(s)[i] = Sums(s)[j]
  <2> HIDE DEF s
  <2> QED BY <1>3, SumsGrow
<1> QED BY <1>2, <1>4 DEF T

-----------------------------------------------------------------------------
\* The frames and what they have on the other stacks: one more frame, fewer.

\* The running frame can call f, or the host can.
Callable(calls, f) ==
    /\ f.native => ~ f.root /\ f.etraps = 0 /\ f.gen = NoGen
    /\ calls = << >> => f.root
    /\ calls # << >> => (Last(calls).native => f.root)
    /\ f.home = P(calls)[Len(calls)] + f.pbase
    /\ f.ptop >= (IF calls = << >> THEN 0 ELSE SizeOf(Last(calls)))
                    + (IF f.root THEN 1 ELSE 0)

\* Traps that f has set in this order.
Own(f, ts) ==
    /\ Len(ts) = f.etraps
    /\ \A k \in 1 .. Len(ts) : /\ ts[k].nth = k
                               /\ ts[k].base = f.home
                               /\ ts[k].top >= f.home + FrameSize

LEMMA BodyPush ==
  ASSUME NEW calls, NEW etraps, NEW nvargs, Body(calls, etraps, nvargs),
         NEW f \in Frame, Callable(calls, f), NEW ts \in Seq(Trap), Own(f, ts)
  PROVE  Body(Append(calls, f), etraps \o ts, nvargs + f.vargs)
<1> DEFINE n == Len(calls)
           c == Append(calls, f)
           e == etraps \o ts
<1>1. calls \in Seq(Frame) /\ etraps \in Seq(Trap) /\ n \in Nat
  BY DEF Body
<1>2. c \in Seq(Frame) /\ Len(c) = n + 1 /\ c[n + 1] = f /\ \A i \in 1 .. n : c[i] = calls[i]
  BY <1>1
<1>3. e \in Seq(Trap) /\ Len(e) = Len(etraps) + Len(ts)
  BY <1>1
<1>4. /\ \A k \in 1 .. Len(etraps) : e[k] = etraps[k]
      /\ \A k \in Len(etraps) + 1 .. Len(e) : e[k] = ts[k - Len(etraps)]
  BY <1>1
<1>5. calls # << >> => n > 0 /\ Last(calls) = calls[n]
  BY <1>1 DEF Last
<1>6. calls = << >> <=> n = 0
  BY <1>1
<1> HIDE DEF n, c, e
<1>7. \A i \in 0 .. n : T(c)[i] = T(calls)[i] /\ V(c)[i] = V(calls)[i] /\ P(c)[i] = P(calls)[i]
  <2>1. n <= Len(c) /\ n <= Len(calls)
    BY <1>1, <1>2 DEF n
  <2> QED BY <1>1, <1>2, <2>1, CallsAgree
<1>8. /\ T(c)[n + 1] = T(c)[n] + f.etraps
      /\ V(c)[n + 1] = V(c)[n] + f.vargs
      /\ P(c)[n + 1] = P(c)[n] + f.pbase
  <2>1. n + 1 \in 1 .. Len(c) /\ n + 1 - 1 = n
    BY <1>1, <1>2
  <2>2. /\ T(c)[n + 1] = T(c)[n + 1 - 1] + c[n + 1].etraps
        /\ V(c)[n + 1] = V(c)[n + 1 - 1] + c[n + 1].vargs
        /\ P(c)[n + 1] = P(c)[n + 1 - 1] + c[n + 1].pbase
    <3>1. \A i \in 1 .. Len(c) : /\ T(c)[i] = T(c)[i - 1] + c[i].etraps
                                /\ V(c)[i] = V(c)[i - 1] + c[i].vargs
                                /\ P(c)[i] = P(c)[i - 1] + c[i].pbase
      BY <1>2, CallSums
    <3> QED BY <1>1, <2>1, <3>1
  <2> QED BY <1>2, <2>1, <2>2
<1>9. /\ T(calls)[n] = Len(etraps) /\ V(calls)[n] = nvargs
      /\ T(c)[n + 1] = Len(e) /\ V(c)[n + 1] = nvargs + f.vargs
  BY <1>1, <1>3, <1>7, <1>8 DEF Body, Own, n
<1>10. ASSUME NEW i \in 1 .. n PROVE Called(c, i) /\ TrapsOf(c, e, i)
  <2>1. Called(calls, i) /\ TrapsOf(calls, etraps, i)
    BY <1>10 DEF Body, n
  <2>2. c[i] = calls[i] /\ (i > 1 => c[i - 1] = calls[i - 1])
    BY <1>1, <1>2
  <2>3. P(c)[i] = P(calls)[i] /\ T(c)[i] = T(calls)[i] /\ T(c)[i - 1] = T(calls)[i - 1]
    BY <1>1, <1>7
  <2>4. Called(c, i)
    BY <1>1, <2>1, <2>2, <2>3 DEF Called, Found
  <2>5. T(calls)[i] <= T(calls)[n] /\ T(calls)[i] \in Nat /\ T(calls)[i - 1] \in Nat
    <3>1. i \in 0 .. Len(calls) /\ i - 1 \in 0 .. Len(calls) /\ n \in i .. Len(calls)
      BY <1>1 DEF n
    <3> QED BY <1>1, <3>1, TrapsGrow, CallSums
  <2>6. \A k \in T(calls)[i - 1] + 1 .. T(calls)[i] : e[k] = etraps[k]
    BY <1>4, <1>9, <2>5
  <2> QED BY <2>1, <2>2, <2>3, <2>4, <2>6 DEF TrapsOf
<1>11. Called(c, n + 1)
  <2>1. P(c)[n + 1] = P(calls)[n] + f.pbase
    BY <1>1, <1>7, <1>8
  <2>2. f.home = P(c)[n + 1]
    BY <2>1 DEF Callable, n
  <2>3. n > 0 => c[n] = calls[n]
    BY <1>1, <1>2
  <2> QED BY <1>1, <1>2, <1>5, <1>6, <2>2, <2>3 DEF Called, Callable, Found
<1>12. TrapsOf(c, e, n + 1)
  <2>1. T(c)[n + 1 - 1] = Len(etraps) /\ T(c)[n + 1] = Len(e)
    BY <1>1, <1>7, <1>9
  <2> SUFFICES ASSUME NEW k \in Len(etraps) + 1 .. Len(e)
               PROVE  /\ e[k].nth = k - Len(etraps)
                      /\ e[k].base = f.home
                      /\ e[k].top >= f.home + FrameSize
    <3> DEFINE X(k) == /\ e[k].nth = k - Len(etraps)
                       /\ e[k].base = f.home
                       /\ e[k].top >= f.home + FrameSize
    <3>1. TrapsOf(c, e, n + 1) <=> \A k \in Len(etraps) + 1 .. Len(e) : X(k)
      <4> DEFINE l == n + 1
      <4>1. c[l] = f /\ T(c)[l - 1] = Len(etraps) /\ T(c)[l] = Len(e)
        BY <1>1, <1>2, <2>1
      <4> HIDE DEF l
      <4>2. TrapsOf(c, e, l) <=> \A k \in Len(etraps) + 1 .. Len(e) : X(k)
        BY <4>1 DEF TrapsOf
      <4> QED BY <4>2 DEF l
    <3> QED BY <3>1
  <2>2. e[k] = ts[k - Len(etraps)] /\ k - Len(etraps) \in 1 .. Len(ts)
    BY <1>1, <1>3, <1>4
  <2> QED BY <2>2 DEF Own
<1> QED BY <1>1, <1>2, <1>3, <1>9, <1>10, <1>11, <1>12 DEF Body, c, e

LEMMA BodyCut ==
  ASSUME NEW calls, NEW etraps, NEW nvargs, Body(calls, etraps, nvargs),
         NEW n \in 0 .. Len(calls)
  PROVE  /\ SubSeq(calls, 1, n) \in Seq(Frame) /\ Len(SubSeq(calls, 1, n)) = n
         /\ T(calls)[n] \in 0 .. Len(etraps)
         /\ Body(SubSeq(calls, 1, n), SubSeq(etraps, 1, T(calls)[n]), V(calls)[n])
         /\ \A i \in 0 .. n : /\ T(SubSeq(calls, 1, n))[i] = T(calls)[i]
                              /\ V(SubSeq(calls, 1, n))[i] = V(calls)[i]
                              /\ P(SubSeq(calls, 1, n))[i] = P(calls)[i]
<1> DEFINE c == SubSeq(calls, 1, n)
           e == SubSeq(etraps, 1, T(calls)[n])
<1>1. calls \in Seq(Frame) /\ etraps \in Seq(Trap) /\ Len(calls) \in Nat
  BY DEF Body
<1>2. c \in Seq(Frame) /\ Len(c) = n /\ \A i \in 1 .. n : c[i] = calls[i]
  BY <1>1
<1>3. T(calls)[n] \in Nat /\ T(calls)[n] <= T(calls)[Len(calls)] /\ Len(etraps) = T(calls)[Len(calls)]
  <2>1. Len(calls) \in n .. Len(calls)
    BY <1>1
  <2>2. T(calls)[n] \in Nat
    BY <1>1, CallSums
  <2>3. T(calls)[n] <= T(calls)[Len(calls)]
    BY <1>1, <2>1, TrapsGrow
  <2> QED BY <2>2, <2>3 DEF Body
<1>4. T(calls)[n] \in 0 .. Len(etraps)
  BY <1>3
<1>5. e \in Seq(Trap) /\ Len(e) = T(calls)[n] /\ \A k \in 1 .. Len(e) : e[k] = etraps[k]
  BY <1>1, <1>4
<1> HIDE DEF c, e
<1>6. \A i \in 0 .. n : T(c)[i] = T(calls)[i] /\ V(c)[i] = V(calls)[i] /\ P(c)[i] = P(calls)[i]
  BY <1>1, <1>2, CallsAgree
<1>7. ASSUME NEW i \in 1 .. n PROVE Called(c, i) /\ TrapsOf(c, e, i)
  <2>1. Called(calls, i) /\ TrapsOf(calls, etraps, i)
    BY <1>1, <1>7 DEF Body
  <2>2. c[i] = calls[i] /\ (i > 1 => c[i - 1] = calls[i - 1])
    BY <1>1, <1>2
  <2>3. P(c)[i] = P(calls)[i] /\ T(c)[i] = T(calls)[i] /\ T(c)[i - 1] = T(calls)[i - 1]
    BY <1>1, <1>6
  <2>4. Called(c, i)
    BY <1>1, <2>1, <2>2, <2>3 DEF Called, Found
  <2>5. T(c)[i] <= T(c)[n] /\ T(c)[i] \in Nat /\ T(c)[i - 1] \in Nat /\ T(c)[n] = Len(e)
    <3>1. i \in 0 .. Len(c) /\ i - 1 \in 0 .. Len(c) /\ n \in i .. Len(c)
      BY <1>2
    <3>2. T(c)[i] <= T(c)[n] /\ T(c)[i] \in Nat /\ T(c)[i - 1] \in Nat
      BY <1>2, <3>1, TrapsGrow, CallSums
    <3> QED BY <1>5, <1>6, <3>2
  <2>6. \A k \in T(c)[i - 1] + 1 .. T(c)[i] : e[k] = etraps[k]
    BY <1>5, <2>5
  <2> QED BY <2>1, <2>2, <2>3, <2>4, <2>6 DEF TrapsOf
<1>8. V(calls)[n] = V(c)[Len(c)] /\ Len(e) = T(c)[Len(c)]
  BY <1>2, <1>5, <1>6
<1>9. Body(c, e, V(calls)[n])
  BY <1>2, <1>5, <1>7, <1>8 DEF Body
<1> QED BY <1>2, <1>4, <1>6, <1>9 DEF c, e

LEMMA PrefixIs ==
  ASSUME NEW X, NEW s \in Seq(X), NEW n \in 0 .. Len(s)
  PROVE  /\ SubSeq(s, 1, n) \in Seq(X) /\ Len(SubSeq(s, 1, n)) = n
         /\ \A i \in 1 .. n : SubSeq(s, 1, n)[i] = s[i]
         /\ n = Len(s) => SubSeq(s, 1, n) = s
<1>1. SubSeq(s, 1, n) \in Seq(X) /\ Len(SubSeq(s, 1, n)) = n
      /\ \A i \in 1 .. n : SubSeq(s, 1, n)[i] = s[i]
  OBVIOUS
<1> DEFINE c == SubSeq(s, 1, n)
<1>2. ASSUME n = Len(s) PROVE c = s
  <2>1. c \in Seq(X) /\ Len(c) = n /\ \A i \in 1 .. n : c[i] = s[i]
    BY <1>1
  <2> HIDE DEF c
  <2>2. c = [i \in 1 .. n |-> c[i]] /\ s = [i \in 1 .. n |-> s[i]]
    BY <1>2, <2>1
  <2> QED BY <2>1, <2>2
<1> QED BY <1>1, <1>2

LEMMA FrontIs ==
  ASSUME NEW X, NEW s \in Seq(X), s # << >>
  PROVE  /\ Front(s) = SubSeq(s, 1, Len(s) - 1)
         /\ Front(s) \in Seq(X)
         /\ Len(s) \in Nat \ {0} /\ Len(Front(s)) = Len(s) - 1
         /\ \A i \in 1 .. Len(s) - 1 : Front(s)[i] = s[i]
         /\ Last(s) = s[Len(s)] /\ Last(s) \in X
<1>1. Front(s) = SubSeq(s, 1, Len(s) - 1) /\ Last(s) = s[Len(s)]
  BY DEF Front, Last
<1>2. Len(s) \in Nat \ {0} /\ Len(s) - 1 \in 0 .. Len(s) /\ s[Len(s)] \in X
  OBVIOUS
<1> DEFINE n == Len(s) - 1  f == SubSeq(s, 1, n)
<1>3. f \in Seq(X) /\ Len(f) = n /\ \A i \in 1 .. n : f[i] = s[i]
  <2>1. n \in 0 .. Len(s)
    BY <1>2
  <2> HIDE DEF n
  <2> QED BY <2>1, PrefixIs
<1> QED BY <1>1, <1>2, <1>3

LEMMA AppendIs ==
  ASSUME NEW X, NEW s \in Seq(X), NEW x \in X
  PROVE  /\ Append(s, x) \in Seq(X) /\ Append(s, x) # << >>
         /\ Len(Append(s, x)) = Len(s) + 1
         /\ \A i \in 1 .. Len(s) : Append(s, x)[i] = s[i]
         /\ Append(s, x)[Len(s) + 1] = x
         /\ Last(Append(s, x)) = x /\ Front(Append(s, x)) = s
<1> DEFINE n == Len(s)  a == Append(s, x)
<1>1. a \in Seq(X) /\ Len(a) = n + 1 /\ a[n + 1] = x /\ \A i \in 1 .. n : a[i] = s[i]
  OBVIOUS
<1>2. n \in Nat
  OBVIOUS
<1>3. a # << >>
  BY <1>1, <1>2
<1> HIDE DEF a
<1>4. Front(a) = SubSeq(a, 1, Len(a) - 1) /\ Last(a) = a[Len(a)]
  BY <1>1, <1>3, FrontIs
<1>5. Front(a) \in Seq(X) /\ Len(Front(a)) = n /\ \A i \in 1 .. n : Front(a)[i] = a[i]
  BY SMTT(30), <1>1, <1>2, <1>3, FrontIs
<1>6. Front(a) = [i \in 1 .. n |-> Front(a)[i]] /\ s = [i \in 1 .. n |-> s[i]]
  BY <1>5
<1>7. Front(a) = s
  BY <1>1, <1>5, <1>6
<1> QED BY <1>1, <1>3, <1>4, <1>7 DEF a

-----------------------------------------------------------------------------
\* Generators and frames.
LEMMA GensPush ==
  ASSUME NEW calls \in Seq(Frame), NEW gens, Gens(calls, gens),
         NEW f \in Frame, f.gen = NoGen
  PROVE  Gens(Append(calls, f), gens)
<1> DEFINE n == Len(calls)  c == Append(calls, f)
<1>1. n \in Nat /\ Len(c) = n + 1 /\ c[n + 1] = f /\ \A i \in 1 .. n : c[i] = calls[i]
  OBVIOUS
<1>2. NoGen \notin Gen
  BY VMAssumption
<1> HIDE DEF c
<1>3. \A i \in 1 .. n + 1, g \in Gen : c[i].gen = g <=> i \in 1 .. n /\ calls[i].gen = g
  BY <1>1, <1>2
<1> QED BY <1>1, <1>3 DEF Gens, c

LEMMA GensResume ==
  ASSUME NEW calls \in Seq(Frame), NEW gens, Gens(calls, gens),
         NEW g \in Gen, gens[g].state # "running",
         NEW f \in Frame, f.gen = g, NEW r \in GenRec, r.state = "running"
  PROVE  Gens(Append(calls, f), [gens EXCEPT ![g] = r])
<1> DEFINE n == Len(calls)  c == Append(calls, f)  q == [gens EXCEPT ![g] = r]
<1>1. n \in Nat /\ Len(c) = n + 1 /\ c[n + 1] = f /\ \A i \in 1 .. n : c[i] = calls[i]
  OBVIOUS
<1>2. gens \in [Gen -> GenRec] /\ \A i \in 1 .. n : calls[i].gen # g
  BY DEF Gens
<1>3. q \in [Gen -> GenRec] /\ q[g] = r /\ \A h \in Gen \ {g} : q[h] = gens[h]
  BY <1>2
<1> HIDE DEF c, q
<1>4. \A i \in 1 .. n : c[i].gen # g
  BY <1>1, <1>2
<1>5. ASSUME NEW h \in Gen \ {g}
      PROVE  \A i \in 1 .. n + 1 : c[i].gen = h <=> i \in 1 .. n /\ calls[i].gen = h
  BY <1>1
<1>6. ASSUME NEW h \in Gen
      PROVE  /\ q[h].state = "running" <=> \E i \in 1 .. n + 1 : c[i].gen = h
             /\ \A i, j \in 1 .. n + 1 : c[i].gen = h /\ c[j].gen = h => i = j
             /\ q[h].state = "suspended" => Resumable(q[h])
  <2>1. CASE h = g
    BY <1>1, <1>3, <1>4, <2>1
  <2>2. CASE h # g
    BY <1>1, <1>3, <1>5, <2>2 DEF Gens
  <2> QED BY <2>1, <2>2
<1> QED BY <1>1, <1>3, <1>6 DEF Gens, c, q

LEMMA GensSame ==
  ASSUME NEW calls \in Seq(Frame), NEW gens, Gens(calls, gens),
         NEW more \in Seq(Frame), Len(more) = Len(calls),
         \A i \in 1 .. Len(calls) : more[i].gen = calls[i].gen
  PROVE  Gens(more, gens)
BY DEF Gens

LEMMA GensSave ==
  ASSUME NEW calls \in Seq(Frame), NEW gens, Gens(calls, gens),
         NEW g \in Gen, gens[g].state # "running",
         NEW r \in GenRec, r.state # "running", r.state = "suspended" => Resumable(r)
  PROVE  Gens(calls, [gens EXCEPT ![g] = r])
<1> DEFINE q == [gens EXCEPT ![g] = r]
<1>1. gens \in [Gen -> GenRec]
  BY DEF Gens
<1>2. q \in [Gen -> GenRec] /\ q[g] = r /\ \A h \in Gen \ {g} : q[h] = gens[h]
  BY <1>1
<1> HIDE DEF q
<1>3. ASSUME NEW h \in Gen
      PROVE  /\ q[h].state = "running" <=> gens[h].state = "running"
             /\ q[h].state = "suspended" => Resumable(q[h])
  <2>1. CASE h = g
    BY <1>2, <2>1
  <2>2. CASE h # g
    BY <1>2, <2>2 DEF Gens
  <2> QED BY <2>1, <2>2
<1> QED BY <1>2, <1>3 DEF Gens, q

\* A frame of g is among those above frame n.
Popped(calls, n, g) == \E i \in n + 1 .. Len(calls) : calls[i].gen = g

LEMMA GensCut ==
  ASSUME NEW calls \in Seq(Frame), NEW gens, Gens(calls, gens), NEW n \in 0 .. Len(calls),
         NEW q \in [Gen -> GenRec],
         \A g \in Gen : IF Popped(calls, n, g)
                        THEN /\ q[g].state # "running"
                             /\ q[g].state = "suspended" => Resumable(q[g])
                        ELSE q[g] = gens[g]
  PROVE  Gens(SubSeq(calls, 1, n), q)
<1> DEFINE c == SubSeq(calls, 1, n)
<1>1. Len(c) = n /\ \A i \in 1 .. n : c[i] = calls[i] /\ i \in 1 .. Len(calls)
  OBVIOUS
<1> HIDE DEF c
<1>2. ASSUME NEW g \in Gen
      PROVE  /\ q[g].state = "running" <=> \E i \in 1 .. n : c[i].gen = g
             /\ \A i, j \in 1 .. n : c[i].gen = g /\ c[j].gen = g => i = j
             /\ q[g].state = "suspended" => Resumable(q[g])
  <2>1. /\ gens[g].state = "running" <=> \E i \in 1 .. Len(calls) : calls[i].gen = g
        /\ \A i, j \in 1 .. Len(calls) : calls[i].gen = g /\ calls[j].gen = g => i = j
        /\ gens[g].state = "suspended" => Resumable(gens[g])
    BY DEF Gens
  <2>2. CASE Popped(calls, n, g)
    <3>1. PICK i \in n + 1 .. Len(calls) : calls[i].gen = g
      BY <2>2 DEF Popped
    <3>2. i \in 1 .. Len(calls) /\ i \notin 1 .. n
      OBVIOUS
    <3>3. \A j \in 1 .. n : c[j].gen # g
      BY <1>1, <2>1, <3>1, <3>2
    <3> QED BY <2>2, <3>3
  <2>3. CASE ~ Popped(calls, n, g)
    <3>1. q[g] = gens[g] /\ ~ \E i \in n + 1 .. Len(calls) : calls[i].gen = g
      BY <2>3 DEF Popped
    <3>2. \A i \in 1 .. Len(calls) : i \in 1 .. n \/ i \in n + 1 .. Len(calls)
      OBVIOUS
    <3> QED BY SMTT(30), <1>1, <2>1, <3>1, <3>2
  <2> QED BY <2>2, <2>3
<1> QED BY <1>1, <1>2 DEF Gens, c

-----------------------------------------------------------------------------
\* The C++ stack.

\* The topmost frame that has something on the C++ stack.
Topmost(calls, r) ==
    /\ r \in 1 .. Len(calls) /\ Marked(calls[r])
    /\ \A i \in r + 1 .. Len(calls) : ~ Marked(calls[i])

LEMMA ActivationsAre ==
  ASSUME NEW susp \in Suspension, NEW c \in Seq(Activation)
  PROVE  /\ Skip(susp) \in {0, 1} /\ Len(c) \in Nat
         /\ Activations(susp, c) \in Nat
         /\ Activations(susp, c) = Len(c) + Skip(susp)
         /\ susp.on <=> Skip(susp) = 1
         /\ c = << >> <=> Len(c) = 0
         /\ c # << >> => Last(c) = c[Len(c)] /\ Activations(susp, c) \in Nat \ {0}
BY DEF Skip, Activations, Suspension, Last

LEMMA TopIs ==
  ASSUME NEW calls \in Seq(Frame), NEW susp \in Suspension, NEW c \in Seq(Activation),
         NEW at, Linked(at, calls, susp, c), NEW r, Topmost(calls, r)
  PROVE  Activations(susp, c) > 0 /\ at[Activations(susp, c)] = r
<1> DEFINE n == Activations(susp, c)
<1>1. n \in Nat
  BY ActivationsAre
<1>2. PICK m \in 1 .. n : at[m] = r
  BY DEF Linked, Topmost
<1>3. at[n] \in 1 .. Len(calls) + 1 /\ at[n] < at[n + 1] /\ at[n + 1] = Len(calls) + 1
  BY <1>1, <1>2 DEF Linked
<1>4. at[n] \in 1 .. Len(calls)
  BY <1>3
<1>5. Marked(calls[at[n]])
  <2>1. \A i \in 1 .. Len(calls) : Marked(calls[i]) <=> \E l \in 1 .. n : at[l] = i
    BY DEF Linked
  <2>2. n \in 1 .. n
    BY <1>1, <1>2
  <2> QED BY <1>4, <2>1, <2>2
<1>6. ~ m < n
  <2> SUFFICES ASSUME m < n PROVE FALSE
    OBVIOUS
  <2>1. r < at[n]
    BY <1>1, <1>2 DEF Linked
  <2>2. at[n] \in r + 1 .. Len(calls)
    BY <1>4, <2>1 DEF Topmost
  <2> QED BY <1>5, <2>2 DEF Topmost
<1> QED BY <1>1, <1>2, <1>6

\* What runs in C++ has its frame, and counts the traps from there.
LEMMA TopExists ==
  ASSUME NEW calls \in Seq(Frame), NEW susp, NEW c, Link(calls, susp, c), c # << >>
  PROVE  \E r : /\ Topmost(calls, r)
                /\ calls[r].native = Last(c).native
                /\ Last(c).traps = T(calls)[Len(calls)] - T(calls)[r - 1]
                /\ susp.on => r > 1
<1> DEFINE n == Activations(susp, c)
<1>1. susp \in Suspension /\ c \in Seq(Activation)
  BY DEF Link
<1>2. PICK at \in [1 .. n + 1 -> 1 .. Len(calls) + 1] : Linked(at, calls, susp, c)
  BY DEF Link
<1>3. n \in Nat \ {0} /\ Last(c) = c[Len(c)] /\ Len(c) \in Nat \ {0} /\ n = Len(c) + Skip(susp)
      /\ Skip(susp) \in {0, 1} /\ (susp.on <=> Skip(susp) = 1)
  BY <1>1, ActivationsAre
<1> HIDE DEF n
<1>marks. \A i \in 1 .. Len(calls) : Marked(calls[i]) <=> \E m \in 1 .. n : at[m] = i
  BY <1>2 DEF Linked, n
<1>4. /\ at[n] \in 1 .. Len(calls) + 1 /\ at[n] < at[n + 1] /\ at[n + 1] = Len(calls) + 1
      /\ at[1] = 1
  BY SMTT(30), <1>2, <1>3 DEF Linked, n
<1>5. at[n] \in 1 .. Len(calls)
  BY <1>4
<1>6. Marked(calls[at[n]])
  <2>1. n \in 1 .. n
    BY <1>3
  <2> QED BY <1>5, <1>marks, <2>1
<1>7. ASSUME NEW i \in at[n] + 1 .. Len(calls) PROVE ~ Marked(calls[i])
  <2> SUFFICES ASSUME Marked(calls[i]) PROVE FALSE
    OBVIOUS
  <2>1. i \in 1 .. Len(calls) /\ i > at[n]
    BY <1>5
  <2>2. PICK m \in 1 .. n : at[m] = i
    BY <1>marks, <2>1
  <2>3. m < n \/ m = n
    BY <1>3
  <2>4. m < n => at[m] < at[n]
    BY <1>2, <1>3 DEF Linked, n
  <2>5. i \in Nat /\ at[n] \in Nat
    BY <1>5
  <2> QED BY <2>1, <2>2, <2>3, <2>4, <2>5
<1>8. Topmost(calls, at[n])
  BY <1>5, <1>6, <1>7 DEF Topmost
<1>9. Counter(susp, c, n) = Last(c).traps
  BY <1>3 DEF Counter
<1>10. Counter(susp, c, n) = T(calls)[at[n + 1] - 1] - T(calls)[at[n] - 1]
  <2>1. \A m \in 1 .. n : Counter(susp, c, m) = T(calls)[at[m + 1] - 1] - T(calls)[at[m] - 1]
    BY <1>2 DEF Linked, n
  <2>2. n \in 1 .. n
    BY <1>3
  <2> QED BY <2>1, <2>2
<1>11. at[n + 1] - 1 = Len(calls)
  BY <1>4
<1>12. calls[at[n]].native = Last(c).native
  <2>1. \A m \in 1 .. Len(c) : c[m].native = calls[at[m + Skip(susp)]].native
    BY <1>2 DEF Linked
  <2>2. Len(c) \in 1 .. Len(c)
    BY <1>3
  <2> QED BY <1>3, <2>1, <2>2
<1>13. susp.on => at[n] > 1
  <2> SUFFICES ASSUME susp.on PROVE at[n] > 1
    OBVIOUS
  <2>1. n > 1
    BY <1>3
  <2>2. at[1] < at[n]
    BY <1>2, <1>3, <2>1 DEF Linked, n
  <2> QED BY <1>4, <2>2
<1> QED BY <1>8, <1>9, <1>10, <1>11, <1>12, <1>13

\* Nothing runs in C++: the VM is empty or suspended.
LEMMA NothingRuns ==
  ASSUME NEW calls \in Seq(Frame), NEW susp, Link(calls, susp, << >>)
  PROVE  susp.on <=> calls # << >>
<1>1. susp \in Suspension /\ << >> \in Seq(Activation)
  BY DEF Link
<1> DEFINE n == Activations(susp, << >>)
<1>2. PICK at \in [1 .. n + 1 -> 1 .. Len(calls) + 1] : Linked(at, calls, susp, << >>)
  BY DEF Link
<1>3. n = Skip(susp) /\ n \in {0, 1} /\ (susp.on <=> n = 1)
  <2>1. Skip(susp) \in {0, 1} /\ (susp.on <=> Skip(susp) = 1)
    BY <1>1, ActivationsAre
  <2>2. n = Skip(susp)
    BY <2>1 DEF Activations
  <2> QED BY <2>1, <2>2
<1>4. at[1] = 1 /\ at[n + 1] = Len(calls) + 1 /\ (n = 1 => at[1] < at[2])
  BY <1>2, <1>3 DEF Linked
<1>5. calls = << >> <=> Len(calls) = 0
  OBVIOUS
<1> QED BY <1>3, <1>4, <1>5

\* The topmost activation calls, returns and sets traps, above its own frame.
LEMMA LinkTop ==
  ASSUME NEW calls \in Seq(Frame), NEW susp, NEW c, Link(calls, susp, c), c # << >>,
         NEW r, Topmost(calls, r), NEW more \in Seq(Frame), Topmost(more, r),
         \A i \in 1 .. r - 1 : more[i] = calls[i], more[r].native = calls[r].native,
         NEW x \in Activation, x.native = Last(c).native, x.by = Last(c).by,
         x.traps = T(more)[Len(more)] - T(more)[r - 1]
  PROVE  Link(more, susp, Append(Front(c), x))
<1> DEFINE n == Activations(susp, c)
           d == Append(Front(c), x)
           l == Len(c)
<1>1. susp \in Suspension /\ c \in Seq(Activation)
  BY DEF Link
<1>2. PICK at \in [1 .. n + 1 -> 1 .. Len(calls) + 1] : Linked(at, calls, susp, c)
  BY DEF Link
<1>3. l \in Nat \ {0} /\ n = l + Skip(susp) /\ n \in Nat \ {0}
      /\ Skip(susp) \in {0, 1} /\ (susp.on <=> Skip(susp) = 1)
  BY <1>1, ActivationsAre
<1>4. /\ d \in Seq(Activation) /\ Len(d) = l /\ d[l] = x /\ Last(c) = c[l]
      /\ \A m \in 1 .. l - 1 : d[m] = c[m]
  <2>1. Front(c) \in Seq(Activation) /\ Len(Front(c)) = l - 1 /\ Last(c) = c[l]
        /\ \A m \in 1 .. l - 1 : Front(c)[m] = c[m]
    BY <1>1, FrontIs
  <2>2. d \in Seq(Activation) /\ Len(d) = l - 1 + 1 /\ d[l - 1 + 1] = x
        /\ \A m \in 1 .. l - 1 : d[m] = Front(c)[m]
    BY <2>1, AppendIs
  <2>3. l - 1 + 1 = l
    BY <1>3
  <2> QED BY <2>1, <2>2, <2>3
<1>5. Activations(susp, d) = n
  BY <1>4 DEF Activations
<1>6. r \in Nat \ {0} /\ r \in 1 .. Len(calls) /\ r \in 1 .. Len(more) /\ at[n] = r
  <2>1. Linked(at, calls, susp, c)
    BY <1>2
  <2>2. at[Activations(susp, c)] = r
    BY ONLY <1>1, <2>1, TopIs, Topmost(calls, r), calls \in Seq(Frame), Zenon
  <2>3. at[n] = r
    BY <2>2
  <2> QED BY <2>3 DEF Topmost
<1> HIDE DEF n, d, l
<1> DEFINE to == [m \in 1 .. n + 1 |-> IF m = n + 1 THEN Len(more) + 1 ELSE at[m]]
<1>7. to[n + 1] = Len(more) + 1 /\ \A m \in 1 .. n : to[m] = at[m]
  BY <1>3
<1>8. /\ at \in [1 .. n + 1 -> 1 .. Len(calls) + 1]
      /\ at[1] = 1 /\ at[n + 1] = Len(calls) + 1
      /\ \A m, k \in 1 .. n + 1 : m < k => at[m] < at[k]
  BY <1>2 DEF Linked, n
<1>9. /\ \A i \in 1 .. Len(calls) : Marked(calls[i]) <=> \E m \in 1 .. n : at[m] = i
      /\ \A m \in 1 .. n : Counter(susp, c, m) = T(calls)[at[m + 1] - 1] - T(calls)[at[m] - 1]
      /\ \A m \in 1 .. l : /\ c[m].native = calls[at[m + Skip(susp)]].native
                           /\ ~ c[m].native => c[m].by # "script"
      /\ ~ c[1].native
      /\ susp.on => Sleeps(calls[at[2] - 1], susp)
  BY <1>2 DEF Linked, n, l
<1>10. \A m \in 1 .. n : at[m] \in 1 .. r /\ (m < n => at[m] < r)
  <2> TAKE m \in 1 .. n
  <2>1. m = n \/ m < n
    BY <1>3
  <2>2. m < n => at[m] < at[n]
    BY <1>3, <1>8
  <2>3. at[m] \in 1 .. Len(calls) + 1
    BY <1>3, <1>8
  <2> QED BY <1>6, <2>1, <2>2, <2>3
<1>11. to \in [1 .. n + 1 -> 1 .. Len(more) + 1]
  <2>1. \A m \in 1 .. n : at[m] \in 1 .. Len(more) + 1
    BY <1>6, <1>10
  <2> QED BY SMTT(30), <1>3, <2>1
<1> HIDE DEF to
<1>12. to[1] = 1
  BY SMTT(30), <1>3, <1>7, <1>8
<1>13. \A m, k \in 1 .. n + 1 : m < k => to[m] < to[k]
  <2> SUFFICES ASSUME NEW m \in 1 .. n + 1, NEW k \in 1 .. n + 1, m < k
               PROVE  to[m] < to[k]
    OBVIOUS
  <2>1. m \in 1 .. n
    BY <1>3
  <2>2. CASE k = n + 1
    BY <1>6, <1>7, <1>10, <2>1, <2>2
  <2>3. CASE k \in 1 .. n
    BY <1>7, <1>8, <2>1, <2>3
  <2> QED BY <1>3, <2>2, <2>3
<1>14. \A i \in 1 .. Len(more) : Marked(more[i]) <=> \E m \in 1 .. n : to[m] = i
  <2> TAKE i \in 1 .. Len(more)
  <2>1. (\E m \in 1 .. n : to[m] = i) <=> (\E m \in 1 .. n : at[m] = i)
    BY <1>7
  <2>2. CASE i < r
    <3>1. i \in 1 .. r - 1 /\ i \in 1 .. Len(calls)
      BY <1>6, <2>2
    <3> QED BY <1>9, <2>1, <3>1
  <2>3. CASE i = r
    <3>1. n \in 1 .. n
      BY <1>3
    <3> QED BY <1>6, <2>1, <2>3, <3>1 DEF Topmost
  <2>4. CASE i > r
    <3>1. i \in r + 1 .. Len(more)
      BY <1>6, <2>4
    <3>2. \A m \in 1 .. n : at[m] # i
      BY <1>6, <1>10, <2>4
    <3> QED BY <2>1, <3>1, <3>2 DEF Topmost
  <2> QED BY <1>6, <2>2, <2>3, <2>4
<1>15. \A i \in 0 .. r - 1 : T(more)[i] = T(calls)[i]
  <2>1. r - 1 \in Nat /\ r - 1 <= Len(calls) /\ r - 1 <= Len(more)
    BY <1>6
  <2> QED BY <2>1, CallsAgree
<1>16. \A m \in 1 .. n : Counter(susp, d, m) = T(more)[to[m + 1] - 1] - T(more)[to[m] - 1]
  <2> TAKE m \in 1 .. n
  <2>1. CASE m = n
    <3>1. Counter(susp, d, n) = x.traps
      BY <1>3, <1>4 DEF Counter
    <3>2. to[n + 1] - 1 = Len(more) /\ to[n] = r
      BY SMTT(30), <1>3, <1>6, <1>7
    <3> QED BY <2>1, <3>1, <3>2
  <2>2. CASE m < n
    <3>1. Counter(susp, d, m) = Counter(susp, c, m)
      BY <1>3, <1>4, <2>2 DEF Counter
    <3>2. m + 1 \in 1 .. n
      BY <1>3, <2>2
    <3>3. to[m + 1] - 1 \in 0 .. r - 1 /\ to[m] - 1 \in 0 .. r - 1
          /\ to[m + 1] = at[m + 1] /\ to[m] = at[m]
      BY SMTT(30), <1>6, <1>7, <1>10, <3>2
    <3>4. Counter(susp, c, m) = T(calls)[at[m + 1] - 1] - T(calls)[at[m] - 1]
      BY <1>9
    <3> QED BY <1>15, <3>1, <3>3, <3>4
  <2> QED BY <1>3, <2>1, <2>2
<1>17. ASSUME NEW m \in 1 .. l
       PROVE  /\ d[m].native = more[to[m + Skip(susp)]].native
              /\ ~ d[m].native => d[m].by # "script"
  <2>1. m + Skip(susp) \in 1 .. n /\ to[m + Skip(susp)] = at[m + Skip(susp)]
    BY SMTT(30), <1>3, <1>7
  <2>2. CASE m = l
    <3>1. d[m] = x /\ to[m + Skip(susp)] = r
      BY <1>3, <1>4, <1>6, <2>1, <2>2
    <3>2. Last(c).native = calls[r].native /\ (~ Last(c).native => Last(c).by # "script")
      BY <1>3, <1>4, <1>6, <1>9, <2>2
    <3> QED BY <3>1, <3>2
  <2>3. CASE m < l
    <3>1. d[m] = c[m] /\ m + Skip(susp) < n
      BY <1>3, <1>4, <2>3
    <3>2. at[m + Skip(susp)] \in 1 .. r - 1
      BY <1>6, <1>10, <2>1, <3>1
    <3> QED BY SMTT(30), <1>9, <2>1, <3>1, <3>2
  <2> QED BY <1>3, <2>2, <2>3
<1>18. ~ d[1].native
  <2>1. CASE l = 1
    BY <1>4, <1>9, <2>1
  <2>2. CASE l > 1
    BY <1>3, <1>4, <1>9, <2>2
  <2> QED BY <1>3, <2>1, <2>2
<1>19. susp.on => Sleeps(more[to[2] - 1], susp)
  <2> SUFFICES ASSUME susp.on PROVE Sleeps(more[to[2] - 1], susp)
    OBVIOUS
  <2>1. n \in Nat /\ 2 <= n /\ 1 \in 1 .. n + 1 /\ 2 \in 1 .. n + 1
    BY <1>3
  <2>2. at[2] \in 1 .. r /\ at[1] < at[2] /\ to[2] = at[2]
    BY <1>7, <1>8, <1>10, <2>1
  <2>3. at[2] - 1 \in 1 .. r - 1
    BY <1>6, <1>8, <2>2
  <2> QED BY <1>9, <2>2, <2>3
<1>20. Linked(to, more, susp, d)
  <2>1. Len(d) = l /\ Activations(susp, d) = n
    BY <1>4, <1>5
  <2> QED BY <2>1, <1>7, <1>11, <1>12, <1>13, <1>14, <1>16, <1>17, <1>18, <1>19 DEF Linked
<1>21. to \in [1 .. Activations(susp, d) + 1 -> 1 .. Len(more) + 1]
  BY <1>5, <1>11
<1> QED BY <1>1, <1>4, <1>20, <1>21 DEF Link, d

\* A function is called from C++, or a native one.
LEMMA LinkPush ==
  ASSUME NEW calls \in Seq(Frame), NEW susp, NEW c, Link(calls, susp, c),
         NEW f \in Frame, Marked(f), NEW x \in Activation, x.native = f.native,
         x.traps = f.etraps, ~ x.native => x.by # "script", c = << >> => ~ x.native
  PROVE  Link(Append(calls, f), susp, Append(c, x))
<1> DEFINE n == Activations(susp, c)
           d == Append(c, x)
           l == Len(c)
           more == Append(calls, f)
           k == Len(calls)
<1>1. susp \in Suspension /\ c \in Seq(Activation)
  BY DEF Link
<1>2. PICK at \in [1 .. n + 1 -> 1 .. Len(calls) + 1] : Linked(at, calls, susp, c)
  BY DEF Link
<1>3. l \in Nat /\ n = l + Skip(susp) /\ n \in Nat
      /\ Skip(susp) \in {0, 1} /\ (susp.on <=> Skip(susp) = 1)
  BY <1>1, ActivationsAre
<1>4. d \in Seq(Activation) /\ Len(d) = l + 1 /\ d[l + 1] = x /\ \A m \in 1 .. l : d[m] = c[m]
  BY <1>1, AppendIs
<1>5. more \in Seq(Frame) /\ Len(more) = k + 1 /\ more[k + 1] = f
      /\ \A i \in 1 .. k : more[i] = calls[i]
  BY AppendIs
<1>6. k \in Nat
  OBVIOUS
<1>7. Activations(susp, d) = n + 1
  BY <1>3, <1>4 DEF Activations
<1>8. /\ at \in [1 .. n + 1 -> 1 .. k + 1]
      /\ at[1] = 1 /\ at[n + 1] = k + 1
      /\ \A m, j \in 1 .. n + 1 : m < j => at[m] < at[j]
  BY <1>2 DEF Linked
<1>9. /\ \A i \in 1 .. k : Marked(calls[i]) <=> \E m \in 1 .. n : at[m] = i
      /\ \A m \in 1 .. n : Counter(susp, c, m) = T(calls)[at[m + 1] - 1] - T(calls)[at[m] - 1]
      /\ \A m \in 1 .. l : /\ c[m].native = calls[at[m + Skip(susp)]].native
                           /\ ~ c[m].native => c[m].by # "script"
      /\ c # << >> => ~ c[1].native
      /\ susp.on => Sleeps(calls[at[2] - 1], susp)
  BY <1>2 DEF Linked
<1>10. c = << >> <=> l = 0
  BY <1>1
<1> HIDE DEF n, d, l, more, k
<1>11. \A i \in 0 .. k : T(more)[i] = T(calls)[i]
  <2>1. k \in Nat /\ k <= Len(calls) /\ k <= Len(more)
    BY <1>5, <1>6 DEF k
  <2> QED BY <1>5, <2>1, CallsAgree
<1>12. T(more)[k + 1] = T(more)[k] + f.etraps /\ T(more)[k] \in Nat
  <2>1. T(more) \in [0 .. Len(more) -> Nat]
        /\ \A i \in 1 .. Len(more) : T(more)[i] = T(more)[i - 1] + more[i].etraps
    BY <1>5, CallSums
  <2>2. k + 1 \in 1 .. Len(more) /\ k + 1 - 1 = k /\ k \in 0 .. Len(more)
    BY <1>5, <1>6
  <2> QED BY <1>5, <1>6, <2>1, <2>2
<1> DEFINE to == [m \in 1 .. n + 2 |-> IF m = n + 2 THEN k + 2 ELSE at[m]]
<1>13. to[n + 2] = k + 2 /\ \A m \in 1 .. n + 1 : to[m] = at[m]
  BY <1>3
<1>14. \A m \in 1 .. n + 1 : at[m] \in 1 .. k + 1
  BY <1>8
<1>15. \A m \in 1 .. n : at[m] \in 1 .. k
  <2> TAKE m \in 1 .. n
  <2>1. at[m] < at[n + 1]
    BY <1>3, <1>8
  <2> QED BY <1>3, <1>6, <1>8, <1>14, <2>1
<1>16. to \in [1 .. n + 2 -> 1 .. k + 2]
  BY <1>3, <1>6, <1>14
<1> HIDE DEF to
<1>17. to[1] = 1
  BY <1>3, <1>8, <1>13
<1>18. \A m, j \in 1 .. n + 2 : m < j => to[m] < to[j]
  <2> SUFFICES ASSUME NEW m \in 1 .. n + 2, NEW j \in 1 .. n + 2, m < j
               PROVE  to[m] < to[j]
    OBVIOUS
  <2>1. m \in 1 .. n + 1
    BY <1>3
  <2>2. CASE j = n + 2
    BY <1>6, <1>13, <1>14, <2>1, <2>2
  <2>3. CASE j \in 1 .. n + 1
    BY <1>8, <1>13, <2>1, <2>3
  <2> QED BY <1>3, <2>2, <2>3
<1>19. \A i \in 1 .. k + 1 : Marked(more[i]) <=> \E m \in 1 .. n + 1 : to[m] = i
  <2> TAKE i \in 1 .. k + 1
  <2>1. (\E m \in 1 .. n + 1 : to[m] = i) <=> (\E m \in 1 .. n : at[m] = i) \/ at[n + 1] = i
    <3>1. \A m : m \in 1 .. n + 1 <=> m \in 1 .. n \/ m = n + 1
      BY <1>3
    <3> QED BY <1>13, <3>1
  <2>2. CASE i \in 1 .. k
    BY <1>5, <1>6, <1>8, <1>9, <2>1, <2>2
  <2>3. CASE i = k + 1
    BY <1>5, <1>8, <2>1, <2>3
  <2> QED BY <1>6, <2>2, <2>3
<1>20. \A m \in 1 .. n + 1 : Counter(susp, d, m) = T(more)[to[m + 1] - 1] - T(more)[to[m] - 1]
  <2> TAKE m \in 1 .. n + 1
  <2>1. CASE m = n + 1
    <3>1. Counter(susp, d, n + 1) = f.etraps
      BY <1>3, <1>4 DEF Counter
    <3>2. n + 1 + 1 = n + 2 /\ n + 1 \in 1 .. n + 1
      BY <1>3
    <3>3. to[n + 1 + 1] - 1 = k + 1 /\ to[n + 1] - 1 = k
      BY SMTT(30), <1>3, <1>6, <1>8, <1>13, <3>2
    <3>4. f.etraps \in Nat
      BY DEF Frame
    <3> QED BY <1>12, <2>1, <3>1, <3>3, <3>4
  <2>2. CASE m \in 1 .. n
    <3>1. Counter(susp, d, m) = Counter(susp, c, m)
      BY <1>3, <1>4, <2>2 DEF Counter
    <3>2. m + 1 \in 1 .. n + 1
      BY <1>3, <2>2
    <3>3. to[m + 1] = at[m + 1] /\ to[m] = at[m]
      BY <1>13, <3>2
    <3>4. at[m + 1] - 1 \in 0 .. k /\ at[m] - 1 \in 0 .. k
      BY <1>6, <1>14, <3>2
    <3>5. Counter(susp, c, m) = T(calls)[at[m + 1] - 1] - T(calls)[at[m] - 1]
      BY <1>9, <2>2
    <3> QED BY <1>11, <3>1, <3>3, <3>4, <3>5
  <2> QED BY <1>3, <2>1, <2>2
<1>21. ASSUME NEW m \in 1 .. l + 1
       PROVE  /\ d[m].native = more[to[m + Skip(susp)]].native
              /\ ~ d[m].native => d[m].by # "script"
  <2>1. m + Skip(susp) \in 1 .. n + 1 /\ to[m + Skip(susp)] = at[m + Skip(susp)]
    BY <1>3, <1>13
  <2>2. CASE m = l + 1
    <3>1. m + Skip(susp) = n + 1
      BY <1>3, <2>2
    <3>2. d[m] = x /\ to[m + Skip(susp)] = k + 1
      BY <1>4, <1>8, <2>1, <2>2, <3>1
    <3> QED BY <1>5, <3>2
  <2>3. CASE m \in 1 .. l
    <3>1. d[m] = c[m] /\ m + Skip(susp) \in 1 .. n
      BY <1>3, <1>4, <2>3
    <3>2. at[m + Skip(susp)] \in 1 .. k
      BY <1>15, <3>1
    <3> QED BY <1>5, <1>9, <2>1, <2>3, <3>1, <3>2
  <2> QED BY <1>3, <2>2, <2>3
<1>22. ~ d[1].native
  <2>1. CASE l = 0
    BY <1>4, <1>10, <2>1
  <2>2. CASE l > 0
    <3>1. 1 \in 1 .. l
      BY <1>3, <2>2
    <3> QED BY <1>3, <1>4, <1>9, <1>10, <2>2, <3>1
  <2> QED BY <1>3, <2>1, <2>2
<1>23. susp.on => Sleeps(more[to[2] - 1], susp)
  <2> SUFFICES ASSUME susp.on PROVE Sleeps(more[to[2] - 1], susp)
    OBVIOUS
  <2>1. 1 \in 1 .. n + 1 /\ 2 \in 1 .. n + 1
    BY <1>3
  <2>2. at[2] \in 1 .. k + 1 /\ at[1] < at[2] /\ to[2] = at[2]
    BY <1>8, <1>13, <1>14, <2>1
  <2>3. at[2] - 1 \in 1 .. k
    BY <1>6, <1>8, <2>2
  <2> QED BY <1>5, <1>9, <2>2, <2>3
<1>24. Linked(to, more, susp, d)
  <2>1. /\ Len(d) = l + 1 /\ Activations(susp, d) = n + 1 /\ Len(more) = k + 1
        /\ n + 1 + 1 = n + 2 /\ k + 1 + 1 = k + 2
    BY <1>3, <1>4, <1>5, <1>6, <1>7
  <2> QED BY <2>1, <1>13, <1>16, <1>17, <1>18, <1>19, <1>20, <1>21, <1>22, <1>23 DEF Linked
<1>25. to \in [1 .. Activations(susp, d) + 1 -> 1 .. Len(more) + 1]
  <2>1. n + 1 + 1 = n + 2 /\ k + 1 + 1 = k + 2
    BY <1>3, <1>6
  <2> QED BY <1>5, <1>7, <1>16, <2>1
<1> QED BY <1>1, <1>4, <1>24, <1>25 DEF Link, d, more

\* What is on top of the C++ stack comes back, and its frames are gone.
LEMMA LinkPop ==
  ASSUME NEW calls \in Seq(Frame), NEW susp, NEW c, Link(calls, susp, c), c # << >>,
         NEW r, Topmost(calls, r)
  PROVE  Link(SubSeq(calls, 1, r - 1), susp, Front(c))
<1> DEFINE n == Activations(susp, c)
           d == Front(c)
           l == Len(c)
           more == SubSeq(calls, 1, r - 1)
           k == r - 1
<1>1. susp \in Suspension /\ c \in Seq(Activation)
  BY DEF Link
<1>2. PICK at \in [1 .. n + 1 -> 1 .. Len(calls) + 1] : Linked(at, calls, susp, c)
  BY DEF Link
<1>3. l \in Nat \ {0} /\ n = l + Skip(susp) /\ n \in Nat \ {0}
      /\ Skip(susp) \in {0, 1} /\ (susp.on <=> Skip(susp) = 1)
  BY <1>1, ActivationsAre
<1>4. d \in Seq(Activation) /\ Len(d) = l - 1 /\ \A m \in 1 .. l - 1 : d[m] = c[m]
  BY <1>1, FrontIs
<1>5. at[n] = r
  <2>1. Linked(at, calls, susp, c)
    BY <1>2
  <2>2. at[Activations(susp, c)] = r
    BY ONLY <1>1, <2>1, TopIs, Topmost(calls, r), calls \in Seq(Frame), Zenon
  <2> QED BY <2>2
<1>6. k \in 0 .. Len(calls) /\ k + 1 = r /\ k \in Nat
  BY DEF Topmost
<1>7. more \in Seq(Frame) /\ Len(more) = k /\ \A i \in 1 .. k : more[i] = calls[i]
  <2> HIDE DEF k
  <2>1. more = SubSeq(calls, 1, k)
    BY DEF k
  <2> HIDE DEF more
  <2> QED BY <1>6, <2>1, PrefixIs
<1>8. Activations(susp, d) = n - 1
  BY <1>3, <1>4 DEF Activations
<1>9. /\ at \in [1 .. n + 1 -> 1 .. Len(calls) + 1]
      /\ at[1] = 1
      /\ \A m, j \in 1 .. n + 1 : m < j => at[m] < at[j]
  BY <1>2 DEF Linked
<1>10. /\ \A i \in 1 .. Len(calls) : Marked(calls[i]) <=> \E m \in 1 .. n : at[m] = i
       /\ \A m \in 1 .. n : Counter(susp, c, m) = T(calls)[at[m + 1] - 1] - T(calls)[at[m] - 1]
       /\ \A m \in 1 .. l : /\ c[m].native = calls[at[m + Skip(susp)]].native
                            /\ ~ c[m].native => c[m].by # "script"
       /\ ~ c[1].native
       /\ susp.on => Sleeps(calls[at[2] - 1], susp)
  BY <1>2 DEF Linked
<1> HIDE DEF n, d, l, more, k
<1>11. \A i \in 0 .. k : T(more)[i] = T(calls)[i]
  <2>1. k \in Nat /\ k <= Len(calls) /\ k <= Len(more)
    BY <1>6, <1>7
  <2> QED BY <1>7, <2>1, CallsAgree
<1> DEFINE to == [m \in 1 .. n |-> at[m]]
<1>12. \A m \in 1 .. n : to[m] = at[m]
  OBVIOUS
<1>13. \A m \in 1 .. n : at[m] \in 1 .. k + 1 /\ (m < n => at[m] \in 1 .. k)
  <2> TAKE m \in 1 .. n
  <2>1. m < n => at[m] < at[n]
    BY <1>3, <1>9
  <2>2. at[m] \in 1 .. Len(calls) + 1 /\ (m < n \/ m = n)
    BY <1>3, <1>9
  <2> QED BY <1>5, <1>6, <2>1, <2>2
<1>14. to \in [1 .. n -> 1 .. k + 1]
  BY <1>13
<1> HIDE DEF to
<1>15. to[1] = 1 /\ to[n] = k + 1
  BY <1>3, <1>5, <1>6, <1>9, <1>12
<1>16. \A m, j \in 1 .. n : m < j => to[m] < to[j]
  BY <1>3, <1>9, <1>12
<1>17. \A i \in 1 .. k : Marked(more[i]) <=> \E m \in 1 .. n - 1 : to[m] = i
  <2> TAKE i \in 1 .. k
  <2>1. i \in 1 .. Len(calls) /\ more[i] = calls[i]
    BY <1>6, <1>7
  <2>2. \A m : m \in 1 .. n <=> m \in 1 .. n - 1 \/ m = n
    BY <1>3
  <2>3. at[n] # i
    BY <1>5, <1>6
  <2> QED BY <1>10, <1>12, <2>1, <2>2, <2>3
<1>18. \A m \in 1 .. n - 1 : Counter(susp, d, m) = T(more)[to[m + 1] - 1] - T(more)[to[m] - 1]
  <2> TAKE m \in 1 .. n - 1
  <2>1. m \in 1 .. n /\ m + 1 \in 1 .. n
    BY <1>3
  <2>2. Counter(susp, d, m) = Counter(susp, c, m)
    BY <1>3, <1>4 DEF Counter
  <2>3. to[m + 1] = at[m + 1] /\ to[m] = at[m]
    BY <1>12, <2>1
  <2>4. at[m + 1] - 1 \in 0 .. k /\ at[m] - 1 \in 0 .. k
    BY <1>6, <1>13, <2>1
  <2>5. Counter(susp, c, m) = T(calls)[at[m + 1] - 1] - T(calls)[at[m] - 1]
    BY <1>10, <2>1
  <2> QED BY <1>11, <2>2, <2>3, <2>4, <2>5
<1>19. ASSUME NEW m \in 1 .. l - 1
       PROVE  /\ d[m].native = more[to[m + Skip(susp)]].native
              /\ ~ d[m].native => d[m].by # "script"
  <2>1. m \in 1 .. l /\ m + Skip(susp) \in 1 .. n /\ m + Skip(susp) < n
    BY <1>3
  <2>2. at[m + Skip(susp)] \in 1 .. k
    BY <1>13, <2>1
  <2>3. to[m + Skip(susp)] = at[m + Skip(susp)] /\ more[at[m + Skip(susp)]] = calls[at[m + Skip(susp)]]
    BY <1>7, <1>12, <2>1, <2>2
  <2>4. c[m].native = calls[at[m + Skip(susp)]].native /\ (~ c[m].native => c[m].by # "script")
    BY <1>10, <2>1
  <2> QED BY <1>4, <2>3, <2>4
<1>20. d # << >> => ~ d[1].native
  <2>1. d # << >> => 1 \in 1 .. l - 1
    BY <1>3, <1>4
  <2> QED BY <1>4, <1>10, <2>1
<1>21. susp.on => Sleeps(more[to[2] - 1], susp)
  <2> SUFFICES ASSUME susp.on PROVE Sleeps(more[to[2] - 1], susp)
    OBVIOUS
  <2>1. 1 \in 1 .. n + 1 /\ 2 \in 1 .. n + 1 /\ 2 \in 1 .. n
    BY <1>3
  <2>2. at[2] \in 1 .. k + 1 /\ at[1] < at[2] /\ to[2] = at[2]
    BY <1>9, <1>12, <1>13, <2>1
  <2>3. at[2] - 1 \in 1 .. k
    BY <1>6, <1>9, <2>2
  <2> QED BY <1>7, <1>10, <2>2, <2>3
<1>22. Linked(to, more, susp, d)
  <2>1. Len(d) = l - 1 /\ Activations(susp, d) = n - 1 /\ Len(more) = k /\ n - 1 + 1 = n
    BY <1>3, <1>4, <1>7, <1>8
  <2> QED BY <2>1, <1>14, <1>15, <1>16, <1>17, <1>18, <1>19, <1>20, <1>21 DEF Linked
<1>23. to \in [1 .. Activations(susp, d) + 1 -> 1 .. Len(more) + 1]
  <2>1. n - 1 + 1 = n
    BY <1>3
  <2> QED BY <1>7, <1>8, <1>14, <2>1
<1> QED BY <1>1, <1>4, <1>22, <1>23 DEF Link, d, more

\* A suspended VM is woken.
LEMMA LinkWake ==
  ASSUME NEW calls \in Seq(Frame), NEW susp, Link(calls, susp, << >>), susp.on,
         ~ calls[1].native
  PROVE  /\ Link(calls, NotSuspended, << Execute(susp.traps, "wakeup") >>)
         /\ calls # << >> /\ Sleeps(Last(calls), susp)
<1> DEFINE x == Execute(susp.traps, "wakeup")
           d == << x >>
<1>1. susp \in Suspension /\ << >> \in Seq(Activation)
  BY DEF Link
<1>2. Skip(susp) = 1 /\ Activations(susp, << >>) = 1
  BY DEF Skip, Activations
<1>3. PICK at \in [1 .. 1 + 1 -> 1 .. Len(calls) + 1] : Linked(at, calls, susp, << >>)
  BY <1>2 DEF Link
<1>4. /\ at \in [1 .. 1 + 1 -> 1 .. Len(calls) + 1]
      /\ at[1] = 1 /\ at[1 + 1] = Len(calls) + 1
      /\ \A m, j \in 1 .. 1 + 1 : m < j => at[m] < at[j]
      /\ \A i \in 1 .. Len(calls) : Marked(calls[i]) <=> \E m \in 1 .. 1 : at[m] = i
      /\ \A m \in 1 .. 1 : Counter(susp, << >>, m) = T(calls)[at[m + 1] - 1] - T(calls)[at[m] - 1]
      /\ Sleeps(calls[at[2] - 1], susp)
  BY <1>2, <1>3 DEF Linked
<1>5. x \in Activation /\ x.traps = susp.traps /\ ~ x.native /\ x.by = "wakeup"
  BY <1>1 DEF Execute, Activation, Suspension
<1>6. NotSuspended \in Suspension /\ ~ NotSuspended.on
  BY DEF NotSuspended, Suspension
<1> HIDE DEF x
<1>7. d \in Seq(Activation) /\ Len(d) = 1 /\ d[1] = x /\ d # << >>
  BY <1>5
<1> HIDE DEF d
<1>8. Skip(NotSuspended) = 0 /\ Activations(NotSuspended, d) = 1
  BY <1>6, <1>7 DEF Skip, Activations
<1>9. \A m \in 1 .. 1 : Counter(NotSuspended, d, m) = Counter(susp, << >>, m)
  BY <1>2, <1>5, <1>7, <1>8 DEF Counter
<1>10. \A m \in 1 .. 1 : /\ d[m].native = calls[at[m + Skip(NotSuspended)]].native
                         /\ ~ d[m].native => d[m].by # "script"
  <2>1. \A m \in 1 .. 1 : m = 1 /\ m + Skip(NotSuspended) = 1
    BY <1>8
  <2>2. calls[1] \in Frame
    <3>1. at[1] < at[2] /\ at[2] = Len(calls) + 1 /\ Len(calls) \in Nat
      BY <1>4
    <3>2. 1 \in 1 .. Len(calls)
      BY <1>4, <3>1
    <3> QED BY <3>2
  <2>3. x.native = calls[1].native
    BY <1>5, <2>2 DEF Frame, Activation
  <2> QED BY <1>4, <1>5, <1>7, <2>1, <2>3
<1>11. Linked(at, calls, NotSuspended, d)
  BY <1>4, <1>5, <1>6, <1>7, <1>8, <1>9, <1>10 DEF Linked
<1>12. Link(calls, NotSuspended, d)
  BY <1>3, <1>6, <1>7, <1>8, <1>11 DEF Link
<1>13. Len(calls) > 0 /\ at[2] - 1 = Len(calls) /\ Len(calls) \in Nat
  <2>1. at[1] < at[2] /\ at[2] = Len(calls) + 1 /\ Len(calls) \in Nat
    BY <1>4
  <2> QED BY <1>4, <2>1
<1>14. calls # << >> /\ Last(calls) = calls[Len(calls)]
  BY <1>13 DEF Last
<1> QED BY <1>4, <1>12, <1>13, <1>14 DEF d, x

\* A native function suspends the VM.
LEMMA LinkSuspend ==
  ASSUME NEW calls \in Seq(Frame), NEW susp, NEW c, Link(calls, susp, c), ~ susp.on,
         Len(c) = 2, Topmost(calls, Len(calls)), Len(calls) - 1 \in Nat \ {0},
         ~ calls[Len(calls) - 1].native
  PROVE  Link(SubSeq(calls, 1, Len(calls) - 1),
              [on |-> TRUE, traps |-> c[1].traps, root |-> calls[Len(calls) - 1].root,
               vargs |-> calls[Len(calls) - 1].vargs], << >>)
<1> DEFINE k == Len(calls) - 1
           more == SubSeq(calls, 1, k)
           f == calls[k]
           s == [on |-> TRUE, traps |-> c[1].traps, root |-> f.root, vargs |-> f.vargs]
<1> HIDE DEF k, more, f, s
<1>1. susp \in Suspension /\ c \in Seq(Activation)
  BY DEF Link
<1>5. k \in Nat \ {0} /\ k + 1 = Len(calls) /\ k \in 0 .. Len(calls) /\ k \in 1 .. Len(calls)
  <2>1. Len(calls) \in Nat
    OBVIOUS
  <2>2. k \in Nat \ {0} /\ k = Len(calls) - 1
    BY DEF k
  <2>3. k + 1 = Len(calls)
    BY <2>1, <2>2
  <2> QED BY <2>1, <2>2, <2>3
<1>7. f \in Frame /\ c[1] \in Activation
  <2>1. 1 \in 1 .. Len(c)
    OBVIOUS
  <2>2. c[1] \in Activation
    BY <1>1, <2>1
  <2> QED BY <1>5, <2>2 DEF f
<1>2. Skip(susp) = 0 /\ Activations(susp, c) = 2
  BY DEF Skip, Activations
<1>3. PICK at \in [1 .. 2 + 1 -> 1 .. Len(calls) + 1] : Linked(at, calls, susp, c)
  BY <1>2 DEF Link
<1>4. at[2] = Len(calls)
  <2>1. at[Activations(susp, c)] = Len(calls)
    BY ONLY <1>1, <1>3, TopIs, Topmost(calls, Len(calls)), calls \in Seq(Frame), Zenon
  <2> QED BY <1>2, <2>1
<1>6. more \in Seq(Frame) /\ Len(more) = k /\ \A i \in 1 .. k : more[i] = calls[i]
  BY <1>5, PrefixIs DEF more
<1>8. /\ at \in [1 .. 2 + 1 -> 1 .. Len(calls) + 1]
      /\ at[1] = 1 /\ at[2] = k + 1
      /\ \A i \in 1 .. Len(calls) : Marked(calls[i]) <=> \E m \in 1 .. 2 : at[m] = i
      /\ Counter(susp, c, 1) = T(calls)[at[1 + 1] - 1] - T(calls)[at[1] - 1]
  <2>1. /\ at \in [1 .. 2 + 1 -> 1 .. Len(calls) + 1]
        /\ at[1] = 1
        /\ \A i \in 1 .. Len(calls) : Marked(calls[i]) <=> \E m \in 1 .. 2 : at[m] = i
        /\ \A m \in 1 .. 2 : Counter(susp, c, m) = T(calls)[at[m + 1] - 1] - T(calls)[at[m] - 1]
    BY <1>2, <1>3 DEF Linked
  <2>2. 1 \in 1 .. 2
    OBVIOUS
  <2> QED BY <1>4, <1>5, <2>1, <2>2
<1>9. s \in Suspension /\ s.on /\ s.traps = c[1].traps /\ s.root = f.root /\ s.vargs = f.vargs
  BY <1>7 DEF Suspension, Frame, Activation, s
<1>10. ~ f.native
  BY DEF k, f
<1>11. Skip(s) = 1 /\ Activations(s, << >>) = 1
  BY <1>9 DEF Skip, Activations
<1>12. T(more)[k] = T(calls)[k] /\ T(more)[0] = T(calls)[0]
  <2>1. k \in Nat /\ k <= Len(calls) /\ k <= Len(more)
    BY <1>5, <1>6
  <2>2. \A i \in 0 .. k : T(more)[i] = T(calls)[i]
    BY SMTT(30), <1>6, <2>1, CallsAgree
  <2>3. k \in 0 .. k /\ 0 \in 0 .. k
    BY <1>5
  <2> QED BY <2>2, <2>3
<1>13. Counter(s, << >>, 1) = T(more)[k] - T(more)[0]
  <2>1. Counter(s, << >>, 1) = Counter(susp, c, 1)
    BY <1>2, <1>9, <1>11 DEF Counter
  <2>2. at[1 + 1] - 1 = k /\ at[1] - 1 = 0
    BY <1>5, <1>8
  <2> QED BY <1>8, <1>12, <2>1, <2>2
<1> DEFINE to == [m \in 1 .. 2 |-> IF m = 1 THEN 1 ELSE k + 1]
<1>14. to \in [1 .. 1 + 1 -> 1 .. k + 1] /\ to[1] = 1 /\ to[1 + 1] = k + 1 /\ to[2] = k + 1
  BY <1>5
<1> HIDE DEF to
<1>15. \A m, j \in 1 .. 1 + 1 : m < j => to[m] < to[j]
  <2>1. \A m \in 1 .. 1 + 1 : m = 1 \/ m = 2
    OBVIOUS
  <2> QED BY <1>5, <1>14, <2>1
<1>16. \A i \in 1 .. k : Marked(more[i]) <=> \E m \in 1 .. 1 : to[m] = i
  <2> TAKE i \in 1 .. k
  <2>1. i \in 1 .. Len(calls) /\ more[i] = calls[i] /\ i # k + 1
    BY <1>5, <1>6
  <2>2. (\E m \in 1 .. 1 : to[m] = i) <=> i = 1
    BY <1>14
  <2>3. (\E m \in 1 .. 2 : at[m] = i) <=> at[1] = i \/ at[2] = i
    OBVIOUS
  <2> QED BY <1>8, <2>1, <2>2, <2>3
<1>17. Sleeps(more[to[2] - 1], s)
  <2>1. more[to[2] - 1] = f
    BY <1>5, <1>6, <1>14 DEF f
  <2> QED BY <1>9, <1>10, <2>1 DEF Sleeps
<1>18. \A m \in 1 .. 1 : Counter(s, << >>, m) = T(more)[to[m + 1] - 1] - T(more)[to[m] - 1]
  <2>1. to[1 + 1] - 1 = k /\ to[1] - 1 = 0
    BY <1>5, <1>14
  <2>2. \A m \in 1 .. 1 : m = 1
    OBVIOUS
  <2> QED BY <1>13, <2>1, <2>2
<1>19. Linked(to, more, s, << >>)
  <2>1. Len(<< >>) = 0 /\ 1 .. Len(<< >>) = {}
    OBVIOUS
  <2> QED BY <1>6, <1>11, <1>14, <1>15, <1>16, <1>17, <1>18, <2>1 DEF Linked
<1>20. Link(more, s, << >>)
  <2>1. << >> \in Seq(Activation)
    OBVIOUS
  <2>2. to \in [1 .. Activations(s, << >>) + 1 -> 1 .. Len(more) + 1]
    BY <1>6, <1>11, <1>14
  <2> QED BY <1>9, <1>19, <2>1, <2>2 DEF Link
<1> QED BY <1>20 DEF k, more, f, s

-----------------------------------------------------------------------------
\* What calls and returns leave in the VM's record.
NewFrame(v, at, extra, native) ==
    [NoFrame EXCEPT !.native = native, !.vargs = extra, !.home = at,
                    !.pbase = at - v.base, !.ptop = v.top - v.base]

LEMMA VMFields ==
  ASSUME NEW v \in VMRec
  PROVE  /\ v.calls \in Seq(Frame) /\ v.etraps \in Seq(Trap) /\ v.nvargs \in Nat
         /\ v.base \in Nat /\ v.top \in Nat /\ v.susp \in Suspension
         /\ v.gens \in [Gen -> GenRec] /\ v.undefined = FALSE
BY DEF VMRec

LEMMA NoFrameIs == NoFrame \in Frame
BY DEF NoFrame, Frame

LEMMA ScriptFrameIs ==
  ASSUME NEW v \in VMRec, NEW at \in Nat, v.base <= at, v.base <= v.top, NEW extra \in Nat
  PROVE  LET f == NewFrame(v, at, extra, FALSE)
         IN  /\ f \in Frame /\ ~ f.native /\ f.gen = NoGen /\ f.etraps = 0
             /\ f.vargs = extra /\ ~ f.root /\ f.home = at /\ f.home = v.base + f.pbase
             /\ f.ptop = v.top - v.base
<1> DEFINE b == at - v.base
           t == v.top - v.base
           f == NewFrame(v, at, extra, FALSE)
<1>1. v.base \in Nat /\ v.top \in Nat
  BY VMFields
<1>2. b \in Nat /\ t \in Nat /\ at = v.base + b
  BY <1>1
<1>3. f = [NoFrame EXCEPT !.native = FALSE, !.vargs = extra, !.home = at,
                          !.pbase = b, !.ptop = t]
  BY DEF NewFrame
<1> HIDE DEF b, f
<1> HIDE DEF t
<1>4. f \in Frame
  BY <1>2, <1>3, NoFrameIs DEF Frame
<1>5. /\ ~ f.native /\ f.gen = NoGen /\ f.etraps = 0
      /\ f.vargs = extra /\ f.root = FALSE /\ f.home = at /\ f.pbase = b /\ f.ptop = t
  BY <1>3 DEF NoFrame
<1> QED BY <1>2, <1>4, <1>5 DEF t, f

LEMMA NativeFrameIs ==
  ASSUME NEW v \in VMRec, NEW at \in Nat, v.base <= at, v.base <= v.top
  PROVE  LET f == NewFrame(v, at, 0, TRUE)
         IN  /\ f \in Frame /\ f.native /\ f.gen = NoGen /\ f.etraps = 0
             /\ f.vargs = 0 /\ ~ f.root /\ f.home = at /\ f.home = v.base + f.pbase
             /\ f.ptop = v.top - v.base
<1> DEFINE b == at - v.base
           t == v.top - v.base
           f == NewFrame(v, at, 0, TRUE)
<1>1. v.base \in Nat /\ v.top \in Nat
  BY VMFields
<1>2. b \in Nat /\ t \in Nat /\ at = v.base + b
  BY <1>1
<1>3. f = [NoFrame EXCEPT !.native = TRUE, !.vargs = 0, !.home = at,
                          !.pbase = b, !.ptop = t]
  BY DEF NewFrame
<1> HIDE DEF b, f
<1> HIDE DEF t
<1>4. f \in Frame
  BY <1>2, <1>3, NoFrameIs DEF Frame
<1>5. /\ f.native /\ f.gen = NoGen /\ f.etraps = 0
      /\ f.vargs = 0 /\ f.root = FALSE /\ f.home = at /\ f.pbase = b /\ f.ptop = t
  BY <1>3 DEF NoFrame
<1> QED BY <1>2, <1>4, <1>5 DEF t, f

LEMMA PushFrameIs ==
  ASSUME NEW v, NEW at, NEW extra, NEW native
  PROVE  PushFrame(v, at, extra, native)
            = [v EXCEPT !.calls = Append(@, NewFrame(v, at, extra, native)), !.base = at]
BY DEF PushFrame, NewFrame

LEMMA StartCallIs ==
  ASSUME NEW v \in VMRec, NEW at \in Nat, v.base <= at, v.base <= v.top, NEW extra \in Nat
  PROVE  LET w == StartCall(v, at, extra)
         IN  /\ w \in VMRec
             /\ w.calls = Append(v.calls, NewFrame(v, at, extra, FALSE))
             /\ w.etraps = v.etraps /\ w.nvargs = v.nvargs + extra
             /\ w.base = at /\ w.top = at + FrameSize
             /\ w.susp = v.susp /\ w.gens = v.gens
<1> DEFINE f == NewFrame(v, at, extra, FALSE)
<1>1. f \in Frame
  BY ScriptFrameIs
<1>2. PushFrame(v, at, extra, FALSE) = [v EXCEPT !.calls = Append(@, f), !.base = at]
  BY PushFrameIs
<1> HIDE DEF f
<1>3. Append(v.calls, f) \in Seq(Frame)
  BY <1>1, VMFields, AppendIs
<1>4. at + FrameSize \in Nat /\ v.nvargs + extra \in Nat
  <2>1. v.nvargs \in Nat
    BY VMFields
  <2> QED BY <2>1 DEF FrameSize
<1>5. StartCall(v, at, extra) = [v EXCEPT !.calls = Append(v.calls, f), !.base = at,
                                   !.nvargs = v.nvargs + extra, !.top = at + FrameSize]
  BY <1>2 DEF StartCall, VMRec
<1> QED BY <1>3, <1>4, <1>5 DEF VMRec, f

LEMMA StartNativeIs ==
  ASSUME NEW v \in VMRec, NEW at \in Nat, v.base <= at, v.base <= v.top
  PROVE  LET w == StartNative(v, at)
         IN  /\ w \in VMRec
             /\ w.calls = Append(v.calls, NewFrame(v, at, 0, TRUE))
             /\ w.etraps = v.etraps /\ w.nvargs = v.nvargs
             /\ w.base = at /\ w.top = at + 1
             /\ w.susp = v.susp /\ w.gens = v.gens
<1> DEFINE f == NewFrame(v, at, 0, TRUE)
<1>1. f \in Frame
  BY NativeFrameIs
<1>2. PushFrame(v, at, 0, TRUE) = [v EXCEPT !.calls = Append(@, f), !.base = at]
  BY PushFrameIs
<1> HIDE DEF f
<1>3. Append(v.calls, f) \in Seq(Frame)
  BY <1>1, VMFields, AppendIs
<1>4. StartNative(v, at) = [v EXCEPT !.calls = Append(v.calls, f), !.base = at, !.top = at + 1]
  BY <1>2 DEF StartNative, VMRec
<1> DEFINE t == at + 1
<1>5. t \in Nat
  OBVIOUS
<1> HIDE DEF t
<1>6. StartNative(v, at) = [v EXCEPT !.calls = Append(v.calls, f), !.base = at, !.top = t]
  BY <1>4 DEF t
<1> DEFINE w == StartNative(v, at)
<1> HIDE DEF w
<1>7. /\ w \in VMRec /\ w.calls = Append(v.calls, f) /\ w.etraps = v.etraps /\ w.nvargs = v.nvargs
      /\ w.base = at /\ w.top = t /\ w.susp = v.susp /\ w.gens = v.gens
  BY <1>3, <1>5, <1>6 DEF VMRec, w
<1> QED BY <1>7 DEF w, t, f

LEMMA PushedIs ==
  ASSUME NEW v \in VMRec
  PROVE  LET w == [v EXCEPT !.top = @ + 1]
         IN  /\ w \in VMRec /\ w.calls = v.calls /\ w.etraps = v.etraps /\ w.nvargs = v.nvargs
             /\ w.base = v.base /\ w.top = v.top + 1 /\ w.susp = v.susp /\ w.gens = v.gens
<1> DEFINE t == v.top + 1
<1>1. t \in Nat
  <2>1. v.top \in Nat
    BY VMFields
  <2> QED BY <2>1
<1> HIDE DEF t
<1>2. [v EXCEPT !.top = @ + 1] = [v EXCEPT !.top = t]
  BY DEF t
<1> DEFINE w == [v EXCEPT !.top = t]
<1>3. /\ w \in VMRec /\ w.calls = v.calls /\ w.etraps = v.etraps /\ w.nvargs = v.nvargs
      /\ w.base = v.base /\ w.top = t /\ w.susp = v.susp /\ w.gens = v.gens
  BY <1>1 DEF VMRec
<1> QED BY <1>2, <1>3 DEF t

LEMMA SetCiIs ==
  ASSUME NEW v \in VMRec, v.calls # << >>, NEW f \in Frame
  PROVE  LET w == SetCi(v, f)
         IN  /\ w \in VMRec /\ w.calls = Append(Front(v.calls), f)
             /\ w.etraps = v.etraps /\ w.nvargs = v.nvargs
             /\ w.base = v.base /\ w.top = v.top /\ w.susp = v.susp /\ w.gens = v.gens
<1>1. Front(v.calls) \in Seq(Frame)
  BY VMFields, FrontIs
<1>2. Append(Front(v.calls), f) \in Seq(Frame)
  BY <1>1, AppendIs
<1> QED BY <1>2 DEF SetCi, VMRec

LEMMA RootCiIs ==
  ASSUME NEW v \in VMRec, NEW calls \in Seq(Frame), NEW f \in Frame, v.calls = Append(calls, f)
  PROVE  LET w == RootCi(v)
         IN  /\ w \in VMRec /\ w.calls = Append(calls, [f EXCEPT !.root = TRUE])
             /\ w.etraps = v.etraps /\ w.nvargs = v.nvargs
             /\ w.base = v.base /\ w.top = v.top /\ w.susp = v.susp /\ w.gens = v.gens
<1>1. v.calls # << >> /\ Ci(v) = f /\ Front(v.calls) = calls
  BY AppendIs DEF Ci
<1>2. [f EXCEPT !.root = TRUE] \in Frame
  BY DEF Frame
<1> QED BY <1>1, <1>2, SetCiIs DEF RootCi

\* The topmost frame is popped, whatever the traps are.
LEMMA PopFrameIs ==
  ASSUME NEW v \in VMRec, v.calls # << >>,
         v.nvargs = V(v.calls)[Len(v.calls)], v.base = P(v.calls)[Len(v.calls)]
  PROVE  LET w == PopFrame(v)
             n == Len(v.calls) - 1
         IN  /\ n \in 0 .. Len(v.calls) /\ w \in VMRec
             /\ w.calls = SubSeq(v.calls, 1, n)
             /\ w.etraps = v.etraps /\ w.nvargs = V(v.calls)[n]
             /\ w.base = P(v.calls)[n] /\ w.top = P(v.calls)[n] + Ci(v).ptop
             /\ w.susp = v.susp /\ w.gens = v.gens
<1> DEFINE n == Len(v.calls) - 1
           f == Ci(v)
<1>1. /\ Front(v.calls) = SubSeq(v.calls, 1, n) /\ Front(v.calls) \in Seq(Frame)
      /\ Len(v.calls) \in Nat \ {0} /\ f = v.calls[Len(v.calls)] /\ f \in Frame
  BY VMFields, FrontIs DEF Ci
<1>2. /\ V(v.calls)[Len(v.calls)] = V(v.calls)[n] + f.vargs /\ V(v.calls)[n] \in Nat
      /\ P(v.calls)[Len(v.calls)] = P(v.calls)[n] + f.pbase /\ P(v.calls)[n] \in Nat
  <2>1. Len(v.calls) \in 1 .. Len(v.calls) /\ n \in 0 .. Len(v.calls)
    BY <1>1
  <2>2. /\ V(v.calls) \in [0 .. Len(v.calls) -> Nat] /\ P(v.calls) \in [0 .. Len(v.calls) -> Nat]
        /\ \A i \in 1 .. Len(v.calls) : /\ V(v.calls)[i] = V(v.calls)[i - 1] + v.calls[i].vargs
                                        /\ P(v.calls)[i] = P(v.calls)[i - 1] + v.calls[i].pbase
    BY VMFields, CallSums
  <2> QED BY <1>1, <2>1, <2>2
<1>3. f.vargs \in Nat /\ f.pbase \in Nat /\ f.ptop \in Nat
  BY <1>1 DEF Frame
<1>4. n \in 0 .. Len(v.calls)
  BY <1>1
<1> DEFINE w == PopFrame(v)
           a == v.nvargs - f.vargs
           b == v.base - f.pbase
<1>5. a = V(v.calls)[n] /\ b = P(v.calls)[n] /\ a \in Nat /\ b \in Nat /\ b + f.ptop \in Nat
  BY SMTT(30), <1>2, <1>3
<1>6. w = [v EXCEPT !.calls = Front(v.calls), !.nvargs = a, !.base = b, !.top = b + f.ptop]
  BY DEF PopFrame, VMRec
<1> HIDE DEF w, a, b, f, n
<1>7. /\ w \in VMRec /\ w.calls = Front(v.calls) /\ w.etraps = v.etraps /\ w.nvargs = a
      /\ w.base = b /\ w.top = b + f.ptop /\ w.susp = v.susp /\ w.gens = v.gens
  BY <1>1, <1>5, <1>6 DEF VMRec
<1> QED BY <1>1, <1>4, <1>5, <1>7 DEF w, f, n

LEMMA SuffixIs ==
  ASSUME NEW X, NEW s \in Seq(X), NEW m \in 0 .. Len(s)
  PROVE  /\ SubSeq(s, m + 1, Len(s)) \in Seq(X)
         /\ Len(SubSeq(s, m + 1, Len(s))) = Len(s) - m
         /\ \A i \in 1 .. Len(s) - m : SubSeq(s, m + 1, Len(s))[i] = s[m + i]
<1> DEFINE n == Len(s)  t == SubSeq(s, m + 1, n)  k == n - m
<1>1. n \in Nat /\ m \in Nat /\ k \in Nat
  OBVIOUS
<1>2. t = [i \in 1 .. n - (m + 1) + 1 |-> s[m + 1 + i - 1]]
  BY <1>1
<1>3. n - (m + 1) + 1 = k
  BY <1>1
<1>4. t = [i \in 1 .. k |-> s[m + 1 + i - 1]]
  BY <1>2, <1>3
<1>5. \A i \in 1 .. k : m + 1 + i - 1 = m + i /\ m + i \in 1 .. n
  BY <1>1
<1> HIDE DEF t, k, n
<1>6. \A i \in 1 .. k : t[i] = s[m + i] /\ s[m + i] \in X
  BY <1>4, <1>5 DEF n
<1>7. t \in [1 .. k -> X]
  BY <1>4, <1>5, <1>6
<1>8. t \in Seq(X) /\ Len(t) = k
  BY <1>1, <1>7
<1> QED BY <1>6, <1>8 DEF t, k, n

LEMMA ReverseIs ==
  ASSUME NEW X, NEW s \in Seq(X)
  PROVE  /\ Reverse(s) \in Seq(X) /\ Len(Reverse(s)) = Len(s)
         /\ \A i \in 1 .. Len(s) : Reverse(s)[i] = s[Len(s) - i + 1]
<1> DEFINE n == Len(s)  t == Reverse(s)
<1>1. n \in Nat /\ \A i \in 1 .. n : n - i + 1 \in 1 .. n
  OBVIOUS
<1>2. t = [i \in 1 .. n |-> s[(n - i) + 1]]
  BY DEF Reverse
<1> HIDE DEF t
<1>3. \A i \in 1 .. n : s[n - i + 1] \in X
  BY <1>1
<1>4. t \in [1 .. n -> X] /\ \A i \in 1 .. n : t[i] = s[n - i + 1]
  BY <1>2, <1>3
<1> HIDE DEF n
<1>5. t \in Seq(X) /\ Len(t) = n
  BY <1>1, <1>4
<1> QED BY <1>4, <1>5 DEF t, n

\* The frame of a generator that is resumed.
Resumed(v, g) ==
    [v.gens[g].ci EXCEPT !.gen = g, !.vargs = v.gens[g].vargs, !.pbase = v.top - v.base,
                         !.ptop = v.top - v.base, !.home = v.top]

Running(s) == [s EXCEPT !.state = "running", !.traps = << >>, !.vargs = 0]

LEMMA ResumedIs ==
  ASSUME NEW v \in VMRec, NEW g \in Gen, v.base <= v.top
  PROVE  LET f == Resumed(v, g)
             s == v.gens[g]
         IN  /\ f \in Frame /\ f.native = s.ci.native /\ f.gen = g /\ f.etraps = s.ci.etraps
             /\ f.vargs = s.vargs /\ f.root = s.ci.root /\ f.home = v.top
             /\ f.home = v.base + f.pbase /\ f.ptop = v.top - v.base
             /\ s \in GenRec /\ Running(s) \in GenRec /\ Running(s).state = "running"
<1> DEFINE s == v.gens[g]
           c == s.ci
           b == v.top - v.base
           f == Resumed(v, g)
<1>1. v.base \in Nat /\ v.top \in Nat /\ v.gens \in [Gen -> GenRec]
  BY VMFields
<1>2. b \in Nat /\ v.top = v.base + b
  BY <1>1
<1>3. s \in GenRec
  BY <1>1
<1>4. f = [c EXCEPT !.gen = g, !.vargs = s.vargs, !.pbase = b, !.ptop = b, !.home = v.top]
  BY DEF Resumed
<1> HIDE DEF b, f, s
<1>5. c \in Frame /\ s.vargs \in Nat
  BY <1>3 DEF GenRec
<1> HIDE DEF c
<1>6. f \in Frame
  BY <1>1, <1>2, <1>4, <1>5 DEF Frame
<1>7. /\ f.native = c.native /\ f.gen = g /\ f.etraps = c.etraps /\ f.vargs = s.vargs
      /\ f.root = c.root /\ f.home = v.top /\ f.pbase = b /\ f.ptop = b
  BY <1>4, <1>5 DEF Frame
<1>8. Running(s) \in GenRec /\ Running(s).state = "running"
  <2>1. "running" \in GenState /\ << >> \in Seq(Trap) /\ 0 \in Nat
    BY DEF GenState
  <2> QED BY <1>3, <2>1 DEF Running, GenRec
<1> QED BY <1>2, <1>3, <1>6, <1>7, <1>8 DEF b, c, f, s

LEMMA ResumeIs ==
  ASSUME NEW v \in VMRec, NEW g \in Gen, v.base <= v.top
  PROVE  LET w == Resume(v, g)
             s == v.gens[g]
         IN  /\ w \in VMRec /\ w.calls = Append(v.calls, Resumed(v, g))
             /\ w.etraps = v.etraps \o Reverse(s.traps) /\ w.nvargs = v.nvargs + s.vargs
             /\ w.base = v.top /\ w.top = v.top + s.size /\ w.susp = v.susp
             /\ w.gens = [v.gens EXCEPT ![g] = Running(s)]
<1> DEFINE s == v.gens[g]
           f == Resumed(v, g)
           w == Resume(v, g)
           e == v.etraps \o Reverse(s.traps)
           a == v.nvargs + s.vargs
           t == v.top + s.size
           q == [v.gens EXCEPT ![g] = Running(s)]
<1>1. f \in Frame /\ s \in GenRec /\ Running(s) \in GenRec
  BY ResumedIs
<1>2. s.vargs \in Nat /\ s.size \in Nat /\ s.traps \in Seq(Trap)
  BY <1>1 DEF GenRec
<1>3. v.nvargs \in Nat /\ v.top \in Nat /\ v.gens \in [Gen -> GenRec] /\ v.calls \in Seq(Frame)
      /\ v.etraps \in Seq(Trap)
  BY VMFields
<1>4. w = [v EXCEPT !.calls = Append(v.calls, f), !.etraps = e, !.nvargs = a,
                    !.base = v.top, !.top = t, !.gens = q]
  BY DEF Resume, Resumed, Running, VMRec
<1>5. e \in Seq(Trap)
  <2>1. Reverse(s.traps) \in Seq(Trap)
    BY <1>2, ReverseIs
  <2> HIDE DEF s
  <2> QED BY <1>3, <2>1
<1>6. q \in [Gen -> GenRec]
  <2> HIDE DEF s
  <2> QED BY <1>1, <1>3
<1>7. a \in Nat /\ t \in Nat
  <2> HIDE DEF s
  <2> QED BY <1>2, <1>3
<1> HIDE DEF s, f, w, e, a, t, q
<1>8. Append(v.calls, f) \in Seq(Frame)
  BY <1>1, <1>3, AppendIs
<1>9. /\ w \in VMRec /\ w.calls = Append(v.calls, f) /\ w.etraps = e /\ w.nvargs = a
      /\ w.base = v.top /\ w.top = t /\ w.susp = v.susp /\ w.gens = q
  BY <1>3, <1>4, <1>5, <1>6, <1>7, <1>8 DEF VMRec
<1> QED BY <1>9 DEF s, f, w, e, a, t, q

\* What a frame's traps are like in a generator, from the top down.
LEMMA SavedIs ==
  ASSUME NEW v \in VMRec, v.calls # << >>, ~ Ci(v).native,
         Ci(v).etraps <= Len(v.etraps), v.base + FrameSize <= v.top,
         \A j \in 1 .. Ci(v).etraps :
            LET e == v.etraps[Len(v.etraps) - Ci(v).etraps + j]
            IN  e.nth = j /\ e.top >= e.base + FrameSize
  PROVE  Saved(v) \in GenRec /\ Saved(v).state = "suspended" /\ Resumable(Saved(v))
<1> DEFINE f == Ci(v)
           s == v.etraps
           m == Len(s) - f.etraps
           u == LastOf(s, f.etraps)
           t == Reverse(u)
           c == [NoFrame EXCEPT !.etraps = f.etraps, !.root = f.root]
           z == v.top - v.base
<1>1. f \in Frame
  BY VMFields, FrontIs DEF Ci
<1>2. f.etraps \in Nat /\ f.vargs \in Nat /\ f.root \in BOOLEAN
  BY <1>1 DEF Frame
<1>3. s \in Seq(Trap) /\ v.base \in Nat /\ v.top \in Nat
  BY VMFields
<1>4. m \in 0 .. Len(s) /\ Len(s) - f.etraps + 1 = m + 1 /\ Len(s) - m = f.etraps
  <2>1. Len(s) \in Nat
    BY <1>3
  <2>2. f.etraps <= Len(s)
    OBVIOUS
  <2> HIDE DEF f, s
  <2> QED BY <1>2, <2>1, <2>2
<1>5. u = SubSeq(s, m + 1, Len(s))
  BY <1>4 DEF LastOf
<1>6. z \in Nat /\ z >= FrameSize
  BY <1>3 DEF FrameSize
<1>7. \A j \in 1 .. f.etraps : s[m + j].nth = j /\ s[m + j].top >= s[m + j].base + FrameSize
  OBVIOUS
<1>8. Saved(v) = [state |-> "suspended", size |-> z, vargs |-> f.vargs, ci |-> c, traps |-> t]
  BY DEF Saved
<1> HIDE DEF f, s, m, u, z
<1>9. u \in Seq(Trap) /\ Len(u) = f.etraps /\ \A i \in 1 .. f.etraps : u[i] = s[m + i]
  BY <1>3, <1>4, <1>5, SuffixIs
<1>10. t \in Seq(Trap) /\ Len(t) = f.etraps
       /\ \A i \in 1 .. f.etraps : t[i] = u[f.etraps - i + 1]
  BY <1>9, ReverseIs
<1> HIDE DEF t
<1>11. c \in Frame /\ c.etraps = f.etraps /\ c.native = FALSE
  BY <1>2, NoFrameIs DEF Frame, NoFrame
<1> HIDE DEF c
<1> DEFINE r == [state |-> "suspended", size |-> z, vargs |-> f.vargs, ci |-> c, traps |-> t]
<1>12. r \in GenRec
  BY <1>2, <1>6, <1>10, <1>11 DEF GenRec, GenState
<1>13. \A k \in 1 .. Len(t) : t[k].nth = Len(t) - k + 1 /\ t[k].top >= t[k].base + FrameSize
  <2> TAKE k \in 1 .. Len(t)
  <2> DEFINE j == f.etraps - k + 1
  <2>1. j \in 1 .. f.etraps /\ k \in 1 .. f.etraps
    BY <1>2, <1>10
  <2>2. t[k] = s[m + j]
    BY <1>9, <1>10, <2>1
  <2> QED BY <1>7, <1>10, <2>1, <2>2
<1>14. Resumable(r)
  BY <1>6, <1>10, <1>11, <1>13 DEF Resumable
<1> QED BY <1>8, <1>12, <1>14

LEMMA YieldIs ==
  ASSUME NEW v \in VMRec, NEW g \in Gen, Saved(v) \in GenRec, v.calls # << >>,
         Ci(v).etraps <= Len(v.etraps)
  PROVE  LET w == Yield(v, g)
         IN  /\ w \in VMRec /\ w.calls = v.calls
             /\ w.etraps = SubSeq(v.etraps, 1, Len(v.etraps) - Ci(v).etraps)
             /\ w.nvargs = v.nvargs /\ w.base = v.base /\ w.top = v.top /\ w.susp = v.susp
             /\ w.gens = [v.gens EXCEPT ![g] = Saved(v)]
<1> DEFINE m == Len(v.etraps) - Ci(v).etraps
           e == SubSeq(v.etraps, 1, m)
           q == [v.gens EXCEPT ![g] = Saved(v)]
           w == Yield(v, g)
<1>1. v.etraps \in Seq(Trap) /\ v.gens \in [Gen -> GenRec]
  BY VMFields
<1>2. Ci(v) \in Frame
  BY VMFields, FrontIs DEF Ci
<1>3. m \in 0 .. Len(v.etraps)
  <2>1. Len(v.etraps) \in Nat
    BY <1>1
  <2>2. Ci(v).etraps \in Nat
    BY <1>2 DEF Frame
  <2> QED BY <2>1, <2>2
<1>4. q \in [Gen -> GenRec]
  BY <1>1
<1>5. w = [v EXCEPT !.gens = q, !.etraps = e]
  BY DEF Yield, VMRec
<1> HIDE DEF m
<1>6. e \in Seq(Trap)
  BY <1>1, <1>3, PrefixIs
<1> HIDE DEF e, q, w
<1>7. /\ w \in VMRec /\ w.calls = v.calls /\ w.etraps = e /\ w.nvargs = v.nvargs
      /\ w.base = v.base /\ w.top = v.top /\ w.susp = v.susp /\ w.gens = q
  BY <1>4, <1>5, <1>6 DEF VMRec
<1> QED BY <1>7 DEF e, q, w, m

\* The generators of the frames that are popped are killed.
LEMMA KillIs ==
  ASSUME NEW v \in VMRec, NEW S
  PROVE  LET w == Kill(v, S)
         IN  /\ w \in VMRec /\ w.calls = v.calls /\ w.etraps = v.etraps /\ w.nvargs = v.nvargs
             /\ w.base = v.base /\ w.top = v.top /\ w.susp = v.susp
             /\ w.gens \in [Gen -> GenRec]
             /\ \A g \in Gen : IF \E f \in S : f.gen = g
                               THEN w.gens[g].state = "dead"
                               ELSE w.gens[g] = v.gens[g]
<1> DEFINE d == [NewGen EXCEPT !.state = "dead"]
           q == [g \in Gen |-> IF \E f \in S : f.gen = g THEN d ELSE v.gens[g]]
           w == Kill(v, S)
<1>1. d \in GenRec /\ d.state = "dead"
  <2>1. "dead" \in GenState /\ "none" \in GenState /\ << >> \in Seq(Trap) /\ 0 \in Nat
    BY DEF GenState
  <2> QED BY <2>1, NoFrameIs DEF NewGen, GenRec
<1>2. v.gens \in [Gen -> GenRec]
  BY VMFields
<1>3. w = [v EXCEPT !.gens = q]
  BY DEF Kill, VMRec
<1> HIDE DEF d, w
<1>4. q \in [Gen -> GenRec]
      /\ \A g \in Gen : IF \E f \in S : f.gen = g THEN q[g] = d ELSE q[g] = v.gens[g]
  BY <1>1, <1>2
<1> HIDE DEF q
<1>5. /\ w \in VMRec /\ w.calls = v.calls /\ w.etraps = v.etraps /\ w.nvargs = v.nvargs
      /\ w.base = v.base /\ w.top = v.top /\ w.susp = v.susp /\ w.gens = q
  BY <1>3, <1>4 DEF VMRec
<1> QED BY <1>1, <1>4, <1>5 DEF w

LEMMA UnwindIs ==
  ASSUME NEW v \in VMRec, NEW n \in 0 .. Len(v.calls), v.nvargs = V(v.calls)[Len(v.calls)]
  PROVE  LET w == Unwind(v, n)
         IN  /\ w \in VMRec /\ w.calls = SubSeq(v.calls, 1, n) /\ w.etraps = v.etraps
             /\ w.nvargs = V(v.calls)[n]
             /\ w.base = v.base /\ w.top = v.top /\ w.susp = v.susp
             /\ w.gens \in [Gen -> GenRec]
             /\ \A g \in Gen : IF \E i \in n + 1 .. Len(v.calls) : v.calls[i].gen = g
                               THEN w.gens[g].state = "dead"
                               ELSE w.gens[g] = v.gens[g]
<1> DEFINE S == Above(v, n)
           k == Kill(v, S)
           w == Unwind(v, n)
<1>1. /\ k \in VMRec /\ k.calls = v.calls /\ k.etraps = v.etraps /\ k.nvargs = v.nvargs
      /\ k.base = v.base /\ k.top = v.top /\ k.susp = v.susp
      /\ k.gens \in [Gen -> GenRec]
      /\ \A g \in Gen : IF \E f \in S : f.gen = g
                        THEN k.gens[g].state = "dead"
                        ELSE k.gens[g] = v.gens[g]
  <2> HIDE DEF S
  <2> QED BY KillIs
<1>2. \A g : (\E f \in S : f.gen = g) <=> \E i \in n + 1 .. Len(v.calls) : v.calls[i].gen = g
  BY DEF Above
<1>3. v.calls \in Seq(Frame)
  BY VMFields
<1>4. SumAbove(VargsOf(v.calls), n) = V(v.calls)[Len(v.calls)] - V(v.calls)[n]
  <2>1. Len(VargsOf(v.calls)) = Len(v.calls)
    BY <1>3, Fields
  <2> QED BY <2>1 DEF SumAbove, V
<1>5. V(v.calls)[n] \in Nat /\ V(v.calls)[Len(v.calls)] \in Nat
  <2>1. V(v.calls) \in [0 .. Len(v.calls) -> Nat] /\ Len(v.calls) \in 0 .. Len(v.calls)
    BY <1>3, CallSums
  <2> QED BY <2>1
<1> DEFINE a == k.nvargs - SumAbove(VargsOf(v.calls), n)
           c == SubSeq(k.calls, 1, n)
<1>6. a = V(v.calls)[n]
  BY <1>1, <1>4, <1>5
<1>7. c \in Seq(Frame) /\ c = SubSeq(v.calls, 1, n)
  BY <1>1, <1>3, PrefixIs
<1>8. w = [k EXCEPT !.calls = c, !.nvargs = a]
  BY <1>1 DEF Unwind, VMRec
<1> HIDE DEF S, k, w, a, c
<1>9. /\ w \in VMRec /\ w.calls = c /\ w.etraps = k.etraps /\ w.nvargs = a
      /\ w.base = k.base /\ w.top = k.top /\ w.susp = k.susp /\ w.gens = k.gens
  BY <1>1, <1>5, <1>6, <1>7, <1>8 DEF VMRec
<1> QED BY <1>1, <1>2, <1>6, <1>7, <1>9 DEF w

-----------------------------------------------------------------------------
\* What the invariant says of the frame that runs.
LEMMA GoodIs ==
  ASSUME NEW v, NEW c, Good(v, c)
  PROVE  /\ v \in VMRec /\ v.calls \in Seq(Frame) /\ v.etraps \in Seq(Trap)
         /\ v.susp \in Suspension /\ v.gens \in [Gen -> GenRec]
         /\ v.nvargs \in Nat /\ v.base \in Nat /\ v.top \in Nat
         /\ c \in Seq(Activation)
         /\ Body(v.calls, v.etraps, v.nvargs) /\ Gens(v.calls, v.gens)
         /\ Link(v.calls, v.susp, c)
         /\ v.base = P(v.calls)[Len(v.calls)] /\ v.nvargs = V(v.calls)[Len(v.calls)]
         /\ Len(v.etraps) = T(v.calls)[Len(v.calls)]
         /\ v.top >= v.base + (IF v.calls = << >> THEN 0 ELSE SizeOf(Last(v.calls)))
         /\ v.top >= v.base
<1>1. v.top >= v.base + (IF v.calls = << >> THEN 0 ELSE SizeOf(Last(v.calls)))
  BY DEF Good, At
<1>2. v.base \in Nat /\ v.top \in Nat
  BY VMFields DEF Good
<1>3. SizeOf(Last(v.calls)) \in Nat
  BY DEF SizeOf, FrameSize
<1>4. v.top >= v.base
  <2> DEFINE z == IF v.calls = << >> THEN 0 ELSE SizeOf(Last(v.calls))
  <2>1. z \in Nat /\ v.top >= v.base + z
    BY <1>1, <1>3
  <2> HIDE DEF z
  <2> QED BY <1>2, <2>1
<1> QED BY <1>1, <1>4, VMFields DEF Good, At, Body, Link

LEMMA CalledIs ==
  ASSUME NEW v, NEW c, Good(v, c), NEW i \in 1 .. Len(v.calls)
  PROVE  /\ v.calls[i] \in Frame /\ Called(v.calls, i) /\ TrapsOf(v.calls, v.etraps, i)
         /\ T(v.calls)[i] = T(v.calls)[i - 1] + v.calls[i].etraps
         /\ P(v.calls)[i] = P(v.calls)[i - 1] + v.calls[i].pbase
         /\ V(v.calls)[i] = V(v.calls)[i - 1] + v.calls[i].vargs
         /\ {T(v.calls)[i], T(v.calls)[i - 1], P(v.calls)[i], P(v.calls)[i - 1],
             V(v.calls)[i], V(v.calls)[i - 1]} \subseteq Nat
<1>1. v.calls \in Seq(Frame) /\ Body(v.calls, v.etraps, v.nvargs)
  BY GoodIs
<1>2. i \in 0 .. Len(v.calls) /\ i - 1 \in 0 .. Len(v.calls)
  BY <1>1
<1>3. /\ T(v.calls) \in [0 .. Len(v.calls) -> Nat]
      /\ V(v.calls) \in [0 .. Len(v.calls) -> Nat]
      /\ P(v.calls) \in [0 .. Len(v.calls) -> Nat]
      /\ T(v.calls)[i] = T(v.calls)[i - 1] + v.calls[i].etraps
      /\ P(v.calls)[i] = P(v.calls)[i - 1] + v.calls[i].pbase
      /\ V(v.calls)[i] = V(v.calls)[i - 1] + v.calls[i].vargs
  BY <1>1, CallSums
<1>4. Called(v.calls, i) /\ TrapsOf(v.calls, v.etraps, i)
  BY <1>1 DEF Body
<1>5. /\ T(v.calls)[i] \in Nat /\ T(v.calls)[i - 1] \in Nat
      /\ P(v.calls)[i] \in Nat /\ P(v.calls)[i - 1] \in Nat
      /\ V(v.calls)[i] \in Nat /\ V(v.calls)[i - 1] \in Nat
  BY <1>2, <1>3
<1>6. v.calls[i] \in Frame
  BY <1>1
<1> QED BY <1>3, <1>4, <1>5, <1>6

\* A script runs: its frame is on top, within the frames of the last Execute.
LEMMA ScriptRuns ==
  ASSUME NEW v, NEW c, Good(v, c), c # << >>, ~ Last(c).native
  PROVE  LET n == Len(v.calls)
             f == Ci(v)
         IN  /\ n \in Nat \ {0} /\ v.calls # << >> /\ f = v.calls[n] /\ f \in Frame
             /\ Last(v.calls) = f
             /\ ~ f.native /\ v.top >= v.base + FrameSize /\ v.base = f.home
             /\ Last(c) \in Activation /\ Last(c).by # "script"
             /\ \E r : /\ Topmost(v.calls, r) /\ r \in Nat \ {0} /\ r <= n
                       /\ v.calls[r].root /\ ~ v.calls[r].native
                       /\ (f.root <=> r = n)
                       /\ Last(c).traps = T(v.calls)[n] - T(v.calls)[r - 1]
                       /\ T(v.calls)[r - 1] \in Nat /\ T(v.calls)[n - 1] >= T(v.calls)[r - 1]
<1> DEFINE n == Len(v.calls)
<1>1. v.calls \in Seq(Frame) /\ Link(v.calls, v.susp, c) /\ c \in Seq(Activation)
  BY GoodIs
<1>2. PICK r : /\ Topmost(v.calls, r)
               /\ v.calls[r].native = Last(c).native
               /\ Last(c).traps = T(v.calls)[n] - T(v.calls)[r - 1]
  BY <1>1, TopExists
<1>3. r \in 1 .. n /\ Marked(v.calls[r]) /\ \A i \in r + 1 .. n : ~ Marked(v.calls[i])
  BY <1>2 DEF Topmost
<1>4. n \in Nat \ {0} /\ r \in Nat \ {0} /\ r <= n /\ v.calls # << >>
  BY <1>1, <1>3
<1>5. Ci(v) = v.calls[n] /\ Ci(v) \in Frame /\ Last(v.calls) = Ci(v)
  BY <1>1, <1>4, FrontIs DEF Ci
<1>6. v.calls[r].root /\ ~ v.calls[r].native
  BY <1>2, <1>3 DEF Marked
<1>7. ~ Ci(v).native /\ (Ci(v).root <=> r = n)
  <2>1. CASE r = n
    BY <1>5, <1>6, <2>1
  <2>2. CASE r # n
    <3>1. n \in r + 1 .. n
      BY <1>4, <2>2
    <3> QED BY <1>3, <1>5, <2>2, <3>1 DEF Marked
  <2> QED BY <2>1, <2>2
<1>8. v.top >= v.base + FrameSize
  BY <1>4, <1>5, <1>7, GoodIs DEF SizeOf
<1>9. v.base = Ci(v).home
  <2>1. n \in 1 .. Len(v.calls)
    BY <1>4
  <2>2. Called(v.calls, n)
    BY <2>1, CalledIs
  <2> QED BY <1>5, <2>2, GoodIs DEF Called
<1>10. Last(c) \in Activation /\ Last(c).by # "script"
  <2>1. Last(c) = c[Len(c)] /\ Last(c) \in Activation /\ Len(c) \in 1 .. Len(c)
    BY <1>1, FrontIs
  <2>2. PICK at : Linked(at, v.calls, v.susp, c)
    BY <1>1 DEF Link
  <2>3. ~ c[Len(c)].native => c[Len(c)].by # "script"
    BY <2>1, <2>2 DEF Linked
  <2> QED BY <2>1, <2>3
<1>11. T(v.calls)[r - 1] \in Nat /\ T(v.calls)[n - 1] >= T(v.calls)[r - 1]
  <2>1. r - 1 \in 0 .. Len(v.calls) /\ n - 1 \in r - 1 .. Len(v.calls) /\ n - 1 \in 0 .. Len(v.calls)
    BY <1>4
  <2>2. T(v.calls)[r - 1] <= T(v.calls)[n - 1]
    BY <1>1, <2>1, TrapsGrow
  <2>3. T(v.calls)[r - 1] \in Nat /\ T(v.calls)[n - 1] \in Nat
    BY <1>1, <2>1, CallSums
  <2> QED BY <2>2, <2>3
<1> HIDE DEF n
<1>12. \E s : /\ Topmost(v.calls, s) /\ s \in Nat \ {0} /\ s <= n
              /\ v.calls[s].root /\ ~ v.calls[s].native
              /\ (Ci(v).root <=> s = n)
              /\ Last(c).traps = T(v.calls)[n] - T(v.calls)[s - 1]
              /\ T(v.calls)[s - 1] \in Nat /\ T(v.calls)[n - 1] >= T(v.calls)[s - 1]
  BY <1>2, <1>4, <1>6, <1>7, <1>11
<1> QED BY <1>4, <1>5, <1>7, <1>8, <1>9, <1>10, <1>12 DEF n

\* A native function runs: its frame is on top, and a script has called it.
LEMMA NativeRuns ==
  ASSUME NEW v, NEW c, Good(v, c), c # << >>, Last(c).native
  PROVE  LET n == Len(v.calls)
         IN  /\ n - 1 \in Nat \ {0} /\ n \in Nat \ {0} /\ v.calls # << >>
             /\ Topmost(v.calls, n) /\ Ci(v) = v.calls[n] /\ Ci(v) \in Frame
             /\ Ci(v).native /\ ~ Ci(v).root /\ Ci(v).etraps = 0 /\ Ci(v).gen = NoGen
             /\ v.calls[n - 1] \in Frame /\ ~ v.calls[n - 1].native
             /\ Len(c) - 1 \in Nat \ {0} /\ ~ c[Len(c) - 1].native
<1> DEFINE n == Len(v.calls)
<1>1. v.calls \in Seq(Frame) /\ Link(v.calls, v.susp, c) /\ c \in Seq(Activation)
  BY GoodIs
<1>2. PICK r : Topmost(v.calls, r) /\ v.calls[r].native = Last(c).native
  BY <1>1, TopExists
<1>3. r \in 1 .. n /\ \A i \in r + 1 .. n : ~ Marked(v.calls[i])
  BY <1>2 DEF Topmost
<1>4. n \in Nat \ {0} /\ v.calls # << >>
  BY <1>1, <1>3
<1>5. \A i \in 1 .. n - 1 : v.calls[i].native => v.calls[i + 1].root
  <2> TAKE i \in 1 .. n - 1
  <2> DEFINE j == i + 1
  <2>1. j \in 1 .. n /\ j > 1 /\ j - 1 = i
    BY <1>4
  <2> HIDE DEF j
  <2>2. Called(v.calls, j)
    BY <2>1, CalledIs
  <2>3. v.calls[j - 1].native => v.calls[j].root
    BY <2>1, <2>2 DEF Called
  <2> QED BY <2>1, <2>3 DEF j
<1>6. r = n
  <2> SUFFICES ASSUME r # n PROVE FALSE
    OBVIOUS
  <2>1. r \in 1 .. n - 1 /\ r + 1 \in r + 1 .. n
    BY <1>3, <1>4
  <2>2. v.calls[r + 1].root
    BY <1>2, <1>5, <2>1
  <2> QED BY <1>3, <2>1, <2>2 DEF Marked
<1>7. Ci(v) = v.calls[n] /\ Ci(v) \in Frame
  BY <1>1, <1>4, FrontIs DEF Ci
<1>8. Called(v.calls, n) /\ Called(v.calls, 1)
  <2>1. n \in 1 .. Len(v.calls) /\ 1 \in 1 .. Len(v.calls)
    BY <1>4
  <2> QED BY <2>1, CalledIs
<1>9. Ci(v).native /\ ~ Ci(v).root /\ Ci(v).etraps = 0 /\ Ci(v).gen = NoGen
  BY <1>2, <1>6, <1>7, <1>8 DEF Called
<1>10. n # 1
  BY <1>7, <1>8, <1>9 DEF Called
<1>11. n - 1 \in Nat \ {0} /\ n - 1 \in 1 .. n /\ n - 1 \in 1 .. n - 1 /\ n - 1 + 1 = n
  <2> HIDE DEF n
  <2> QED BY <1>4, <1>10
<1>12. v.calls[n - 1] \in Frame
  BY <1>1, <1>11
<1>13. ~ v.calls[n - 1].native
  <2> HIDE DEF n
  <2> QED BY <1>5, <1>7, <1>9, <1>11
<1>14. Len(c) \in Nat \ {0} /\ Last(c) = c[Len(c)]
  BY <1>1, FrontIs
<1>15. Len(c) # 1
  <2>1. PICK at : Linked(at, v.calls, v.susp, c)
    BY <1>1 DEF Link
  <2>2. ~ c[1].native
    BY <2>1 DEF Linked
  <2> QED BY <1>14, <2>2
<1>16. Len(c) - 1 \in Nat \ {0} /\ Len(c) - 1 \in 1 .. Len(c) - 1
  <2> DEFINE l == Len(c)
  <2>1. l \in Nat \ {0} /\ l # 1
    BY <1>14, <1>15
  <2> HIDE DEF l
  <2>2. l - 1 \in Nat \ {0} /\ l - 1 \in 1 .. l - 1
    BY <2>1
  <2> QED BY <2>2 DEF l
<1> DEFINE d == Front(c)
           more == SubSeq(v.calls, 1, n - 1)
<1>17. d \in Seq(Activation) /\ Len(d) = Len(c) - 1 /\ d # << >> /\ Last(d) = c[Len(c) - 1]
  <2>1. d \in Seq(Activation) /\ Len(d) = Len(c) - 1
        /\ \A m \in 1 .. Len(c) - 1 : d[m] = c[m]
    BY <1>1, FrontIs
  <2>2. d # << >>
    BY <1>16, <2>1
  <2>3. Last(d) = d[Len(d)]
    BY <2>1, <2>2, FrontIs
  <2> QED BY <1>16, <2>1, <2>2, <2>3
<1>18. Link(more, v.susp, d)
  <2>1. Topmost(v.calls, n)
    BY <1>2, <1>6
  <2> QED BY <1>1, <2>1, LinkPop
<1>19. more \in Seq(Frame) /\ Len(more) = n - 1 /\ \A i \in 1 .. n - 1 : more[i] = v.calls[i]
  <2>1. n - 1 \in 0 .. Len(v.calls)
    BY <1>4
  <2> QED BY <1>1, <2>1, PrefixIs
<1> HIDE DEF d, more
<1>20. ~ Last(d).native
  <2> SUFFICES ASSUME Last(d).native PROVE FALSE
    OBVIOUS
  <2>1. PICK s : Topmost(more, s) /\ more[s].native = Last(d).native
    BY <1>17, <1>18, <1>19, TopExists
  <2>2. s \in 1 .. n - 1 /\ \A i \in s + 1 .. n - 1 : ~ Marked(more[i])
    BY <1>19, <2>1 DEF Topmost
  <2>3. s # n - 1
    BY <1>13, <1>19, <2>1, <2>2
  <2>4. s \in 1 .. n - 1 /\ s + 1 \in s + 1 .. n - 1 /\ s + 1 \in 1 .. n - 1
    BY <1>4, <2>2, <2>3
  <2>5. v.calls[s].native
    BY <1>19, <2>1, <2>2
  <2>6. v.calls[s + 1].root
    BY <1>5, <2>4, <2>5
  <2> QED BY <1>19, <2>2, <2>4, <2>6 DEF Marked
<1> QED BY <1>2, <1>4, <1>6, <1>7, <1>9, <1>11, <1>12, <1>13, <1>16, <1>17, <1>20

-----------------------------------------------------------------------------
\* One more frame, one less, another on top: what has to be shown of a step.
LEMMA PushGood ==
  ASSUME NEW v, NEW c, Good(v, c), NEW f \in Frame, Callable(v.calls, f),
         NEW ts \in Seq(Trap), Own(f, ts),
         NEW w \in VMRec, w.calls = Append(v.calls, f), w.etraps = v.etraps \o ts,
         w.nvargs = v.nvargs + f.vargs, w.base = v.base + f.pbase,
         w.top >= w.base + SizeOf(f),
         NEW d, Gens(w.calls, w.gens), Link(w.calls, w.susp, d)
  PROVE  Good(w, d)
<1>1. v.calls \in Seq(Frame) /\ Body(v.calls, v.etraps, v.nvargs)
      /\ v.base = P(v.calls)[Len(v.calls)] /\ v.base \in Nat
  BY GoodIs
<1>2. Body(w.calls, w.etraps, w.nvargs)
  BY <1>1, BodyPush
<1>3. w.calls \in Seq(Frame) /\ w.calls # << >> /\ Len(w.calls) = Len(v.calls) + 1
      /\ Last(w.calls) = f /\ w.calls[Len(v.calls) + 1] = f
      /\ \A i \in 1 .. Len(v.calls) : w.calls[i] = v.calls[i]
  <2> DEFINE more == Append(v.calls, f)
  <2>1. more \in Seq(Frame) /\ more # << >> /\ Len(more) = Len(v.calls) + 1
        /\ Last(more) = f /\ more[Len(v.calls) + 1] = f
        /\ \A i \in 1 .. Len(v.calls) : more[i] = v.calls[i]
    <3>1. f \in Frame /\ v.calls \in Seq(Frame)
      BY <1>1
    <3> QED BY ONLY <3>1, AppendIs
  <2>2. w.calls = more
    OBVIOUS
  <2> HIDE DEF more
  <2> QED BY <2>1, <2>2
<1>4. P(w.calls)[Len(w.calls)] = w.base
  <2> DEFINE n == Len(v.calls)  q == w.calls
  <2>1. n \in Nat /\ n <= Len(v.calls) /\ n <= n + 1 /\ n \in 0 .. n
        /\ n + 1 \in 1 .. n + 1 /\ n + 1 - 1 = n
    BY <1>1
  <2>2. q \in Seq(Frame) /\ Len(q) = n + 1 /\ q[n + 1] = f /\ \A i \in 1 .. n : q[i] = v.calls[i]
    BY <1>3
  <2>3. v.base = P(v.calls)[n] /\ w.base = v.base + f.pbase
    BY <1>1
  <2> HIDE DEF n, q
  <2>4. \A i \in 0 .. n : P(q)[i] = P(v.calls)[i]
    <3>1. n <= Len(q) /\ \A i \in 1 .. n : v.calls[i] = q[i]
      BY <2>1, <2>2
    <3> QED BY <1>1, <2>1, <2>2, <3>1, CallsAgree
  <2>5. \A i \in 1 .. Len(q) : P(q)[i] = P(q)[i - 1] + q[i].pbase
    BY <2>2, CallSums
  <2>6. P(q)[n + 1] = P(q)[n + 1 - 1] + q[n + 1].pbase
    BY <2>1, <2>2, <2>5
  <2>7. P(q)[Len(q)] = P(v.calls)[n] + f.pbase
    BY <2>1, <2>2, <2>4, <2>6
  <2> QED BY <2>3, <2>7 DEF q
<1> QED BY <1>2, <1>3, <1>4 DEF Good, At

LEMMA CutGood ==
  ASSUME NEW v, NEW c, Good(v, c), NEW n \in 0 .. Len(v.calls),
         NEW w \in VMRec, w.calls = SubSeq(v.calls, 1, n),
         w.etraps = SubSeq(v.etraps, 1, T(v.calls)[n]), w.nvargs = V(v.calls)[n],
         w.base = P(v.calls)[n],
         w.top >= w.base + (IF n = 0 THEN 0 ELSE SizeOf(v.calls[n])),
         NEW d, Gens(w.calls, w.gens), Link(w.calls, w.susp, d)
  PROVE  Good(w, d)
<1>1. v.calls \in Seq(Frame) /\ Body(v.calls, v.etraps, v.nvargs)
  BY GoodIs
<1>2. Body(w.calls, w.etraps, w.nvargs) /\ w.calls \in Seq(Frame) /\ Len(w.calls) = n
      /\ \A i \in 0 .. n : P(w.calls)[i] = P(v.calls)[i]
  BY <1>1, BodyCut
<1>3. n \in Nat /\ n \in 0 .. n
  OBVIOUS
<1>4. w.base = P(w.calls)[Len(w.calls)]
  BY <1>2, <1>3
<1>5. w.calls # << >> => n # 0 /\ Last(w.calls) = v.calls[n]
  <2>1. \A i \in 1 .. n : w.calls[i] = v.calls[i]
    BY <1>1, PrefixIs
  <2>2. w.calls # << >> => n # 0 /\ Last(w.calls) = w.calls[n]
    BY <1>2, <1>3, FrontIs
  <2>3. n # 0 => n \in 1 .. n
    BY <1>3
  <2> QED BY <2>1, <2>2, <2>3
<1>6. w.calls = << >> <=> n = 0
  BY <1>2, <1>3
<1> QED BY <1>2, <1>4, <1>5, <1>6 DEF Good, At

LEMMA FrontLast ==
  ASSUME NEW X, NEW s \in Seq(X), s # << >>, NEW x \in X
  PROVE  /\ Append(Front(s), Last(s)) = s
         /\ [s EXCEPT ![Len(s)] = x] = Append(Front(s), x)
<1> DEFINE n == Len(s)  f == Front(s)
<1>1. n \in Nat \ {0} /\ f \in Seq(X) /\ Len(f) = n - 1 /\ Last(s) = s[n] /\ Last(s) \in X
      /\ \A i \in 1 .. n - 1 : f[i] = s[i]
  BY FrontIs
<1>2. s = [i \in 1 .. n |-> s[i]]
  OBVIOUS
<1> HIDE DEF n, f
<1>3. ASSUME NEW y \in X
      PROVE  Append(f, y) = [i \in 1 .. n |-> IF i = n THEN y ELSE s[i]]
  <2> DEFINE t == Append(f, y)
  <2>1. n - 1 + 1 = n
    BY <1>1
  <2>2. t \in Seq(X) /\ Len(t) = n - 1 + 1 /\ t[n - 1 + 1] = y
        /\ \A i \in 1 .. n - 1 : t[i] = f[i]
    BY <1>1, AppendIs
  <2>3. t \in Seq(X) /\ Len(t) = n /\ t[n] = y /\ \A i \in 1 .. n - 1 : t[i] = s[i]
    BY <1>1, <2>1, <2>2
  <2> HIDE DEF t
  <2>4. t = [i \in 1 .. n |-> t[i]]
    BY <2>3
  <2>5. \A i \in 1 .. n : t[i] = IF i = n THEN y ELSE s[i]
    BY <1>1, <2>3
  <2> QED BY <2>4, <2>5 DEF t
<1>4. [s EXCEPT ![n] = x] = [i \in 1 .. n |-> IF i = n THEN x ELSE s[i]]
  BY <1>1, <1>2
<1>5. Append(f, Last(s)) = s
  <2>1. Append(f, Last(s)) = [i \in 1 .. n |-> IF i = n THEN s[n] ELSE s[i]]
    BY <1>1, <1>3
  <2> QED BY <1>2, <2>1
<1> QED BY <1>3, <1>4, <1>5 DEF n, f

\* The running script gets a frame above its own.
LEMMA ScriptPush ==
  ASSUME NEW v, NEW c, Good(v, c), c # << >>, ~ Last(c).native,
         NEW f \in Frame, ~ Marked(f), f.home = v.base + f.pbase, f.ptop >= FrameSize,
         NEW ts \in Seq(Trap), Own(f, ts),
         NEW w \in VMRec, w.calls = Append(v.calls, f), w.etraps = v.etraps \o ts,
         w.nvargs = v.nvargs + f.vargs, w.base = v.base + f.pbase,
         w.top >= w.base + FrameSize, w.susp = v.susp, Gens(w.calls, w.gens),
         NEW x \in Activation, x.native = Last(c).native, x.by = Last(c).by,
         x.traps = Last(c).traps + f.etraps
  PROVE  Good(w, Append(Front(c), x))
<1> DEFINE n == Len(v.calls)
<1>1. v.calls \in Seq(Frame) /\ Link(v.calls, v.susp, c) /\ v.base = P(v.calls)[n]
  BY GoodIs
<1>2. /\ n \in Nat \ {0} /\ v.calls # << >> /\ Last(v.calls) = Ci(v) /\ ~ Ci(v).native
      /\ Last(c) \in Activation
  BY ScriptRuns
<1>3. PICK r : /\ Topmost(v.calls, r) /\ r \in Nat \ {0} /\ r <= n
               /\ Last(c).traps = T(v.calls)[n] - T(v.calls)[r - 1]
               /\ T(v.calls)[r - 1] \in Nat
  BY ScriptRuns
<1>4. f.native = FALSE /\ f.root = FALSE
  BY DEF Marked, Frame
<1>5. SizeOf(Last(v.calls)) = FrameSize /\ SizeOf(f) = FrameSize
  BY <1>2, <1>4 DEF SizeOf
<1>6. Callable(v.calls, f)
  <2>1. f.ptop >= FrameSize + 0
    BY DEF FrameSize, Frame
  <2> QED BY <1>1, <1>2, <1>4, <1>5, <2>1 DEF Callable
<1> DEFINE more == Append(v.calls, f)
<1>7. /\ more \in Seq(Frame) /\ Len(more) = n + 1 /\ more[n + 1] = f
      /\ \A i \in 1 .. n : more[i] = v.calls[i]
  BY <1>1, AppendIs
<1> HIDE DEF more, n
<1>8. /\ r \in 1 .. n /\ Marked(v.calls[r])
      /\ \A i \in r + 1 .. n : ~ Marked(v.calls[i])
  BY <1>3 DEF Topmost, n
<1>9. Topmost(more, r)
  <2>1. r \in 1 .. Len(more) /\ more[r] = v.calls[r]
    BY <1>2, <1>7, <1>8
  <2>2. ASSUME NEW i \in r + 1 .. n + 1 PROVE ~ Marked(more[i])
    <3>1. CASE i = n + 1
      BY <1>7, <3>1
    <3>2. CASE i \in r + 1 .. n
      <4>1. i \in 1 .. n
        BY <1>3, <3>2
      <4> QED BY <1>7, <1>8, <3>2, <4>1
    <3> QED BY <1>2, <3>1, <3>2
  <2> QED BY <1>7, <1>8, <2>1, <2>2 DEF Topmost
<1>10. x.traps = T(more)[Len(more)] - T(more)[r - 1]
  <2>1. n \in Nat /\ n <= Len(v.calls) /\ n <= Len(more)
    BY <1>2, <1>7 DEF n
  <2>2. \A i \in 0 .. n : T(more)[i] = T(v.calls)[i]
    BY <1>1, <1>7, <2>1, CallsAgree
  <2>3. n + 1 \in 1 .. Len(more) /\ n + 1 - 1 = n /\ n \in 0 .. n /\ r - 1 \in 0 .. n
    BY <1>2, <1>3, <1>7
  <2>4. \A i \in 1 .. Len(more) : T(more)[i] = T(more)[i - 1] + more[i].etraps
    BY <1>7, CallSums
  <2>5. T(more)[n + 1] = T(v.calls)[n] + f.etraps /\ T(more)[r - 1] = T(v.calls)[r - 1]
    BY <1>2, <1>7, <2>2, <2>3, <2>4
  <2>6. T(v.calls)[n] \in Nat /\ f.etraps \in Nat
    <3>1. T(v.calls) \in [0 .. Len(v.calls) -> Nat] /\ n \in 0 .. Len(v.calls)
      BY <1>1, <1>2, CallSums DEF n
    <3> QED BY <3>1 DEF Frame
  <2> QED BY <1>3, <1>7, <2>5, <2>6
<1>11. Link(more, w.susp, Append(Front(c), x))
  <2>1. more[r].native = v.calls[r].native /\ \A i \in 1 .. r - 1 : more[i] = v.calls[i]
    BY <1>2, <1>7, <1>8
  <2> QED BY <1>1, <1>3, <1>7, <1>9, <1>10, <2>1, LinkTop
<1> QED BY <1>5, <1>6, <1>11, PushGood DEF more

\* A frame that C++ knows of is called.
LEMMA MarkPush ==
  ASSUME NEW v, NEW c, Good(v, c), NEW f \in Frame, Marked(f), Callable(v.calls, f),
         NEW ts \in Seq(Trap), Own(f, ts),
         NEW w \in VMRec, w.calls = Append(v.calls, f), w.etraps = v.etraps \o ts,
         w.nvargs = v.nvargs + f.vargs, w.base = v.base + f.pbase,
         w.top >= w.base + SizeOf(f), w.susp = v.susp, Gens(w.calls, w.gens),
         NEW x \in Activation, x.native = f.native, x.traps = f.etraps,
         ~ x.native => x.by # "script", c = << >> => ~ x.native
  PROVE  Good(w, Append(c, x))
<1>1. v.calls \in Seq(Frame) /\ Link(v.calls, v.susp, c)
  BY GoodIs
<1>2. Link(Append(v.calls, f), v.susp, Append(c, x))
  BY <1>1, LinkPush
<1> QED BY <1>2, PushGood

\* Frame n as another one sees it is the one that was called.
LEMMA CallableAgain ==
  ASSUME NEW v, NEW c, Good(v, c), NEW n \in 1 .. Len(v.calls),
         NEW f \in Frame, ~ f.native, f.root = v.calls[n].root,
         f.pbase = v.calls[n].pbase, f.ptop = v.calls[n].ptop, f.home = v.calls[n].home
  PROVE  Callable(SubSeq(v.calls, 1, n - 1), f)
<1> DEFINE m == n - 1
           cut == SubSeq(v.calls, 1, m)
<1>1. v.calls \in Seq(Frame) /\ Body(v.calls, v.etraps, v.nvargs)
  BY GoodIs
<1>2. n \in Nat \ {0} /\ m \in Nat /\ m \in 0 .. Len(v.calls) /\ m \in 0 .. m
  BY <1>1
<1>3. Called(v.calls, n) /\ P(v.calls)[n] = P(v.calls)[n - 1] + v.calls[n].pbase
  BY CalledIs
<1>4. cut \in Seq(Frame) /\ Len(cut) = m /\ \A i \in 1 .. m : cut[i] = v.calls[i]
  BY <1>1, <1>2, PrefixIs
<1>5. P(cut)[m] = P(v.calls)[m]
  <2>1. \A i \in 0 .. m : P(cut)[i] = P(v.calls)[i]
    BY <1>1, <1>2, BodyCut
  <2> QED BY <1>2, <2>1
<1> HIDE DEF cut
<1>6. cut = << >> => n = 1
  BY <1>2, <1>4
<1>7. cut # << >> => n > 1 /\ Last(cut) = v.calls[n - 1] /\ n # 1
  <2> SUFFICES ASSUME cut # << >> PROVE n > 1 /\ Last(cut) = v.calls[n - 1] /\ n # 1
    OBVIOUS
  <2>1. Len(cut) \in Nat \ {0} /\ Last(cut) = cut[Len(cut)]
    BY <1>4, FrontIs
  <2>2. m \in 1 .. m /\ n > 1 /\ n # 1
    BY <1>2, <1>4, <2>1
  <2> QED BY <1>4, <2>1, <2>2
<1>8. f.home = P(cut)[Len(cut)] + f.pbase
  BY <1>3, <1>4, <1>5 DEF Called
<1>9. cut = << >> => f.root
  BY <1>3, <1>6 DEF Called
<1>10. cut # << >> => (Last(cut).native => f.root)
  BY <1>3, <1>7 DEF Called
<1>11. f.ptop >= (IF cut = << >> THEN 0 ELSE SizeOf(Last(cut))) + (IF f.root THEN 1 ELSE 0)
  BY <1>3, <1>6, <1>7 DEF Called, Found
<1> QED BY <1>8, <1>9, <1>10, <1>11 DEF Callable, cut

\* Frame n changes its traps and extra arguments; those above it are gone.
LEMMA TouchGood ==
  ASSUME NEW v, NEW c, Good(v, c), c # << >>, NEW n \in 1 .. Len(v.calls),
         NEW r, Topmost(v.calls, r), r <= n,
         NEW f \in Frame, ~ v.calls[n].native, ~ f.native, f.root = v.calls[n].root,
         f.pbase = v.calls[n].pbase, f.ptop = v.calls[n].ptop, f.home = v.calls[n].home,
         NEW ts \in Seq(Trap), Own(f, ts),
         NEW w \in VMRec, w.calls = Append(SubSeq(v.calls, 1, n - 1), f),
         w.etraps = SubSeq(v.etraps, 1, T(v.calls)[n - 1]) \o ts,
         w.nvargs = V(v.calls)[n - 1] + f.vargs, w.base = P(v.calls)[n],
         w.top >= w.base + FrameSize, w.susp = v.susp, Gens(w.calls, w.gens),
         NEW x \in Activation, x.native = Last(c).native, x.by = Last(c).by,
         x.traps = T(v.calls)[n - 1] - T(v.calls)[r - 1] + f.etraps
  PROVE  Good(w, Append(Front(c), x))
<1> DEFINE m == n - 1
           cut == SubSeq(v.calls, 1, m)
           more == Append(cut, f)
<1>1. v.calls \in Seq(Frame) /\ Body(v.calls, v.etraps, v.nvargs) /\ Link(v.calls, v.susp, c)
  BY GoodIs
<1>2. n \in Nat \ {0} /\ m \in Nat /\ m \in 0 .. Len(v.calls) /\ m \in 0 .. m /\ m + 1 = n
      /\ n - 1 = m /\ n \in 1 .. n
  BY <1>1
<1>3. cut \in Seq(Frame) /\ Len(cut) = m /\ \A i \in 1 .. m : cut[i] = v.calls[i]
  BY <1>1, <1>2, PrefixIs
<1>4. Callable(cut, f)
  BY CallableAgain
<1>5. Body(cut, SubSeq(v.etraps, 1, T(v.calls)[m]), V(v.calls)[m])
      /\ \A i \in 0 .. m : T(cut)[i] = T(v.calls)[i] /\ P(cut)[i] = P(v.calls)[i]
  BY <1>1, <1>2, BodyCut
<1>6. Body(more, w.etraps, w.nvargs)
  <2> HIDE DEF cut
  <2> QED BY <1>2, <1>4, <1>5, BodyPush
<1>7. w.calls = more /\ v.calls[n] \in Frame
  BY <1>1
<1> HIDE DEF cut
<1>8. /\ more \in Seq(Frame) /\ more # << >> /\ Len(more) = n /\ more[n] = f /\ Last(more) = f
      /\ \A i \in 1 .. m : more[i] = v.calls[i]
  <2>1. /\ more \in Seq(Frame) /\ more # << >> /\ Len(more) = m + 1 /\ more[m + 1] = f
        /\ Last(more) = f /\ \A i \in 1 .. m : more[i] = cut[i]
    <3>1. f \in Frame
      OBVIOUS
    <3> QED BY ONLY <1>3, <3>1, AppendIs
  <2> QED BY <1>2, <1>3, <2>1
<1> HIDE DEF more
<1>9. \A i \in 0 .. m : T(more)[i] = T(v.calls)[i] /\ P(more)[i] = P(v.calls)[i]
  <2>1. m \in Nat /\ m <= Len(more) /\ m <= Len(v.calls)
    BY <1>1, <1>2, <1>8
  <2> HIDE DEF m
  <2> QED BY ONLY <1>1, <1>8, <2>1, CallsAgree
<1>10. T(more)[n] = T(v.calls)[m] + f.etraps /\ P(more)[n] = P(v.calls)[m] + f.pbase
  <2>1. \A i \in 1 .. Len(more) : /\ T(more)[i] = T(more)[i - 1] + more[i].etraps
                                  /\ P(more)[i] = P(more)[i - 1] + more[i].pbase
    BY <1>8, CallSums
  <2>2. T(more)[n] = T(more)[n - 1] + more[n].etraps /\ P(more)[n] = P(more)[n - 1] + more[n].pbase
    BY <1>2, <1>8, <2>1
  <2> QED BY <1>2, <1>8, <1>9, <2>2
<1>11. P(more)[Len(more)] = w.base
  <2>1. P(v.calls)[n] = P(v.calls)[n - 1] + v.calls[n].pbase
    BY CalledIs
  <2> QED BY <1>2, <1>8, <1>10, <2>1
<1>12. r \in 1 .. Len(v.calls) /\ r \in Nat \ {0} /\ r \in 1 .. n
       /\ Marked(v.calls[r]) /\ \A i \in r + 1 .. Len(v.calls) : ~ Marked(v.calls[i])
  BY SMTT(30), <1>1, <1>2 DEF Topmost
<1>13. f.native = v.calls[n].native /\ Marked(f) <=> Marked(v.calls[n])
  BY <1>7 DEF Marked, Frame
<1>14. Topmost(more, r) /\ more[r].native = v.calls[r].native
  <2>1. \A i \in 1 .. n : i # n => i \in 1 .. m
    BY <1>2
  <2>2. \A i \in 1 .. n : /\ Marked(more[i]) <=> Marked(v.calls[i])
                          /\ more[i].native = v.calls[i].native
    <3> TAKE i \in 1 .. n
    <3>1. CASE i = n
      BY <1>7, <1>8, <1>13, <3>1 DEF Marked, Frame
    <3>2. CASE i # n
      BY <1>8, <2>1, <3>2
    <3> QED BY <3>1, <3>2
  <2>3. \A i \in r + 1 .. n : i \in 1 .. n /\ i \in r + 1 .. Len(v.calls)
    BY <1>1, <1>2, <1>12
  <2> QED BY <1>8, <1>12, <2>2, <2>3 DEF Topmost
<1>15. x.traps = T(more)[Len(more)] - T(more)[r - 1]
  <2>1. r - 1 \in 0 .. m
    BY <1>2, <1>12
  <2>2. T(more)[r - 1] = T(v.calls)[r - 1]
    BY <1>9, <2>1
  <2>3. T(v.calls)[r - 1] \in Nat /\ T(v.calls)[m] \in Nat /\ f.etraps \in Nat
    <3>1. r - 1 \in 0 .. Len(v.calls)
      BY <1>1, <1>12
    <3>2. T(v.calls) \in [0 .. Len(v.calls) -> Nat]
      BY <1>1, CallSums
    <3> QED BY <1>2, <3>1, <3>2 DEF Frame
  <2>4. x.traps = T(v.calls)[m] - T(v.calls)[r - 1] + f.etraps
    BY <1>2
  <2> QED BY <1>8, <1>10, <2>2, <2>3, <2>4
<1>16. Link(more, v.susp, Append(Front(c), x))
  <2>1. \A i \in 1 .. r - 1 : more[i] = v.calls[i]
    <3>1. \A i \in 1 .. r - 1 : i \in 1 .. m
      BY <1>2, <1>12
    <3> QED BY <1>8, <3>1
  <2> QED BY <1>1, <1>8, <1>14, <1>15, <2>1, LinkTop
<1>17. SizeOf(Last(w.calls)) = FrameSize /\ w.calls # << >>
  BY <1>7, <1>8 DEF SizeOf
<1>18. At(w.calls, w.base, w.top)
  BY <1>7, <1>11, <1>17 DEF At
<1> QED BY <1>6, <1>7, <1>16, <1>18 DEF Good

\* The frame of a script comes back to the script that called it.
LEMMA ScriptCut ==
  ASSUME NEW v, NEW c, Good(v, c), c # << >>, ~ Last(c).native, ~ Ci(v).root,
         NEW n, n = Len(v.calls) - 1,
         NEW w \in VMRec, w.calls = SubSeq(v.calls, 1, n),
         w.etraps = SubSeq(v.etraps, 1, T(v.calls)[n]), w.nvargs = V(v.calls)[n],
         w.base = P(v.calls)[n], w.top = P(v.calls)[n] + Ci(v).ptop,
         w.susp = v.susp, Gens(w.calls, w.gens),
         NEW x \in Activation, x.native = Last(c).native, x.by = Last(c).by,
         x.traps = Last(c).traps - Ci(v).etraps
  PROVE  Good(w, Append(Front(c), x))
<1> DEFINE l == Len(v.calls)
           cut == SubSeq(v.calls, 1, n)
<1>1. v.calls \in Seq(Frame) /\ Link(v.calls, v.susp, c) /\ Body(v.calls, v.etraps, v.nvargs)
  BY GoodIs
<1>2. l \in Nat \ {0} /\ Ci(v) = v.calls[l] /\ Ci(v) \in Frame
  BY ScriptRuns
<1>3. PICK r : /\ Topmost(v.calls, r) /\ r \in Nat \ {0} /\ r <= l
               /\ (Ci(v).root <=> r = l)
               /\ Last(c).traps = T(v.calls)[l] - T(v.calls)[r - 1]
               /\ T(v.calls)[r - 1] \in Nat
  BY ScriptRuns
<1>4. /\ r \in 1 .. l /\ Marked(v.calls[r])
      /\ \A i \in r + 1 .. l : ~ Marked(v.calls[i])
  BY <1>3 DEF Topmost
<1>5. n = l - 1
  OBVIOUS
<1>6. Called(v.calls, l) /\ T(v.calls)[l] = T(v.calls)[l - 1] + v.calls[l].etraps
      /\ T(v.calls)[l - 1] \in Nat
  <2>1. l \in 1 .. Len(v.calls)
    BY <1>2
  <2> QED BY <2>1, CalledIs
<1>7. n \in 0 .. Len(v.calls)
  BY <1>2
<1>8. cut \in Seq(Frame) /\ Len(cut) = n /\ \A i \in 1 .. n : cut[i] = v.calls[i]
  BY <1>1, <1>7, PrefixIs
<1>9. \A i \in 0 .. n : T(cut)[i] = T(v.calls)[i]
  BY <1>1, <1>7, BodyCut
<1>10. w.calls = cut
  OBVIOUS
<1> HIDE DEF l, cut
<1>11. n \in Nat \ {0} /\ r \in 1 .. n /\ n \in 0 .. n /\ r - 1 \in 0 .. n /\ r < l /\ l > 1 /\ l # 1
  BY <1>2, <1>3, <1>5
<1>12. Topmost(cut, r) /\ cut[r].native = v.calls[r].native
       /\ \A i \in 1 .. r - 1 : cut[i] = v.calls[i]
  <2>1. \A i \in r + 1 .. n : i \in 1 .. n /\ i \in r + 1 .. l
    BY <1>2, <1>5, <1>11
  <2>2. \A i \in 1 .. r - 1 : i \in 1 .. n
    BY <1>11
  <2> QED BY <1>4, <1>8, <1>11, <2>1, <2>2 DEF Topmost
<1>13. x.traps = T(cut)[Len(cut)] - T(cut)[r - 1]
  <2>1. T(cut)[n] = T(v.calls)[n] /\ T(cut)[r - 1] = T(v.calls)[r - 1]
    BY <1>9, <1>11
  <2>2. Ci(v).etraps \in Nat
    BY <1>2 DEF Frame
  <2>3. x.traps = Last(c).traps - Ci(v).etraps
    OBVIOUS
  <2>4. T(v.calls)[l] = T(v.calls)[n] + Ci(v).etraps /\ T(v.calls)[n] \in Nat
    BY <1>2, <1>5, <1>6
  <2>5. Last(c).traps = T(v.calls)[l] - T(v.calls)[r - 1] /\ T(v.calls)[r - 1] \in Nat
    BY <1>3
  <2>6. x.traps = T(v.calls)[n] - T(v.calls)[r - 1]
    BY ONLY <2>2, <2>3, <2>4, <2>5
  <2> QED BY <1>8, <2>1, <2>6
<1>14. Link(cut, v.susp, Append(Front(c), x))
  BY <1>1, <1>3, <1>8, <1>12, <1>13, LinkTop
<1>15. w.top >= w.base + SizeOf(v.calls[n])
  <2>1. Ci(v).ptop >= SizeOf(v.calls[n]) + 0
    <3>1. ~ v.calls[l].root
      BY <1>2
    <3> QED BY <1>2, <1>5, <1>6, <1>11, <3>1 DEF Called, Found
  <2>2. P(v.calls)[n] \in Nat
    <3>1. P(v.calls) \in [0 .. Len(v.calls) -> Nat]
      BY <1>1, CallSums
    <3> QED BY <1>7, <3>1
  <2>3. Ci(v).ptop \in Nat /\ SizeOf(v.calls[n]) \in Nat
    BY <1>2 DEF Frame, SizeOf, FrameSize
  <2>4. w.top = P(v.calls)[n] + Ci(v).ptop /\ w.base = P(v.calls)[n]
    OBVIOUS
  <2> QED BY <2>1, <2>2, <2>3, <2>4
<1> QED BY <1>7, <1>10, <1>11, <1>14, <1>15, CutGood

\* The frame that C++ waits for is gone; a slot is left for what it returned.
LEMMA MarkCut ==
  ASSUME NEW v, NEW c, Good(v, c), c # << >>, NEW r, Topmost(v.calls, r),
         NEW w \in VMRec, w.calls = SubSeq(v.calls, 1, r - 1),
         w.etraps = SubSeq(v.etraps, 1, T(v.calls)[r - 1]), w.nvargs = V(v.calls)[r - 1],
         w.base = P(v.calls)[r - 1], w.top = P(v.calls)[r - 1] + v.calls[r].ptop,
         w.susp = v.susp, Gens(w.calls, w.gens)
  PROVE  /\ Good(w, Front(c))
         /\ w.top >= w.base + (IF w.calls = << >> THEN 0 ELSE SizeOf(Last(w.calls)))
                            + (IF v.calls[r].root THEN 1 ELSE 0)
<1> DEFINE n == r - 1
           cut == SubSeq(v.calls, 1, n)
<1>1. v.calls \in Seq(Frame) /\ Link(v.calls, v.susp, c)
  BY GoodIs
<1>2. r \in 1 .. Len(v.calls)
  BY DEF Topmost
<1>3. r \in Nat \ {0} /\ n \in Nat /\ n \in 0 .. Len(v.calls) /\ (n = 0 <=> r = 1)
      /\ (n # 0 => r > 1 /\ n \in 1 .. n)
  BY <1>1, <1>2
<1>4. Called(v.calls, r) /\ v.calls[r] \in Frame
  BY <1>2, CalledIs
<1>5. cut \in Seq(Frame) /\ Len(cut) = n /\ \A i \in 1 .. n : cut[i] = v.calls[i]
  BY <1>1, <1>3, PrefixIs
<1>6. Link(cut, v.susp, Front(c))
  BY <1>1, LinkPop
<1>7. w.calls = cut
  OBVIOUS
<1> HIDE DEF cut
<1>8. (cut = << >> <=> n = 0) /\ (n # 0 => Last(cut) = v.calls[n])
  <2>1. cut # << >> => Last(cut) = cut[Len(cut)]
    BY <1>5, FrontIs
  <2> QED BY <1>3, <1>5, <2>1
<1> DEFINE z == IF n = 0 THEN 0 ELSE SizeOf(v.calls[n])
           k == IF v.calls[r].root THEN 1 ELSE 0
           p == P(v.calls)[n]
<1>9. v.calls[r].ptop >= z + k
  BY <1>3, <1>4 DEF Called, Found
<1>10. z \in Nat /\ k \in Nat /\ v.calls[r].ptop \in Nat
  BY <1>4 DEF Frame, SizeOf, FrameSize
<1>11. p \in Nat
  <2>1. P(v.calls) \in [0 .. Len(v.calls) -> Nat]
    BY <1>1, CallSums
  <2> QED BY <1>3, <2>1
<1>12. w.base = p /\ w.top = p + v.calls[r].ptop
  OBVIOUS
<1> HIDE DEF z, k, p
<1>13. w.top >= w.base + z + k /\ w.top >= w.base + z
  BY <1>9, <1>10, <1>11, <1>12
<1>14. Good(w, Front(c))
  <2> HIDE DEF n
  <2>1. n = r - 1
    BY DEF n
  <2> QED BY <1>3, <1>6, <1>7, <1>13, <2>1, CutGood DEF z, cut
<1> QED BY <1>7, <1>8, <1>13, <1>14 DEF z, k

\* What the API function pops leaves the running frame its slots.
LEMMA EpilogueGood ==
  ASSUME NEW v, NEW c, Good(v, c), NEW by \in {"call", "resume", "wakeup"}, NEW ok,
         v.top >= v.base + (IF v.calls = << >> THEN 0 ELSE SizeOf(Last(v.calls))) + 1
  PROVE  Good(Epilogue(v, by, ok), c)
<1> DEFINE z == IF v.calls = << >> THEN 0 ELSE SizeOf(Last(v.calls))
           pops == CASE by = "call" -> IF ok /\ v.susp.on THEN 0 ELSE 1
                     [] by = "resume" -> 1
                     [] by = "wakeup" ->
                          IF v.calls = << >> /\ ~ v.susp.on /\ v.top > 1
                          THEN v.top - 1 ELSE 0
           t == v.top - pops
           w == [v EXCEPT !.top = t]
<1>1. v \in VMRec /\ v.base \in Nat /\ v.top \in Nat /\ v.calls \in Seq(Frame)
      /\ v.base = P(v.calls)[Len(v.calls)]
  BY GoodIs
<1>2. z \in Nat /\ v.top >= v.base + z + 1
  BY DEF SizeOf, FrameSize
<1>3. v.calls = << >> => v.base = 0 /\ z = 0
  <2>1. P(v.calls)[0] = 0
    BY <1>1, CallSums
  <2>2. v.calls = << >> => Len(v.calls) = 0
    OBVIOUS
  <2> QED BY <1>1, <2>1, <2>2
<1>4. pops \in {0, 1} \/ (v.calls = << >> /\ v.top > 1 /\ pops = v.top - 1)
  OBVIOUS
<1> HIDE DEF z, pops
<1>5. t \in Nat /\ t >= v.base + z
  <2>1. v.base \in Nat /\ v.top \in Nat /\ t = v.top - pops
    BY <1>1
  <2>2. CASE pops \in {0, 1}
    BY ONLY <1>2, <2>1, <2>2
  <2>3. CASE v.calls = << >> /\ v.top > 1 /\ pops = v.top - 1
    <3>1. v.base = 0 /\ z = 0
      BY <1>3, <2>3
    <3> QED BY ONLY <2>1, <2>3, <3>1
  <2> QED BY <1>4, <2>2, <2>3
<1>6. Epilogue(v, by, ok) = w
  BY DEF Epilogue, pops
<1> HIDE DEF t
<1>7. /\ w \in VMRec /\ w.calls = v.calls /\ w.etraps = v.etraps /\ w.nvargs = v.nvargs
      /\ w.base = v.base /\ w.top = t /\ w.susp = v.susp /\ w.gens = v.gens
  BY <1>1, <1>5 DEF VMRec
<1> HIDE DEF w
<1>8. At(w.calls, w.base, w.top)
  BY <1>1, <1>5, <1>7 DEF At, z
<1> QED BY <1>6, <1>7, <1>8 DEF Good

-----------------------------------------------------------------------------
\* The traps of one frame.
LEMMA SplitIs ==
  ASSUME NEW X, NEW s \in Seq(X), NEW m \in 0 .. Len(s), NEW k \in m .. Len(s)
  PROVE  LET t == SubSeq(s, m + 1, k)
         IN  /\ t \in Seq(X) /\ Len(t) = k - m /\ \A i \in 1 .. k - m : t[i] = s[m + i]
             /\ SubSeq(s, 1, k) = SubSeq(s, 1, m) \o t
<1> DEFINE u == SubSeq(s, 1, k)
           t == SubSeq(s, m + 1, k)
           h == SubSeq(s, 1, m)
           l == k - m
<1>1. m \in Nat /\ k \in Nat /\ l \in Nat /\ k \in 0 .. Len(s) /\ m \in 0 .. k /\ m + l = k
  OBVIOUS
<1>2. u \in Seq(X) /\ Len(u) = k /\ \A i \in 1 .. k : u[i] = s[i]
  BY <1>1, PrefixIs
<1>3. h \in Seq(X) /\ Len(h) = m /\ \A i \in 1 .. m : h[i] = s[i]
  BY <1>1, PrefixIs
<1>4. t \in Seq(X) /\ Len(t) = l /\ \A i \in 1 .. l : t[i] = s[m + i]
  <2>1. t = [i \in 1 .. k - (m + 1) + 1 |-> s[m + 1 + i - 1]]
    BY <1>1
  <2>2. k - (m + 1) + 1 = l
    BY <1>1
  <2>3. t = [i \in 1 .. l |-> s[m + 1 + i - 1]]
    BY <2>1, <2>2
  <2>4. \A i \in 1 .. l : m + 1 + i - 1 = m + i /\ m + i \in 1 .. Len(s)
    BY <1>1
  <2> HIDE DEF t, l
  <2>5. \A i \in 1 .. l : t[i] = s[m + i] /\ s[m + i] \in X
    BY <2>3, <2>4
  <2>6. t \in [1 .. l -> X]
    BY <2>3, <2>4, <2>5
  <2>7. t \in Seq(X) /\ Len(t) = l
    BY <1>1, <2>6
  <2> QED BY <2>5, <2>7
<1> HIDE DEF u, t, h, l
<1>5. h \o t \in Seq(X) /\ Len(h \o t) = m + l
      /\ \A i \in 1 .. m + l : (h \o t)[i] = IF i <= m THEN h[i] ELSE t[i - m]
  BY <1>1, <1>3, <1>4
<1>6. \A i \in 1 .. k : (h \o t)[i] = u[i]
  <2> TAKE i \in 1 .. k
  <2>1. CASE i <= m
    <3>1. i \in 1 .. m /\ i \in 1 .. m + l
      BY <1>1, <2>1
    <3> QED BY <1>2, <1>3, <1>5, <2>1, <3>1
  <2>2. CASE ~ i <= m
    <3>1. i - m \in 1 .. l /\ m + (i - m) = i /\ i \in 1 .. m + l
      BY <1>1, <2>2
    <3> QED BY <1>2, <1>4, <1>5, <2>2, <3>1
  <2> QED BY <2>1, <2>2
<1>7. u = [i \in 1 .. k |-> u[i]]
  BY <1>2
<1>8. h \o t = [i \in 1 .. k |-> (h \o t)[i]]
  <2> DEFINE q == h \o t
  <2>1. q \in Seq(X) /\ Len(q) = k
    BY <1>1, <1>5
  <2> HIDE DEF q
  <2>2. q = [i \in 1 .. k |-> q[i]]
    BY <2>1
  <2> QED BY <2>2 DEF q
<1>9. u = h \o t
  BY <1>6, <1>7, <1>8
<1> QED BY <1>4, <1>9 DEF u, t, h, l

\* The first j traps of frame n are those of the frame with so many.
LEMMA OwnTraps ==
  ASSUME NEW v, NEW c, Good(v, c), NEW n \in 1 .. Len(v.calls),
         NEW j \in 0 .. v.calls[n].etraps
  PROVE  LET m == T(v.calls)[n - 1]
             ts == SubSeq(v.etraps, m + 1, m + j)
         IN  /\ ts \in Seq(Trap) /\ Len(ts) = j /\ m + j \in 0 .. Len(v.etraps)
             /\ SubSeq(v.etraps, 1, m + j) = SubSeq(v.etraps, 1, m) \o ts
             /\ \A f \in Frame : f.etraps = j /\ f.home = v.calls[n].home => Own(f, ts)
<1> DEFINE m == T(v.calls)[n - 1]
           ts == SubSeq(v.etraps, m + 1, m + j)
           k == v.calls[n].etraps
           h == v.calls[n].home
<1>1. v.calls \in Seq(Frame) /\ v.etraps \in Seq(Trap) /\ Len(v.etraps) = T(v.calls)[Len(v.calls)]
  BY GoodIs
<1>2. m \in Nat /\ T(v.calls)[n] = m + k /\ TrapsOf(v.calls, v.etraps, n)
      /\ v.calls[n] \in Frame
  BY CalledIs
<1>3. k \in Nat /\ j \in Nat /\ j <= k /\ h \in Nat
  BY <1>2 DEF Frame
<1>4. T(v.calls)[n] <= Len(v.etraps)
  <2>1. n \in 0 .. Len(v.calls) /\ Len(v.calls) \in n .. Len(v.calls)
    BY <1>1
  <2> QED BY <1>1, <2>1, TrapsGrow
<1>5. Len(v.etraps) \in Nat
  BY <1>1
<1>6. \A i \in m + 1 .. m + k : /\ v.etraps[i].nth = i - m
                                /\ v.etraps[i].base = h
                                /\ v.etraps[i].top >= h + FrameSize
  BY <1>2 DEF TrapsOf
<1> HIDE DEF m, k, h
<1>7. m \in 0 .. Len(v.etraps) /\ m + j \in m .. Len(v.etraps) /\ m + j - m = j
      /\ m + j \in 0 .. Len(v.etraps)
  BY <1>2, <1>3, <1>4, <1>5
<1>8. /\ ts \in Seq(Trap) /\ Len(ts) = j /\ \A i \in 1 .. j : ts[i] = v.etraps[m + i]
      /\ SubSeq(v.etraps, 1, m + j) = SubSeq(v.etraps, 1, m) \o ts
  <2>1. /\ ts \in Seq(Trap) /\ Len(ts) = m + j - m
        /\ \A i \in 1 .. m + j - m : ts[i] = v.etraps[m + i]
        /\ SubSeq(v.etraps, 1, m + j) = SubSeq(v.etraps, 1, m) \o ts
    BY <1>1, <1>7, SplitIs
  <2> QED BY <1>7, <2>1
<1> HIDE DEF ts
<1>9. ASSUME NEW f \in Frame, f.etraps = j, f.home = h PROVE Own(f, ts)
  <2>1. \A i \in 1 .. j : m + i \in m + 1 .. m + k /\ m + i - m = i
    BY <1>2, <1>3
  <2>2. \A i \in 1 .. j : ts[i].nth = i /\ ts[i].base = h /\ ts[i].top >= h + FrameSize
    <3> TAKE i \in 1 .. j
    <3> DEFINE p == m + i
    <3>1. ts[i] = v.etraps[p]
      BY <1>8
    <3>3. p \in m + 1 .. m + k /\ p - m = i
      BY <1>2, <1>3
    <3> HIDE DEF p
    <3>2. v.etraps[p].nth = p - m /\ v.etraps[p].base = h /\ v.etraps[p].top >= h + FrameSize
      BY <1>6, <3>3
    <3> QED BY <3>1, <3>2, <3>3
  <2> QED BY <1>8, <1>9, <2>2 DEF Own
<1> QED BY <1>7, <1>8, <1>9 DEF m, ts, h

-----------------------------------------------------------------------------
\* Exceptions.

\* An Execute that counts traps has the innermost in a frame of its own.
LEMMA LandingIs ==
  ASSUME NEW v, NEW c, Good(v, c), c # << >>, ~ Last(c).native, Last(c).traps # 0
  PROVE  LET n == Max(Landing(v))
         IN  /\ Landing(v) # {} /\ n \in 1 .. Len(v.calls) /\ n \in Nat
             /\ ~ v.calls[n].native /\ v.calls[n].etraps > 0
             /\ T(v.calls)[Len(v.calls)] = T(v.calls)[n]
             /\ \E r : /\ Topmost(v.calls, r) /\ r <= n
                       /\ Last(c).traps = T(v.calls)[n] - T(v.calls)[r - 1]
<1> DEFINE l == Len(v.calls)
           n == Max(Landing(v))
<1>1. v.calls \in Seq(Frame)
  BY GoodIs
<1>2. PICK r : /\ Topmost(v.calls, r) /\ r \in Nat \ {0} /\ r <= l /\ ~ v.calls[r].native
               /\ Last(c).traps = T(v.calls)[l] - T(v.calls)[r - 1]
               /\ T(v.calls)[r - 1] \in Nat
  BY ScriptRuns
<1>3. l \in Nat /\ DOMAIN v.calls = 1 .. l
  BY <1>1
<1>4. \A i \in r .. l : ~ v.calls[i].native
  <2> TAKE i \in r .. l
  <2>1. CASE i = r
    BY <1>2, <2>1
  <2>2. CASE i # r
    <3>1. i \in r + 1 .. l
      BY <1>2, <1>3, <2>2
    <3>2. ~ Marked(v.calls[i])
      BY <1>2, <3>1 DEF Topmost
    <3> QED BY <3>2 DEF Marked
  <2> QED BY <2>1, <2>2
<1>5. \A i \in 1 .. l : v.calls[i].etraps \in Nat
  <2>1. \A i \in 1 .. l : v.calls[i] \in Frame
    BY <1>1
  <2> QED BY <2>1 DEF Frame
<1>6. \A i \in r .. l : v.calls[i].etraps > 0 => i \in Landing(v)
  <2> TAKE i \in r .. l
  <2>1. i \in 1 .. l /\ \A j \in i .. l : j \in r .. l
    BY <1>2, <1>3
  <2> QED BY <1>3, <1>4, <2>1 DEF Landing
<1>7. PICK i \in r .. l : v.calls[i].etraps # 0
  <2> SUFFICES ASSUME \A i \in r .. l : v.calls[i].etraps = 0 PROVE FALSE
    OBVIOUS
  <2>1. r - 1 \in 0 .. Len(v.calls) /\ l \in r - 1 .. Len(v.calls) /\ r - 1 + 1 = r
    BY <1>2, <1>3
  <2>2. \A k \in r - 1 + 1 .. l : v.calls[k].etraps = 0
    BY <2>1
  <2>3. T(v.calls)[r - 1] = T(v.calls)[l]
    <3> HIDE DEF l
    <3> QED BY <1>1, <2>1, <2>2, TrapsGrow
  <2> QED BY <1>2, <2>3
<1>8. i \in Landing(v)
  <2>1. i \in 1 .. l
    BY <1>2, <1>3
  <2>2. v.calls[i].etraps > 0
    BY <1>5, <1>7, <2>1
  <2> QED BY <1>6, <2>2
<1>9. Landing(v) \in SUBSET (1 .. l) /\ Landing(v) # {}
  BY <1>3, <1>8 DEF Landing
<1>10. n \in Landing(v) /\ \A j \in Landing(v) : j <= n
  <2> HIDE DEF l
  <2> QED BY <1>3, <1>9, MaxIs
<1>11. n \in 1 .. l /\ v.calls[n].etraps > 0
  BY <1>3, <1>10 DEF Landing
<1> HIDE DEF n
<1>12. i \in Nat /\ i >= r /\ i <= n /\ n \in Nat /\ n <= l /\ r <= n
  BY <1>2, <1>3, <1>8, <1>10, <1>11
<1>13. ~ v.calls[n].native
  <2>1. n \in r .. l
    BY <1>2, <1>3, <1>12
  <2> QED BY <1>4, <2>1
<1>14. T(v.calls)[n] = T(v.calls)[l]
  <2>1. n \in 0 .. Len(v.calls) /\ l \in n .. Len(v.calls)
    BY <1>3, <1>12
  <2>2. \A k \in n + 1 .. l : v.calls[k].etraps = 0
    <3> TAKE k \in n + 1 .. l
    <3>1. k \in r .. l /\ k \in 1 .. l /\ ~ k <= n
      BY <1>2, <1>3, <1>12
    <3>2. ~ v.calls[k].etraps > 0
      BY <1>6, <1>10, <3>1
    <3>3. v.calls[k].etraps \in Nat
      BY <1>5, <3>1
    <3> QED BY <3>2, <3>3
  <2> HIDE DEF l
  <2> QED BY <1>1, <2>1, <2>2, TrapsGrow
<1> QED BY <1>2, <1>9, <1>11, <1>12, <1>13, <1>14 DEF n

\* The innermost trap takes the exception into the frame that has set it.
LEMMA CatchGood ==
  ASSUME NEW v, NEW c, Good(v, c), c # << >>, ~ Last(c).native, Last(c).traps # 0
  PROVE  Good(Catch(v), Append(Front(c), [Last(c) EXCEPT !.traps = @ - 1]))
<1> DEFINE n == Max(Landing(v))
           m == T(v.calls)[n - 1]
           k == v.calls[n].etraps
           j == k - 1
           f == [v.calls[n] EXCEPT !.etraps = j]
           ts == SubSeq(v.etraps, m + 1, m + j)
           u == Unwind(v, n)
           e == Last(v.etraps)
           w == Catch(v)
           x == [Last(c) EXCEPT !.traps = @ - 1]
           cut == SubSeq(v.calls, 1, n)
           less == SubSeq(v.calls, 1, n - 1)
<1>1. /\ v \in VMRec /\ v.calls \in Seq(Frame) /\ v.etraps \in Seq(Trap)
      /\ Len(v.etraps) = T(v.calls)[Len(v.calls)]
      /\ v.nvargs = V(v.calls)[Len(v.calls)] /\ Gens(v.calls, v.gens)
  BY GoodIs
<1>2. /\ n \in 1 .. Len(v.calls) /\ n \in Nat /\ ~ v.calls[n].native /\ k > 0
      /\ Len(v.etraps) = T(v.calls)[n]
  BY <1>1, LandingIs
<1>3. PICK r : /\ Topmost(v.calls, r) /\ r <= n
               /\ Last(c).traps = T(v.calls)[n] - T(v.calls)[r - 1]
  BY LandingIs
<1>4. /\ v.calls[n] \in Frame /\ Called(v.calls, n) /\ TrapsOf(v.calls, v.etraps, n)
      /\ T(v.calls)[n] = m + k /\ m \in Nat /\ P(v.calls)[n] \in Nat /\ V(v.calls)[n - 1] \in Nat
      /\ V(v.calls)[n] = V(v.calls)[n - 1] + v.calls[n].vargs
  BY <1>2, CalledIs
<1>5. n \in 0 .. Len(v.calls) /\ n - 1 \in 0 .. Len(v.calls)
  BY <1>2
<1>6. Last(c) \in Activation
  BY ScriptRuns
<1> HIDE DEF n
<1>7. k \in Nat \ {0} /\ j \in Nat /\ j \in 0 .. k /\ j + 1 = k /\ m + k - 1 = m + j
  <2>1. k \in Nat
    BY <1>4 DEF Frame
  <2> HIDE DEF k
  <2> QED BY <1>2, <1>4, <2>1
<1> HIDE DEF j
<1>8. /\ f \in Frame /\ f.native = v.calls[n].native /\ f.gen = v.calls[n].gen /\ f.etraps = j
      /\ f.vargs = v.calls[n].vargs /\ f.root = v.calls[n].root /\ f.pbase = v.calls[n].pbase
      /\ f.ptop = v.calls[n].ptop /\ f.home = v.calls[n].home
  BY <1>4, <1>7 DEF Frame
<1>9. /\ ts \in Seq(Trap) /\ m + j \in 0 .. Len(v.etraps)
      /\ SubSeq(v.etraps, 1, m + j) = SubSeq(v.etraps, 1, m) \o ts
      /\ Own(f, ts)
  <2> HIDE DEF f
  <2>1. /\ ts \in Seq(Trap) /\ m + j \in 0 .. Len(v.etraps)
        /\ SubSeq(v.etraps, 1, m + j) = SubSeq(v.etraps, 1, m) \o ts
        /\ \A q \in Frame : q.etraps = j /\ q.home = v.calls[n].home => Own(q, ts)
    <3>1. n \in 1 .. Len(v.calls) /\ j \in 0 .. v.calls[n].etraps /\ Good(v, c)
      BY <1>2, <1>7
    <3> QED BY ONLY <3>1, OwnTraps
  <2> QED BY <1>8, <2>1
<1>10. /\ e \in Trap /\ e.base = P(v.calls)[n] /\ e.top >= P(v.calls)[n] + FrameSize
       /\ Front(v.etraps) = SubSeq(v.etraps, 1, m) \o ts
       /\ Front(v.etraps) \in Seq(Trap)
  <2>1. Len(v.etraps) = m + k /\ m + k \in m + 1 .. m + k /\ m + k # 0
    BY SMTT(30), <1>2, <1>4, <1>7
  <2>2. v.etraps # << >>
    BY <2>1
  <2>3. e = v.etraps[m + k] /\ e \in Trap /\ Front(v.etraps) = SubSeq(v.etraps, 1, m + k - 1)
        /\ Front(v.etraps) \in Seq(Trap)
    <3>1. /\ e = v.etraps[Len(v.etraps)] /\ e \in Trap
          /\ Front(v.etraps) = SubSeq(v.etraps, 1, Len(v.etraps) - 1)
          /\ Front(v.etraps) \in Seq(Trap)
      BY <1>1, <2>2, FrontIs
    <3> HIDE DEF e, m, k
    <3> QED BY <1>4, <1>7, <2>1, <3>1
  <2>4. e.base = v.calls[n].home /\ e.top >= v.calls[n].home + FrameSize
    BY <1>4, <2>1, <2>3 DEF TrapsOf
  <2>5. v.calls[n].home = P(v.calls)[n]
    BY <1>4 DEF Called
  <2> QED BY <1>7, <1>9, <2>3, <2>4, <2>5
<1>11. /\ u \in VMRec /\ u.calls = cut /\ u.etraps = v.etraps
       /\ u.nvargs = V(v.calls)[n] /\ u.susp = v.susp
       /\ u.gens \in [Gen -> GenRec]
       /\ \A g \in Gen : IF \E i \in n + 1 .. Len(v.calls) : v.calls[i].gen = g
                         THEN u.gens[g].state = "dead"
                         ELSE u.gens[g] = v.gens[g]
  BY <1>1, <1>5, UnwindIs
<1>12. Gens(cut, u.gens)
  <2>1. \A g \in Gen : IF Popped(v.calls, n, g)
                       THEN /\ u.gens[g].state # "running"
                            /\ u.gens[g].state = "suspended" => Resumable(u.gens[g])
                       ELSE u.gens[g] = v.gens[g]
    BY <1>11 DEF Popped
  <2> DEFINE q == u.gens
  <2> HIDE DEF u
  <2>2. q \in [Gen -> GenRec]
    BY <1>11
  <2>3. \A g \in Gen : IF Popped(v.calls, n, g)
                       THEN /\ q[g].state # "running"
                            /\ q[g].state = "suspended" => Resumable(q[g])
                       ELSE q[g] = v.gens[g]
    BY <2>1
  <2> HIDE DEF q
  <2>4. Gens(SubSeq(v.calls, 1, n), q)
    <3>1. v.calls \in Seq(Frame) /\ Gens(v.calls, v.gens) /\ n \in 0 .. Len(v.calls)
      BY <1>1, <1>5
    <3> QED BY ONLY <2>2, <2>3, <3>1, GensCut
  <2> QED BY <2>4 DEF q
<1>13. cut \in Seq(Frame) /\ Len(cut) = n /\ \A i \in 1 .. n : cut[i] = v.calls[i]
  BY <1>1, <1>5, PrefixIs
<1>14. less \in Seq(Frame) /\ Len(less) = n - 1 /\ \A i \in 1 .. n - 1 : less[i] = v.calls[i]
  BY <1>1, <1>5, PrefixIs
<1>15. [cut EXCEPT ![n] = f] = Append(less, f)
  <2> HIDE DEF cut, less
  <2>1. n \in Nat \ {0} /\ n \in 1 .. n /\ \A i \in 1 .. n - 1 : i \in 1 .. n
    BY <1>2
  <2>2. cut # << >>
    BY <1>13, <2>1
  <2>3. [cut EXCEPT ![n] = f] = Append(Front(cut), f)
    BY <1>8, <1>13, <2>2, FrontLast
  <2>4. Front(cut) \in Seq(Frame) /\ Len(Front(cut)) = n - 1
        /\ \A i \in 1 .. n - 1 : Front(cut)[i] = cut[i]
    BY <1>13, <2>2, FrontIs
  <2>5. \A i \in 1 .. n - 1 : Front(cut)[i] = less[i]
    BY <1>13, <1>14, <2>1, <2>4
  <2>6. Front(cut) = [i \in 1 .. n - 1 |-> Front(cut)[i]] /\ less = [i \in 1 .. n - 1 |-> less[i]]
    BY <1>14, <2>4
  <2>7. Front(cut) = less
    BY <2>5, <2>6
  <2> QED BY <2>3, <2>7
<1>16. cut[n] = v.calls[n]
  <2>1. n \in 1 .. n
    BY <1>2
  <2> QED BY <1>13, <2>1
<1>17. w = [u EXCEPT !.calls[n].etraps = @ - 1, !.etraps = Front(@), !.base = e.base, !.top = e.top]
  BY DEF Catch, n
<1>18. [u.calls EXCEPT ![n].etraps = @ - 1] = Append(less, f)
  <2>1. [cut EXCEPT ![n].etraps = @ - 1] = [cut EXCEPT ![n] = [cut[n] EXCEPT !.etraps = @ - 1]]
    OBVIOUS
  <2>2. [cut[n] EXCEPT !.etraps = @ - 1] = f
    BY <1>16 DEF j
  <2> QED BY <1>11, <1>15, <2>1, <2>2
<1> DEFINE more == Append(less, f)
<1>19. more \in Seq(Frame) /\ Len(more) = n /\ \A i \in 1 .. n : more[i].gen = cut[i].gen
  <2>1. n - 1 + 1 = n /\ \A i \in 1 .. n : i = n \/ i \in 1 .. n - 1
    BY <1>2
  <2>2. more \in Seq(Frame) /\ Len(more) = n - 1 + 1 /\ more[n - 1 + 1] = f
        /\ \A i \in 1 .. n - 1 : more[i] = less[i]
    BY <1>8, <1>14, AppendIs
  <2> HIDE DEF more, less, f, cut
  <2>3. \A i \in 1 .. n : more[i].gen = cut[i].gen
    BY <1>8, <1>13, <1>14, <2>1, <2>2
  <2> QED BY <2>1, <2>2, <2>3
<1> HIDE DEF more, cut, less, f, ts, e, m, k
<1>20. w = [u EXCEPT !.calls = more, !.etraps = Front(v.etraps), !.base = e.base, !.top = e.top]
  BY <1>11, <1>17, <1>18 DEF VMRec, more
<1>21. e.base \in Nat /\ e.top \in Nat
  BY <1>10 DEF Trap
<1> HIDE DEF u
<1>22. /\ w \in VMRec /\ w.calls = more /\ w.etraps = Front(v.etraps) /\ w.nvargs = u.nvargs
       /\ w.base = e.base /\ w.top = e.top /\ w.susp = u.susp /\ w.gens = u.gens
  BY <1>10, <1>11, <1>19, <1>20, <1>21 DEF VMRec
<1> HIDE DEF w
<1>23. Gens(w.calls, w.gens)
  <2>1. \A i \in 1 .. Len(cut) : more[i].gen = cut[i].gen
    BY <1>13, <1>19
  <2>2. Gens(more, u.gens)
    BY <1>12, <1>13, <1>19, <2>1, GensSame
  <2> QED BY <1>22, <2>2
<1>24. x \in Activation /\ x.native = Last(c).native /\ x.by = Last(c).by
       /\ x.traps = Last(c).traps - 1
  <2>1. Last(c).traps \in Nat
    BY <1>6 DEF Activation
  <2>2. Last(c).traps - 1 \in Nat
    BY <2>1
  <2> QED BY <1>6, <2>2 DEF Activation
<1>25. x.traps = m - T(v.calls)[r - 1] + f.etraps
  <2>1. T(v.calls)[r - 1] \in Nat
    <3>1. r \in 1 .. Len(v.calls)
      BY <1>3 DEF Topmost
    <3> QED BY <3>1, CalledIs
  <2> QED BY <1>3, <1>4, <1>7, <1>8, <1>24, <2>1
<1>26. w.top >= w.base + FrameSize /\ w.base = P(v.calls)[n]
  BY <1>10, <1>22
<1>27. w.nvargs = V(v.calls)[n - 1] + f.vargs
  BY <1>4, <1>8, <1>11, <1>22
<1>28. /\ w.calls = Append(SubSeq(v.calls, 1, n - 1), f)
       /\ w.etraps = SubSeq(v.etraps, 1, T(v.calls)[n - 1]) \o ts
       /\ w.susp = v.susp
       /\ x.traps = T(v.calls)[n - 1] - T(v.calls)[r - 1] + f.etraps
  BY <1>10, <1>11, <1>22, <1>25 DEF more, less, m
<1> HIDE DEF x
<1>29. Good(w, Append(Front(c), x))
  BY <1>2, <1>3, <1>8, <1>9, <1>22, <1>23, <1>24, <1>26, <1>27, <1>28, TouchGood
<1> QED BY <1>29 DEF w, x

\* Without a trap, the frames of the Execute go, the one it began with too.
LEMMA EscapeGood ==
  ASSUME NEW v, NEW c, Good(v, c), c # << >>, ~ Last(c).native, Last(c).traps = 0
  PROVE  Good(Epilogue(Escape(v), Last(c).by, FALSE), Front(c))
<1> DEFINE l == Len(v.calls)
           S == {i \in DOMAIN v.calls : i = 1 \/ v.calls[i].root \/ v.calls[i - 1].native}
           w == Escape(v)
<1>1. /\ v \in VMRec /\ v.calls \in Seq(Frame) /\ v.etraps \in Seq(Trap)
      /\ Len(v.etraps) = T(v.calls)[l] /\ v.base = P(v.calls)[l]
      /\ v.nvargs = V(v.calls)[l] /\ Gens(v.calls, v.gens)
  BY GoodIs
<1>2. PICK r : /\ Topmost(v.calls, r) /\ r \in Nat \ {0} /\ r <= l
               /\ v.calls[r].root /\ ~ v.calls[r].native
               /\ Last(c).traps = T(v.calls)[l] - T(v.calls)[r - 1]
               /\ T(v.calls)[r - 1] \in Nat
  BY ScriptRuns
<1>3. l \in Nat /\ DOMAIN v.calls = 1 .. l /\ r \in 1 .. l
  BY <1>1, <1>2
<1>4. \A i \in r + 1 .. l : ~ Marked(v.calls[i])
  BY <1>2 DEF Topmost
<1>5. r \in S /\ S \in SUBSET (1 .. l) /\ S # {}
  BY <1>2, <1>3
<1>6. \A i \in S : i <= r
  <2> SUFFICES ASSUME NEW i \in S, ~ i <= r PROVE FALSE
    OBVIOUS
  <2>1. i \in r + 1 .. l /\ i # 1 /\ i - 1 \in r .. l /\ (i - 1 = r \/ i - 1 \in r + 1 .. l)
    BY <1>2, <1>3, <1>5
  <2>2. ~ v.calls[i].root
    BY <1>4, <2>1 DEF Marked
  <2>3. ~ v.calls[i - 1].native
    BY <1>2, <1>4, <2>1 DEF Marked
  <2> QED BY <2>1, <2>2, <2>3
<1>7. Max(S) = r
  <2> HIDE DEF S, l
  <2>1. Max(S) \in S /\ \A i \in S : i <= Max(S)
    BY <1>3, <1>5, MaxIs
  <2> DEFINE q == Max(S)
  <2>2. q <= r /\ r <= q
    BY <1>5, <1>6, <2>1
  <2>3. q \in 1 .. l
    BY <1>5, <2>1
  <2> HIDE DEF q
  <2>4. q \in Nat
    BY <1>3, <2>3
  <2>5. q = r
    BY <1>2, <2>2, <2>4
  <2> QED BY <2>5 DEF q
<1> DEFINE n == r - 1
           u == Unwind(v, n)
           b == v.base - SumAbove(PbaseOf(v.calls), n)
           t == b + v.calls[r].ptop
           p == P(v.calls)[n]
<1>8. n \in 0 .. Len(v.calls) /\ n \in Nat
  BY <1>2, <1>3
<1>9. w = [u EXCEPT !.base = b, !.top = t]
  BY <1>7 DEF Escape
<1>10. /\ v.calls[r] \in Frame /\ v.calls[r].ptop \in Nat
       /\ P(v.calls) \in [0 .. Len(v.calls) -> Nat] /\ p \in Nat
  <2>1. v.calls[r] \in Frame
    BY <1>1, <1>3
  <2>2. P(v.calls) \in [0 .. Len(v.calls) -> Nat]
    BY <1>1, CallSums
  <2>3. p \in Nat
    BY <1>8, <2>2
  <2> QED BY <2>1, <2>2, <2>3 DEF Frame
<1>11. b = p
  <2>1. Len(PbaseOf(v.calls)) = l
    BY <1>1, Fields
  <2>2. SumAbove(PbaseOf(v.calls), n) = P(v.calls)[l] - p
    BY <2>1 DEF SumAbove, P
  <2>3. P(v.calls)[l] \in Nat
    <3>1. l \in 0 .. Len(v.calls)
      BY <1>3
    <3> QED BY <1>10, <3>1
  <2> HIDE DEF p, l, n
  <2> QED BY <1>1, <1>10, <2>2, <2>3
<1>12. t = p + v.calls[r].ptop /\ t \in Nat
  <2> HIDE DEF p, b
  <2> QED BY <1>10, <1>11
<1>13. /\ u \in VMRec /\ u.calls = SubSeq(v.calls, 1, n) /\ u.etraps = v.etraps
       /\ u.nvargs = V(v.calls)[n] /\ u.susp = v.susp
       /\ u.gens \in [Gen -> GenRec]
       /\ \A g \in Gen : IF \E i \in n + 1 .. Len(v.calls) : v.calls[i].gen = g
                         THEN u.gens[g].state = "dead"
                         ELSE u.gens[g] = v.gens[g]
  <2> HIDE DEF n
  <2> QED BY <1>1, <1>8, UnwindIs
<1>14. Gens(SubSeq(v.calls, 1, n), u.gens)
  <2> DEFINE q == u.gens
  <2> HIDE DEF u, n
  <2>1. \A g \in Gen : IF Popped(v.calls, n, g)
                       THEN /\ q[g].state # "running"
                            /\ q[g].state = "suspended" => Resumable(q[g])
                       ELSE q[g] = v.gens[g]
    BY <1>13 DEF Popped
  <2>2. q \in [Gen -> GenRec]
    BY <1>13
  <2> HIDE DEF q
  <2>3. Gens(SubSeq(v.calls, 1, n), q)
    <3>1. v.calls \in Seq(Frame) /\ Gens(v.calls, v.gens) /\ n \in 0 .. Len(v.calls)
      BY <1>1, <1>8
    <3> QED BY ONLY <2>1, <2>2, <3>1, GensCut
  <2> QED BY <2>3 DEF q
<1> HIDE DEF u, b, t, w
<1>15. /\ w \in VMRec /\ w.calls = u.calls /\ w.etraps = u.etraps /\ w.nvargs = u.nvargs
       /\ w.base = b /\ w.top = t /\ w.susp = u.susp /\ w.gens = u.gens
  <2> HIDE DEF p
  <2>1. b \in Nat /\ t \in Nat
    BY <1>10, <1>11, <1>12
  <2> QED BY <1>9, <1>13, <2>1 DEF VMRec
<1>16. SubSeq(v.etraps, 1, T(v.calls)[n]) = v.etraps
  <2>1. T(v.calls)[l] \in Nat
    <3>1. l \in 0 .. Len(v.calls) /\ T(v.calls) \in [0 .. Len(v.calls) -> Nat]
      BY <1>1, <1>3, CallSums
    <3> QED BY <3>1
  <2>2. T(v.calls)[n] = Len(v.etraps)
    <3>1. T(v.calls)[n] = T(v.calls)[l]
      <4> HIDE DEF l
      <4> QED BY <1>2, <2>1
    <3> QED BY <1>1, <3>1
  <2>3. Len(v.etraps) \in 0 .. Len(v.etraps)
    BY <1>1
  <2> QED BY <1>1, <2>2, <2>3, PrefixIs
<1>17. /\ w.calls = SubSeq(v.calls, 1, r - 1)
       /\ w.etraps = SubSeq(v.etraps, 1, T(v.calls)[r - 1]) /\ w.nvargs = V(v.calls)[r - 1]
       /\ w.base = P(v.calls)[r - 1] /\ w.top = P(v.calls)[r - 1] + v.calls[r].ptop
       /\ w.susp = v.susp /\ Gens(w.calls, w.gens)
  BY <1>11, <1>12, <1>13, <1>14, <1>15, <1>16
<1> DEFINE z == IF w.calls = << >> THEN 0 ELSE SizeOf(Last(w.calls))
<1>18. Good(w, Front(c)) /\ w.top >= w.base + z + 1
  <2>1. /\ Good(w, Front(c))
        /\ w.top >= w.base + (IF w.calls = << >> THEN 0 ELSE SizeOf(Last(w.calls)))
                           + (IF v.calls[r].root THEN 1 ELSE 0)
    BY <1>2, <1>15, <1>17, MarkCut
  <2> QED BY <1>2, <2>1
<1>19. Last(c).by \in {"call", "resume", "wakeup"}
  <2>1. Last(c) \in Activation /\ Last(c).by # "script"
    BY ScriptRuns
  <2> QED BY <2>1 DEF Activation
<1> QED BY <1>18, <1>19, EpilogueGood DEF w

LEMMA ThrowGood ==
  ASSUME NEW v, NEW c, Good(v, c), c # << >>, ~ Last(c).native,
         Throw(v, Last(c), Front(c))
  PROVE  Good(vm', cpp')
<1>1. CASE Last(c).traps # 0
  <2>1. Landing(v) # {}
    BY <1>1, LandingIs
  <2>2. vm' = Catch(v) /\ cpp' = Append(Front(c), [Last(c) EXCEPT !.traps = @ - 1])
    BY <1>1, <2>1 DEF Throw
  <2> QED BY <1>1, <2>2, CatchGood
<1>2. CASE Last(c).traps = 0
  <2>1. vm' = Epilogue(Escape(v), Last(c).by, FALSE) /\ cpp' = Front(c)
    BY <1>2 DEF Throw
  <2> QED BY <1>2, <2>1, EscapeGood
<1> QED BY <1>1, <1>2

-----------------------------------------------------------------------------
\* Steps of a script that keep its frame.
LEMMA TouchTop ==
  ASSUME NEW v, NEW c, Good(v, c), c # << >>, ~ Last(c).native,
         NEW n, n = Len(v.calls),
         NEW f \in Frame, f.native = Ci(v).native, f.root = Ci(v).root, f.gen = Ci(v).gen,
         f.pbase = Ci(v).pbase, f.ptop = Ci(v).ptop, f.home = Ci(v).home,
         NEW ts \in Seq(Trap), Own(f, ts),
         NEW w \in VMRec, w.calls = Append(Front(v.calls), f),
         w.etraps = SubSeq(v.etraps, 1, T(v.calls)[n - 1]) \o ts,
         w.nvargs = V(v.calls)[n - 1] + f.vargs, w.base = v.base,
         w.top >= w.base + FrameSize, w.susp = v.susp, w.gens = v.gens,
         NEW x \in Activation, x.native = Last(c).native, x.by = Last(c).by,
         x.traps = Last(c).traps - Ci(v).etraps + f.etraps
  PROVE  Good(w, Append(Front(c), x))
<1>1. v.calls \in Seq(Frame) /\ v.base = P(v.calls)[n] /\ Gens(v.calls, v.gens)
  BY GoodIs
<1>2. n \in Nat \ {0} /\ v.calls # << >> /\ Ci(v) = v.calls[n] /\ ~ Ci(v).native
      /\ Ci(v) \in Frame
  BY ScriptRuns
<1>3. PICK r : /\ Topmost(v.calls, r) /\ r \in Nat \ {0} /\ r <= n
               /\ Last(c).traps = T(v.calls)[n] - T(v.calls)[r - 1]
               /\ T(v.calls)[r - 1] \in Nat
  BY ScriptRuns
<1>4. n \in 1 .. Len(v.calls) /\ n \in 1 .. n /\ n - 1 + 1 = n
      /\ \A i \in 1 .. n : i = n \/ i \in 1 .. n - 1
  BY <1>2
<1>5. /\ Front(v.calls) = SubSeq(v.calls, 1, n - 1) /\ Front(v.calls) \in Seq(Frame)
      /\ Len(Front(v.calls)) = n - 1 /\ \A i \in 1 .. n - 1 : Front(v.calls)[i] = v.calls[i]
  BY <1>1, <1>2, FrontIs
<1>6. /\ T(v.calls)[n] = T(v.calls)[n - 1] + v.calls[n].etraps
      /\ T(v.calls)[n - 1] \in Nat
  BY <1>4, CalledIs
<1>7. x.traps = T(v.calls)[n - 1] - T(v.calls)[r - 1] + f.etraps
  <2>1. Ci(v).etraps \in Nat /\ f.etraps \in Nat
    BY <1>2 DEF Frame
  <2> DEFINE a == T(v.calls)[n]  b == T(v.calls)[n - 1]  d == T(v.calls)[r - 1]
             k == Ci(v).etraps  y == Last(c).traps
  <2>2. a = b + k /\ y = a - d /\ b \in Nat /\ d \in Nat /\ k \in Nat
    BY <1>2, <1>3, <1>6, <2>1
  <2>3. x.traps = y - k + f.etraps
    OBVIOUS
  <2> HIDE DEF a, b, d, k, y
  <2>4. x.traps = b - d + f.etraps
    BY <2>1, <2>2, <2>3
  <2> QED BY <2>4 DEF b, d
<1>8. Gens(w.calls, w.gens)
  <2> DEFINE h == Front(v.calls)  more == Append(h, f)
  <2>1. h \in Seq(Frame) /\ Len(h) = n - 1 /\ \A i \in 1 .. n - 1 : h[i] = v.calls[i]
    BY <1>5
  <2>2. w.calls = more /\ w.gens = v.gens
    OBVIOUS
  <2>3. f \in Frame /\ f.gen = v.calls[n].gen
    BY <1>2
  <2> HIDE DEF h
  <2>4. more \in Seq(Frame) /\ Len(more) = n - 1 + 1 /\ more[n - 1 + 1] = f
        /\ \A i \in 1 .. n - 1 : more[i] = h[i]
    BY ONLY <2>1, <2>3, AppendIs
  <2> HIDE DEF more
  <2>5. \A i \in 1 .. n : more[i].gen = v.calls[i].gen
    BY <1>4, <2>1, <2>3, <2>4
  <2>6. Len(more) = Len(v.calls)
    BY <1>4, <2>4
  <2>7. \A i \in 1 .. Len(v.calls) : more[i].gen = v.calls[i].gen
    BY <2>5
  <2> QED BY <1>1, <2>2, <2>4, <2>6, <2>7, GensSame
<1>9. /\ ~ v.calls[n].native /\ ~ f.native /\ f.root = v.calls[n].root
      /\ f.pbase = v.calls[n].pbase /\ f.ptop = v.calls[n].ptop /\ f.home = v.calls[n].home
  BY <1>2
<1>10. w.calls = Append(SubSeq(v.calls, 1, n - 1), f) /\ w.base = P(v.calls)[n]
  BY <1>1, <1>5
<1> QED BY <1>3, <1>4, <1>7, <1>8, <1>9, <1>10, TouchGood

LEMMA SetTraps ==
  ASSUME NEW c \in Seq(Activation), c # << >>, NEW n \in Int, Last(c).traps + n \in Nat
  PROVE  LET x == [Last(c) EXCEPT !.traps = @ + n]
         IN  /\ x \in Activation /\ x.native = Last(c).native /\ x.by = Last(c).by
             /\ x.traps = Last(c).traps + n
             /\ [c EXCEPT ![Len(c)].traps = @ + n] = Append(Front(c), x)
<1> DEFINE x == [Last(c) EXCEPT !.traps = @ + n]
<1>1. Last(c) = c[Len(c)] /\ Last(c) \in Activation
  BY FrontIs
<1>2. x \in Activation /\ x.native = Last(c).native /\ x.by = Last(c).by
      /\ x.traps = Last(c).traps + n
  BY <1>1 DEF Activation
<1>3. [c EXCEPT ![Len(c)].traps = @ + n] = [c EXCEPT ![Len(c)] = x]
  BY <1>1
<1> HIDE DEF x
<1>4. [c EXCEPT ![Len(c)] = x] = Append(Front(c), x)
  BY <1>2, FrontLast
<1> QED BY <1>2, <1>3, <1>4 DEF x

\* All the traps of the frame that runs.
LEMMA TopTraps ==
  ASSUME NEW v, NEW c, Good(v, c), c # << >>, ~ Last(c).native
  PROVE  LET n == Len(v.calls)
             m == T(v.calls)[n - 1]
             k == Ci(v).etraps
         IN  /\ n \in 1 .. Len(v.calls) /\ n - 1 \in 0 .. Len(v.calls)
             /\ m \in Nat /\ k \in Nat /\ Len(v.etraps) = m + k
             /\ Ci(v).vargs \in Nat /\ V(v.calls)[n - 1] \in Nat
             /\ v.nvargs = V(v.calls)[n - 1] + Ci(v).vargs
             /\ Last(c).traps \in Nat /\ k <= Last(c).traps
<1> DEFINE n == Len(v.calls)
           m == T(v.calls)[n - 1]
           k == Ci(v).etraps
<1>1. n \in Nat \ {0} /\ Ci(v) = v.calls[n] /\ Ci(v) \in Frame /\ Last(c) \in Activation
  BY ScriptRuns
<1>2. PICK r : /\ Last(c).traps = T(v.calls)[n] - T(v.calls)[r - 1]
               /\ T(v.calls)[r - 1] \in Nat /\ T(v.calls)[n - 1] >= T(v.calls)[r - 1]
  BY ScriptRuns
<1>3. n \in 1 .. Len(v.calls) /\ n - 1 \in 0 .. Len(v.calls)
  BY <1>1
<1>4. k \in Nat /\ Ci(v).vargs \in Nat
  BY <1>1 DEF Frame
<1>5. /\ T(v.calls)[n] = m + k /\ m \in Nat
      /\ V(v.calls)[n] = V(v.calls)[n - 1] + Ci(v).vargs /\ V(v.calls)[n - 1] \in Nat
  BY <1>1, <1>3, CalledIs
<1>6. Len(v.etraps) = T(v.calls)[n] /\ v.nvargs = V(v.calls)[n]
  BY GoodIs
<1>7. k <= Last(c).traps /\ Last(c).traps \in Nat
  <2> DEFINE b == T(v.calls)[r - 1]  y == Last(c).traps  a == T(v.calls)[n]
  <2>1. b \in Nat /\ m >= b /\ y = a - b /\ a = m + k /\ m \in Nat /\ k \in Nat
    BY <1>2, <1>4, <1>5
  <2> HIDE DEF b, y, a, m, k
  <2>2. k <= y /\ y \in Nat
    BY <2>1
  <2> QED BY <2>2 DEF y
<1> QED BY <1>3, <1>4, <1>5, <1>6, <1>7

LEMMA AppendCat ==
  ASSUME NEW s \in Seq(Trap), NEW t \in Seq(Trap), NEW e \in Trap
  PROVE  Append(s \o t, e) = s \o Append(t, e)
<1> DEFINE a == Len(s)  b == Len(t)  u == s \o t  y == Append(u, e)
           z == Append(t, e)  w == s \o z
<1>1. a \in Nat /\ b \in Nat
  OBVIOUS
<1>2. u \in Seq(Trap) /\ Len(u) = a + b /\ \A i \in 1 .. a + b : u[i] = IF i <= a THEN s[i] ELSE t[i - a]
  OBVIOUS
<1> HIDE DEF u
<1>3. y \in Seq(Trap) /\ Len(y) = a + b + 1 /\ y[a + b + 1] = e /\ \A i \in 1 .. a + b : y[i] = u[i]
  <2>1. u \in Seq(Trap) /\ e \in Trap
    BY <1>2
  <2>2. y \in Seq(Trap) /\ Len(y) = Len(u) + 1 /\ y[Len(u) + 1] = e
        /\ \A i \in 1 .. Len(u) : y[i] = u[i]
    BY ONLY <2>1, AppendIs
  <2> HIDE DEF y
  <2> QED BY <1>2, <2>2
<1>4. z \in Seq(Trap) /\ Len(z) = b + 1 /\ z[b + 1] = e /\ \A i \in 1 .. b : z[i] = t[i]
  BY AppendIs
<1> HIDE DEF y, z
<1>5. w \in Seq(Trap) /\ Len(w) = a + (b + 1)
      /\ \A i \in 1 .. a + (b + 1) : w[i] = IF i <= a THEN s[i] ELSE z[i - a]
  BY <1>4
<1> HIDE DEF w, a, b
<1> DEFINE l == a + b + 1
<1>6. \A i \in 1 .. l : y[i] = w[i]
  <2> TAKE i \in 1 .. l
  <2>1. i \in 1 .. a + (b + 1)
    BY <1>1
  <2>2. CASE i = l
    <3>1. ~ i <= a /\ i - a = b + 1
      BY <1>1, <2>2
    <3> QED BY <1>3, <1>4, <1>5, <2>1, <2>2, <3>1
  <2>3. CASE i <= a
    <3>1. i \in 1 .. a + b
      BY <1>1, <2>3
    <3> QED BY <1>2, <1>3, <1>5, <2>1, <2>3, <3>1
  <2>4. CASE ~ i <= a /\ i # l
    <3>1. i \in 1 .. a + b /\ i - a \in 1 .. b
      BY <1>1, <2>4
    <3> QED BY <1>2, <1>3, <1>4, <1>5, <2>1, <2>4, <3>1
  <2> QED BY <2>2, <2>3, <2>4
<1>7. l \in Nat /\ Len(y) = l /\ Len(w) = l
  BY <1>1, <1>3, <1>5
<1> HIDE DEF l
<1>8. y = [i \in 1 .. l |-> y[i]] /\ w = [i \in 1 .. l |-> w[i]]
  BY <1>3, <1>5, <1>7
<1>9. y = w
  BY <1>6, <1>8
<1> QED BY <1>9 DEF y, w, u, z

LEMMA PushTrapGood ==
  ASSUME Good(vm, cpp), PushTrap
  PROVE  Good(vm', cpp')
<1> DEFINE n == Len(vm.calls)
           m == T(vm.calls)[n - 1]
           k == Ci(vm).etraps
           f == [Ci(vm) EXCEPT !.etraps = @ + 1]
           e == [base |-> vm.base, top |-> vm.top, nth |-> k + 1]
           ts == SubSeq(vm.etraps, m + 1, m + k)
           u == SetCi(vm, f)
           w == [u EXCEPT !.etraps = Append(@, e)]
           x == [Last(cpp) EXCEPT !.traps = @ + 1]
<1>1. cpp # << >> /\ ~ Last(cpp).native
  BY DEF PushTrap, InScript
<1>2. /\ vm \in VMRec /\ vm.etraps \in Seq(Trap) /\ cpp \in Seq(Activation)
      /\ vm.base \in Nat /\ vm.top \in Nat
  BY GoodIs
<1>3. /\ Ci(vm) = vm.calls[n] /\ Ci(vm) \in Frame /\ ~ Ci(vm).native /\ vm.base = Ci(vm).home
      /\ vm.calls # << >> /\ vm.top >= vm.base + FrameSize
  BY <1>1, ScriptRuns
<1>4. /\ n \in 1 .. Len(vm.calls) /\ m \in Nat /\ k \in Nat /\ Len(vm.etraps) = m + k
      /\ vm.nvargs = V(vm.calls)[n - 1] + Ci(vm).vargs
      /\ Last(cpp).traps \in Nat
  BY <1>1, TopTraps
<1>5. k + 1 \in Nat /\ k \in 0 .. k
  BY <1>4
<1>6. /\ f \in Frame /\ f.native = Ci(vm).native /\ f.gen = Ci(vm).gen /\ f.etraps = k + 1
      /\ f.vargs = Ci(vm).vargs /\ f.root = Ci(vm).root /\ f.pbase = Ci(vm).pbase
      /\ f.ptop = Ci(vm).ptop /\ f.home = Ci(vm).home
  BY <1>3, <1>5 DEF Frame
<1>7. e \in Trap /\ e.nth = k + 1 /\ e.base = f.home /\ e.top >= f.home + FrameSize
  BY <1>2, <1>3, <1>5, <1>6 DEF Trap
<1>8. /\ ts \in Seq(Trap) /\ Len(ts) = k
      /\ SubSeq(vm.etraps, 1, m + k) = SubSeq(vm.etraps, 1, m) \o ts
      /\ Own(Ci(vm), ts)
  <2>1. k \in 0 .. vm.calls[n].etraps
    BY <1>3, <1>5
  <2>2. /\ ts \in Seq(Trap) /\ Len(ts) = k
        /\ SubSeq(vm.etraps, 1, m + k) = SubSeq(vm.etraps, 1, m) \o ts
        /\ \A q \in Frame : q.etraps = k /\ q.home = vm.calls[n].home => Own(q, ts)
    BY ZenonT(40), <1>4, <2>1, OwnTraps
  <2> QED BY <1>3, <2>2
<1>9. vm.etraps = SubSeq(vm.etraps, 1, m) \o ts
  <2>1. m + k \in 0 .. Len(vm.etraps) /\ m + k = Len(vm.etraps)
    BY <1>4
  <2>2. SubSeq(vm.etraps, 1, m + k) = vm.etraps
    BY <1>2, <2>1, PrefixIs
  <2> QED BY <1>8, <2>2
<1>10. SubSeq(vm.etraps, 1, m) \in Seq(Trap)
  <2>1. m \in 0 .. Len(vm.etraps)
    BY <1>4
  <2> QED BY <1>2, <2>1, PrefixIs
<1> HIDE DEF ts, f, e
<1>11. Append(vm.etraps, e) = SubSeq(vm.etraps, 1, m) \o Append(ts, e)
  <2> DEFINE h == SubSeq(vm.etraps, 1, m)
  <2>1. h \in Seq(Trap) /\ vm.etraps = h \o ts
    BY <1>9, <1>10
  <2> HIDE DEF h
  <2>2. Append(h \o ts, e) = h \o Append(ts, e)
    BY <1>7, <1>8, <2>1, AppendCat
  <2> QED BY <2>1, <2>2 DEF h
<1>12. Append(ts, e) \in Seq(Trap) /\ Own(f, Append(ts, e))
  <2> DEFINE t == Append(ts, e)
  <2>1. t \in Seq(Trap) /\ Len(t) = k + 1 /\ t[k + 1] = e /\ \A i \in 1 .. k : t[i] = ts[i]
    BY SMTT(30), <1>7, <1>8, AppendIs
  <2>2. \A i \in 1 .. k : /\ ts[i].nth = i
                          /\ ts[i].base = f.home
                          /\ ts[i].top >= f.home + FrameSize
    BY <1>6, <1>8 DEF Own
  <2> HIDE DEF t
  <2>3. \A i \in 1 .. k + 1 : i = k + 1 \/ i \in 1 .. k
    BY <1>4
  <2>4. \A i \in 1 .. k + 1 : /\ t[i].nth = i
                              /\ t[i].base = f.home
                              /\ t[i].top >= f.home + FrameSize
    BY <1>7, <2>1, <2>2, <2>3
  <2> QED BY <1>6, <2>1, <2>4 DEF Own, t
<1>13. /\ u \in VMRec /\ u.calls = Append(Front(vm.calls), f)
       /\ u.etraps = vm.etraps /\ u.nvargs = vm.nvargs
       /\ u.base = vm.base /\ u.top = vm.top /\ u.susp = vm.susp /\ u.gens = vm.gens
  BY <1>2, <1>3, <1>6, SetCiIs
<1>14. /\ w \in VMRec /\ w.calls = u.calls /\ w.etraps = Append(vm.etraps, e)
       /\ w.nvargs = u.nvargs /\ w.base = u.base /\ w.top = u.top /\ w.susp = u.susp
       /\ w.gens = u.gens
  <2>1. Append(vm.etraps, e) \in Seq(Trap)
    BY <1>2, <1>7, AppendIs
  <2> HIDE DEF u
  <2> QED BY <1>13, <2>1 DEF VMRec
<1>15. vm' = w /\ cpp' = [cpp EXCEPT ![Len(cpp)].traps = @ + 1]
  BY DEF PushTrap, f, e
<1>16. /\ x \in Activation /\ x.native = Last(cpp).native /\ x.by = Last(cpp).by
       /\ x.traps = Last(cpp).traps + 1 /\ cpp' = Append(Front(cpp), x)
  <2>1. Last(cpp).traps + 1 \in Nat /\ 1 \in Int
    BY <1>4
  <2> QED BY <1>1, <1>2, <1>15, <2>1, SetTraps
<1> HIDE DEF w, u, x
<1>17. x.traps = Last(cpp).traps - Ci(vm).etraps + f.etraps
  <2> HIDE DEF k
  <2>1. Ci(vm).etraps = k
    BY DEF k
  <2> QED BY <1>4, <1>6, <1>16, <2>1
<1>18. /\ w.calls = Append(Front(vm.calls), f)
       /\ w.etraps = SubSeq(vm.etraps, 1, T(vm.calls)[n - 1]) \o Append(ts, e)
       /\ w.nvargs = V(vm.calls)[n - 1] + f.vargs /\ w.base = vm.base
       /\ w.top >= w.base + FrameSize /\ w.susp = vm.susp /\ w.gens = vm.gens
  BY <1>3, <1>4, <1>6, <1>11, <1>13, <1>14
<1>19. Good(w, Append(Front(cpp), x))
  BY <1>1, <1>6, <1>12, <1>14, <1>16, <1>17, <1>18, TouchTop
<1> QED BY <1>15, <1>16, <1>19

LEMMA PopTrapGood ==
  ASSUME Good(vm, cpp), NEW z \in 1 .. MaxTraps, PopTrap(z)
  PROVE  Good(vm', cpp')
<1> DEFINE n == Len(vm.calls)
           m == T(vm.calls)[n - 1]
           k == Ci(vm).etraps
           j == k - z
           f == [Ci(vm) EXCEPT !.etraps = j]
           ts == SubSeq(vm.etraps, m + 1, m + j)
           u == SetCi(vm, f)
           w == [u EXCEPT !.etraps = SubSeq(@, 1, m + j)]
           x == [Last(cpp) EXCEPT !.traps = @ + (- z)]
<1>1. cpp # << >> /\ ~ Last(cpp).native /\ z <= k
  BY DEF PopTrap, InScript
<1>2. /\ vm \in VMRec /\ vm.etraps \in Seq(Trap) /\ cpp \in Seq(Activation)
      /\ vm.base \in Nat /\ vm.top \in Nat
  BY GoodIs
<1>3. /\ Ci(vm) = vm.calls[n] /\ Ci(vm) \in Frame /\ ~ Ci(vm).native /\ vm.base = Ci(vm).home
      /\ vm.calls # << >> /\ vm.top >= vm.base + FrameSize
  BY <1>1, ScriptRuns
<1>4. /\ n \in 1 .. Len(vm.calls) /\ m \in Nat /\ k \in Nat /\ Len(vm.etraps) = m + k
      /\ vm.nvargs = V(vm.calls)[n - 1] + Ci(vm).vargs
      /\ Last(cpp).traps \in Nat /\ k <= Last(cpp).traps
  BY <1>1, TopTraps
<1>5. z \in Nat
  <2>1. MaxTraps \in Nat
    BY VMAssumption
  <2> QED BY <2>1
<1>6. j \in Nat /\ j \in 0 .. k /\ Len(vm.etraps) - z = m + j /\ Last(cpp).traps + (- z) \in Nat
      /\ - z \in Int
  <2> DEFINE y == Last(cpp).traps
  <2> HIDE DEF k, m, y
  <2>1. k \in Nat /\ m \in Nat /\ y \in Nat /\ k <= y /\ z <= k /\ Len(vm.etraps) = m + k
    BY <1>1, <1>4 DEF y
  <2>2. j \in Nat /\ j \in 0 .. k /\ m + k - z = m + j /\ y + (- z) \in Nat /\ - z \in Int
    BY <1>5, <2>1
  <2> QED BY <2>1, <2>2 DEF y
<1> HIDE DEF j
<1>7. /\ f \in Frame /\ f.native = Ci(vm).native /\ f.gen = Ci(vm).gen /\ f.etraps = j
      /\ f.vargs = Ci(vm).vargs /\ f.root = Ci(vm).root /\ f.pbase = Ci(vm).pbase
      /\ f.ptop = Ci(vm).ptop /\ f.home = Ci(vm).home
  BY <1>3, <1>6 DEF Frame
<1>8. /\ ts \in Seq(Trap) /\ m + j \in 0 .. Len(vm.etraps)
      /\ SubSeq(vm.etraps, 1, m + j) = SubSeq(vm.etraps, 1, m) \o ts
      /\ Own(f, ts)
  <2> HIDE DEF f
  <2>1. j \in 0 .. vm.calls[n].etraps
    BY <1>3, <1>6
  <2>2. /\ ts \in Seq(Trap) /\ m + j \in 0 .. Len(vm.etraps)
        /\ SubSeq(vm.etraps, 1, m + j) = SubSeq(vm.etraps, 1, m) \o ts
        /\ \A q \in Frame : q.etraps = j /\ q.home = vm.calls[n].home => Own(q, ts)
    BY ZenonT(40), <1>4, <2>1, OwnTraps
  <2> QED BY <1>3, <1>7, <2>2
<1>9. /\ u \in VMRec /\ u.calls = Append(Front(vm.calls), f)
      /\ u.etraps = vm.etraps /\ u.nvargs = vm.nvargs
      /\ u.base = vm.base /\ u.top = vm.top /\ u.susp = vm.susp /\ u.gens = vm.gens
  <2> HIDE DEF f
  <2> QED BY <1>2, <1>3, <1>7, SetCiIs
<1>10. vm' = w /\ cpp' = [cpp EXCEPT ![Len(cpp)].traps = @ + (- z)]
  <2>1. vm' = [u EXCEPT !.etraps = SubSeq(@, 1, Len(@) - z)]
    BY DEF PopTrap, j
  <2>2. cpp' = [cpp EXCEPT ![Len(cpp)].traps = @ - z]
    BY DEF PopTrap
  <2>3. SubSeq(u.etraps, 1, Len(u.etraps) - z) = SubSeq(u.etraps, 1, m + j)
    <3> HIDE DEF u
    <3> QED BY <1>6, <1>9
  <2>4. vm' = w
    <3> HIDE DEF u, m
    <3> QED BY <2>1, <2>3
  <2>5. cpp[Len(cpp)] = Last(cpp)
    BY <1>1, <1>2, FrontIs
  <2>6. Last(cpp).traps - z = Last(cpp).traps + (- z)
    BY <1>4, <1>5
  <2>7. [cpp EXCEPT ![Len(cpp)].traps = @ - z] = [cpp EXCEPT ![Len(cpp)].traps = @ + (- z)]
    BY <2>5, <2>6
  <2> QED BY <2>2, <2>4, <2>7
<1> HIDE DEF ts, f
<1>11. /\ w \in VMRec /\ w.calls = u.calls /\ w.etraps = SubSeq(vm.etraps, 1, m) \o ts
       /\ w.nvargs = u.nvargs /\ w.base = u.base /\ w.top = u.top /\ w.susp = u.susp
       /\ w.gens = u.gens
  <2> DEFINE h == SubSeq(vm.etraps, 1, m + j)
  <2>1. h \in Seq(Trap) /\ h = SubSeq(vm.etraps, 1, m) \o ts
    BY <1>2, <1>8, PrefixIs
  <2>2. w = [u EXCEPT !.etraps = h]
    <3> HIDE DEF u, m
    <3> QED BY <1>9 DEF VMRec
  <2> HIDE DEF u, h, w
  <2>3. /\ w \in VMRec /\ w.calls = u.calls /\ w.etraps = h
        /\ w.nvargs = u.nvargs /\ w.base = u.base /\ w.top = u.top /\ w.susp = u.susp
        /\ w.gens = u.gens
    BY <1>9, <2>1, <2>2 DEF VMRec
  <2> QED BY <2>1, <2>3
<1>12. /\ x \in Activation /\ x.native = Last(cpp).native /\ x.by = Last(cpp).by
       /\ x.traps = Last(cpp).traps + (- z) /\ cpp' = Append(Front(cpp), x)
  BY <1>1, <1>2, <1>6, <1>10, SetTraps
<1> HIDE DEF w, u, x
<1>13. x.traps = Last(cpp).traps - Ci(vm).etraps + f.etraps
  <2> DEFINE y == Last(cpp).traps
  <2>1. x.traps = y + (- z) /\ y \in Nat /\ k \in Nat /\ f.etraps = k - z
    BY <1>4, <1>7, <1>12 DEF j
  <2> HIDE DEF k, y
  <2>2. x.traps = y - k + f.etraps
    BY <1>5, <2>1
  <2> QED BY <2>2 DEF k, y
<1>14. /\ w.calls = Append(Front(vm.calls), f)
       /\ w.etraps = SubSeq(vm.etraps, 1, T(vm.calls)[n - 1]) \o ts
       /\ w.nvargs = V(vm.calls)[n - 1] + f.vargs /\ w.base = vm.base
       /\ w.top >= w.base + FrameSize /\ w.susp = vm.susp /\ w.gens = vm.gens
  BY <1>3, <1>4, <1>7, <1>9, <1>11
<1>15. Good(w, Append(Front(cpp), x))
  BY <1>1, <1>7, <1>8, <1>11, <1>12, <1>13, <1>14, TouchTop
<1> QED BY <1>10, <1>12, <1>15

LEMMA EmptyIs ==
  ASSUME NEW X, NEW s \in Seq(X)
  PROVE  << >> \in Seq(X) /\ s \o << >> = s /\ SubSeq(s, 1, Len(s)) = s
<1>1. << >> \in Seq(X) /\ s \o << >> = s
  OBVIOUS
<1>2. Len(s) \in 0 .. Len(s)
  OBVIOUS
<1>3. SubSeq(s, 1, Len(s)) = s
  BY <1>2, PrefixIs
<1> QED BY <1>1, <1>3

LEMMA NoTraps ==
  ASSUME NEW f, f.etraps = 0
  PROVE  Own(f, << >>) /\ << >> \in Seq(Trap)
BY DEF Own

LEMMA TailCallGood ==
  ASSUME Good(vm, cpp), NEW extra \in Extra, TailCall(extra)
  PROVE  Good(vm', cpp')
<1> DEFINE n == Len(vm.calls)
           m == T(vm.calls)[n - 1]
           f == [Ci(vm) EXCEPT !.vargs = extra]
           u == SetCi(vm, f)
           a == vm.nvargs - Ci(vm).vargs + extra
           t == vm.base + FrameSize
           w == [u EXCEPT !.nvargs = a, !.top = t]
<1>1. cpp # << >> /\ ~ Last(cpp).native /\ Ci(vm).etraps = 0
  BY DEF TailCall, InScript
<1>2. /\ vm \in VMRec /\ vm.etraps \in Seq(Trap) /\ cpp \in Seq(Activation)
      /\ vm.base \in Nat /\ vm.top \in Nat
  BY GoodIs
<1>3. /\ Ci(vm) \in Frame /\ vm.base = Ci(vm).home /\ vm.calls # << >>
      /\ Last(cpp) \in Activation
  BY <1>1, ScriptRuns
<1>4. /\ n \in 1 .. Len(vm.calls) /\ m \in Nat /\ Len(vm.etraps) = m + Ci(vm).etraps
      /\ V(vm.calls)[n - 1] \in Nat /\ Ci(vm).vargs \in Nat
      /\ vm.nvargs = V(vm.calls)[n - 1] + Ci(vm).vargs
      /\ Last(cpp).traps \in Nat
  BY <1>1, TopTraps
<1>5. extra \in Nat
  BY VMAssumption
<1>6. /\ f \in Frame /\ f.native = Ci(vm).native /\ f.gen = Ci(vm).gen /\ f.etraps = 0
      /\ f.vargs = extra /\ f.root = Ci(vm).root /\ f.pbase = Ci(vm).pbase
      /\ f.ptop = Ci(vm).ptop /\ f.home = Ci(vm).home
  BY <1>1, <1>3, <1>5 DEF Frame
<1> HIDE DEF f
<1>7. a = V(vm.calls)[n - 1] + extra /\ a \in Nat /\ t \in Nat
  <2> DEFINE b == V(vm.calls)[n - 1]  k == Ci(vm).vargs
  <2>1. b \in Nat /\ k \in Nat /\ vm.nvargs = b + k
    BY <1>4
  <2> HIDE DEF b, k
  <2>2. vm.nvargs - k + extra = b + extra /\ b + extra \in Nat /\ t \in Nat
    BY <1>2, <1>5, <2>1 DEF FrameSize
  <2> QED BY <2>2 DEF b, k
<1>8. /\ u \in VMRec /\ u.calls = Append(Front(vm.calls), f)
      /\ u.etraps = vm.etraps /\ u.nvargs = vm.nvargs
      /\ u.base = vm.base /\ u.top = vm.top /\ u.susp = vm.susp /\ u.gens = vm.gens
  BY <1>2, <1>3, <1>6, SetCiIs
<1>9. vm' = w /\ cpp' = Append(Front(cpp), Last(cpp))
  <2>1. vm' = [u EXCEPT !.nvargs = @ - Ci(vm).vargs + extra, !.top = t]
    BY DEF TailCall, StartTailCall, f
  <2>2. vm' = w
    <3> HIDE DEF u
    <3> QED BY <1>8, <2>1
  <2>3. cpp' = cpp
    BY DEF TailCall
  <2>4. Append(Front(cpp), Last(cpp)) = cpp
    BY <1>1, <1>2, <1>3, FrontLast
  <2> QED BY <2>2, <2>3, <2>4
<1> HIDE DEF u, a, t
<1>10. /\ w \in VMRec /\ w.calls = u.calls /\ w.etraps = u.etraps
       /\ w.nvargs = a /\ w.base = u.base /\ w.top = t /\ w.susp = u.susp
       /\ w.gens = u.gens
  BY <1>7, <1>8 DEF VMRec
<1> HIDE DEF w
<1>11. w.etraps = SubSeq(vm.etraps, 1, T(vm.calls)[n - 1]) \o << >>
  <2>1. Len(vm.etraps) = m
    BY <1>1, <1>4
  <2>2. SubSeq(vm.etraps, 1, m) = vm.etraps /\ vm.etraps \o << >> = vm.etraps
    BY <1>2, <2>1, EmptyIs
  <2> QED BY <1>8, <1>10, <2>2
<1>12. Own(f, << >>) /\ << >> \in Seq(Trap)
  BY <1>6, NoTraps
<1>13. Last(cpp).traps = Last(cpp).traps - Ci(vm).etraps + f.etraps
  BY <1>1, <1>4, <1>6
<1>14. w.top >= w.base + FrameSize
  BY <1>2, <1>8, <1>10 DEF t, FrameSize
<1>15. Good(w, Append(Front(cpp), Last(cpp)))
  BY ZenonT(40), <1>1, <1>3, <1>6, <1>7, <1>8, <1>10, <1>11, <1>12, <1>13, <1>14, TouchTop
<1> QED BY <1>9, <1>15

LEMMA ThrowOpGood ==
  ASSUME Good(vm, cpp), ThrowOp
  PROVE  Good(vm', cpp')
<1>1. cpp # << >> /\ ~ Last(cpp).native /\ Throw(vm, Last(cpp), Front(cpp))
  BY DEF ThrowOp, InScript
<1> QED BY <1>1, ThrowGood

\* Where no function with extra arguments makes a bad tail call.
LEMMA BadTailCallGood ==
  ASSUME Allow = {}, Good(vm, cpp), BadTailCall
  PROVE  Good(vm', cpp')
<1> DEFINE w == [vm EXCEPT !.nvargs = @ - Ci(vm).vargs]
<1>1. cpp # << >> /\ ~ Last(cpp).native /\ Ci(vm).vargs = 0 /\ Throw(w, Last(cpp), Front(cpp))
  BY DEF BadTailCall, InScript
<1>2. vm \in VMRec /\ vm.nvargs \in Nat
  BY GoodIs
<1>3. vm.nvargs - Ci(vm).vargs = vm.nvargs
  BY <1>1, <1>2
<1>4. w = vm
  BY <1>2, <1>3 DEF VMRec
<1> HIDE DEF w
<1> QED BY <1>1, <1>4, ThrowGood

LEMMA CallScriptGood ==
  ASSUME NEW v, NEW c, Good(v, c), c # << >>, ~ Last(c).native, NEW extra \in Nat
  PROVE  Good(StartCall(v, v.base + 1, extra), c)
<1> DEFINE at == v.base + 1
           f == NewFrame(v, at, extra, FALSE)
           w == StartCall(v, at, extra)
<1>1. v \in VMRec /\ v.base \in Nat /\ v.top \in Nat /\ c \in Seq(Activation)
      /\ v.calls \in Seq(Frame) /\ v.etraps \in Seq(Trap) /\ Gens(v.calls, v.gens)
  BY GoodIs
<1>2. v.top >= v.base + FrameSize /\ Last(c) \in Activation
  BY ScriptRuns
<1>3. at \in Nat /\ v.base <= at /\ v.base <= v.top /\ v.top - v.base >= FrameSize
  BY <1>1, <1>2 DEF FrameSize
<1> HIDE DEF at
<1>4. /\ f \in Frame /\ ~ f.native /\ f.gen = NoGen /\ f.etraps = 0
      /\ f.vargs = extra /\ ~ f.root /\ f.home = at /\ f.home = v.base + f.pbase
      /\ f.ptop = v.top - v.base
  <2>1. v \in VMRec /\ at \in Nat /\ v.base <= at /\ v.base <= v.top /\ extra \in Nat
    BY <1>1, <1>3
  <2> QED BY ONLY ZenonT(40), <2>1, ScriptFrameIs
<1>5. /\ w \in VMRec /\ w.calls = Append(v.calls, f) /\ w.etraps = v.etraps
      /\ w.nvargs = v.nvargs + extra /\ w.base = at /\ w.top = at + FrameSize
      /\ w.susp = v.susp /\ w.gens = v.gens
  <2>1. v \in VMRec /\ at \in Nat /\ v.base <= at /\ v.base <= v.top /\ extra \in Nat
    BY <1>1, <1>3
  <2> QED BY ONLY ZenonT(40), <2>1, StartCallIs
<1> HIDE DEF f, w
<1>6. Gens(w.calls, w.gens)
  <2>1. Gens(Append(v.calls, f), v.gens)
    BY <1>1, <1>4, GensPush
  <2> QED BY <1>5, <2>1
<1>7. Own(f, << >>) /\ << >> \in Seq(Trap) /\ v.etraps \o << >> = v.etraps
  BY <1>1, <1>4, NoTraps, EmptyIs
<1>8. Last(c).traps = Last(c).traps + f.etraps
  <2>1. Last(c).traps \in Nat
    BY <1>2 DEF Activation
  <2> QED BY <1>4, <2>1
<1>9. ~ Marked(f) /\ f.ptop >= FrameSize /\ w.top >= w.base + FrameSize
  BY <1>3, <1>4, <1>5 DEF Marked, FrameSize
<1>10. w.etraps = v.etraps \o << >> /\ w.nvargs = v.nvargs + f.vargs
       /\ w.base = v.base + f.pbase
  BY <1>4, <1>5, <1>7
<1>11. Good(w, Append(Front(c), Last(c)))
  BY <1>2, <1>4, <1>5, <1>6, <1>7, <1>8, <1>9, <1>10, ScriptPush
<1>12. Append(Front(c), Last(c)) = c
  BY <1>1, <1>2, FrontLast
<1> QED BY <1>11, <1>12 DEF w, at

LEMMA CallNativeGood ==
  ASSUME Good(vm, cpp), CallNative
  PROVE  Good(vm', cpp')
<1> DEFINE at == vm.base + 1
           f == NewFrame(vm, at, 0, TRUE)
           w == StartNative(vm, at)
<1>1. cpp # << >> /\ ~ Last(cpp).native /\ vm' = w /\ cpp' = Append(cpp, Native)
  BY DEF CallNative, InScript
<1>2. vm \in VMRec /\ vm.base \in Nat /\ vm.top \in Nat /\ vm.base = P(vm.calls)[Len(vm.calls)]
      /\ vm.calls \in Seq(Frame) /\ vm.etraps \in Seq(Trap) /\ Gens(vm.calls, vm.gens)
      /\ vm.nvargs \in Nat
  BY GoodIs
<1>3. /\ vm.top >= vm.base + FrameSize /\ vm.calls # << >> /\ Last(vm.calls) = Ci(vm)
      /\ ~ Ci(vm).native
  BY <1>1, ScriptRuns
<1>4. at \in Nat /\ vm.base <= at /\ vm.base <= vm.top /\ vm.top - vm.base >= FrameSize
  BY <1>2, <1>3 DEF FrameSize
<1> HIDE DEF at
<1>5. /\ f \in Frame /\ f.native /\ f.gen = NoGen /\ f.etraps = 0
      /\ f.vargs = 0 /\ ~ f.root /\ f.home = at /\ f.home = vm.base + f.pbase
      /\ f.ptop = vm.top - vm.base
  BY <1>2, <1>4, NativeFrameIs
<1>6. /\ w \in VMRec /\ w.calls = Append(vm.calls, f) /\ w.etraps = vm.etraps
      /\ w.nvargs = vm.nvargs /\ w.base = at /\ w.top = at + 1
      /\ w.susp = vm.susp /\ w.gens = vm.gens
  BY <1>2, <1>4, StartNativeIs
<1> HIDE DEF f, w
<1>7. Gens(w.calls, w.gens)
  <2>1. Gens(Append(vm.calls, f), vm.gens)
    BY <1>2, <1>5, GensPush
  <2> QED BY <1>6, <2>1
<1>8. Own(f, << >>) /\ << >> \in Seq(Trap) /\ vm.etraps \o << >> = vm.etraps
  BY <1>2, <1>5, NoTraps, EmptyIs
<1>9. Marked(f) /\ w.top >= w.base + SizeOf(f)
  BY <1>4, <1>5, <1>6 DEF Marked, SizeOf
<1>10. Callable(vm.calls, f)
  <2>1. SizeOf(Last(vm.calls)) = FrameSize
    BY <1>3 DEF SizeOf
  <2>2. f.ptop >= FrameSize + 0
    BY <1>4, <1>5 DEF FrameSize
  <2> QED BY <1>2, <1>3, <1>5, <2>1, <2>2 DEF Callable
<1>11. /\ w.etraps = vm.etraps \o << >> /\ w.nvargs = vm.nvargs + f.vargs
       /\ w.base = vm.base + f.pbase
  <2>1. vm.nvargs + 0 = vm.nvargs
    BY <1>2
  <2> QED BY <1>5, <1>6, <1>8, <2>1
<1>12. Native \in Activation /\ Native.native = f.native /\ Native.traps = f.etraps /\ Native.native
  BY <1>5 DEF Native, Activation
<1>13. Good(w, Append(cpp, Native))
  BY <1>1, <1>5, <1>6, <1>7, <1>8, <1>9, <1>10, <1>11, <1>12, MarkPush
<1> QED BY <1>1, <1>13

-----------------------------------------------------------------------------
\* Generators.

\* A generator function leaves the VM as it was, but for the generator.
LEMMA GenerateIs ==
  ASSUME NEW v, NEW c, Good(v, c), NEW at \in Nat, v.base <= at, NEW extra \in Nat,
         NEW g \in Gen
  PROVE  LET w == PopFrame(Yield(StartCall(v, at, extra), g))
         IN  /\ w \in VMRec /\ w.calls = v.calls /\ w.etraps = v.etraps
             /\ w.nvargs = v.nvargs /\ w.base = v.base /\ w.top = v.top /\ w.susp = v.susp
             /\ \E s \in GenRec : /\ s.state = "suspended" /\ Resumable(s)
                                  /\ w.gens = [v.gens EXCEPT ![g] = s]
<1> DEFINE n == Len(v.calls)
           f == NewFrame(v, at, extra, FALSE)
           more == Append(v.calls, f)
           a == StartCall(v, at, extra)
           s == Saved(a)
           y == Yield(a, g)
           w == PopFrame(y)
<1>1. /\ v \in VMRec /\ v.calls \in Seq(Frame) /\ v.etraps \in Seq(Trap)
      /\ v.nvargs \in Nat /\ v.base \in Nat /\ v.top \in Nat /\ v.base <= v.top
      /\ v.nvargs = V(v.calls)[n] /\ v.base = P(v.calls)[n]
  BY GoodIs
<1>2. /\ f \in Frame /\ ~ f.native /\ f.gen = NoGen /\ f.etraps = 0
      /\ f.vargs = extra /\ ~ f.root /\ f.home = at /\ f.home = v.base + f.pbase
      /\ f.ptop = v.top - v.base
  <2>1. v \in VMRec /\ at \in Nat /\ v.base <= at /\ v.base <= v.top /\ extra \in Nat
    BY <1>1
  <2> QED BY ONLY ZenonT(40), <2>1, ScriptFrameIs
<1>3. /\ a \in VMRec /\ a.calls = more /\ a.etraps = v.etraps
      /\ a.nvargs = v.nvargs + extra /\ a.base = at /\ a.top = at + FrameSize
      /\ a.susp = v.susp /\ a.gens = v.gens
  <2>1. v \in VMRec /\ at \in Nat /\ v.base <= at /\ v.base <= v.top /\ extra \in Nat
    BY <1>1
  <2> QED BY ONLY ZenonT(40), <2>1, StartCallIs
<1> HIDE DEF f
<1>4. /\ more \in Seq(Frame) /\ more # << >> /\ Len(more) = n + 1 /\ more[n + 1] = f
      /\ Last(more) = f /\ Front(more) = v.calls /\ \A i \in 1 .. n : more[i] = v.calls[i]
  <2>1. v.calls \in Seq(Frame) /\ f \in Frame
    BY <1>1, <1>2
  <2> QED BY ONLY <2>1, AppendIs
<1> HIDE DEF more, a
<1>5. Ci(a) = f /\ a.calls # << >>
  BY <1>3, <1>4 DEF Ci
<1>6. s \in GenRec /\ s.state = "suspended" /\ Resumable(s)
  <2>1. Len(a.etraps) \in Nat
    BY <1>1, <1>3
  <2>2. Ci(a).etraps <= Len(a.etraps) /\ a.base + FrameSize <= a.top
    BY <1>2, <1>3, <1>5, <2>1 DEF FrameSize
  <2>3. \A j \in 1 .. Ci(a).etraps :
            LET e == a.etraps[Len(a.etraps) - Ci(a).etraps + j]
            IN  e.nth = j /\ e.top >= e.base + FrameSize
    BY <1>2, <1>5
  <2>4. ~ Ci(a).native
    BY <1>2, <1>5
  <2> HIDE DEF y, w
  <2> QED BY <1>3, <1>5, <2>2, <2>3, <2>4, SavedIs
<1>7. /\ y \in VMRec /\ y.calls = more /\ y.etraps = v.etraps
      /\ y.nvargs = v.nvargs + extra /\ y.base = at /\ y.susp = v.susp
      /\ y.gens = [v.gens EXCEPT ![g] = s]
  <2>1. Len(a.etraps) \in Nat /\ Len(a.etraps) - 0 = Len(a.etraps)
    BY <1>1, <1>3
  <2>2. Ci(a).etraps = 0
    BY <1>2, <1>5
  <2>3. /\ y \in VMRec /\ y.calls = a.calls
        /\ y.etraps = SubSeq(a.etraps, 1, Len(a.etraps) - Ci(a).etraps)
        /\ y.nvargs = a.nvargs /\ y.base = a.base /\ y.susp = a.susp
        /\ y.gens = [a.gens EXCEPT ![g] = s]
    <3>1. Ci(a).etraps <= Len(a.etraps)
      BY <2>1, <2>2
    <3>2. a \in VMRec /\ Saved(a) \in GenRec /\ a.calls # << >> /\ g \in Gen
      BY <1>3, <1>5, <1>6
    <3> QED BY ONLY <3>1, <3>2, YieldIs
  <2>4. SubSeq(a.etraps, 1, Len(a.etraps)) = a.etraps
    BY <1>1, <1>3, EmptyIs
  <2> HIDE DEF y, s
  <2> QED BY <1>3, <2>1, <2>2, <2>3, <2>4
<1>8. /\ V(more)[n + 1] = v.nvargs + extra /\ P(more)[n + 1] = at
      /\ V(more)[n] = v.nvargs /\ P(more)[n] = v.base
  <2>1. n \in Nat /\ n <= Len(v.calls) /\ n <= Len(more) /\ n \in 0 .. n
        /\ n + 1 \in 1 .. Len(more) /\ n + 1 - 1 = n
    BY <1>1, <1>4
  <2> HIDE DEF n
  <2>2. \A i \in 0 .. n : V(v.calls)[i] = V(more)[i] /\ P(v.calls)[i] = P(more)[i]
    <3>1. v.calls \in Seq(Frame) /\ more \in Seq(Frame) /\ n \in Nat
          /\ n <= Len(v.calls) /\ n <= Len(more) /\ \A i \in 1 .. n : v.calls[i] = more[i]
      BY <1>1, <1>4, <2>1
    <3> QED BY ONLY <3>1, CallsAgree
  <2>3. V(more)[n] = v.nvargs /\ P(more)[n] = v.base
    BY <1>1, <2>1, <2>2
  <2>4. \A i \in 1 .. Len(more) : /\ V(more)[i] = V(more)[i - 1] + more[i].vargs
                                  /\ P(more)[i] = P(more)[i - 1] + more[i].pbase
    BY <1>4, CallSums
  <2>5. /\ V(more)[n + 1] = V(more)[n + 1 - 1] + more[n + 1].vargs
        /\ P(more)[n + 1] = P(more)[n + 1 - 1] + more[n + 1].pbase
    BY <2>1, <2>4
  <2> QED BY <1>2, <1>4, <2>1, <2>3, <2>5
<1>9. /\ w \in VMRec /\ w.calls = SubSeq(more, 1, n) /\ w.etraps = v.etraps
      /\ w.nvargs = V(more)[n] /\ w.base = P(more)[n] /\ w.top = P(more)[n] + f.ptop
      /\ w.susp = v.susp /\ w.gens = y.gens
  <2>1. n \in Nat
    BY <1>1
  <2>2. y.calls # << >> /\ Len(y.calls) = n + 1 /\ Ci(y) = f
    BY <1>4, <1>7 DEF Ci
  <2>3. y.nvargs = V(y.calls)[Len(y.calls)] /\ y.base = P(y.calls)[Len(y.calls)]
    BY <1>7, <1>8, <2>2
  <2> HIDE DEF y, n
  <2>4. /\ w \in VMRec /\ w.calls = SubSeq(y.calls, 1, Len(y.calls) - 1)
        /\ w.etraps = y.etraps /\ w.nvargs = V(y.calls)[Len(y.calls) - 1]
        /\ w.base = P(y.calls)[Len(y.calls) - 1]
        /\ w.top = P(y.calls)[Len(y.calls) - 1] + Ci(y).ptop
        /\ w.susp = y.susp /\ w.gens = y.gens
    BY <1>7, <2>2, <2>3, PopFrameIs
  <2>5. Len(y.calls) - 1 = n
    BY <2>1, <2>2
  <2> HIDE DEF w
  <2> QED BY <1>7, <2>2, <2>4, <2>5
<1>10. SubSeq(more, 1, n) = v.calls
  <2>1. Front(more) = SubSeq(more, 1, Len(more) - 1)
    BY <1>4, FrontIs
  <2>2. n + 1 - 1 = n
    BY <1>1
  <2> QED BY <1>4, <2>1, <2>2
<1>11. v.base + f.ptop = v.top
  BY <1>1, <1>2
<1> HIDE DEF w, y, s
<1>12. /\ w \in VMRec /\ w.calls = v.calls /\ w.etraps = v.etraps
       /\ w.nvargs = v.nvargs /\ w.base = v.base /\ w.top = v.top /\ w.susp = v.susp
       /\ \E q \in GenRec : /\ q.state = "suspended" /\ Resumable(q)
                            /\ w.gens = [v.gens EXCEPT ![g] = q]
  BY <1>6, <1>7, <1>8, <1>9, <1>10, <1>11
<1> QED BY <1>12 DEF w, y, a

LEMMA GenerateGood ==
  ASSUME NEW v, NEW c, Good(v, c), NEW at \in Nat, v.base <= at, NEW extra \in Nat,
         NEW g \in Gen, v.gens[g].state # "running"
  PROVE  LET w == PopFrame(Yield(StartCall(v, at, extra), g))
         IN  /\ Good(w, c) /\ w.calls = v.calls /\ w.base = v.base /\ w.top = v.top
<1> DEFINE w == PopFrame(Yield(StartCall(v, at, extra), g))
<1>1. /\ w \in VMRec /\ w.calls = v.calls /\ w.etraps = v.etraps
      /\ w.nvargs = v.nvargs /\ w.base = v.base /\ w.top = v.top /\ w.susp = v.susp
      /\ \E s \in GenRec : /\ s.state = "suspended" /\ Resumable(s)
                           /\ w.gens = [v.gens EXCEPT ![g] = s]
  BY GenerateIs
<1> HIDE DEF w
<1>2. PICK s \in GenRec : /\ s.state = "suspended" /\ Resumable(s)
                          /\ w.gens = [v.gens EXCEPT ![g] = s]
  BY <1>1
<1>3. v.calls \in Seq(Frame) /\ Gens(v.calls, v.gens)
  BY GoodIs
<1>4. Gens(v.calls, [v.gens EXCEPT ![g] = s])
  BY <1>2, <1>3, GensSave
<1>5. Good(w, c)
  BY <1>1, <1>2, <1>4 DEF Good
<1> QED BY <1>1, <1>5 DEF w

LEMMA CallGeneratorGood ==
  ASSUME Good(vm, cpp), NEW g \in Gen, NEW extra \in Extra, CallGenerator(g, extra)
  PROVE  Good(vm', cpp')
<1> DEFINE at == vm.base + 1
<1>1. vm' = PopFrame(Yield(StartCall(vm, at, extra), g)) /\ cpp' = cpp
      /\ vm.gens[g].state \in {"none", "dead"}
  BY DEF CallGenerator, Generate
<1>2. vm.base \in Nat
  BY GoodIs
<1>3. at \in Nat /\ vm.base <= at /\ extra \in Nat /\ vm.gens[g].state # "running"
  BY <1>1, <1>2, VMAssumption
<1> HIDE DEF at
<1>4. Good(PopFrame(Yield(StartCall(vm, at, extra), g)), cpp)
  BY <1>3, GenerateGood
<1> QED BY <1>1, <1>4

LEMMA PushedGood ==
  ASSUME NEW v, NEW c, Good(v, c)
  PROVE  LET w == [v EXCEPT !.top = @ + 1]
         IN  /\ Good(w, c) /\ w.calls = v.calls /\ w.etraps = v.etraps /\ w.nvargs = v.nvargs
             /\ w.base = v.base /\ w.top = v.top + 1 /\ w.susp = v.susp /\ w.gens = v.gens
             /\ w.top >= w.base + (IF w.calls = << >> THEN 0 ELSE SizeOf(Last(w.calls))) + 1
<1> DEFINE w == [v EXCEPT !.top = @ + 1]
           z == IF v.calls = << >> THEN 0 ELSE SizeOf(Last(v.calls))
<1>1. /\ v \in VMRec /\ v.top \in Nat /\ v.base \in Nat /\ v.base = P(v.calls)[Len(v.calls)]
      /\ v.top >= v.base + z
  BY GoodIs
<1>2. /\ w \in VMRec /\ w.calls = v.calls /\ w.etraps = v.etraps /\ w.nvargs = v.nvargs
      /\ w.base = v.base /\ w.top = v.top + 1 /\ w.susp = v.susp /\ w.gens = v.gens
  BY <1>1, PushedIs
<1> HIDE DEF w
<1>3. z \in Nat
  BY DEF SizeOf, FrameSize
<1> HIDE DEF z
<1>4. w.top >= w.base + z + 1 /\ w.top >= w.base + z
  BY <1>1, <1>2, <1>3
<1>5. At(w.calls, w.base, w.top)
  BY <1>1, <1>2, <1>4 DEF At, z
<1>6. Good(w, c)
  BY <1>2, <1>5 DEF Good
<1> QED BY <1>2, <1>4, <1>6 DEF w, z

LEMMA CallGenerateGood ==
  ASSUME Good(vm, cpp), NEW g \in Gen, NEW extra \in Extra, CallGenerate(g, extra)
  PROVE  Good(vm', cpp')
<1> DEFINE v == Pushed
           w == PopFrame(Yield(StartCall(v, vm.top, extra), g))
<1>1. vm' = Epilogue(w, "call", TRUE) /\ cpp' = cpp /\ vm.gens[g].state \in {"none", "dead"}
  BY DEF CallGenerate
<1>2. vm.base \in Nat /\ vm.top \in Nat /\ vm.base <= vm.top
  BY GoodIs
<1>3. /\ Good(v, cpp) /\ v.base = vm.base /\ v.gens = vm.gens
      /\ v.top >= v.base + (IF v.calls = << >> THEN 0 ELSE SizeOf(Last(v.calls))) + 1
  BY PushedGood DEF Pushed
<1> HIDE DEF v
<1>4. extra \in Nat /\ v.gens[g].state # "running"
  BY <1>1, <1>3, VMAssumption
<1>5. Good(w, cpp) /\ w.calls = v.calls /\ w.base = v.base /\ w.top = v.top
  BY <1>2, <1>3, <1>4, GenerateGood
<1> HIDE DEF w
<1>6. Good(Epilogue(w, "call", TRUE), cpp)
  BY <1>3, <1>5, EpilogueGood
<1> QED BY <1>1, <1>6

\* The host calls a script function, on a stack where it has pushed an argument.
LEMMA CallGood ==
  ASSUME Good(vm, cpp), NEW extra \in Nat, Call(extra)
  PROVE  Good(vm', cpp')
<1> DEFINE v == Pushed
           at == vm.top
           h == NewFrame(v, at, extra, FALSE)
           f == [h EXCEPT !.root = TRUE]
           a == StartCall(v, at, extra)
           w == RootCi(a)
           x == Execute(0, "call")
           z == IF v.calls = << >> THEN 0 ELSE SizeOf(Last(v.calls))
<1>1. vm' = w /\ cpp' = Append(cpp, x)
  BY DEF Call
<1>2. vm.base \in Nat /\ vm.top \in Nat /\ vm.base <= vm.top
  BY GoodIs
<1>3. /\ Good(v, cpp) /\ v.base = vm.base /\ v.top = vm.top + 1 /\ v.top >= v.base + z + 1
  BY PushedGood DEF Pushed
<1> HIDE DEF v
<1>4. /\ v \in VMRec /\ v.calls \in Seq(Frame) /\ v.etraps \in Seq(Trap)
      /\ v.nvargs \in Nat /\ v.base \in Nat /\ v.top \in Nat
      /\ v.base = P(v.calls)[Len(v.calls)] /\ Gens(v.calls, v.gens)
  BY <1>3, GoodIs
<1>5. at \in Nat /\ v.base <= at /\ v.base <= v.top /\ extra \in Nat
  BY <1>2, <1>3
<1>6. z \in Nat
  BY DEF SizeOf, FrameSize
<1> HIDE DEF z, at
<1>7. /\ h \in Frame /\ ~ h.native /\ h.gen = NoGen /\ h.etraps = 0
      /\ h.vargs = extra /\ ~ h.root /\ h.home = at /\ h.home = v.base + h.pbase
      /\ h.ptop = v.top - v.base
  <2>1. v \in VMRec /\ at \in Nat /\ v.base <= at /\ v.base <= v.top /\ extra \in Nat
    BY <1>4, <1>5
  <2> QED BY ONLY ZenonT(40), <2>1, ScriptFrameIs
<1>8. /\ a \in VMRec /\ a.calls = Append(v.calls, h) /\ a.etraps = v.etraps
      /\ a.nvargs = v.nvargs + extra /\ a.base = at /\ a.top = at + FrameSize
      /\ a.susp = v.susp /\ a.gens = v.gens
  <2>1. v \in VMRec /\ at \in Nat /\ v.base <= at /\ v.base <= v.top /\ extra \in Nat
    BY <1>4, <1>5
  <2> QED BY ONLY ZenonT(40), <2>1, StartCallIs
<1> HIDE DEF h, a
<1>9. /\ w \in VMRec /\ w.calls = Append(v.calls, f) /\ w.etraps = v.etraps
      /\ w.nvargs = v.nvargs + extra /\ w.base = at /\ w.top = at + FrameSize
      /\ w.susp = v.susp /\ w.gens = v.gens
  BY <1>4, <1>7, <1>8, RootCiIs
<1>10. /\ f \in Frame /\ f.native = h.native /\ f.gen = NoGen /\ f.etraps = 0
       /\ f.vargs = extra /\ f.root /\ f.home = at /\ f.pbase = h.pbase
       /\ f.ptop = h.ptop
  BY <1>7 DEF Frame
<1> HIDE DEF f, w
<1>11. Gens(w.calls, w.gens)
  <2>1. Gens(Append(v.calls, f), v.gens)
    BY <1>4, <1>10, GensPush
  <2> QED BY <1>9, <2>1
<1>12. Own(f, << >>) /\ << >> \in Seq(Trap) /\ v.etraps \o << >> = v.etraps
  BY <1>4, <1>10, NoTraps, EmptyIs
<1>13. Marked(f) /\ ~ f.native /\ w.top >= w.base + SizeOf(f)
  BY <1>5, <1>7, <1>9, <1>10 DEF Marked, SizeOf, FrameSize
<1>14. f.ptop >= z + 1
  BY <1>3, <1>4, <1>6, <1>7, <1>10
<1>15. Callable(v.calls, f)
  BY <1>4, <1>7, <1>10, <1>13, <1>14 DEF Callable, z
<1>16. w.nvargs = v.nvargs + f.vargs /\ w.base = v.base + f.pbase
       /\ w.etraps = v.etraps \o << >>
  BY <1>7, <1>9, <1>10, <1>12
<1>17. x \in Activation /\ x.native = f.native /\ x.traps = f.etraps /\ x.by # "script"
       /\ ~ x.native
  BY <1>10, <1>13 DEF Execute, Activation, Frame
<1> HIDE DEF x
<1>18. Good(w, Append(cpp, x))
  BY <1>3, <1>9, <1>10, <1>11, <1>12, <1>13, <1>15, <1>16, <1>17, MarkPush
<1> QED BY <1>1, <1>18

\* The traps of a generator come back where they were.
LEMMA ResumedOwn ==
  ASSUME NEW v \in VMRec, NEW g \in Gen, v.base <= v.top, Resumable(v.gens[g]), TrapsFit(v, g)
  PROVE  LET ts == Reverse(v.gens[g].traps)
             f == Resumed(v, g)
         IN  /\ ts \in Seq(Trap) /\ f \in Frame /\ ~ f.native /\ Own(f, ts)
             /\ v.gens[g].size >= FrameSize /\ v.gens[g].size \in Nat
<1> DEFINE s == v.gens[g]
           q == s.traps
           l == Len(q)
           ts == Reverse(q)
           f == Resumed(v, g)
<1>1. /\ f \in Frame /\ f.native = s.ci.native /\ f.etraps = s.ci.etraps
      /\ f.home = v.top /\ s \in GenRec
  BY ResumedIs
<1>2. q \in Seq(Trap) /\ s.size \in Nat
  BY <1>1 DEF GenRec
<1>3. /\ ~ s.ci.native /\ s.size >= FrameSize /\ s.ci.etraps = l
      /\ \A k \in 1 .. l : /\ q[k].nth = l - k + 1
                           /\ q[k].top >= q[k].base + FrameSize
  BY DEF Resumable
<1>4. \A k \in 1 .. l : q[k].base = v.top
  <2>1. \A e \in Range(q) : e.base = v.top
    BY DEF TrapsFit
  <2>2. DOMAIN q = 1 .. l
    BY <1>2
  <2> QED BY <2>1, <2>2 DEF Range
<1> HIDE DEF q, f, s
<1>5. ts \in Seq(Trap) /\ Len(ts) = l /\ \A i \in 1 .. l : ts[i] = q[l - i + 1]
  BY <1>2, ReverseIs
<1>6. l \in Nat
  BY <1>2
<1> HIDE DEF l, ts
<1>7. ASSUME NEW i \in 1 .. l
      PROVE  ts[i].nth = i /\ ts[i].base = v.top /\ ts[i].top >= v.top + FrameSize
  <2> DEFINE k == l - i + 1
  <2>1. k \in 1 .. l /\ l - k + 1 = i /\ ts[i] = q[k]
    BY <1>5, <1>6
  <2> HIDE DEF k
  <2> QED BY <1>3, <1>4, <2>1
<1>8. Own(f, ts)
  BY <1>1, <1>3, <1>5, <1>7 DEF Own
<1> QED BY <1>1, <1>2, <1>3, <1>5, <1>8 DEF ts, f, q, s

\* A script resumes a generator.
LEMMA ResumeGood ==
  ASSUME NEW v, NEW c, Good(v, c), c # << >>, ~ Last(c).native, NEW g \in Gen,
         v.gens[g].state = "suspended", ~ v.gens[g].ci.root, TrapsFit(v, g),
         NEW x \in Activation, x.native = Last(c).native, x.by = Last(c).by,
         x.traps = Last(c).traps + v.gens[g].ci.etraps
  PROVE  Good(Resume(v, g), Append(Front(c), x))
<1> DEFINE s == v.gens[g]
           ts == Reverse(s.traps)
           f == Resumed(v, g)
           w == Resume(v, g)
<1>1. /\ v \in VMRec /\ v.calls \in Seq(Frame) /\ Gens(v.calls, v.gens)
      /\ v.base \in Nat /\ v.top \in Nat /\ v.base <= v.top
  BY GoodIs
<1>2. v.top >= v.base + FrameSize
  BY ScriptRuns
<1>3. Resumable(s)
  BY <1>1 DEF Gens
<1>4. /\ ts \in Seq(Trap) /\ f \in Frame /\ ~ f.native /\ Own(f, ts)
      /\ s.size >= FrameSize /\ s.size \in Nat
  BY <1>1, <1>3, ResumedOwn
<1>5. /\ f.gen = g /\ f.etraps = s.ci.etraps /\ f.vargs = s.vargs /\ f.root = s.ci.root
      /\ f.home = v.base + f.pbase /\ f.home = v.top /\ f.ptop = v.top - v.base
      /\ Running(s) \in GenRec /\ Running(s).state = "running"
  BY <1>1, ResumedIs
<1>6. /\ w \in VMRec /\ w.calls = Append(v.calls, f) /\ w.etraps = v.etraps \o ts
      /\ w.nvargs = v.nvargs + s.vargs /\ w.base = v.top /\ w.top = v.top + s.size
      /\ w.susp = v.susp /\ w.gens = [v.gens EXCEPT ![g] = Running(s)]
  BY <1>1, ResumeIs
<1>7. Gens(Append(v.calls, f), [v.gens EXCEPT ![g] = Running(s)])
  <2> DEFINE r == Running(s)
  <2>1. r \in GenRec /\ r.state = "running" /\ f \in Frame /\ f.gen = g /\ v.gens[g].state # "running"
    BY <1>4, <1>5
  <2> HIDE DEF f, r
  <2>2. Gens(Append(v.calls, f), [v.gens EXCEPT ![g] = r])
    BY <1>1, <2>1, GensResume
  <2> QED BY <2>2 DEF r
<1>8. ~ s.ci.root
  OBVIOUS
<1> HIDE DEF s, ts, f, w
<1>9. Gens(w.calls, w.gens)
  BY <1>6, <1>7
<1>10. ~ Marked(f) /\ f.ptop >= FrameSize /\ w.top >= w.base + FrameSize
  BY SMTT(30), <1>1, <1>2, <1>4, <1>5, <1>6, <1>8 DEF Marked, FrameSize
<1>11. w.nvargs = v.nvargs + f.vargs /\ w.base = v.base + f.pbase
       /\ x.traps = Last(c).traps + f.etraps
  BY <1>5, <1>6 DEF s
<1>12. Good(w, Append(Front(c), x))
  <2>1. Good(v, c) /\ c # << >> /\ ~ Last(c).native
    OBVIOUS
  <2>2. /\ f \in Frame /\ ~ Marked(f) /\ f.home = v.base + f.pbase /\ f.ptop >= FrameSize
        /\ ts \in Seq(Trap) /\ Own(f, ts)
    BY <1>4, <1>5, <1>10
  <2>3. /\ w \in VMRec /\ w.calls = Append(v.calls, f) /\ w.etraps = v.etraps \o ts
        /\ w.nvargs = v.nvargs + f.vargs /\ w.base = v.base + f.pbase
        /\ w.top >= w.base + FrameSize /\ w.susp = v.susp /\ Gens(w.calls, w.gens)
    BY <1>6, <1>9, <1>10, <1>11
  <2>4. /\ x \in Activation /\ x.native = Last(c).native /\ x.by = Last(c).by
        /\ x.traps = Last(c).traps + f.etraps
    BY <1>11
  <2> QED BY ONLY <2>1, <2>2, <2>3, <2>4, ScriptPush
<1> QED BY <1>12 DEF w

LEMMA ResumeOpGood ==
  ASSUME Allow = {}, Good(vm, cpp), NEW g \in Gen, ResumeOp(g)
  PROVE  Good(vm', cpp')
<1> DEFINE k == vm.gens[g].ci.etraps
           x == [Last(cpp) EXCEPT !.traps = @ + k]
<1>1. /\ cpp # << >> /\ ~ Last(cpp).native /\ vm.gens[g].state = "suspended"
      /\ ~ vm.gens[g].ci.root /\ TrapsFit(vm, g)
      /\ vm' = Resume(vm, g) /\ cpp' = [cpp EXCEPT ![Len(cpp)].traps = @ + k]
  BY DEF ResumeOp, InScript
<1>2. cpp \in Seq(Activation) /\ vm.gens \in [Gen -> GenRec]
  BY GoodIs
<1>3. k \in Nat
  BY <1>2 DEF GenRec, Frame
<1>4. Last(cpp).traps \in Nat
  BY <1>1, TopTraps
<1>5. k \in Int /\ Last(cpp).traps + k \in Nat
  BY <1>3, <1>4
<1> HIDE DEF k
<1>6. /\ x \in Activation /\ x.native = Last(cpp).native /\ x.by = Last(cpp).by
      /\ x.traps = Last(cpp).traps + k /\ cpp' = Append(Front(cpp), x)
  BY <1>1, <1>2, <1>5, SetTraps
<1> HIDE DEF x
<1>7. x.traps = Last(cpp).traps + vm.gens[g].ci.etraps
  BY <1>6 DEF k
<1>8. Good(Resume(vm, g), Append(Front(cpp), x))
  BY <1>1, <1>6, <1>7, ResumeGood
<1> QED BY <1>1, <1>6, <1>8

LEMMA ForeachGood ==
  ASSUME Allow = {}, Good(vm, cpp), NEW g \in Gen, Foreach(g)
  PROVE  Good(vm', cpp')
<1>1. /\ cpp # << >> /\ ~ Last(cpp).native /\ vm.gens[g].state = "suspended"
      /\ ~ vm.gens[g].ci.root /\ TrapsFit(vm, g) /\ vm.gens[g].traps = << >>
      /\ vm' = Resume(vm, g) /\ cpp' = cpp
  BY DEF Foreach, InScript
<1>2. cpp \in Seq(Activation) /\ Gens(vm.calls, vm.gens)
  BY GoodIs
<1>3. vm.gens[g].ci.etraps = 0
  <2>1. vm.gens[g].ci.etraps = Len(vm.gens[g].traps)
    BY <1>1, <1>2 DEF Gens, Resumable
  <2> QED BY <1>1, <2>1
<1>4. Last(cpp) \in Activation /\ Last(cpp).traps \in Nat
  BY <1>1, ScriptRuns, TopTraps
<1>5. Last(cpp).traps = Last(cpp).traps + vm.gens[g].ci.etraps
  BY <1>3, <1>4
<1>6. Good(Resume(vm, g), Append(Front(cpp), Last(cpp)))
  BY <1>1, <1>4, <1>5, ResumeGood
<1>7. Append(Front(cpp), Last(cpp)) = cpp
  BY <1>1, <1>2, <1>4, FrontLast
<1> QED BY <1>1, <1>6, <1>7

\* The host resumes a suspended generator, on a stack where it has pushed it.
LEMMA SqResumeGood ==
  ASSUME Allow = {}, Good(vm, cpp), NEW g \in Gen, SqResume(g)
  PROVE  Good(vm', cpp')
<1> DEFINE v == Pushed
           s == v.gens[g]
           ts == Reverse(s.traps)
           h == Resumed(v, g)
           f == [h EXCEPT !.root = TRUE]
           a == Resume(v, g)
           w == RootCi(a)
           x == Execute(s.ci.etraps, "resume")
           z == IF v.calls = << >> THEN 0 ELSE SizeOf(Last(v.calls))
<1>1. /\ Good(v, cpp) /\ v.base = vm.base /\ v.top = vm.top + 1 /\ v.top >= v.base + z + 1
      /\ v.gens = vm.gens
  BY PushedGood DEF Pushed
<1>2. /\ vm.gens[g].state = "suspended" /\ TrapsFit(v, g) /\ vm' = w
      /\ cpp' = Append(cpp, Execute(vm.gens[g].ci.etraps, "resume"))
  BY DEF SqResume
<1> HIDE DEF v
<1>3. s.state = "suspended" /\ cpp' = Append(cpp, x)
  BY <1>1, <1>2
<1>4. /\ v \in VMRec /\ v.calls \in Seq(Frame) /\ v.etraps \in Seq(Trap)
      /\ v.nvargs \in Nat /\ v.base \in Nat /\ v.top \in Nat /\ v.base <= v.top
      /\ v.base = P(v.calls)[Len(v.calls)] /\ Gens(v.calls, v.gens)
  BY <1>1, GoodIs
<1>5. Resumable(s)
  BY <1>3, <1>4 DEF Gens
<1>6. /\ ts \in Seq(Trap) /\ h \in Frame /\ ~ h.native /\ Own(h, ts)
      /\ s.size >= FrameSize /\ s.size \in Nat
  BY <1>2, <1>4, <1>5, ResumedOwn
<1>7. /\ h.gen = g /\ h.etraps = s.ci.etraps /\ h.vargs = s.vargs
      /\ h.home = v.base + h.pbase /\ h.home = v.top /\ h.ptop = v.top - v.base
      /\ Running(s) \in GenRec /\ Running(s).state = "running"
  BY <1>4, ResumedIs
<1>8. /\ a \in VMRec /\ a.calls = Append(v.calls, h) /\ a.etraps = v.etraps \o ts
      /\ a.nvargs = v.nvargs + s.vargs /\ a.base = v.top /\ a.top = v.top + s.size
      /\ a.susp = v.susp /\ a.gens = [v.gens EXCEPT ![g] = Running(s)]
  BY <1>4, ResumeIs
<1>9. z \in Nat
  BY DEF SizeOf, FrameSize
<1> HIDE DEF z, h, a, ts
<1>10. /\ w \in VMRec /\ w.calls = Append(v.calls, f) /\ w.etraps = v.etraps \o ts
       /\ w.nvargs = v.nvargs + s.vargs /\ w.base = v.top /\ w.top = v.top + s.size
       /\ w.susp = v.susp /\ w.gens = [v.gens EXCEPT ![g] = Running(s)]
  <2> HIDE DEF s
  <2> QED BY ZenonT(40), <1>4, <1>6, <1>8, RootCiIs
<1>11. /\ f \in Frame /\ ~ f.native /\ f.gen = g /\ f.etraps = s.ci.etraps
       /\ f.vargs = s.vargs /\ f.root /\ f.home = v.top /\ f.pbase = h.pbase
       /\ f.ptop = h.ptop
  <2> HIDE DEF s
  <2> QED BY <1>6, <1>7 DEF Frame
<1> HIDE DEF f, w
<1>12. Gens(w.calls, w.gens)
  <2> DEFINE r == Running(s)
  <2>1. r \in GenRec /\ r.state = "running" /\ v.gens[g].state # "running"
    BY <1>3, <1>7
  <2> HIDE DEF r
  <2>2. Gens(Append(v.calls, f), [v.gens EXCEPT ![g] = r])
    BY <1>4, <1>11, <2>1, GensResume
  <2>3. w.gens = [v.gens EXCEPT ![g] = r]
    BY <1>10 DEF r
  <2> QED BY <1>10, <2>2, <2>3
<1> HIDE DEF s
<1>13. Own(f, ts)
  BY <1>6, <1>7, <1>11 DEF Own
<1>14. Marked(f) /\ w.top >= w.base + SizeOf(f)
  BY <1>4, <1>6, <1>10, <1>11 DEF Marked, SizeOf, FrameSize
<1>15. f.ptop >= z + 1
  BY <1>1, <1>4, <1>7, <1>9, <1>11
<1>16. Callable(v.calls, f)
  BY <1>4, <1>7, <1>11, <1>15 DEF Callable, z
<1>17. w.nvargs = v.nvargs + f.vargs /\ w.base = v.base + f.pbase
  BY <1>7, <1>10, <1>11
<1>18. x \in Activation /\ x.native = f.native /\ x.traps = f.etraps /\ x.by # "script"
       /\ ~ x.native
  BY <1>11 DEF Execute, Activation, Frame
<1> HIDE DEF x
<1>19. Good(w, Append(cpp, x))
  <2>1. Good(v, cpp) /\ f \in Frame /\ Marked(f) /\ Callable(v.calls, f)
        /\ ts \in Seq(Trap) /\ Own(f, ts)
    BY <1>1, <1>6, <1>11, <1>13, <1>14, <1>16
  <2>2. /\ w \in VMRec /\ w.calls = Append(v.calls, f) /\ w.etraps = v.etraps \o ts
        /\ w.nvargs = v.nvargs + f.vargs /\ w.base = v.base + f.pbase
        /\ w.top >= w.base + SizeOf(f) /\ w.susp = v.susp /\ Gens(w.calls, w.gens)
    BY <1>10, <1>12, <1>14, <1>17
  <2> QED BY ONLY <1>18, <2>1, <2>2, MarkPush
<1> QED BY <1>2, <1>3, <1>19

-----------------------------------------------------------------------------
\* Returns.

\* The frame on top goes, its traps gone and its generator dealt with.
LEMMA LeaveGood ==
  ASSUME Good(vm, cpp), cpp # << >>, ~ Last(cpp).native,
         NEW n, n = Len(vm.calls) - 1,
         NEW u \in VMRec, u.calls = vm.calls, u.nvargs = vm.nvargs, u.base = vm.base,
         u.susp = vm.susp, u.etraps = SubSeq(vm.etraps, 1, T(vm.calls)[n]),
         Gens(SubSeq(vm.calls, 1, n), u.gens),
         NEW x \in Activation, x.native = Last(cpp).native, x.by = Last(cpp).by,
         x.traps = Last(cpp).traps - Ci(vm).etraps,
         Leave(u, x)
  PROVE  Good(vm', cpp')
<1> DEFINE w == PopFrame(u)
           l == Len(vm.calls)
<1>1. /\ vm.calls \in Seq(Frame) /\ vm.base = P(vm.calls)[Len(vm.calls)]
      /\ vm.nvargs = V(vm.calls)[Len(vm.calls)]
  BY GoodIs
<1>2. /\ vm.calls # << >> /\ Ci(vm) = vm.calls[Len(vm.calls)] /\ Last(cpp).by # "script"
      /\ Last(cpp) \in Activation
  BY ScriptRuns
<1>3. Ci(u) = Ci(vm) /\ u.calls # << >>
  BY <1>2 DEF Ci
<1>4. /\ w \in VMRec /\ w.calls = SubSeq(vm.calls, 1, n)
      /\ w.etraps = SubSeq(vm.etraps, 1, T(vm.calls)[n]) /\ w.nvargs = V(vm.calls)[n]
      /\ w.base = P(vm.calls)[n] /\ w.top = P(vm.calls)[n] + Ci(vm).ptop
      /\ w.susp = vm.susp /\ w.gens = u.gens
  <2>1. u.nvargs = V(u.calls)[Len(u.calls)] /\ u.base = P(u.calls)[Len(u.calls)]
    BY <1>1
  <2>2. u \in VMRec /\ u.calls # << >>
    BY <1>3
  <2>3. /\ w \in VMRec /\ w.calls = SubSeq(u.calls, 1, Len(u.calls) - 1)
        /\ w.etraps = u.etraps /\ w.nvargs = V(u.calls)[Len(u.calls) - 1]
        /\ w.base = P(u.calls)[Len(u.calls) - 1]
        /\ w.top = P(u.calls)[Len(u.calls) - 1] + Ci(u).ptop
        /\ w.susp = u.susp /\ w.gens = u.gens
    BY ONLY <2>1, <2>2, PopFrameIs
  <2>4. u.calls = vm.calls /\ Len(u.calls) - 1 = n /\ u.susp = vm.susp
        /\ u.etraps = SubSeq(vm.etraps, 1, T(vm.calls)[n])
    OBVIOUS
  <2> HIDE DEF w
  <2> QED BY ONLY <1>3, <2>3, <2>4
<1> HIDE DEF w
<1>5. Gens(w.calls, w.gens)
  BY <1>4
<1>6. CASE Ci(vm).root
  <2>1. vm' = Epilogue(w, x.by, TRUE) /\ cpp' = Front(cpp)
    BY <1>3, <1>6 DEF Leave, w
  <2>2. PICK r : Topmost(vm.calls, r) /\ (Ci(vm).root <=> r = l)
    BY ScriptRuns
  <2>3. Topmost(vm.calls, l) /\ vm.calls[l] = Ci(vm) /\ n = l - 1
    BY <1>2, <1>6, <2>2
  <2>4. /\ Good(w, Front(cpp))
        /\ w.top >= w.base + (IF w.calls = << >> THEN 0 ELSE SizeOf(Last(w.calls)))
                           + (IF vm.calls[l].root THEN 1 ELSE 0)
    <3> HIDE DEF l
    <3>1. /\ w \in VMRec /\ w.calls = SubSeq(vm.calls, 1, l - 1)
          /\ w.etraps = SubSeq(vm.etraps, 1, T(vm.calls)[l - 1])
          /\ w.nvargs = V(vm.calls)[l - 1] /\ w.base = P(vm.calls)[l - 1]
          /\ w.top = P(vm.calls)[l - 1] + vm.calls[l].ptop
          /\ w.susp = vm.susp /\ Gens(w.calls, w.gens)
      BY <1>4, <1>5, <2>3
    <3>2. Good(vm, cpp) /\ cpp # << >>
      OBVIOUS
    <3> QED BY ONLY <2>3, <3>1, <3>2, MarkCut
  <2>5. w.top >= w.base + (IF w.calls = << >> THEN 0 ELSE SizeOf(Last(w.calls))) + 1
    BY <1>6, <2>3, <2>4
  <2>6. x.by \in {"call", "resume", "wakeup"}
    BY <1>2 DEF Activation
  <2>7. TRUE \in BOOLEAN
    OBVIOUS
  <2>8. Good(Epilogue(w, x.by, TRUE), Front(cpp))
    BY <2>4, <2>5, <2>6, EpilogueGood
  <2> QED BY <2>1, <2>8
<1>7. CASE ~ Ci(vm).root
  <2>1. vm' = w /\ cpp' = Append(Front(cpp), x)
    BY <1>3, <1>7 DEF Leave, w
  <2>2. Good(w, Append(Front(cpp), x))
    BY <1>4, <1>5, <1>7, ScriptCut
  <2> QED BY <2>1, <2>2
<1> QED BY <1>6, <1>7

LEMMA ReturnGood ==
  ASSUME Good(vm, cpp), Return
  PROVE  Good(vm', cpp')
<1> DEFINE l == Len(vm.calls)
           n == l - 1
           S == {Ci(vm)}
           u == Kill(vm, S)
           x == Last(cpp)
<1>1. /\ cpp # << >> /\ ~ Last(cpp).native /\ Ci(vm).etraps = 0 /\ Leave(u, x)
  BY DEF Return, InScript
<1>2. vm \in VMRec /\ vm.calls \in Seq(Frame) /\ vm.etraps \in Seq(Trap)
      /\ Gens(vm.calls, vm.gens)
  BY GoodIs
<1>3. l \in Nat \ {0} /\ Ci(vm) = vm.calls[l] /\ x \in Activation
  BY <1>1, ScriptRuns
<1>4. /\ n \in 0 .. Len(vm.calls) /\ Len(vm.etraps) = T(vm.calls)[n] /\ x.traps \in Nat
  <2>1. /\ l - 1 \in 0 .. Len(vm.calls) /\ T(vm.calls)[l - 1] \in Nat
        /\ Len(vm.etraps) = T(vm.calls)[l - 1] + Ci(vm).etraps /\ Last(cpp).traps \in Nat
    BY <1>1, TopTraps
  <2> QED BY <1>1, <2>1
<1>5. /\ u \in VMRec /\ u.calls = vm.calls /\ u.etraps = vm.etraps /\ u.nvargs = vm.nvargs
      /\ u.base = vm.base /\ u.susp = vm.susp /\ u.gens \in [Gen -> GenRec]
      /\ \A g \in Gen : IF \E f \in S : f.gen = g
                        THEN u.gens[g].state = "dead"
                        ELSE u.gens[g] = vm.gens[g]
  <2>1. vm \in VMRec
    BY <1>2
  <2> HIDE DEF S
  <2> QED BY ONLY <2>1, KillIs
<1>6. Gens(SubSeq(vm.calls, 1, n), u.gens)
  <2> DEFINE q == u.gens
  <2>1. q \in [Gen -> GenRec]
    BY <1>5
  <2>2. n + 1 = l /\ n + 1 .. l = {l}
    BY <1>3
  <2>3. \A g \in Gen : Popped(vm.calls, n, g) <=> Ci(vm).gen = g
    BY <1>3, <2>2 DEF Popped
  <2>4. \A g \in Gen : IF Ci(vm).gen = g THEN q[g].state = "dead" ELSE q[g] = vm.gens[g]
    BY <1>5
  <2> HIDE DEF q, n
  <2>5. \A g \in Gen : IF Popped(vm.calls, n, g)
                       THEN /\ q[g].state # "running"
                            /\ q[g].state = "suspended" => Resumable(q[g])
                       ELSE q[g] = vm.gens[g]
    BY <2>3, <2>4
  <2>6. Gens(SubSeq(vm.calls, 1, n), q)
    <3>1. vm.calls \in Seq(Frame) /\ Gens(vm.calls, vm.gens) /\ n \in 0 .. Len(vm.calls)
      BY <1>2, <1>4
    <3> QED BY ONLY <2>1, <2>5, <3>1, GensCut
  <2> QED BY <2>6 DEF q
<1>7. SubSeq(vm.etraps, 1, Len(vm.etraps)) = vm.etraps
  BY <1>2, EmptyIs
<1>8. x.traps = Last(cpp).traps - Ci(vm).etraps
  BY <1>1, <1>4
<1> HIDE DEF u
<1>9. u.etraps = SubSeq(vm.etraps, 1, T(vm.calls)[n])
  BY <1>4, <1>5, <1>7
<1> HIDE DEF n
<1>10. n = Len(vm.calls) - 1
  BY DEF n
<1> QED BY <1>1, <1>3, <1>5, <1>6, <1>8, <1>9, <1>10, LeaveGood

LEMMA YieldOpGood ==
  ASSUME Good(vm, cpp), YieldOp
  PROVE  Good(vm', cpp')
<1> DEFINE l == Len(vm.calls)
           n == l - 1
           m == T(vm.calls)[n]
           k == Ci(vm).etraps
           g == Ci(vm).gen
           s == Saved(vm)
           u == Yield(vm, g)
           x == [Last(cpp) EXCEPT !.traps = @ - k]
<1>1. /\ cpp # << >> /\ ~ Last(cpp).native /\ g # NoGen /\ Leave(u, x)
  BY DEF YieldOp, InScript
<1>2. vm \in VMRec /\ vm.calls \in Seq(Frame) /\ vm.etraps \in Seq(Trap)
      /\ Gens(vm.calls, vm.gens) /\ vm.base \in Nat
  BY GoodIs
<1>3. /\ l \in Nat \ {0} /\ Ci(vm) = vm.calls[l] /\ Ci(vm) \in Frame /\ ~ Ci(vm).native
      /\ vm.top >= vm.base + FrameSize /\ Last(cpp) \in Activation /\ vm.calls # << >>
  BY <1>1, ScriptRuns
<1>4. /\ n \in 0 .. Len(vm.calls) /\ l \in 1 .. Len(vm.calls) /\ m \in Nat /\ k \in Nat
      /\ Len(vm.etraps) = m + k /\ Last(cpp).traps \in Nat /\ k <= Last(cpp).traps
  BY <1>1, TopTraps
<1>5. g \in Gen
  BY <1>1, <1>3 DEF Frame
<1>6. s \in GenRec /\ s.state = "suspended" /\ Resumable(s)
  <2>1. k <= Len(vm.etraps) /\ vm.base + FrameSize <= vm.top
    <3>1. vm.base + FrameSize \in Nat /\ vm.top \in Nat
      BY <1>2, GoodIs DEF FrameSize
    <3>2. vm.base + FrameSize <= vm.top
      BY <1>3, <3>1
    <3> HIDE DEF k, m
    <3>3. k <= m + k
      BY <1>4
    <3> QED BY <1>4, <3>2, <3>3
  <2>2. /\ TrapsOf(vm.calls, vm.etraps, l)
        /\ T(vm.calls)[l] = T(vm.calls)[l - 1] + vm.calls[l].etraps
    BY <1>4, CalledIs
  <2>3. \A j \in 1 .. k :
           LET e == vm.etraps[Len(vm.etraps) - k + j]
           IN  e.nth = j /\ e.top >= e.base + FrameSize
    <3>1. T(vm.calls)[l] = m + k
      BY <1>3, <2>2
    <3>2. \A i \in m + 1 .. m + k : /\ vm.etraps[i].nth = i - m
                                    /\ vm.etraps[i].base = vm.calls[l].home
                                    /\ vm.etraps[i].top >= vm.calls[l].home + FrameSize
      BY <2>2, <3>1 DEF TrapsOf
    <3> HIDE DEF m, k
    <3> TAKE j \in 1 .. k
    <3> DEFINE i == m + j
    <3>3. i \in m + 1 .. m + k /\ i - m = j /\ Len(vm.etraps) - k + j = i
      BY <1>4
    <3> HIDE DEF i
    <3> QED BY <3>2, <3>3
  <2> HIDE DEF s
  <2>4. s = Saved(vm)
    BY DEF s
  <2> QED BY <1>2, <1>3, <2>1, <2>3, <2>4, SavedIs
<1>7. /\ u \in VMRec /\ u.calls = vm.calls
      /\ u.etraps = SubSeq(vm.etraps, 1, Len(vm.etraps) - k)
      /\ u.nvargs = vm.nvargs /\ u.base = vm.base /\ u.susp = vm.susp
      /\ u.gens = [vm.gens EXCEPT ![g] = s]
  <2>1. Ci(vm).etraps <= Len(vm.etraps)
    <3> HIDE DEF m
    <3> QED BY <1>4
  <2>2. vm \in VMRec /\ g \in Gen /\ Saved(vm) \in GenRec /\ vm.calls # << >>
    BY <1>2, <1>3, <1>5, <1>6
  <2> QED BY ONLY <2>1, <2>2, YieldIs
<1> HIDE DEF s, u
<1>8. Gens(SubSeq(vm.calls, 1, n), u.gens)
  <2> DEFINE q == u.gens
  <2>1. q \in [Gen -> GenRec] /\ \A h \in Gen : q[h] = IF h = g THEN s ELSE vm.gens[h]
    <3>1. vm.gens \in [Gen -> GenRec]
      BY GoodIs
    <3> QED BY <1>5, <1>6, <1>7, <3>1
  <2>2. n + 1 = l /\ n + 1 .. l = {l}
    BY <1>3
  <2>3. \A h \in Gen : Popped(vm.calls, n, h) <=> g = h
    BY <1>3, <2>2 DEF Popped
  <2> HIDE DEF q, n, g
  <2>4. \A h \in Gen : IF Popped(vm.calls, n, h)
                       THEN /\ q[h].state # "running"
                            /\ q[h].state = "suspended" => Resumable(q[h])
                       ELSE q[h] = vm.gens[h]
    BY <1>6, <2>1, <2>3
  <2>5. Gens(SubSeq(vm.calls, 1, n), q)
    <3>1. vm.calls \in Seq(Frame) /\ Gens(vm.calls, vm.gens) /\ n \in 0 .. Len(vm.calls)
      BY <1>2, <1>4
    <3> QED BY ONLY <2>1, <2>4, <3>1, GensCut
  <2> QED BY <2>5 DEF q
<1>9. Len(vm.etraps) - k = m
  <2> HIDE DEF m, k
  <2> QED BY <1>4
<1>10. u.etraps = SubSeq(vm.etraps, 1, T(vm.calls)[n])
  BY <1>7, <1>9
<1>11. /\ x \in Activation /\ x.native = Last(cpp).native /\ x.by = Last(cpp).by
       /\ x.traps = Last(cpp).traps - Ci(vm).etraps
  <2> DEFINE y == Last(cpp)
  <2>1. y \in Activation
    BY <1>3
  <2>2. y.traps - k \in Nat
    <3> DEFINE t == y.traps
    <3>1. t \in Nat /\ k \in Nat /\ k <= t
      BY <1>4
    <3> HIDE DEF t, k
    <3>2. t - k \in Nat
      BY <3>1
    <3> QED BY <3>2 DEF t
  <2> HIDE DEF y, k
  <2>3. x = [y EXCEPT !.traps = @ - k]
    BY DEF y
  <2>4. /\ x \in Activation /\ x.native = y.native /\ x.by = y.by
        /\ x.traps = y.traps - k
    BY <2>1, <2>2, <2>3 DEF Activation
  <2> QED BY <2>4 DEF y, k
<1> HIDE DEF n, x
<1>12. n = Len(vm.calls) - 1
  BY DEF n
<1> QED BY <1>1, <1>7, <1>8, <1>10, <1>11, <1>12, LeaveGood

\* A native function comes back to the script that has called it.
LEMMA NativePop ==
  ASSUME NEW v, NEW c, Good(v, c), c # << >>, Last(c).native
  PROVE  LET w == PopFrame(v)
             n == Len(v.calls) - 1
         IN  /\ Good(w, Front(c)) /\ w \in VMRec /\ w.calls = SubSeq(v.calls, 1, n)
             /\ w.etraps = SubSeq(v.etraps, 1, T(v.calls)[n]) /\ w.nvargs = V(v.calls)[n]
             /\ w.base = P(v.calls)[n] /\ w.susp = v.susp /\ Gens(w.calls, w.gens)
             /\ w.top >= w.base + FrameSize /\ Ci(w) = v.calls[n] /\ w.calls # << >>
             /\ Front(c) # << >> /\ Last(Front(c)) = c[Len(c) - 1] /\ ~ Last(Front(c)).native
             /\ Front(Front(c)) = SubSeq(c, 1, Len(c) - 2)
<1> DEFINE l == Len(v.calls)
           n == l - 1
           w == PopFrame(v)
           d == Front(c)
           k == Len(c)
<1>1. /\ v \in VMRec /\ v.calls \in Seq(Frame) /\ v.etraps \in Seq(Trap)
      /\ v.base = P(v.calls)[Len(v.calls)] /\ v.nvargs = V(v.calls)[Len(v.calls)]
      /\ Len(v.etraps) = T(v.calls)[Len(v.calls)] /\ Gens(v.calls, v.gens)
      /\ c \in Seq(Activation)
  BY GoodIs
<1>2. /\ n \in Nat \ {0} /\ l \in Nat \ {0} /\ v.calls # << >>
      /\ Topmost(v.calls, l) /\ Ci(v) = v.calls[l] /\ Ci(v) \in Frame
      /\ Ci(v).native /\ ~ Ci(v).root /\ Ci(v).etraps = 0 /\ Ci(v).gen = NoGen
      /\ v.calls[n] \in Frame /\ ~ v.calls[n].native
      /\ k - 1 \in Nat \ {0} /\ ~ c[k - 1].native
  BY NativeRuns
<1>3. /\ w \in VMRec /\ w.calls = SubSeq(v.calls, 1, n) /\ w.etraps = v.etraps
      /\ w.nvargs = V(v.calls)[n] /\ w.base = P(v.calls)[n]
      /\ w.top = P(v.calls)[n] + Ci(v).ptop /\ w.susp = v.susp /\ w.gens = v.gens
  <2>1. v \in VMRec /\ v.calls # << >> /\ v.nvargs = V(v.calls)[Len(v.calls)]
        /\ v.base = P(v.calls)[Len(v.calls)]
    BY <1>1, <1>2
  <2> QED BY ONLY <2>1, PopFrameIs
<1>4. l \in 1 .. Len(v.calls) /\ n \in 0 .. Len(v.calls) /\ n \in 1 .. n /\ n + 1 = l
  <2>1. n \in Nat /\ n # 0 /\ l \in Nat /\ l # 0
    BY <1>2
  <2>2. n = l - 1 /\ l = Len(v.calls)
    OBVIOUS
  <2> HIDE DEF l
  <2>3. l \in 1 .. l
    BY <2>1
  <2>4. n \in 1 .. n
    BY <2>1
  <2>5. n + 1 = l
    BY <2>1, <2>2
  <2>6. n \in 0 .. l
    BY <2>1, <2>2
  <2> QED BY <2>2, <2>3, <2>4, <2>5, <2>6
<1>5. T(v.calls)[n] = Len(v.etraps)
  <2>1. /\ T(v.calls)[l] = T(v.calls)[l - 1] + v.calls[l].etraps
        /\ T(v.calls)[l - 1] \in Nat
    BY <1>4, CalledIs
  <2> QED BY <1>1, <1>2, <2>1
<1>6. w.etraps = SubSeq(v.etraps, 1, T(v.calls)[n])
  BY <1>1, <1>3, <1>5, EmptyIs
<1> HIDE DEF w
<1>7. Gens(w.calls, w.gens)
  <2> DEFINE q == v.gens
  <2>1. q \in [Gen -> GenRec]
    BY GoodIs
  <2>2. n + 1 .. l = {l}
    BY <1>2, <1>4
  <2>3. \A g \in Gen : ~ Popped(v.calls, n, g)
    BY <1>2, <2>2, VMAssumption DEF Popped
  <2> HIDE DEF q, n
  <2>4. \A g \in Gen : IF Popped(v.calls, n, g)
                       THEN /\ q[g].state # "running"
                            /\ q[g].state = "suspended" => Resumable(q[g])
                       ELSE q[g] = v.gens[g]
    BY <2>3 DEF q
  <2>5. Gens(SubSeq(v.calls, 1, n), q)
    <3>1. v.calls \in Seq(Frame) /\ Gens(v.calls, v.gens) /\ n \in 0 .. Len(v.calls)
      BY <1>1, <1>4
    <3> QED BY ONLY <2>1, <2>4, <3>1, GensCut
  <2> QED BY <1>3, <2>5 DEF q
<1>8. w.calls # << >> /\ Ci(w) = v.calls[n]
  <2> HIDE DEF n
  <2>1. /\ w.calls \in Seq(Frame) /\ Len(w.calls) = n /\ \A i \in 1 .. n : w.calls[i] = v.calls[i]
    BY <1>1, <1>3, <1>4, PrefixIs
  <2>2. w.calls # << >>
    BY <1>2, <2>1
  <2>3. Last(w.calls) = w.calls[Len(w.calls)]
    BY <2>1, <2>2, FrontIs
  <2> QED BY <1>4, <2>1, <2>2, <2>3 DEF Ci
<1>9. /\ Good(w, Front(c))
      /\ w.top >= w.base + (IF w.calls = << >> THEN 0 ELSE SizeOf(Last(w.calls)))
                         + (IF v.calls[l].root THEN 1 ELSE 0)
  <2>1. /\ w \in VMRec /\ w.calls = SubSeq(v.calls, 1, l - 1)
        /\ w.etraps = SubSeq(v.etraps, 1, T(v.calls)[l - 1])
        /\ w.nvargs = V(v.calls)[l - 1] /\ w.base = P(v.calls)[l - 1]
        /\ w.top = P(v.calls)[l - 1] + v.calls[l].ptop
        /\ w.susp = v.susp /\ Gens(w.calls, w.gens)
    BY <1>2, <1>3, <1>6, <1>7
  <2>2. Good(v, c) /\ c # << >> /\ Topmost(v.calls, l)
    BY <1>2
  <2> HIDE DEF l
  <2> QED BY ONLY <2>1, <2>2, MarkCut
<1>10. w.top >= w.base + FrameSize
  <2>1. SizeOf(Last(w.calls)) = FrameSize
    BY <1>2, <1>8 DEF SizeOf, Ci
  <2>2. w.base \in Nat
    BY <1>3, VMFields
  <2> QED BY <1>2, <1>8, <1>9, <2>1, <2>2 DEF FrameSize
<1>11. /\ d # << >> /\ Last(d) = c[k - 1] /\ ~ Last(d).native
       /\ Front(d) = SubSeq(c, 1, k - 2)
  <2>1. d = SubSeq(c, 1, k - 1) /\ d \in Seq(Activation) /\ Len(d) = k - 1
        /\ \A i \in 1 .. k - 1 : d[i] = c[i]
    <3>1. c \in Seq(Activation) /\ c # << >>
      BY <1>1
    <3>2. /\ Front(c) = SubSeq(c, 1, Len(c) - 1) /\ Front(c) \in Seq(Activation)
          /\ Len(Front(c)) = Len(c) - 1 /\ \A i \in 1 .. Len(c) - 1 : Front(c)[i] = c[i]
      BY ONLY <3>1, FrontIs
    <3> QED BY <3>2
  <2>2. k \in Nat
    BY <1>1
  <2> HIDE DEF k
  <2> DEFINE j == k - 1
  <2>3. j \in Nat \ {0} /\ j \in 1 .. j /\ j - 1 = k - 2 /\ j - 1 \in 0 .. j
    BY <1>2, <2>2
  <2> HIDE DEF d, j
  <2>4. d # << >> /\ Len(d) = j
    BY <2>1, <2>3 DEF j
  <2>5. Last(d) = d[j] /\ Front(d) = SubSeq(d, 1, j - 1)
    BY <2>1, <2>4, FrontIs
  <2>6. d[j] = c[j]
    BY <2>1, <2>3 DEF j
  <2>7. SubSeq(d, 1, j - 1) = SubSeq(c, 1, j - 1)
    <3> DEFINE i == j - 1  p == SubSeq(d, 1, i)  q == SubSeq(c, 1, i)
    <3>1. i \in 0 .. Len(d) /\ i \in 0 .. Len(c) /\ \A z \in 1 .. i : z \in 1 .. j
      BY <2>2, <2>3, <2>4 DEF j, k
    <3>2. p \in Seq(Activation) /\ Len(p) = i /\ \A z \in 1 .. i : p[z] = d[z]
      BY <2>1, <3>1, PrefixIs
    <3>3. q \in Seq(Activation) /\ Len(q) = i /\ \A z \in 1 .. i : q[z] = c[z]
      BY <1>1, <3>1, PrefixIs
    <3>4. \A z \in 1 .. i : d[z] = c[z]
      BY <2>1, <3>1 DEF j
    <3> HIDE DEF p, q, i
    <3>5. p = [z \in 1 .. i |-> p[z]] /\ q = [z \in 1 .. i |-> q[z]]
      BY <3>2, <3>3
    <3>6. p = q
      BY <3>2, <3>3, <3>4, <3>5
    <3> QED BY <3>6 DEF p, q, i
  <2> QED BY <1>2, <2>3, <2>4, <2>5, <2>6, <2>7 DEF j
<1> HIDE DEF d, k, n, l
<1> QED BY <1>3, <1>6, <1>7, <1>8, <1>9, <1>10, <1>11 DEF w, d, k, n, l

LEMMA NativeReturnGood ==
  ASSUME Good(vm, cpp), NativeReturn
  PROVE  Good(vm', cpp')
<1>1. cpp # << >> /\ Last(cpp).native /\ vm' = PopFrame(vm) /\ cpp' = Front(cpp)
  BY DEF NativeReturn, InNative
<1>2. Good(PopFrame(vm), Front(cpp))
  BY <1>1, NativePop
<1> QED BY <1>1, <1>2

LEMMA NativeFailGood ==
  ASSUME Good(vm, cpp), NativeFail
  PROVE  Good(vm', cpp')
<1> DEFINE v == PopFrame(vm)
           c == Front(cpp)
<1>1. cpp # << >> /\ Last(cpp).native
      /\ Throw(v, cpp[Len(cpp) - 1], SubSeq(cpp, 1, Len(cpp) - 2))
  BY DEF NativeFail, InNative
<1>2. Good(v, c) /\ c # << >> /\ Last(c) = cpp[Len(cpp) - 1] /\ ~ Last(c).native
      /\ Front(c) = SubSeq(cpp, 1, Len(cpp) - 2)
  BY <1>1, NativePop
<1> HIDE DEF v, c
<1>3. Throw(v, Last(c), Front(c))
  BY <1>1, <1>2
<1> QED BY <1>2, <1>3, ThrowGood

\* A native function suspends the VM, right below the Execute of the host.
LEMMA NativeSuspendGood ==
  ASSUME Allow = {}, Good(vm, cpp), NativeSuspend
  PROVE  Good(vm', cpp')
<1> DEFINE l == Len(vm.calls)
           n == l - 1
           v == PopFrame(vm)
           f == Ci(v)
           x == cpp[Len(cpp) - 1]
           susp == [on |-> TRUE, traps |-> x.traps, root |-> f.root, vargs |-> f.vargs]
           u == [v EXCEPT !.susp = susp]
           w == Epilogue(u, x.by, TRUE)
<1>1. /\ cpp # << >> /\ Last(cpp).native /\ ~ vm.susp.on /\ Len(cpp) = 2
      /\ x.by # "resume" /\ vm' = w /\ cpp' = SubSeq(cpp, 1, Len(cpp) - 2)
  BY DEF NativeSuspend, InNative, MaySuspend
<1>2. /\ vm.calls \in Seq(Frame) /\ Link(vm.calls, vm.susp, cpp) /\ cpp \in Seq(Activation)
      /\ vm.susp \in Suspension
  BY GoodIs
<1>3. /\ n \in Nat \ {0} /\ l \in Nat \ {0} /\ Topmost(vm.calls, l)
      /\ vm.calls[n] \in Frame /\ ~ vm.calls[n].native
  BY <1>1, NativeRuns
<1>4. /\ v \in VMRec /\ v.calls = SubSeq(vm.calls, 1, n)
      /\ v.etraps = SubSeq(vm.etraps, 1, T(vm.calls)[n]) /\ v.nvargs = V(vm.calls)[n]
      /\ v.base = P(vm.calls)[n] /\ Gens(v.calls, v.gens)
      /\ v.top >= v.base + FrameSize /\ f = vm.calls[n] /\ v.calls # << >>
      /\ Last(Front(cpp)) = x /\ ~ Last(Front(cpp)).native
  BY <1>1, NativePop
<1>5. x = cpp[1] /\ x \in Activation /\ Len(cpp) - 2 = 0
  BY <1>1, <1>2
<1>6. x.by \in {"call", "wakeup"}
  <2>1. PICK at : Linked(at, vm.calls, vm.susp, cpp)
    BY <1>2 DEF Link
  <2>2. 1 \in 1 .. Len(cpp)
    BY <1>1
  <2>3. ~ cpp[1].native => cpp[1].by # "script"
    BY <2>1, <2>2 DEF Linked
  <2> QED BY <1>1, <1>4, <1>5, <2>3 DEF Activation
<1>7. susp \in Suspension /\ susp.on
  BY <1>3, <1>4, <1>5 DEF Suspension, Frame, Activation
<1>8. cpp' = << >>
  <2>1. Len(cpp) - 2 = 0
    BY <1>5
  <2>2. SubSeq(cpp, 1, 0) = << >>
    BY <1>2
  <2> QED BY <1>1, <2>1, <2>2
<1>9. Link(SubSeq(vm.calls, 1, n), susp, << >>)
  <2>1. Link(SubSeq(vm.calls, 1, Len(vm.calls) - 1),
              [on |-> TRUE, traps |-> cpp[1].traps, root |-> vm.calls[Len(vm.calls) - 1].root,
               vargs |-> vm.calls[Len(vm.calls) - 1].vargs], << >>)
    BY <1>1, <1>2, <1>3, LinkSuspend
  <2> HIDE DEF v, x, f
  <2> QED BY <1>4, <1>5, <2>1
<1> HIDE DEF v, x, f, susp
<1>10. /\ u \in VMRec /\ u.calls = v.calls /\ u.etraps = v.etraps /\ u.nvargs = v.nvargs
       /\ u.base = v.base /\ u.top = v.top /\ u.susp = susp /\ u.gens = v.gens
  BY <1>4, <1>7 DEF VMRec
<1> HIDE DEF u
<1>11. w = u
  <2>1. u.top - 0 = u.top
    <3>1. u.top \in Nat
      BY <1>10, VMFields
    <3> QED BY <3>1
  <2>2. w = [u EXCEPT !.top = @ - 0]
    BY <1>6, <1>7, <1>10 DEF Epilogue
  <2> QED BY <1>10, <2>1, <2>2 DEF VMRec
<1> HIDE DEF w
<1>12. n \in 0 .. Len(vm.calls) /\ n # 0
  BY <1>3
<1> HIDE DEF n
<1>13. /\ u.calls = SubSeq(vm.calls, 1, n)
       /\ u.etraps = SubSeq(vm.etraps, 1, T(vm.calls)[n]) /\ u.nvargs = V(vm.calls)[n]
       /\ u.base = P(vm.calls)[n] /\ Gens(u.calls, u.gens) /\ Link(u.calls, u.susp, << >>)
       /\ u.top >= u.base + (IF n = 0 THEN 0 ELSE SizeOf(vm.calls[n]))
  BY <1>3, <1>4, <1>9, <1>10, <1>12 DEF SizeOf
<1>14. Good(u, << >>)
  BY <1>10, <1>12, <1>13, CutGood
<1> QED BY <1>1, <1>8, <1>11, <1>14

\* The host wakes the VM with a value or with an exception.
LEMMA WakeGood ==
  ASSUME Good(vm, cpp), NEW throw \in BOOLEAN, Wake(throw)
  PROVE  Good(vm', cpp')
<1> DEFINE f == [Ci(vm) EXCEPT !.root = vm.susp.root, !.vargs = vm.susp.vargs]
           u == [vm EXCEPT !.susp = NotSuspended]
           v == SetCi(u, f)
           x == Execute(vm.susp.traps, "wakeup")
<1>1. cpp = << >> /\ vm.susp.on
  BY DEF Wake
<1>2. \/ Throw(v, x, << >>)
      \/ vm' = v /\ cpp' = << x >>
  BY DEF Wake, Woken
<1>3. /\ vm \in VMRec /\ vm.calls \in Seq(Frame) /\ Link(vm.calls, vm.susp, << >>)
      /\ vm.susp \in Suspension
  BY <1>1, GoodIs
<1>4. vm.calls # << >>
  BY <1>1, <1>3, NothingRuns
<1>5. ~ vm.calls[1].native
  <2>1. 1 \in 1 .. Len(vm.calls)
    BY <1>3, <1>4
  <2>2. Called(vm.calls, 1)
    BY <2>1, CalledIs
  <2> QED BY <2>2 DEF Called
<1>6. Link(vm.calls, NotSuspended, << x >>) /\ Sleeps(Last(vm.calls), vm.susp)
  BY <1>1, <1>3, <1>5, LinkWake
<1>7. Ci(vm) \in Frame /\ Ci(vm) = Last(vm.calls)
  BY <1>3, <1>4, FrontIs DEF Ci
<1>8. f = Ci(vm)
  BY <1>6, <1>7 DEF Sleeps, Frame
<1>9. /\ u \in VMRec /\ u.calls = vm.calls /\ u.etraps = vm.etraps /\ u.nvargs = vm.nvargs
      /\ u.base = vm.base /\ u.top = vm.top /\ u.susp = NotSuspended /\ u.gens = vm.gens
  BY <1>3 DEF VMRec, Suspension, NotSuspended
<1> HIDE DEF f, u
<1>10. Append(Front(vm.calls), f) = vm.calls
  BY <1>3, <1>4, <1>7, <1>8, FrontLast
<1>11. /\ v \in VMRec /\ v.calls = Append(Front(u.calls), f) /\ v.etraps = u.etraps
       /\ v.nvargs = u.nvargs /\ v.base = u.base /\ v.top = u.top /\ v.susp = u.susp
       /\ v.gens = u.gens
  BY <1>4, <1>7, <1>8, <1>9, SetCiIs
<1> HIDE DEF v, x
<1>12. Good(v, << x >>)
  BY <1>6, <1>9, <1>10, <1>11 DEF Good
<1>13. CASE Throw(v, x, << >>)
  <2> DEFINE c == << x >>
  <2>1. c # << >> /\ Last(c) = x /\ Front(c) = << >>
    <3>1. x \in Activation
      BY <1>3 DEF x, Execute, Activation, Suspension
    <3> DEFINE e == << >>
    <3>2. c = Append(e, x) /\ e \in Seq(Activation)
      OBVIOUS
    <3> HIDE DEF e, c
    <3>3. c # << >> /\ Last(c) = x /\ Front(c) = e
      BY <3>1, <3>2, AppendIs
    <3> QED BY <3>3 DEF e
  <2>2. ~ x.native
    BY DEF x, Execute
  <2> HIDE DEF c
  <2>3. Throw(v, Last(c), Front(c)) /\ ~ Last(c).native /\ Good(v, c)
    BY <1>12, <1>13, <2>1, <2>2 DEF c
  <2> QED BY <2>1, <2>3, ThrowGood
<1>14. CASE vm' = v /\ cpp' = << x >>
  BY <1>12, <1>14
<1> QED BY <1>2, <1>13, <1>14

-----------------------------------------------------------------------------
\* The invariant.
LEMMA InitGood == Init => IInv
<1> SUFFICES ASSUME Init PROVE Good(vm, cpp)
  BY DEF IInv
<1> DEFINE e == << >>
<1>1. /\ vm.calls = e /\ vm.etraps = e /\ vm.nvargs = 0 /\ vm.base = 0 /\ vm.top = 1
      /\ vm.susp = NotSuspended /\ vm.gens = [g \in Gen |-> NewGen] /\ cpp = e
  BY DEF Init
<1>2. NewGen \in GenRec /\ NewGen.state = "none" /\ NotSuspended \in Suspension
      /\ ~ NotSuspended.on
  BY DEF NewGen, NoFrame, GenRec, GenState, Frame, NotSuspended, Suspension
<1>3. e \in Seq(Frame) /\ e \in Seq(Trap) /\ e \in Seq(Activation) /\ Len(e) = 0
  OBVIOUS
<1>4. vm.gens \in [Gen -> GenRec] /\ \A g \in Gen : vm.gens[g].state = "none"
  BY <1>1, <1>2
<1>5. vm \in VMRec
  BY <1>2, <1>4 DEF Init, VMRec
<1>6. T(e)[0] = 0 /\ V(e)[0] = 0 /\ P(e)[0] = 0
  BY <1>3, CallSums
<1>7. Body(e, e, 0)
  <2> HIDE DEF e
  <2>1. 1 .. Len(e) = {}
    BY <1>3
  <2> QED BY <1>3, <1>6, <2>1 DEF Body
<1>8. At(e, 0, 1)
  BY <1>3, <1>6 DEF At
<1>9. Gens(e, vm.gens)
  <2> HIDE DEF e
  <2>1. 1 .. Len(e) = {}
    BY <1>3
  <2> QED BY <1>4, <2>1 DEF Gens
<1>10. Link(e, NotSuspended, e)
  <2> DEFINE at == [i \in 1 .. 1 |-> 1]
             s == NotSuspended
  <2> HIDE DEF e
  <2>1. Activations(s, e) = 0 /\ Skip(s) = 0
    BY <1>2, <1>3 DEF Activations, Skip
  <2>2. at \in [1 .. 1 -> 1 .. 1] /\ at[1] = 1 /\ \A m, l \in 1 .. 1 : ~ (m < l)
    OBVIOUS
  <2>3. 1 .. 0 = {} /\ 0 + 1 = 1
    OBVIOUS
  <2> HIDE DEF at, s
  <2>4. e = << >> /\ ~ s.on
    BY <1>2 DEF e, s
  <2>5. Linked(at, e, s, e)
    BY <1>3, <2>1, <2>2, <2>3, <2>4 DEF Linked
  <2>6. at \in [1 .. Activations(s, e) + 1 -> 1 .. Len(e) + 1]
    BY <1>3, <2>1, <2>2, <2>3
  <2>7. s \in Suspension
    BY <1>2 DEF s
  <2>8. Link(e, s, e)
    BY <1>3, <2>5, <2>6, <2>7 DEF Link
  <2> QED BY <2>8 DEF s
<1> QED BY <1>1, <1>5, <1>7, <1>8, <1>9, <1>10 DEF Good

LEMMA StepGood ==
  ASSUME Allow = {}, IInv, [Next]_vars
  PROVE  IInv'
<1>1. Good(vm, cpp)
  BY DEF IInv
<1>2. Extra \subseteq Nat
  BY VMAssumption
<1> SUFFICES Good(vm', cpp')
  BY DEF IInv, Good, Body, At, Gens, Link, Linked, Called, TrapsOf, VMRec
<1>3. ASSUME PushTrap PROVE Good(vm', cpp')
  BY <1>1, <1>3, PushTrapGood
<1>4. ASSUME NEW z \in 1 .. MaxTraps, PopTrap(z) PROVE Good(vm', cpp')
  BY <1>1, <1>4, PopTrapGood
<1>5. ASSUME NEW extra \in Extra, CallScript(extra) PROVE Good(vm', cpp')
  <2>1. /\ cpp # << >> /\ ~ Last(cpp).native
        /\ vm' = StartCall(vm, vm.base + 1, extra) /\ cpp' = cpp /\ extra \in Nat
    BY <1>2, <1>5 DEF CallScript, InScript
  <2>2. Good(StartCall(vm, vm.base + 1, extra), cpp)
    BY <1>1, <2>1, CallScriptGood
  <2> QED BY <2>1, <2>2
<1>6. ASSUME NEW extra \in Extra, TailCall(extra) PROVE Good(vm', cpp')
  BY <1>1, <1>6, TailCallGood
<1>7. ASSUME NEW extra \in Extra, Call(extra) PROVE Good(vm', cpp')
  <2>1. extra \in Nat
    BY <1>2
  <2> QED BY <1>1, <1>7, <2>1, CallGood
<1>8. ASSUME NEW g \in Gen, NEW extra \in Extra, CallGenerator(g, extra)
      PROVE  Good(vm', cpp')
  BY <1>1, <1>8, CallGeneratorGood
<1>9. ASSUME NEW g \in Gen, NEW extra \in Extra, CallGenerate(g, extra)
      PROVE  Good(vm', cpp')
  BY <1>1, <1>9, CallGenerateGood
<1>10. ASSUME BadTailCall PROVE Good(vm', cpp')
  BY <1>1, <1>10, BadTailCallGood
<1>11. ASSUME CallNative PROVE Good(vm', cpp')
  BY <1>1, <1>11, CallNativeGood
<1>12. ASSUME YieldOp PROVE Good(vm', cpp')
  BY <1>1, <1>12, YieldOpGood
<1>13. ASSUME Return PROVE Good(vm', cpp')
  BY <1>1, <1>13, ReturnGood
<1>14. ASSUME ThrowOp PROVE Good(vm', cpp')
  BY <1>1, <1>14, ThrowOpGood
<1>15. ASSUME NEW g \in Gen, ResumeOp(g) PROVE Good(vm', cpp')
  BY <1>1, <1>15, ResumeOpGood
<1>16. ASSUME NEW g \in Gen, Foreach(g) PROVE Good(vm', cpp')
  BY <1>1, <1>16, ForeachGood
<1>17. ASSUME NEW g \in Gen, SqResume(g) PROVE Good(vm', cpp')
  BY <1>1, <1>17, SqResumeGood
<1>18. ASSUME NativeReturn PROVE Good(vm', cpp')
  BY <1>1, <1>18, NativeReturnGood
<1>19. ASSUME NativeFail PROVE Good(vm', cpp')
  BY <1>1, <1>19, NativeFailGood
<1>20. ASSUME NativeSuspend PROVE Good(vm', cpp')
  BY <1>1, <1>20, NativeSuspendGood
<1>21. ASSUME NEW throw \in BOOLEAN, Wake(throw) PROVE Good(vm', cpp')
  BY <1>1, <1>21, WakeGood
<1>22. CASE UNCHANGED vars
  BY <1>1, <1>22 DEF vars
<1> QED
  BY <1>3, <1>4, <1>5, <1>6, <1>7, <1>8, <1>9, <1>10, <1>11, <1>12, <1>13, <1>14,
     <1>15, <1>16, <1>17, <1>18, <1>19, <1>20, <1>21, <1>22 DEF Next

\* For programs that keep away from what "Allow" names, the inductive
\* invariant of the VM always holds: the frames, what each of them has on the
\* stack, among the traps and among the extra arguments, the generators and
\* the C++ stack describe one another exactly.
THEOREM Invariant ==
  ASSUME Allow = {}
  PROVE  Spec => []IInv
<1>1. Init => IInv
  BY InitGood
<1>2. IInv /\ [Next]_vars => IInv'
  BY StepGood
<1> QED BY <1>1, <1>2, PTL DEF Spec

-----------------------------------------------------------------------------
\* What the invariant says of the stacks.
LEMMA PlacesAre ==
  ASSUME Good(vm, cpp)
  PROVE  LET n == Len(cpp) + Left
             l == Len(vm.calls)
         IN  \E b \in [1 .. n -> 1 .. l] :
                /\ Matches(b)
                /\ \A m \in 1 .. Len(cpp) : cpp[m].native = vm.calls[b[m + Left]].native
                /\ \A m \in 1 .. n : Counter(vm.susp, cpp, m)
                                     = Between(b[m], IF m = n THEN l ELSE b[m + 1] - 1)
<1> DEFINE n == Len(cpp) + Left
           l == Len(vm.calls)
           s == vm.susp
           t == T(vm.calls)
<1>1. /\ vm.calls \in Seq(Frame) /\ s \in Suspension /\ cpp \in Seq(Activation)
      /\ Link(vm.calls, s, cpp)
  BY GoodIs DEF Link
<1>2. PICK at : Linked(at, vm.calls, s, cpp)
  BY <1>1 DEF Link
<1>3. Skip(s) = Left /\ Left \in {0, 1} /\ Activations(s, cpp) = n /\ n \in Nat /\ l \in Nat
      /\ Len(cpp) \in Nat
  BY <1>1 DEF Skip, Left, Activations
<1>4. /\ at \in [1 .. n + 1 -> 1 .. l + 1]
      /\ at[n + 1] = l + 1
      /\ \A m, k \in 1 .. n + 1 : m < k => at[m] < at[k]
      /\ \A i \in 1 .. l : Marked(vm.calls[i]) <=> \E m \in 1 .. n : at[m] = i
      /\ \A m \in 1 .. n : Counter(s, cpp, m) = t[at[m + 1] - 1] - t[at[m] - 1]
      /\ \A m \in 1 .. Len(cpp) : cpp[m].native = vm.calls[at[m + Left]].native
  BY <1>2, <1>3 DEF Linked
<1>5. \A m \in 1 .. Len(cpp) : m + Left \in 1 .. n
  BY <1>3
<1>6. DOMAIN vm.calls = 1 .. l
  BY <1>1
<1> DEFINE b == [m \in 1 .. n |-> at[m]]
<1> HIDE DEF n, l, s, t
<1>7. \A m \in 1 .. n : b[m] = at[m] /\ at[m] \in 1 .. l
  BY SMTT(30), <1>3, <1>4
<1>8. b \in [1 .. n -> 1 .. l] /\ DOMAIN b = 1 .. n
  BY <1>7
<1> HIDE DEF b
<1>9. Matches(b)
  <2>1. \A m, k \in DOMAIN b : m < k => b[m] < b[k]
    BY <1>3, <1>4, <1>7, <1>8
  <2>2. \A i \in 1 .. l : i \in Range(b) <=> \E m \in 1 .. n : at[m] = i
    BY <1>7, <1>8 DEF Range
  <2>3. \A i \in DOMAIN vm.calls : Marked(vm.calls[i]) <=> i \in Range(b)
    BY <1>4, <1>6, <2>2
  <2> QED BY <2>1, <2>3 DEF Matches, Marked
<1>10. \A m \in 1 .. Len(cpp) : cpp[m].native = vm.calls[b[m + Left]].native
  BY <1>4, <1>5, <1>7
<1>11. ASSUME NEW m \in 1 .. n
       PROVE  Counter(s, cpp, m) = Between(b[m], IF m = n THEN l ELSE b[m + 1] - 1)
  <2>1. at[m + 1] - 1 = IF m = n THEN l ELSE b[m + 1] - 1
    <3>1. CASE m = n
      BY <1>3, <1>4, <3>1
    <3>2. CASE m # n
      <4>1. m + 1 \in 1 .. n
        BY <1>3, <3>2
      <4> QED BY <1>7, <3>2, <4>1
    <3> QED BY <3>1, <3>2
  <2>2. Counter(s, cpp, m) = t[at[m + 1] - 1] - t[b[m] - 1]
    BY <1>4, <1>7
  <2> QED BY <2>1, <2>2 DEF Between, T, t
<1> QED BY <1>8, <1>9, <1>10, <1>11 DEF n, l, s

LEMMA GoodStacks == IInv => StacksAgree /\ TrapsCounted
<1> SUFFICES ASSUME Good(vm, cpp) PROVE StacksAgree /\ TrapsCounted
  BY DEF IInv
<1> DEFINE n == Len(cpp) + Left
           l == Len(vm.calls)
<1>1. /\ vm.calls \in Seq(Frame) /\ vm.susp \in Suspension /\ cpp \in Seq(Activation)
  BY GoodIs
<1>2. PICK b \in [1 .. n -> 1 .. l] :
        /\ Matches(b)
        /\ \A m \in 1 .. Len(cpp) : cpp[m].native = vm.calls[b[m + Left]].native
        /\ \A m \in 1 .. n : Counter(vm.susp, cpp, m)
                             = Between(b[m], IF m = n THEN l ELSE b[m + 1] - 1)
  BY PlacesAre
<1>3. DOMAIN vm.calls = 1 .. l /\ DOMAIN cpp = 1 .. Len(cpp) /\ l \in Nat
  BY <1>1
<1>4. n \in Nat /\ Skip(vm.susp) = Left
  BY <1>1 DEF Left, Skip
<1>5. b \in Places
  BY <1>2, <1>3 DEF Places
<1> HIDE DEF n, l
<1>6. DOMAIN b = 1 .. n /\ Len(b) = n
  <2>1. b \in Seq(1 .. l)
    <3> DEFINE X == 1 .. l
    <3> HIDE DEF X
    <3>1. b = [i \in 1 .. n |-> b[i]] /\ \A i \in 1 .. n : b[i] \in X
      BY <1>2 DEF X
    <3>2. [i \in 1 .. n |-> b[i]] \in Seq(X)
      BY <1>4, <3>1
    <3> QED BY <3>1, <3>2 DEF X
  <2>2. DOMAIN b = 1 .. Len(b) /\ Len(b) \in Nat
    BY <2>1
  <2>3. DOMAIN b = 1 .. n
    BY <1>2
  <2> DEFINE k == Len(b)
  <2> HIDE DEF k
  <2>4. k \in Nat /\ 1 .. k = 1 .. n
    BY <2>2, <2>3 DEF k
  <2>5. k = n
    BY <1>4, <2>4
  <2> QED BY <2>3, <2>5 DEF k
<1>7. StacksAgree
  BY <1>2, <1>3, <1>5 DEF StacksAgree
<1>8. TrapsCounted
  <2>1. ASSUME NEW m \in DOMAIN b
        PROVE  (IF m <= Left THEN vm.susp.traps ELSE cpp[m - Left].traps)
               = Between(b[m], IF m = Len(b) THEN Len(vm.calls) ELSE b[m + 1] - 1)
    BY <1>2, <1>4, <1>6, <2>1 DEF Counter, l
  <2> QED BY <1>2, <1>5, <2>1 DEF TrapsCounted
<1> QED BY <1>7, <1>8

LEMMA GoodTraps == IInv => TrapsFitFrames
<1> SUFFICES ASSUME Good(vm, cpp) PROVE TrapsFitFrames
  BY DEF IInv
<1> DEFINE l == Len(vm.calls)
           t == T(vm.calls)
<1>1. /\ vm.calls \in Seq(Frame) /\ Body(vm.calls, vm.etraps, vm.nvargs)
  BY GoodIs DEF Good
<1>2. t \in [0 .. l -> Nat] /\ t[0] = 0 /\ l \in Nat /\ DOMAIN vm.calls = 1 .. l
  BY <1>1, CallSums
<1>3. \A i \in 0 .. l : Between(1, i) = t[i]
  <2> TAKE i \in 0 .. l
  <2>1. Between(1, i) = t[i] - t[1 - 1]
    BY DEF Between, T
  <2>2. 1 - 1 = 0 /\ t[i] \in Nat
    BY <1>2
  <2> HIDE DEF t
  <2> QED BY <1>2, <2>1, <2>2
<1>4. Len(vm.etraps) = t[l]
  BY <1>1 DEF Body
<1>5. \A i \in 1 .. l : \A k \in t[i - 1] + 1 .. t[i] :
        /\ vm.etraps[k].nth = k - t[i - 1]
        /\ vm.etraps[k].base = vm.calls[i].home
        /\ vm.etraps[k].top >= vm.calls[i].home + FrameSize
  BY <1>1 DEF Body, TrapsOf
<1> HIDE DEF t, l
<1>6. l \in 0 .. l /\ \A i \in 1 .. l : i \in 0 .. l /\ i - 1 \in 0 .. l
  BY <1>2
<1>7. l = Len(vm.calls)
  BY DEF l
<1>8. Len(vm.etraps) = Between(1, Len(vm.calls))
  BY <1>3, <1>4, <1>6, <1>7
<1> QED BY SMTT(30), <1>2, <1>3, <1>5, <1>6, <1>8 DEF TrapsFitFrames

LEMMA GoodFrames == IInv => FrameAtHome
<1> SUFFICES ASSUME Good(vm, cpp) PROVE FrameAtHome
  BY DEF IInv
<1> DEFINE l == Len(vm.calls)
<1>1. /\ vm \in VMRec /\ vm.calls \in Seq(Frame) /\ cpp \in Seq(Activation)
      /\ Gens(vm.calls, vm.gens) /\ At(vm.calls, vm.base, vm.top)
      /\ Body(vm.calls, vm.etraps, vm.nvargs)
  BY GoodIs DEF Good
<1>2. DOMAIN vm.calls = 1 .. l /\ l \in Nat
  BY <1>1
<1>3. TypeOK
  <2>1. vm.base \in Nat /\ vm.top \in Nat /\ vm.nvargs \in Nat /\ vm.undefined = FALSE
    BY <1>1 DEF VMRec
  <2>2. ASSUME NEW i \in DOMAIN vm.calls
        PROVE  LET f == vm.calls[i]
               IN  /\ f.gen \in Gen \cup {NoGen}
                   /\ {f.etraps, f.vargs, f.pbase, f.ptop, f.home} \subseteq Nat
    <3>1. vm.calls[i] \in Frame
      BY <1>1, <1>2, <2>2
    <3> QED BY <3>1 DEF Frame
  <2>3. \A g \in Gen : vm.gens[g].state \in GenState
    BY <1>1 DEF Gens, GenRec
  <2>4. \A i \in DOMAIN cpp : cpp[i].traps \in Nat
    <3>1. \A i \in DOMAIN cpp : cpp[i] \in Activation
      BY <1>1
    <3> QED BY <3>1 DEF Activation
  <2> QED BY <2>1, <2>2, <2>3, <2>4 DEF TypeOK
<1>4. OneFrameEach
  <2> SUFFICES ASSUME NEW g \in Gen
               PROVE  Cardinality({i \in DOMAIN vm.calls : vm.calls[i].gen = g})
                        = IF vm.gens[g].state = "running" THEN 1 ELSE 0
    BY DEF OneFrameEach
  <2> DEFINE S == {i \in 1 .. l : vm.calls[i].gen = g}
  <2>1. /\ vm.gens[g].state = "running" <=> \E i \in 1 .. l : vm.calls[i].gen = g
        /\ \A i, j \in 1 .. l : vm.calls[i].gen = g /\ vm.calls[j].gen = g => i = j
    BY <1>1 DEF Gens
  <2> HIDE DEF l
  <2>2. CASE vm.gens[g].state = "running"
    <3>1. PICK i \in 1 .. l : vm.calls[i].gen = g
      BY <2>1, <2>2
    <3>2. S = {i}
      BY <2>1, <3>1
    <3>3. Cardinality({i}) = 1
      BY FS_Singleton
    <3> QED BY <1>2, <2>2, <3>2, <3>3
  <2>3. CASE vm.gens[g].state # "running"
    <3>1. S = {}
      BY <2>1, <2>3
    <3>2. Cardinality({}) = 0
      BY FS_EmptySet
    <3> QED BY <1>2, <2>3, <3>1, <3>2
  <2> QED BY <2>2, <2>3
<1>5. vm.nvargs = SumAbove(VargsOf(vm.calls), 0)
  <2>1. Len(VargsOf(vm.calls)) = l
    BY <1>1, Fields
  <2>2. V(vm.calls) \in [0 .. l -> Nat] /\ V(vm.calls)[0] = 0 /\ vm.nvargs = V(vm.calls)[l]
    BY <1>1, CallSums DEF Body
  <2>3. SumAbove(VargsOf(vm.calls), 0) = V(vm.calls)[l] - V(vm.calls)[0]
    BY <2>1 DEF SumAbove, V
  <2>4. l \in 0 .. l
    BY <1>2
  <2> DEFINE a == V(vm.calls)
  <2>5. a[l] \in Nat
    BY <2>2, <2>4
  <2> HIDE DEF a, l
  <2> QED BY <2>2, <2>3, <2>5 DEF a
<1>6. ASSUME vm.calls # << >>
      PROVE  /\ vm.base = Ci(vm).home
             /\ vm.top >= Ci(vm).home + (IF Ci(vm).native THEN 1 ELSE FrameSize)
  <2>1. l \in 1 .. l /\ Last(vm.calls) = vm.calls[l]
    <3>1. l # 0
      BY <1>1, <1>6
    <3>2. Last(vm.calls) = vm.calls[l]
      BY <1>1, <1>6, FrontIs
    <3> HIDE DEF l
    <3>3. l \in 1 .. l
      BY <1>2, <3>1
    <3> QED BY <3>2, <3>3
  <2>2. vm.calls[l].home = P(vm.calls)[l]
    BY <1>1, <2>1 DEF Body, Called
  <2>3. vm.base = P(vm.calls)[l] /\ vm.top >= vm.base + SizeOf(Last(vm.calls))
    BY <1>1, <1>6 DEF At
  <2> QED BY <2>1, <2>2, <2>3 DEF Ci, SizeOf
<1> QED BY <1>3, <1>4, <1>5, <1>6 DEF FrameAtHome

-----------------------------------------------------------------------------
\* The frames that were entered from C++ or are native are those of the
\* activations on the C++ stack, in the same order and of the same kind, after
\* calls, yields, resumptions, exceptions, suspensions and wakeups: a return
\* or an exception never ends the activation of another frame.
THEOREM StacksAgreeAlways ==
  ASSUME Allow = {}
  PROVE  Spec => []StacksAgree
BY Invariant, GoodStacks, PTL

\* The traps on the one stack of traps are those of the frames, in the order
\* of the frames, and each leads into the frame that has set it and to the
\* place where that frame has its registers.
THEOREM TrapsFitFramesAlways ==
  ASSUME Allow = {}
  PROVE  Spec => []TrapsFitFrames
BY Invariant, GoodTraps, PTL

\* Every activation of Execute counts exactly the traps of its own frames, and
\* a suspended VM remembers the count of the one it has left: an exception is
\* looked for neither in vain nor too little, and a return leaves no trap.
THEOREM TrapsCountedAlways ==
  ASSUME Allow = {}
  PROVE  Spec => []TrapsCounted
BY Invariant, GoodStacks, PTL

\* The frame that runs has its registers and its extra arguments where it has
\* left them, and a running generator has exactly one frame.
THEOREM FrameAtHomeAlways ==
  ASSUME Allow = {}
  PROVE  Spec => []FrameAtHome
BY Invariant, GoodFrames, PTL
=============================================================================
