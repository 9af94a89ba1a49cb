--------------------------- MODULE SqThread_proofs --------------------------
(***************************************************************************)
(* Theorems about the scheduler of SqThread for every set of threads,      *)
(* objects, triggers, priorities and argument lists: the wait registry,    *)
(* the threads that wait, the lists of raw thread pointers, and the life   *)
(* of threads that all of this implements.                                 *)
(***************************************************************************)
EXTENDS SqThread, SqThreadClock, SqListOps_proofs, FiniteSetTheorems

-----------------------------------------------------------------------------
(* The wait registry: each operation yields a registry and keeps its two   *)
(* sides in agreement, whatever the sets of threads, objects and triggers  *)
(* are.                                                                    *)

\* The conclusions of the lemmas below have names, so that they can be cited
\* as one fact.  C is what _clearWait of the threads of S leaves of W.
Cleared(W, S, C) ==
    /\ C \in Registry
    /\ \A t \in Thread, o \in Waitable :
         /\ Waits(C, t, o) <=> t \notin S /\ Waits(W, t, o)
         /\ t \in ToSet(C.waitThreadList[o])
              <=> t \in ToSet(W.waitThreadList[o]) /\ ~ (t \in S /\ Waits(W, t, o))
    /\ \A o \in Waitable : IsInjective(W.waitThreadList[o]) => IsInjective(C.waitThreadList[o])
    /\ C.exitCode = W.exitCode
    /\ C.waitResult = W.waitResult
    /\ \A t \in S : ~ IsWait(C, t)
    /\ \A t \in Thread : C.waitSystem[t] = IF t \in S THEN Null ELSE W.waitSystem[t]

\* R is what is left of W when x frees the threads of S: on the list of x
\* itself the caller still has their entries.
Freed(W, S, x, R) ==
    /\ R \in Registry
    /\ \A t \in Thread, o \in Waitable :
         /\ Waits(R, t, o) <=> t \notin S /\ Waits(W, t, o)
         /\ t \in ToSet(R.waitThreadList[o])
              <=> /\ t \in ToSet(W.waitThreadList[o])
                  /\ ~ (t \in S /\ Waits(W, t, o) /\ o # x)
    /\ \A o \in Waitable : IsInjective(W.waitThreadList[o]) => IsInjective(R.waitThreadList[o])
    /\ R.exitCode = W.exitCode
    /\ \A t \in Thread : R.waitSystem[t] = IF t \in S THEN Null ELSE W.waitSystem[t]

\* N is a registry whose sides agree if those of W do, with fewer waits.
Keeps(W, N) ==
    /\ N \in Registry
    /\ Registered(W) => Registered(N)
    /\ \A t \in Thread, o \in Waitable : Waits(N, t, o) => Waits(W, t, o)
    /\ \A t \in Thread : N.waitSystem[t] \in {Null, W.waitSystem[t]}

FreedFrom(W, S, o, N) ==
    /\ Keeps(W, N)
    /\ \A t \in S : ~ Waits(N, t, o)
    /\ N.exitCode = W.exitCode

LEMMA ClearWaitFields ==
  ASSUME NEW W \in Registry, NEW S \in SUBSET Thread
  PROVE  Cleared(W, S, ClearWait(W, S))
<1> DEFINE C == ClearWait(W, S)
           off(o) == {t \in S : Waits(W, t, o)}
<1> DEFINE sys == [t \in Thread |-> IF t \in S THEN Null ELSE W.waitSystem[t]]
           lst == [t \in Thread |-> IF t \in S THEN {} ELSE W.waitList[t]]
           tmo == [t \in Thread |-> IF t \in S THEN -1 ELSE W.waitTimeout[t]]
           wtl == [o \in Waitable |-> Without(W.waitThreadList[o], off(o))]
<1>0. C = [W EXCEPT !.waitSystem = sys, !.waitList = lst, !.waitTimeout = tmo,
                    !.waitThreadList = wtl]
  BY DEF ClearWait
<1>1. /\ C.waitSystem = sys /\ C.waitList = lst /\ C.waitTimeout = tmo
      /\ C.waitThreadList = wtl
      /\ C.waitResult = W.waitResult /\ C.exitCode = W.exitCode
      /\ C = [waitSystem |-> C.waitSystem, waitList |-> C.waitList,
              waitTimeout |-> C.waitTimeout, waitResult |-> C.waitResult,
              exitCode |-> C.exitCode, waitThreadList |-> C.waitThreadList]
  <2> HIDE DEF C, sys, lst, tmo, wtl
  <2> QED BY <1>0 DEF Registry
<1> HIDE DEF C
<1>2. \A o \in Waitable : W.waitThreadList[o] \in Seq(Thread)
  BY DEF Registry
<1>3. \A o \in Waitable :
        /\ C.waitThreadList[o] \in Seq(Thread)
        /\ ToSet(C.waitThreadList[o]) = ToSet(W.waitThreadList[o]) \ off(o)
        /\ IsInjective(W.waitThreadList[o]) => IsInjective(C.waitThreadList[o])
  BY <1>1, <1>2, WithoutElements
<1>4. C.waitThreadList \in [Waitable -> Seq(Thread)]
  BY <1>1, <1>3
<1>5. /\ C.waitSystem \in [Thread -> Thread \cup {Null}]
      /\ C.waitList \in [Thread -> SUBSET (Waitable \cup Trigger)]
      /\ C.waitTimeout \in [Thread -> -1 .. MaxTimeout]
      /\ C.waitResult \in [Thread -> Result]
      /\ C.exitCode \in [Thread -> Code]
  BY <1>1, WaitAssumption DEF Registry
<1>6. C \in Registry
  BY <1>1, <1>4, <1>5 DEF Registry
<1>7. \A t \in Thread, o \in Waitable :
        Waits(C, t, o) <=> t \notin S /\ Waits(W, t, o)
  BY <1>1, WaitAssumption DEF Waits, Waitable
<1>8. \A t \in Thread :
        /\ t \in S => ~ IsWait(C, t)
        /\ C.waitSystem[t] = IF t \in S THEN Null ELSE W.waitSystem[t]
  BY <1>1 DEF IsWait
<1> QED BY <1>1, <1>3, <1>6, <1>7, <1>8 DEF C, Cleared

LEMMA ReleaseFields ==
  ASSUME NEW W \in Registry, NEW S \in SUBSET Thread, NEW x \in Waitable \cup Trigger
  PROVE  Freed(W, S, x, Release(W, S, x))
<1> DEFINE res == [t \in Thread |-> IF t \notin S THEN W.waitResult[t]
                                    ELSE IF W.waitSystem[t] = x THEN W.exitCode[x] ELSE x]
           sys == [t \in Thread |->
                     IF t \in S /\ W.waitSystem[t] = x THEN Null ELSE W.waitSystem[t]]
           lst == [t \in Thread |->
                     IF t \in S THEN W.waitList[t] \ {x} ELSE W.waitList[t]]
           V == [W EXCEPT !.waitResult = res, !.waitSystem = sys, !.waitList = lst]
<1>1. Release(W, S, x) = ClearWait(V, S)
  BY DEF Release
<1>2. V = [waitSystem |-> sys, waitList |-> lst, waitTimeout |-> W.waitTimeout,
           waitResult |-> res, exitCode |-> W.exitCode,
           waitThreadList |-> W.waitThreadList]
  <2>1. V = [W EXCEPT !.waitResult = res, !.waitSystem = sys, !.waitList = lst]
    OBVIOUS
  <2> HIDE DEF V, res, sys, lst
  <2>2. W = [waitSystem |-> W.waitSystem, waitList |-> W.waitList,
             waitTimeout |-> W.waitTimeout, waitResult |-> W.waitResult,
             exitCode |-> W.exitCode, waitThreadList |-> W.waitThreadList]
    BY DEF Registry
  <2> QED BY <2>1, <2>2
<1>3. res \in [Thread -> Result]
  <2> SUFFICES ASSUME NEW t \in Thread PROVE res[t] \in Result
    OBVIOUS
  <2>1. W.waitSystem[t] \in Thread \cup {Null} /\ W.waitResult[t] \in Result
    BY DEF Registry
  <2>2. W.waitSystem[t] = x => x \in Thread
    BY <2>1, WaitAssumption DEF Waitable
  <2>3. x \in Thread => W.exitCode[x] \in Result
    BY DEF Registry, Result
  <2>4. x \in Result
    BY DEF Result
  <2> QED BY <2>1, <2>2, <2>3, <2>4
<1>4. sys \in [Thread -> Thread \cup {Null}]
  BY DEF Registry
<1>5. lst \in [Thread -> SUBSET (Waitable \cup Trigger)]
  BY DEF Registry
<1>6. V \in Registry
  <2> HIDE DEF V, res, sys, lst
  <2> QED BY <1>2, <1>3, <1>4, <1>5 DEF Registry
<1>7. \A t \in Thread, o \in Waitable :
        Waits(V, t, o) <=> Waits(W, t, o) /\ ~ (t \in S /\ o = x)
  <2>1. \A o \in Waitable : o # Null
    BY WaitAssumption DEF Waitable
  <2>2. V.waitSystem = sys /\ V.waitList = lst
    BY <1>2
  <2> QED BY <2>1, <2>2 DEF Waits
<1>8. V.waitThreadList = W.waitThreadList /\ V.exitCode = W.exitCode /\ V.waitSystem = sys
  BY <1>2
<1> HIDE DEF V
<1>9. Cleared(V, S, ClearWait(V, S))
  BY <1>6, ClearWaitFields
<1>10. Freed(W, S, x, ClearWait(V, S))
  BY <1>7, <1>8, <1>9 DEF Freed, Cleared
<1> QED BY <1>1, <1>10

LEMMA ClearWaitKeeps ==
  ASSUME NEW W \in Registry, NEW S \in SUBSET Thread
  PROVE  Keeps(W, ClearWait(W, S))
<1>1. Cleared(W, S, ClearWait(W, S))
  BY ClearWaitFields
<1> QED BY <1>1 DEF Cleared, Keeps, Registered

\* Freeing the threads of S from o, whose list becomes cut, keeps the two
\* sides in agreement if cut still names every thread that goes on waiting.
LEMMA FreeListed ==
  ASSUME NEW W \in Registry, NEW S \in SUBSET Thread, NEW o \in Waitable,
         NEW cut \in Seq(Thread),
         \A t \in Thread \ S : Waits(W, t, o) /\ t \in ToSet(W.waitThreadList[o])
                                 => t \in ToSet(cut)
  PROVE  FreedFrom(W, S, o, ReleaseFrom(W, S, o, cut))
<1> DEFINE R == Release(W, S, o)
           N == ReleaseFrom(W, S, o, cut)
<1>1. Freed(W, S, o, R)
  BY ReleaseFields
<1> HIDE DEF R
<1>2. /\ N \in Registry
      /\ N.waitSystem = R.waitSystem /\ N.waitList = R.waitList
      /\ N.exitCode = R.exitCode
      /\ \A p \in Waitable : N.waitThreadList[p] =
           IF p = o THEN cut ELSE R.waitThreadList[p]
  <2>1. R \in Registry
    BY <1>1 DEF Freed
  <2> DEFINE wtl == [R.waitThreadList EXCEPT ![o] = cut]
  <2>2. N = [waitSystem |-> R.waitSystem, waitList |-> R.waitList,
             waitTimeout |-> R.waitTimeout, waitResult |-> R.waitResult,
             exitCode |-> R.exitCode, waitThreadList |-> wtl]
    <3>1. N = [R EXCEPT !.waitThreadList = wtl]
      BY DEF ReleaseFrom, R
    <3> HIDE DEF N, wtl
    <3>2. R = [waitSystem |-> R.waitSystem, waitList |-> R.waitList,
               waitTimeout |-> R.waitTimeout, waitResult |-> R.waitResult,
               exitCode |-> R.exitCode, waitThreadList |-> R.waitThreadList]
      BY <2>1 DEF Registry
    <3> QED BY <3>1, <3>2
  <2>3. wtl \in [Waitable -> Seq(Thread)]
    BY <2>1 DEF Registry
  <2> HIDE DEF N
  <2>4. N \in Registry
    BY <2>1, <2>2, <2>3 DEF Registry
  <2>5. R.waitThreadList \in [Waitable -> Seq(Thread)]
    BY <2>1 DEF Registry
  <2> QED BY <2>2, <2>4, <2>5
<1> HIDE DEF N
<1>3. \A t \in Thread, p \in Waitable : Waits(N, t, p) <=> Waits(R, t, p)
  BY <1>2 DEF Waits
<1>4. Registered(W) => Registered(N)
  BY <1>1, <1>2, <1>3 DEF Registered, Freed
<1>5. Keeps(W, N)
  BY <1>1, <1>2, <1>3, <1>4 DEF Keeps, Freed
<1>6. (\A t \in S : ~ Waits(N, t, o)) /\ N.exitCode = W.exitCode
  BY <1>1, <1>2, <1>3 DEF Freed
<1> QED BY <1>5, <1>6 DEF N, FreedFrom

\* notify() frees at most one thread, the one whose entry it removes.
LEMMA NotifyKeeps ==
  ASSUME NEW W \in Registry, NEW o \in Waitable
  PROVE  Keeps(W, Notify(W, o)) /\ Notify(W, o).exitCode = W.exitCode
<1> DEFINE list == W.waitThreadList[o]
           hits == {i \in DOMAIN list : Waits(W, list[i], o)}
           hit  == CHOOSE i \in hits : \A j \in hits : i <= j
<1>1. CASE hits = {}
  BY <1>1 DEF Notify, Keeps
<1>2. CASE hits # {}
  <2>1. list \in Seq(Thread)
    BY DEF Registry
  <2>2. hit \in hits
    <3>1. hits \subseteq Nat
      BY <2>1
    <3>2. \E i \in hits : \A j \in hits : i <= j
      BY <1>2, <3>1, SmallestExists
    <3> HIDE DEF hits
    <3> QED BY <3>2
  <2> DEFINE S == {list[hit]}
             cut == RemoveAt(list, hit)
             N == ReleaseFrom(W, S, o, cut)
  <2>3. Notify(W, o) = N
    BY <1>2 DEF Notify
  <2> HIDE DEF hit
  <2>4. hit \in DOMAIN list /\ S \in SUBSET Thread
    BY <2>1, <2>2
  <2>5. /\ cut \in Seq(Thread)
        /\ ToSet(list) \ {list[hit]} \subseteq ToSet(cut)
    BY <2>1, <2>4, RemoveAtElements
  <2> HIDE DEF cut
  <2>6. \A t \in Thread \ S : Waits(W, t, o) /\ t \in ToSet(list) => t \in ToSet(cut)
    BY <2>5
  <2> HIDE DEF S
  <2>7. FreedFrom(W, S, o, N)
    BY <2>4, <2>5, <2>6, FreeListed
  <2> QED BY <2>3, <2>7 DEF FreedFrom
<1> QED BY <1>1, <1>2

\* notifyAll() frees every thread that waits for o and is listed, so with the
\* two sides in agreement nobody is left waiting for o.
LEMMA NotifyAllKeeps ==
  ASSUME NEW W \in Registry, NEW o \in Waitable
  PROVE  /\ Keeps(W, NotifyAll(W, o))
         /\ NotifyAll(W, o).exitCode = W.exitCode
         /\ Registered(W) => \A t \in Thread : ~ Waits(NotifyAll(W, o), t, o)
<1> DEFINE S == {t \in ToSet(W.waitThreadList[o]) : Waits(W, t, o)}
           N == ReleaseFrom(W, S, o, << >>)
<1>1. NotifyAll(W, o) = N
  BY DEF NotifyAll
<1>2. S \in SUBSET Thread
  BY DEF Registry, ToSet
<1>3. << >> \in Seq(Thread)
  OBVIOUS
<1>4. \A t \in Thread \ S : Waits(W, t, o) /\ t \in ToSet(W.waitThreadList[o])
                              => t \in ToSet(<< >>)
  OBVIOUS
<1>5. Registered(W) => \A t \in Thread : Waits(W, t, o) => t \in S
  BY DEF Registered
<1> HIDE DEF S
<1>6. FreedFrom(W, S, o, N)
  BY <1>2, <1>3, <1>4, FreeListed
<1> HIDE DEF N
<1>7. Registered(W) => \A t \in Thread : ~ Waits(N, t, o)
  BY <1>5, <1>6 DEF FreedFrom, Keeps
<1> QED BY <1>1, <1>6, <1>7 DEF FreedFrom

\* The trigger x frees the threads of S that wait for it.
LEMMA NotifyTriggerKeeps ==
  ASSUME NEW W \in Registry, NEW S \in SUBSET Thread, NEW x \in Trigger
  PROVE  Keeps(W, NotifyTrigger(W, S, x)) /\ NotifyTrigger(W, S, x).exitCode = W.exitCode
<1> DEFINE T == {t \in S : x \in W.waitList[t]}
           R == Release(W, T, x)
<1>1. T \in SUBSET Thread /\ NotifyTrigger(W, S, x) = R
  BY DEF NotifyTrigger
<1> HIDE DEF T
<1>2. Freed(W, T, x, R)
  BY <1>1, ReleaseFields
<1> HIDE DEF R
<1>3. \A o \in Waitable : o # x
  BY WaitAssumption DEF Waitable
<1>4. Registered(W) => Registered(R)
  BY <1>2, <1>3 DEF Freed, Registered
<1>5. Keeps(W, R) /\ R.exitCode = W.exitCode
  BY <1>2, <1>4 DEF Freed, Keeps
<1> QED BY <1>1, <1>5

\* The end of t leaves nobody waiting for it.
LEMMA ExitKeeps ==
  ASSUME NEW W \in Registry, NEW t \in Thread
  PROVE  /\ Keeps(W, Exit(W, t))
         /\ Exit(W, t).exitCode = W.exitCode
         /\ Registered(W) => \A u \in Thread : ~ Waits(Exit(W, t), u, t)
         /\ ~ IsWait(Exit(W, t), t)
<1> DEFINE N == NotifyAll(W, t)
           E == ClearWait(N, {t})
<1>1. E = Exit(W, t)
  BY DEF Exit
<1>2. t \in Waitable /\ {t} \in SUBSET Thread
  BY DEF Waitable
<1>3. /\ Keeps(W, N)
      /\ N.exitCode = W.exitCode
      /\ Registered(W) => \A u \in Thread : ~ Waits(N, u, t)
  BY <1>2, NotifyAllKeeps
<1> HIDE DEF N
<1>4. N \in Registry
  BY <1>3 DEF Keeps
<1>5. Keeps(N, E)
  BY <1>2, <1>4, ClearWaitKeeps
<1>6. Cleared(N, {t}, E)
  BY <1>2, <1>4, ClearWaitFields
<1> HIDE DEF E
<1>7. Keeps(W, E)
  BY <1>3, <1>5 DEF Keeps
<1>8. E.exitCode = W.exitCode /\ ~ IsWait(E, t)
  BY <1>3, <1>6 DEF Cleared
<1>9. Registered(W) => \A u \in Thread : ~ Waits(E, u, t)
  BY <1>2, <1>3, <1>5 DEF Keeps
<1> QED BY <1>1, <1>7, <1>8, <1>9

-----------------------------------------------------------------------------
\* Assignments to fields that are no part of the agreement.
LEMMA SameWaits ==
  ASSUME NEW W \in Registry, NEW V \in Registry,
         V.waitSystem = W.waitSystem, V.waitList = W.waitList,
         V.waitThreadList = W.waitThreadList
  PROVE  Keeps(W, V)
<1>1. \A t \in Thread, o \in Waitable : Waits(V, t, o) <=> Waits(W, t, o)
  BY DEF Waits
<1>2. Registered(W) => Registered(V)
  BY <1>1 DEF Registered
<1> QED BY <1>1, <1>2 DEF Keeps

LEMMA SetExitCode ==
  ASSUME NEW W \in Registry, NEW t \in Thread, NEW c \in Code
  PROVE  /\ Keeps(W, [W EXCEPT !.exitCode[t] = c])
         /\ [W EXCEPT !.exitCode[t] = c].exitCode = [W.exitCode EXCEPT ![t] = c]
<1> DEFINE new == [W.exitCode EXCEPT ![t] = c]
           V == [W EXCEPT !.exitCode[t] = c]
<1>1. V = [W EXCEPT !.exitCode = new]
  OBVIOUS
<1>2. W = [waitSystem |-> W.waitSystem, waitList |-> W.waitList, waitTimeout
           |-> W.waitTimeout, waitResult |-> W.waitResult, exitCode |->
           W.exitCode, waitThreadList |-> W.waitThreadList]
  BY DEF Registry
<1>3. new \in [Thread -> Code]
  BY DEF Registry
<1> HIDE DEF new, V
<1>4. V = [waitSystem |-> W.waitSystem, waitList |-> W.waitList, waitTimeout
           |-> W.waitTimeout, waitResult |-> W.waitResult, exitCode |-> new,
           waitThreadList |-> W.waitThreadList]
  BY <1>1, <1>2
<1>5. V \in Registry
  BY <1>3, <1>4 DEF Registry
<1>6. /\ V.waitSystem = W.waitSystem /\ V.waitList = W.waitList
      /\ V.waitThreadList = W.waitThreadList /\ V.exitCode = new
  BY <1>4
<1>7. Keeps(W, V)
  BY <1>5, <1>6, SameWaits
<1> QED BY <1>6, <1>7 DEF V, new

LEMMA SetWaitResult ==
  ASSUME NEW W \in Registry, NEW t \in Thread, NEW r \in Result
  PROVE  Keeps(W, [W EXCEPT !.waitResult[t] = r])
<1> DEFINE new == [W.waitResult EXCEPT ![t] = r]
           V == [W EXCEPT !.waitResult[t] = r]
<1>1. V = [W EXCEPT !.waitResult = new]
  OBVIOUS
<1>2. W = [waitSystem |-> W.waitSystem, waitList |-> W.waitList, waitTimeout
           |-> W.waitTimeout, waitResult |-> W.waitResult, exitCode |->
           W.exitCode, waitThreadList |-> W.waitThreadList]
  BY DEF Registry
<1>3. new \in [Thread -> Result]
  BY DEF Registry
<1> HIDE DEF new, V
<1>4. V = [waitSystem |-> W.waitSystem, waitList |-> W.waitList, waitTimeout
           |-> W.waitTimeout, waitResult |-> new, exitCode |-> W.exitCode,
           waitThreadList |-> W.waitThreadList]
  BY <1>1, <1>2
<1>5. V \in Registry
  BY <1>3, <1>4 DEF Registry
<1>6. /\ V.waitSystem = W.waitSystem /\ V.waitList = W.waitList
      /\ V.waitThreadList = W.waitThreadList /\ V.waitResult = new
  BY <1>4
<1>7. Keeps(W, V)
  BY <1>5, <1>6, SameWaits
<1> QED BY <1>6, <1>7 DEF V, new

LEMMA SetWaitTimeout ==
  ASSUME NEW W \in Registry, NEW t \in Thread, NEW n \in -1 .. MaxTimeout
  PROVE  Keeps(W, [W EXCEPT !.waitTimeout[t] = n])
<1> DEFINE new == [W.waitTimeout EXCEPT ![t] = n]
           V == [W EXCEPT !.waitTimeout[t] = n]
<1>1. V = [W EXCEPT !.waitTimeout = new]
  OBVIOUS
<1>2. W = [waitSystem |-> W.waitSystem, waitList |-> W.waitList, waitTimeout
           |-> W.waitTimeout, waitResult |-> W.waitResult, exitCode |->
           W.exitCode, waitThreadList |-> W.waitThreadList]
  BY DEF Registry
<1>3. new \in [Thread -> -1 .. MaxTimeout]
  BY DEF Registry
<1> HIDE DEF new, V
<1>4. V = [waitSystem |-> W.waitSystem, waitList |-> W.waitList, waitTimeout
           |-> new, waitResult |-> W.waitResult, exitCode |-> W.exitCode,
           waitThreadList |-> W.waitThreadList]
  BY <1>1, <1>2
<1>5. V \in Registry
  BY <1>3, <1>4 DEF Registry
<1>6. /\ V.waitSystem = W.waitSystem /\ V.waitList = W.waitList
      /\ V.waitThreadList = W.waitThreadList /\ V.waitTimeout = new
  BY <1>4
<1>7. Keeps(W, V)
  BY <1>5, <1>6, SameWaits
<1> QED BY <1>6, <1>7 DEF V, new

LEMMA CancelWaitKeeps ==
  ASSUME NEW W \in Registry, NEW t \in Thread
  PROVE  Keeps(W, CancelWait(W, t)) /\ ~ IsWait(CancelWait(W, t), t)
<1> DEFINE C == ClearWait(W, {t})
           N == [C EXCEPT !.waitResult[t] = Null]
<1>1. Keeps(W, C)
  BY ClearWaitKeeps
<1>2. Cleared(W, {t}, C)
  BY ClearWaitFields
<1> HIDE DEF C
<1>3. C \in Registry /\ ~ IsWait(C, t)
  BY <1>2 DEF Cleared
<1>4. Null \in Result
  BY DEF Result, Code
<1>5. Keeps(C, N)
  BY <1>3, <1>4, SetWaitResult
<1>6. /\ N.waitSystem = C.waitSystem /\ N.waitList = C.waitList
      /\ N.waitTimeout = C.waitTimeout
  BY <1>3 DEF Registry
<1>7. ~ IsWait(N, t)
  BY <1>3, <1>6 DEF IsWait
<1> HIDE DEF N
<1>8. Keeps(W, N)
  BY <1>1, <1>5 DEF Keeps
<1> QED BY <1>7, <1>8 DEF CancelWait, N, C

-----------------------------------------------------------------------------
\* N differs from W in the waits of t only, and its two sides agree if those
\* of W do; c is what t waits for by system().
Waiting(W, t, c, N) ==
    /\ N \in Registry
    /\ Registered(W) => Registered(N)
    /\ \A u \in Thread \ {t}, o \in Waitable : Waits(N, u, o) <=> Waits(W, u, o)
    /\ \A u \in Thread : N.waitSystem[u] = IF u = t THEN c ELSE W.waitSystem[u]
    /\ N.exitCode = W.exitCode

LEMMA WaitForKeeps ==
  ASSUME NEW W \in Registry, NEW t \in Thread, NEW a \in WaitArg
  PROVE  Waiting(W, t, Null, WaitFor(W, t, a))
<1> DEFINE C == ClearWait(W, {t})
           res == [C.waitResult EXCEPT ![t] = IF a.timeout >= 0 THEN "tick" ELSE Null]
           tmo == [C.waitTimeout EXCEPT ![t] = a.timeout]
           lst == [C.waitList EXCEPT ![t] = a.objects \cup a.triggers]
           more == [i \in 1 .. a.times |-> t]
           wtl == [o \in Waitable |-> IF o \in a.objects THEN C.waitThreadList[o] \o more
                                      ELSE C.waitThreadList[o]]
           N == WaitFor(W, t, a)
<1>1. N = [C EXCEPT !.waitResult = res, !.waitTimeout = tmo, !.waitList = lst,
                    !.waitThreadList = wtl]
  BY DEF WaitFor
<1>2. Cleared(W, {t}, C)
  BY ClearWaitFields
<1>3. Keeps(W, C)
  BY ClearWaitKeeps
<1> HIDE DEF C
<1>4. C \in Registry /\ C.exitCode = W.exitCode
  BY <1>2 DEF Cleared
<1>5. C = [waitSystem |-> C.waitSystem, waitList |-> C.waitList,
           waitTimeout |-> C.waitTimeout, waitResult |-> C.waitResult,
           exitCode |-> C.exitCode, waitThreadList |-> C.waitThreadList]
  BY <1>4 DEF Registry
<1>6. /\ a.objects \in SUBSET Waitable /\ a.triggers \in SUBSET Trigger
      /\ a.timeout \in -1 .. MaxTimeout /\ a.times \in Nat \ {0}
  BY DEF WaitArg
<1>7. /\ res \in [Thread -> Result] /\ tmo \in [Thread -> -1 .. MaxTimeout]
      /\ lst \in [Thread -> SUBSET (Waitable \cup Trigger)]
  BY <1>4, <1>6 DEF Registry, Result, Code
<1>8. \A o \in Waitable :
        /\ C.waitThreadList[o] \o more \in Seq(Thread)
        /\ ToSet(C.waitThreadList[o] \o more) = ToSet(C.waitThreadList[o]) \cup {t}
  <2> TAKE o \in Waitable
  <2>1. C.waitThreadList[o] \in Seq(Thread)
    BY <1>4 DEF Registry
  <2>2. a.times \in Nat \ {0}
    BY <1>6
  <2>3. \A s \in Seq(Thread), m \in Nat \ {0} :
          /\ s \o [i \in 1 .. m |-> t] \in Seq(Thread)
          /\ ToSet(s \o [i \in 1 .. m |-> t]) = ToSet(s) \cup {t}
    BY RepeatElements
  <2> QED BY <2>1, <2>2, <2>3
<1>9. \A o \in Waitable :
        /\ wtl[o] \in Seq(Thread)
        /\ ToSet(wtl[o]) = ToSet(C.waitThreadList[o])
                             \cup (IF o \in a.objects THEN {t} ELSE {})
  <2> HIDE DEF more
  <2>1. \A o \in Waitable : C.waitThreadList[o] \in Seq(Thread)
    BY <1>4 DEF Registry
  <2> QED BY <1>8, <2>1
<1>10. wtl \in [Waitable -> Seq(Thread)]
  BY <1>9
<1>11. \A u \in Thread : lst[u] = IF u = t THEN a.objects \cup a.triggers ELSE C.waitList[u]
  BY <1>4 DEF Registry
<1> HIDE DEF N, res, tmo, lst, wtl
<1>12. N = [waitSystem |-> C.waitSystem, waitList |-> lst, waitTimeout |-> tmo,
            waitResult |-> res, exitCode |-> C.exitCode, waitThreadList |-> wtl]
  BY <1>1, <1>5
<1>13. N \in Registry
  BY <1>4, <1>7, <1>10, <1>12 DEF Registry
<1>14. \A u \in Thread : C.waitSystem[u] = IF u = t THEN Null ELSE W.waitSystem[u]
  BY <1>2 DEF Cleared
<1>15. \A u \in Thread \ {t}, o \in Waitable : Waits(N, u, o) <=> Waits(C, u, o)
  BY <1>11, <1>12 DEF Waits
<1>16. \A o \in Waitable : Waits(N, t, o) => o \in a.objects
  <2> TAKE o \in Waitable
  <2>1. o \notin Trigger /\ o # Null
    BY WaitAssumption DEF Waitable
  <2> QED BY <1>6, <1>11, <1>12, <1>14, <2>1 DEF Waits
<1>17. Registered(C) => Registered(N)
  BY <1>9, <1>12, <1>15, <1>16 DEF Registered
<1>18. \A u \in Thread \ {t}, o \in Waitable : Waits(C, u, o) <=> Waits(W, u, o)
  BY <1>2 DEF Cleared
<1>19. Registered(W) => Registered(N)
  BY <1>3, <1>17 DEF Keeps
<1>20. N.waitSystem = C.waitSystem /\ N.exitCode = W.exitCode
  BY <1>4, <1>12
<1> QED BY <1>13, <1>14, <1>15, <1>18, <1>19, <1>20 DEF Waiting, N

LEMMA WaitSystemKeeps ==
  ASSUME NEW W \in Registry, NEW t \in Thread, NEW c \in Thread
  PROVE  /\ Waiting(W, t, c, WaitSystem(W, t, c))
         /\ \A o \in Waitable : Waits(WaitSystem(W, t, c), t, o) <=> o = c
<1> DEFINE C == ClearWait(W, {t})
           res == [C.waitResult EXCEPT ![t] = Null]
           sys == [C.waitSystem EXCEPT ![t] = c]
           wtl == [C.waitThreadList EXCEPT ![c] = Append(C.waitThreadList[c], t)]
           N == WaitSystem(W, t, c)
<1>1. N = [C EXCEPT !.waitResult = res, !.waitSystem = sys, !.waitThreadList = wtl]
  BY DEF WaitSystem
<1>2. Cleared(W, {t}, C)
  BY ClearWaitFields
<1>3. Keeps(W, C)
  BY ClearWaitKeeps
<1> HIDE DEF C
<1>4. C \in Registry /\ C.exitCode = W.exitCode
  BY <1>2 DEF Cleared
<1>5. C = [waitSystem |-> C.waitSystem, waitList |-> C.waitList,
           waitTimeout |-> C.waitTimeout, waitResult |-> C.waitResult,
           exitCode |-> C.exitCode, waitThreadList |-> C.waitThreadList]
  BY <1>4 DEF Registry
<1>6. c \in Waitable
  BY DEF Waitable
<1>7. res \in [Thread -> Result] /\ sys \in [Thread -> Thread \cup {Null}]
  BY <1>4 DEF Registry, Result, Code
<1>8. /\ C.waitThreadList \in [Waitable -> Seq(Thread)]
      /\ C.waitThreadList[c] \in Seq(Thread)
  BY <1>4, <1>6 DEF Registry
<1>9. /\ Append(C.waitThreadList[c], t) \in Seq(Thread)
      /\ ToSet(Append(C.waitThreadList[c], t)) = ToSet(C.waitThreadList[c]) \cup {t}
  BY <1>8, AppendElements
<1>10. \A o \in Waitable :
         ToSet(wtl[o]) = ToSet(C.waitThreadList[o]) \cup (IF o = c THEN {t} ELSE {})
  BY <1>8, <1>9
<1>11. wtl \in [Waitable -> Seq(Thread)]
  BY <1>8, <1>9
<1>12. \A u \in Thread : sys[u] = IF u = t THEN c ELSE C.waitSystem[u]
  BY <1>4 DEF Registry
<1> HIDE DEF N, res, sys, wtl
<1>13. N = [waitSystem |-> sys, waitList |-> C.waitList, waitTimeout |-> C.waitTimeout,
            waitResult |-> res, exitCode |-> C.exitCode, waitThreadList |-> wtl]
  BY <1>1, <1>5
<1>14. N \in Registry
  BY <1>4, <1>7, <1>11, <1>13 DEF Registry
<1>15. /\ \A u \in Thread \ {t}, o \in Waitable : Waits(C, u, o) <=> Waits(W, u, o)
       /\ \A o \in Waitable : ~ Waits(C, t, o)
       /\ \A u \in Thread : C.waitSystem[u] = IF u = t THEN Null ELSE W.waitSystem[u]
  BY <1>2 DEF Cleared
<1>16. \A u \in Thread, o \in Waitable : Waits(N, u, o) => Waits(C, u, o) \/ (u = t /\ o = c)
  BY <1>12, <1>13, <1>15 DEF Waits
<1>17. Registered(C) => Registered(N)
  BY <1>10, <1>13, <1>16 DEF Registered
<1>18. Registered(W) => Registered(N)
  BY <1>3, <1>17 DEF Keeps
<1>19. \A u \in Thread \ {t}, o \in Waitable : Waits(N, u, o) <=> Waits(C, u, o)
  BY <1>12, <1>13 DEF Waits
<1>20. \A u \in Thread : N.waitSystem[u] = IF u = t THEN c ELSE W.waitSystem[u]
  BY <1>12, <1>13, <1>15
<1>21. \A o \in Waitable : Waits(N, t, o) <=> o = c
  BY <1>13, <1>15, <1>20 DEF Waits
<1> QED BY <1>4, <1>13, <1>14, <1>15, <1>18, <1>19, <1>20, <1>21 DEF Waiting, N

-----------------------------------------------------------------------------
(* The scheduler's threads and the registry.                               *)

\* What every step but system() does to the registry: its two sides go on to
\* agree, no thread begins to wait for a thread by system(), nobody waits on
\* for a thread that ends, and a new thread does not begin to wait.
GoodStep ==
    /\ w' \in Registry
    /\ Registered(w) => Registered(w')
    /\ \A u \in Thread : w'.waitSystem[u] \in {Null, w.waitSystem[u]}
    /\ \A c \in Thread :
         Registered(w) /\ status[c] # "NONE" /\ status'[c] = "NONE"
           => \A u \in Thread : w'.waitSystem[u] # c
    /\ \A u \in Thread, o \in Waitable :
         Waits(w', u, o) => Waits(w, u, o) \/ u \in created \cup ToSet(stack)

LEMMA KeepsStep ==
  ASSUME TypeOK, Keeps(w, w'),
         \A c \in Thread : status'[c] = "NONE" => status[c] = "NONE"
  PROVE  GoodStep
BY DEF GoodStep, Keeps

LEMMA WaitingStep ==
  ASSUME TypeOK, NEW t \in Thread, t \in created, Waiting(w, t, Null, w'),
         \A c \in Thread : status'[c] = "NONE" => status[c] = "NONE"
  PROVE  GoodStep
BY DEF GoodStep, Waiting

\* A thread ends, with the exit code already in V.
LEMMA EndStep ==
  ASSUME TypeOK, NEW t \in Thread, NEW V, Keeps(w, V), w' = Exit(V, t),
         status' = [status EXCEPT ![t] = "NONE"]
  PROVE  GoodStep
<1>1. V \in Registry
  BY DEF Keeps
<1>2. /\ Keeps(V, w')
      /\ Registered(V) => \A u \in Thread : ~ Waits(w', u, t)
  BY <1>1, ExitKeeps
<1>3. Keeps(w, w')
  BY <1>2 DEF Keeps
<1>4. Registered(w) => \A u \in Thread : w'.waitSystem[u] # t
  BY <1>2 DEF Keeps, Waits
<1>5. \A c \in Thread : c # t => status'[c] = status[c]
  BY DEF TypeOK
<1> QED BY <1>3, <1>4, <1>5 DEF GoodStep, Keeps

LEMMA EndWithStep ==
  ASSUME TypeOK, NEW t \in Thread, NEW c \in Code,
         w' = Exit([w EXCEPT !.exitCode[t] = c], t),
         status' = [status EXCEPT ![t] = "NONE"]
  PROVE  GoodStep
<1>1. w \in Registry
  BY DEF TypeOK
<1>2. Keeps(w, [w EXCEPT !.exitCode[t] = c])
  BY <1>1, SetExitCode
<1> QED BY <1>2, EndStep

LEMMA KeepsItself ==
  ASSUME NEW W \in Registry
  PROVE  Keeps(W, W)
BY DEF Keeps

LEMMA SuspendCodeKeeps ==
  ASSUME NEW W \in Registry, TypeOK, stack # << >>, NEW n
  PROVE  Keeps(W, SuspendCode(W, n)) /\ SuspendCode(W, n) \in Registry
<1>1. Last(stack) \in Thread
  BY DEF TypeOK, Last
<1>2. "suspended" \in Code
  BY DEF Code
<1>3. Keeps(W, [W EXCEPT !.exitCode[Last(stack)] = "suspended"])
  BY <1>1, <1>2, SetExitCode
<1> QED BY <1>3, KeepsItself DEF SuspendCode, Keeps

\* The same for a wait that is followed by a suspension.
LEMMA SuspendCodeWaiting ==
  ASSUME TypeOK, stack # << >>, NEW t \in Thread, NEW c, NEW N, Waiting(w, t, c, N), NEW n
  PROVE  LET V == SuspendCode(N, n)
         IN  /\ V \in Registry
             /\ Registered(w) => Registered(V)
             /\ \A u \in Thread : V.waitSystem[u] = IF u = t THEN c ELSE w.waitSystem[u]
             /\ \A u \in Thread \ {t}, o \in Waitable : Waits(V, u, o) => Waits(w, u, o)
<1> DEFINE V == SuspendCode(N, n)
<1>1. N \in Registry
  BY DEF Waiting
<1>2. Keeps(N, V)
  BY <1>1, SuspendCodeKeeps
<1>3. V.waitSystem = N.waitSystem
  BY <1>1 DEF SuspendCode, Registry
<1> HIDE DEF V
<1>4. V \in Registry /\ (Registered(w) => Registered(V))
  BY <1>2 DEF Keeps, Waiting
<1>5. \A u \in Thread : V.waitSystem[u] = IF u = t THEN c ELSE w.waitSystem[u]
  BY <1>3 DEF Waiting
<1>6. \A u \in Thread \ {t}, o \in Waitable : Waits(V, u, o) => Waits(w, u, o)
  BY <1>2 DEF Keeps, Waiting
<1> QED BY <1>4, <1>5, <1>6 DEF V

LEMMA ElapseKeeps ==
  ASSUME NEW W \in Registry, TypeOK, NEW t \in Thread
  PROVE  Keeps(W, Elapse(W, t))
<1>1. CASE W.waitTimeout[t] < 0
  BY <1>1, KeepsItself DEF Elapse
<1>2. CASE ~ (W.waitTimeout[t] < 0) /\ W.waitTimeout[t] < diffTick
  BY <1>2, ClearWaitKeeps DEF Elapse
<1>3. CASE ~ (W.waitTimeout[t] < 0) /\ ~ (W.waitTimeout[t] < diffTick)
  <2>1. diffTick \in Nat /\ W.waitTimeout[t] \in -1 .. MaxTimeout /\ MaxTimeout \in Nat
    BY ThreadAssumption, WaitAssumption DEF TypeOK, Registry
  <2> DEFINE n == W.waitTimeout[t] - diffTick
  <2>2. n \in -1 .. MaxTimeout
    BY <1>3, <2>1
  <2>3. Elapse(W, t) = [W EXCEPT !.waitTimeout[t] = n]
    BY <1>3 DEF Elapse
  <2> HIDE DEF n
  <2>4. Keeps(W, [W EXCEPT !.waitTimeout[t] = n])
    BY <2>2, SetWaitTimeout
  <2> QED BY <2>3, <2>4
<1> QED BY <1>1, <1>2, <1>3

LEMMA WakeKeeps ==
  ASSUME NEW W \in Registry, NEW t \in Thread, Wake(W, t)
  PROVE  Keeps(W, w')
<1>1. Null \in Result
  BY DEF Result, Code
<1>2. Keeps(W, [W EXCEPT !.waitResult[t] = Null])
  BY <1>1, SetWaitResult
<1> QED BY <1>2, KeepsItself DEF Wake

-----------------------------------------------------------------------------
\* The step lemma, an action at a time.
LEMMA RegistryStep ==
  ASSUME TypeOK, Next
  PROVE  \/ GoodStep
         \/ \E c \in Thread, l \in Load, n \in Nested : System(c, l, n)
<1> USE DEF TypeOK
<1>0. w \in Registry /\ Keeps(w, w)
  BY KeepsItself
<1>1. ASSUME NEW d \in Diff, Update(d) PROVE GoodStep
  BY <1>0, <1>1, KeepsStep DEF Update
<1>2. CASE BeginMain
  BY <1>0, <1>2, KeepsStep DEF BeginMain
<1>3. CASE SkipEnded
  BY <1>0, <1>3, KeepsStep DEF SkipEnded
<1>4. CASE AwaitFile
  BY <1>0, <1>4, KeepsStep DEF AwaitFile
<1>5. CASE FailFile
  <2>1. Head(all) \in Thread /\ "error" \in Code
    BY <1>5 DEF FailFile, Code
  <2> QED BY <1>5, <2>1, EndWithStep DEF FailFile
<1>6. CASE Turn
  <2> DEFINE t == Head(all)
             now == Elapse(w, t)
  <2>1. t \in Thread
    BY <1>6 DEF Turn
  <2>2. Keeps(w, now)
    BY <1>0, <2>1, ElapseKeeps
  <2>3. now \in Registry
    BY <2>2 DEF Keeps
  <2>4. Wake(now, t) \/ w' = now
    BY <1>6 DEF Turn
  <2>5. \A c \in Thread : status'[c] = "NONE" => status[c] = "NONE"
    BY <1>6, <2>1 DEF Turn
  <2> HIDE DEF now, t
  <2>6. Keeps(now, w')
    BY <2>1, <2>3, <2>4, WakeKeeps, KeepsItself
  <2>7. Keeps(w, w')
    BY <2>2, <2>6 DEF Keeps
  <2> QED BY <2>5, <2>7, KeepsStep
<1>7. CASE EndMain
  BY <1>0, <1>7, KeepsStep DEF EndMain
<1>8. CASE DoneThread
  <2>1. Head(all) \in Thread
    BY <1>8 DEF DoneThread
  <2> QED BY <1>0, <1>8, <2>1, EndStep DEF DoneThread
<1>9. CASE EndDone
  BY <1>0, <1>9, KeepsStep DEF EndDone
<1>10. CASE Done
  BY <1>0, <1>10, KeepsStep DEF Done
<1>11. CASE Return
  <2>1. Last(stack) \in Thread /\ "value" \in Code
    BY <1>11 DEF Return, Last, Code
  <2> QED BY <1>11, <2>1, EndWithStep DEF Return
<1>12. CASE Fail
  <2>1. Last(stack) \in Thread /\ "error" \in Code
    BY <1>12 DEF Fail, Last, Code
  <2> QED BY <1>12, <2>1, EndWithStep DEF Fail
<1>13. CASE Suspend
  <2>1. Keeps(w, w')
    BY <1>0, <1>13, SuspendCodeKeeps DEF Suspend
  <2> QED BY <1>13, <2>1, KeepsStep DEF Suspend
<1>14. ASSUME NEW a \in WaitArgs, NEW n \in Nested, SelfWait(a, n) PROVE GoodStep
  <2> DEFINE t == Last(stack)  N == WaitFor(w, t, a)
  <2>1. t \in Thread /\ a \in WaitArg /\ stack # << >>
    BY <1>14, ThreadAssumption DEF SelfWait, Last
  <2>2. Waiting(w, t, Null, N)
    BY <1>0, <2>1, WaitForKeeps
  <2>3. w' = SuspendCode(N, n) /\ status' = status
    BY <1>14 DEF SelfWait
  <2>4. t \in ToSet(stack)
    BY <2>1, FrontElements
  <2> HIDE DEF N, t
  <2>5. /\ w' \in Registry /\ (Registered(w) => Registered(w'))
        /\ \A u \in Thread : w'.waitSystem[u] = IF u = t THEN Null ELSE w.waitSystem[u]
        /\ \A u \in Thread \ {t}, o \in Waitable : Waits(w', u, o) => Waits(w, u, o)
    BY <2>1, <2>2, <2>3, SuspendCodeWaiting
  <2> QED BY <2>3, <2>4, <2>5 DEF GoodStep
<1>15. ASSUME NEW n \in Nested, SelfExit(n) PROVE GoodStep
  <2>1. Last(stack) \in Thread /\ "value" \in Code
    BY <1>15 DEF SelfExit, Last, Code
  <2> QED BY <1>15, <2>1, EndWithStep DEF SelfExit
<1>16. ASSUME NEW c \in Thread, NEW l \in Load, Fork(c, l) PROVE GoodStep
  <2>1. \A u \in Thread : status'[u] = "NONE" => status[u] = "NONE"
    BY <1>16, ThreadAssumption DEF Fork, LoadStatus
  <2> QED BY <1>0, <1>16, <2>1, KeepsStep DEF Fork
<1>17. ASSUME NEW t \in Thread, NEW l \in Load, Exec(t, l) PROVE GoodStep
  <2>1. \A u \in Thread : status'[u] = "NONE" => status[u] = "NONE"
    BY <1>17, ThreadAssumption DEF Exec, LoadStatus
  <2>2. Keeps(w, w')
    BY <1>0, <1>17, ClearWaitKeeps DEF Exec
  <2> QED BY <2>1, <2>2, KeepsStep
<1>18. ASSUME NEW t \in Thread, ExitThread(t) PROVE GoodStep
  <2>1. "value" \in Code
    BY DEF Code
  <2> QED BY <1>18, <2>1, EndWithStep DEF ExitThread
<1>19. ASSUME NEW t \in Thread, Stop(t) PROVE GoodStep
  BY <1>0, <1>19, KeepsStep DEF Stop
<1>20. ASSUME NEW t \in Thread, Run(t) PROVE GoodStep
  BY <1>0, <1>20, KeepsStep DEF Run
<1>21. ASSUME NEW t \in Thread, Cancel(t) PROVE GoodStep
  BY <1>0, <1>21, KeepsStep, CancelWaitKeeps DEF Cancel
<1>22. ASSUME NEW t \in Thread, Step(t) PROVE GoodStep
  BY <1>0, <1>22, KeepsStep, WakeKeeps DEF Step
<1>23. ASSUME NEW t \in Thread, NEW a \in WaitArgs, WaitOn(t, a) PROVE GoodStep
  <2>1. a \in WaitArg
    BY ThreadAssumption
  <2> QED BY <1>0, <1>23, <2>1, WaitForKeeps, WaitingStep DEF WaitOn
<1>24. ASSUME NEW t \in Thread, NEW p \in Priority, SetPriority(t, p) PROVE GoodStep
  BY <1>0, <1>24, KeepsStep DEF SetPriority
<1>25. ASSUME NEW t \in Thread, NEW m \in StepModes, SetStepMode(t, m) PROVE GoodStep
  BY <1>0, <1>25, KeepsStep DEF SetStepMode
<1>26. ASSUME NEW o \in NotifyTargets, NotifyOne(o) PROVE GoodStep
  <2>1. o \in Waitable
    BY ThreadAssumption
  <2> QED BY <1>0, <1>26, <2>1, NotifyKeeps, KeepsStep DEF NotifyOne
<1>27. ASSUME NEW o \in NotifyTargets, NotifyEvery(o) PROVE GoodStep
  <2>1. o \in Waitable
    BY ThreadAssumption
  <2> QED BY <1>0, <1>27, <2>1, NotifyAllKeeps, KeepsStep DEF NotifyEvery
<1>28. ASSUME NEW x \in Trigger, SendTrigger(x) PROVE GoodStep
  <2>1. ToSet(threadList) \in SUBSET Thread
    BY DEF ToSet
  <2> QED BY <1>0, <1>28, <2>1, NotifyTriggerKeeps, KeepsStep DEF SendTrigger
<1>29. ASSUME NEW n \in Nested, SystemNothing(n) PROVE GoodStep
  <2> DEFINE t == Last(stack)  N == CancelWait(w, t)
  <2>1. t \in Thread /\ stack # << >>
    BY <1>29 DEF SystemNothing, TypeOK, Last
  <2>2. Keeps(w, N)
    BY <1>0, <2>1, CancelWaitKeeps
  <2>3. w' = SuspendCode(N, n)
    BY <1>29 DEF SystemNothing
  <2>4. Keeps(N, w')
    BY <2>1, <2>2, <2>3, SuspendCodeKeeps DEF Keeps
  <2>5. Keeps(w, w')
    BY <2>2, <2>4 DEF Keeps
  <2> QED BY <1>29, <2>5, KeepsStep DEF SystemNothing
<1> QED
  BY <1>1, <1>2, <1>3, <1>4, <1>5, <1>6, <1>7, <1>8, <1>9, <1>10, <1>11, <1>12,
     <1>13, <1>14, <1>15, <1>16, <1>17, <1>18, <1>19, <1>20, <1>21, <1>22, <1>23,
     <1>24, <1>25, <1>26, <1>27, <1>28, <1>29 DEF Next, Host, HandBack, Call

\* system() makes its caller wait for the new thread, and changes no other
\* thread's wait.
LEMMA SystemStep ==
  ASSUME TypeOK, NEW c \in Thread, NEW l \in Load, NEW n \in Nested, System(c, l, n)
  PROVE  /\ w' \in Registry
         /\ Registered(w) => Registered(w')
         /\ \A u \in Thread :
              w'.waitSystem[u] = IF u = Last(stack) THEN c ELSE w.waitSystem[u]
         /\ \A u \in Thread \ {Last(stack)}, o \in Waitable : Waits(w', u, o) => Waits(w, u, o)
<1> DEFINE t == Last(stack)  N == WaitSystem(w, t, c)
<1>1. t \in Thread /\ stack # << >>
  BY DEF TypeOK, System, Last
<1>2. w \in Registry
  BY DEF TypeOK
<1>3. Waiting(w, t, c, N)
  BY <1>1, <1>2, WaitSystemKeeps
<1>4. w' = SuspendCode(N, n)
  BY DEF System
<1> HIDE DEF N, t
<1>5. /\ w' \in Registry /\ (Registered(w) => Registered(w'))
      /\ \A u \in Thread : w'.waitSystem[u] = IF u = t THEN c ELSE w.waitSystem[u]
      /\ \A u \in Thread \ {t}, o \in Waitable : Waits(w', u, o) => Waits(w, u, o)
  BY <1>1, <1>3, <1>4, SuspendCodeWaiting
<1> QED BY <1>5 DEF t

-----------------------------------------------------------------------------
\* The types of the other variables.
Types ==
    /\ created \subseteq Thread
    /\ status \in [Thread -> Status]
    /\ vm \in [Thread -> {"none", "idle", "running", "suspended"}]
    /\ priority \in [Thread -> Priority]
    /\ stepMode \in [Thread -> BOOLEAN]
    /\ threadList \in Seq(Thread)
    /\ phase \in Phase
    /\ diffTick \in Diff \cup {0}
    /\ all \in Seq(Thread)
    /\ stack \in Seq(Thread)

LEMMA ByPriorityType ==
  ASSUME NEW S \in SUBSET Thread, NEW q \in ByPriority(S)
  PROVE  q \in Seq(Thread)
<1>1. IsFiniteSet(S)
  BY WaitAssumption, FS_Subset
<1>2. Cardinality(S) \in Nat
  BY <1>1, FS_CardinalityType
<1>3. q \in [1 .. Cardinality(S) -> S]
  BY DEF ByPriority
<1> HIDE DEF ByPriority
<1>4. q \in [1 .. Cardinality(S) -> Thread]
  BY <1>3
<1> QED BY <1>2, <1>4

LEMMA TypesStep ==
  ASSUME TypeOK, Next
  PROVE  Types'
<1> USE ThreadAssumption DEF Types
<1>0. Types
  BY DEF TypeOK
<1>a. stack # << >> => /\ Last(stack) \in Thread
                       /\ Front(stack) \in Seq(Thread)
  BY <1>0 DEF Last, Front
<1>b. all # << >> => Head(all) \in Thread /\ Tail(all) \in Seq(Thread)
  BY <1>0
<1>c. \A l \in Load : l # "none" => LoadStatus[l] \in Status
  BY DEF LoadStatus, Status
<1>d. "NONE" \in Status /\ "RUN" \in Status /\ "STOP" \in Status
  BY DEF Status
<1>e. \A p \in {"idle", "updated", "main", "done", "down"} : p \in Phase
  BY DEF Phase
<1>1. ASSUME NEW d \in Diff, Update(d) PROVE Types'
  BY <1>0, <1>1, <1>e DEF Update
<1>2. CASE BeginMain
  <2>1. {t \in ToSet(threadList) : status[t] # "NONE"} \in SUBSET Thread
    BY <1>0 DEF ToSet
  <2>2. all' \in Seq(Thread)
    BY <1>2, <2>1, ByPriorityType DEF BeginMain
  <2> QED BY <1>0, <1>2, <1>e, <2>2 DEF BeginMain
<1>3. CASE SkipEnded
  BY <1>0, <1>3, <1>b DEF SkipEnded
<1>4. CASE AwaitFile
  BY <1>0, <1>4, <1>b DEF AwaitFile
<1>5. CASE FailFile
  BY <1>0, <1>5, <1>b, <1>d DEF FailFile
<1>6. CASE Turn
  <2>1. stack' \in Seq(Thread)
    <3>1. Wake(Elapse(w, Head(all)), Head(all)) \/ stack' = stack
      BY <1>6 DEF Turn
    <3>2. stack' = Append(stack, Head(all)) \/ stack' = stack
      BY <3>1 DEF Wake
    <3>3. Head(all) \in Thread
      BY <1>6, <1>b DEF Turn
    <3>4. stack \in Seq(Thread)
      BY <1>0
    <3>5. \A t \in Thread : Append(stack, t) \in Seq(Thread)
      BY <3>4
    <3> QED BY <3>2, <3>3, <3>4, <3>5, Zenon
  <2>2. vm' \in [Thread -> {"none", "idle", "running", "suspended"}]
    <3> DEFINE t == Head(all)
    <3>1. CASE vm' = [vm EXCEPT ![t] = "running"]
      BY <1>0, <3>1
    <3>2. CASE vm' = [vm EXCEPT ![t] = "idle"]
      BY <1>0, <3>2
    <3>3. CASE vm' = [vm EXCEPT ![t] = @]
      BY <1>0, <3>3
    <3>4. \/ vm' = [vm EXCEPT ![t] = "running"]
          \/ vm' = [vm EXCEPT ![t] = "idle"]
          \/ vm' = [vm EXCEPT ![t] = @]
      BY <1>6, Zenon DEF Turn
    <3> HIDE DEF t
    <3> QED BY <3>1, <3>2, <3>3, <3>4
  <2>3. status' \in [Thread -> Status]
    BY <1>0, <1>6, <1>b, <1>d DEF Turn
  <2> QED BY <1>0, <1>6, <1>b, <2>1, <2>2, <2>3 DEF Turn
<1>7. CASE EndMain
  <2>1. threadList' \in Seq(Thread)
    BY <1>0, <1>7, WithoutElements DEF EndMain
  <2> QED BY <1>0, <1>7, <1>e, <2>1 DEF EndMain
<1>8. CASE DoneThread
  BY <1>0, <1>8, <1>b, <1>d DEF DoneThread
<1>9. CASE EndDone
  BY <1>0, <1>9, <1>e DEF EndDone
<1>10. CASE Done
  BY <1>0, <1>10, <1>e DEF Done
<1>11. CASE Return
  BY <1>0, <1>11, <1>a, <1>d DEF Return
<1>12. CASE Fail
  BY <1>0, <1>12, <1>a, <1>d DEF Fail
<1>13. CASE Suspend
  BY <1>0, <1>13, <1>a DEF Suspend, SuspendTop
<1>14. ASSUME NEW a \in WaitArgs, NEW n \in Nested, SelfWait(a, n) PROVE Types'
  BY <1>0, <1>14, <1>a DEF SelfWait, SuspendTop
<1>15. ASSUME NEW n \in Nested, SelfExit(n) PROVE Types'
  BY <1>0, <1>15, <1>a, <1>d DEF SelfExit, SuspendTop
<1>16. ASSUME NEW c \in Thread, NEW l \in Load, NEW n \in Nested, System(c, l, n)
       PROVE  Types'
  <2> DEFINE st == LoadStatus[l]
  <2>1. st \in Status
    BY <1>16, <1>c DEF System
  <2>2. status' = [status EXCEPT ![c] = st] /\ threadList' = Append(threadList, c)
    BY <1>16 DEF System
  <2> HIDE DEF st
  <2>3. status' \in [Thread -> Status] /\ threadList' \in Seq(Thread)
    BY <1>0, <2>1, <2>2
  <2>4. vm' \in [Thread -> {"none", "idle", "running", "suspended"}] /\ stack' \in Seq(Thread)
    BY <1>0, <1>16, <1>a DEF System, SuspendTop
  <2> QED BY <1>0, <1>16, <2>3, <2>4 DEF System
<1>16a. ASSUME NEW n \in Nested, SystemNothing(n) PROVE Types'
  BY <1>0, <1>16a, <1>a DEF SystemNothing, SuspendTop
<1>17. ASSUME NEW c \in Thread, NEW l \in Load, Fork(c, l) PROVE Types'
  <2>1. CASE l = "none"
    BY <1>0, <1>17, <2>1 DEF Fork
  <2>2. CASE l # "none"
    <3> DEFINE st == LoadStatus[l]
    <3>1. st \in Status
      BY <1>c, <2>2
    <3>2. status' = [status EXCEPT ![c] = st]
      BY <1>17, <2>2 DEF Fork
    <3> HIDE DEF st
    <3>3. status' \in [Thread -> Status]
      BY <1>0, <3>1, <3>2
    <3>4. threadList' = Append(threadList, c)
      BY <1>17, <2>2 DEF Fork
    <3> QED BY <1>0, <1>17, <3>3, <3>4 DEF Fork
  <2> QED BY <2>1, <2>2
<1>18. ASSUME NEW t \in Thread, NEW l \in Load, Exec(t, l) PROVE Types'
  BY <1>0, <1>18, <1>c DEF Exec, Entered
<1>19. ASSUME NEW t \in Thread, ExitThread(t) PROVE Types'
  BY <1>0, <1>19, <1>d DEF ExitThread
<1>20. ASSUME NEW t \in Thread, Stop(t) PROVE Types'
  BY <1>0, <1>20, <1>d DEF Stop
<1>21. ASSUME NEW t \in Thread, Run(t) PROVE Types'
  BY <1>0, <1>21, <1>d DEF Run
<1>22. ASSUME NEW t \in Thread, Cancel(t) PROVE Types'
  BY <1>0, <1>22 DEF Cancel
<1>23. ASSUME NEW t \in Thread, Step(t) PROVE Types'
  BY <1>0, <1>23 DEF Step, Wake
<1>24. ASSUME NEW t \in Thread, NEW a \in WaitArgs, WaitOn(t, a) PROVE Types'
  BY <1>0, <1>24 DEF WaitOn
<1>25. ASSUME NEW t \in Thread, NEW p \in Priority, SetPriority(t, p) PROVE Types'
  BY <1>0, <1>25 DEF SetPriority
<1>26. ASSUME NEW t \in Thread, NEW m \in StepModes, SetStepMode(t, m) PROVE Types'
  BY <1>0, <1>26 DEF SetStepMode
<1>27. ASSUME NEW o \in NotifyTargets, NotifyOne(o) PROVE Types'
  BY <1>0, <1>27 DEF NotifyOne
<1>28. ASSUME NEW o \in NotifyTargets, NotifyEvery(o) PROVE Types'
  BY <1>0, <1>28 DEF NotifyEvery
<1>29. ASSUME NEW x \in Trigger, SendTrigger(x) PROVE Types'
  BY <1>0, <1>29 DEF SendTrigger
<1> QED
  BY <1>1, <1>2, <1>3, <1>4, <1>5, <1>6, <1>7, <1>8, <1>9, <1>10, <1>11, <1>12,
     <1>13, <1>14, <1>15, <1>16, <1>16a, <1>17, <1>18, <1>19, <1>20, <1>21, <1>22, <1>23,
     <1>24, <1>25, <1>26, <1>27, <1>28, <1>29 DEF Next, Host, HandBack, Call

-----------------------------------------------------------------------------
LEMMA InitTypes ==
  Init => TypeOK /\ WaitRegistered
<1>1. NoWaits \in Registry
  BY WaitAssumption DEF NoWaits, Registry, Result, Code
<1>2. Registered(NoWaits)
  BY WaitAssumption DEF NoWaits, Registered, Waits, Waitable
<1>3. Init => Types
  BY ThreadAssumption DEF Init, Types, Status, Phase
<1> QED BY <1>1, <1>2, <1>3 DEF Init, TypeOK, Types, WaitRegistered

\* TypeOK holds inductively on its own; WaitRegistered needs only the types.
LEMMA TypeStep ==
  TypeOK /\ [Next]_vars => TypeOK'
<1> SUFFICES ASSUME TypeOK, [Next]_vars PROVE TypeOK'
  OBVIOUS
<1>1. CASE Next
  <2>1. w' \in Registry
    BY <1>1, RegistryStep, SystemStep DEF GoodStep
  <2>2. Types'
    BY <1>1, TypesStep
  <2> QED BY <2>1, <2>2 DEF TypeOK, Types
<1>2. CASE UNCHANGED vars
  BY <1>2 DEF TypeOK, vars
<1> QED BY <1>1, <1>2

LEMMA RegisteredStep ==
  TypeOK /\ WaitRegistered /\ [Next]_vars => WaitRegistered'
<1> SUFFICES ASSUME TypeOK, WaitRegistered, [Next]_vars PROVE WaitRegistered'
  OBVIOUS
<1>1. CASE Next
  BY <1>1, RegistryStep, SystemStep DEF GoodStep, WaitRegistered
<1>2. CASE UNCHANGED vars
  <2>1. w' = w
    BY <1>2 DEF vars
  <2> QED BY <2>1 DEF WaitRegistered
<1> QED BY <1>1, <1>2

\* Every variable keeps its type: in particular no step of the host loop or of
\* a script takes a thread out of the states _main and _wakeup know, and the
\* time left of a wait never drops below its "no timeout" value -1.
THEOREM TypeCorrect == Spec => []TypeOK
<1>1. Init => TypeOK
  BY InitTypes
<1> QED BY <1>1, TypeStep, PTL DEF Spec

\* Whatever scripts do (also to each other's waits, and below native
\* functions) a thread that waits for an object is on that object's list, so
\* notify(), notifyAll() and the end of a thread never miss a waiter.
THEOREM WaitRegisteredAlways == Spec => []WaitRegistered
<1>1. Init => WaitRegistered
  BY InitTypes
<1>2. Spec => []TypeOK
  BY TypeCorrect
<1> QED BY <1>1, <1>2, RegisteredStep, PTL DEF Spec

-----------------------------------------------------------------------------
\* The thread list.  During Thread::done the threads that are still alive are
\* those it has yet to visit, and no script runs.
Listed ==
    /\ \A t \in Thread : status[t] # "NONE" => t \in ToSet(threadList)
    /\ phase \in {"done", "down"} => stack = << >>
    /\ phase = "done" => \A t \in Thread : status[t] # "NONE" => t \in ToSet(all)
    /\ phase = "down" => \A t \in Thread : status[t] = "NONE"

\* A step that a script makes, or the host loop outside Thread::done, keeps
\* Listed if the threads it starts are in the list.
LEMMA ListedStep ==
  ASSUME TypeOK, Listed, phase \notin {"done", "down"}, phase' = phase,
         \A t \in Thread : status'[t] # "NONE" =>
           t \in ToSet(threadList')
  PROVE  Listed'
BY DEF Listed

LEMMA CallerPhase ==
  ASSUME Listed, CanCall \/ stack # << >>
  PROVE  phase \notin {"done", "down"}
BY DEF Listed, CanCall

LEMMA StartStep ==
  ASSUME TypeOK, Listed, NEW t \in Thread, NEW s,
         status' = [status EXCEPT ![t] = s], threadList' = Append(threadList, t)
  PROVE  \A u \in Thread : status'[u] # "NONE" => u \in ToSet(threadList')
<1>1. ToSet(threadList') = ToSet(threadList) \cup {t}
  BY AppendElements DEF TypeOK
<1>2. \A u \in Thread \ {t} : status'[u] = status[u]
  BY DEF TypeOK
<1> QED BY <1>1, <1>2 DEF Listed

LEMMA ListedNext ==
  ASSUME TypeOK, Listed, Next
  PROVE  Listed'
<1>0. \A t \in Thread : status[t] # "NONE" => t \in ToSet(threadList)
  BY DEF Listed
\* Steps that start no thread and leave the list and the phase alone.
<1>a. ASSUME phase \notin {"done", "down"}, UNCHANGED <<threadList, phase>>,
             \A t \in Thread : status'[t] # "NONE" => status[t] # "NONE"
      PROVE  Listed'
  BY <1>0, <1>a, ListedStep
<1>1. ASSUME NEW d \in Diff, Update(d) PROVE Listed'
  BY <1>0, <1>1 DEF Update, Listed
<1>2. CASE BeginMain
  BY <1>0, <1>2 DEF BeginMain, Listed
<1>3. CASE SkipEnded
  BY <1>a, <1>3 DEF SkipEnded
<1>4. CASE AwaitFile
  BY <1>a, <1>4 DEF AwaitFile
<1>5. CASE FailFile
  <2>1. \A t \in Thread : status'[t] # "NONE" => status[t] # "NONE"
    BY <1>5 DEF FailFile, TypeOK
  <2> QED BY <1>a, <1>5, <2>1 DEF FailFile
<1>6. CASE Turn
  <2>1. \A t \in Thread : status'[t] # "NONE" => status[t] # "NONE"
    BY <1>6 DEF Turn, TypeOK
  <2> QED BY <1>a, <1>6, <2>1 DEF Turn
<1>7. CASE EndMain
  <2>1. ToSet(threadList') = ToSet(threadList) \ {t \in Thread : status[t] = "NONE"}
    BY <1>7, WithoutElements DEF EndMain, TypeOK
  <2> QED BY <1>0, <1>7, <2>1 DEF EndMain, Listed
<1>8. CASE DoneThread
  <2>1. ToSet(all) \subseteq {Head(all)} \cup ToSet(all')
    BY <1>8, TailElements DEF DoneThread, TypeOK
  <2>2. \A t \in Thread : status'[t] # "NONE" => status[t] # "NONE" /\ t # Head(all)
    BY <1>8 DEF DoneThread, TypeOK
  <2> QED BY <1>0, <1>8, <2>1, <2>2 DEF DoneThread, Listed
<1>9. CASE EndDone
  <2>1. ToSet(all) = {}
    BY <1>9 DEF EndDone, ToSet
  <2> QED BY <1>9, <2>1 DEF EndDone, Listed
<1>10. CASE Done
  BY <1>0, <1>10 DEF Done, Listed
<1>11. CASE Return \/ Fail
  <2>1. \A t \in Thread : status'[t] # "NONE" => status[t] # "NONE"
    BY <1>11 DEF Return, Fail, TypeOK
  <2> QED BY <1>a, <1>11, <2>1, CallerPhase DEF Return, Fail
<1>12. CASE Suspend
  BY <1>a, <1>12, CallerPhase DEF Suspend
<1>13. ASSUME NEW a \in WaitArgs, NEW n \in Nested, SelfWait(a, n) PROVE Listed'
  BY <1>a, <1>13, CallerPhase DEF SelfWait
<1>14. ASSUME NEW n \in Nested, SelfExit(n) PROVE Listed'
  <2>1. \A t \in Thread : status'[t] # "NONE" => status[t] # "NONE"
    BY <1>14 DEF SelfExit, TypeOK
  <2> QED BY <1>a, <1>14, <2>1, CallerPhase DEF SelfExit
<1>15. ASSUME NEW c \in Thread, NEW l \in Load, NEW n \in Nested, System(c, l, n)
       PROVE  Listed'
  <2>1. phase \notin {"done", "down"} /\ phase' = phase
    BY <1>15, CallerPhase DEF System
  <2>2. status' = [status EXCEPT ![c] = LoadStatus[l]] /\ threadList' = Append(threadList, c)
    BY <1>15 DEF System
  <2> QED BY <2>1, <2>2, StartStep, ListedStep
<1>15a. ASSUME NEW n \in Nested, SystemNothing(n) PROVE Listed'
  BY <1>a, <1>15a, CallerPhase DEF SystemNothing
<1>16. ASSUME NEW c \in Thread, NEW l \in Load, Fork(c, l) PROVE Listed'
  <2>1. phase \notin {"done", "down"} /\ phase' = phase
    BY <1>16, CallerPhase DEF Fork
  <2>2. CASE l = "none"
    BY <1>a, <1>16, <2>1, <2>2 DEF Fork
  <2>3. CASE l # "none"
    <3>1. status' = [status EXCEPT ![c] = LoadStatus[l]] /\ threadList' = Append(threadList, c)
      BY <1>16, <2>3 DEF Fork
    <3> QED BY <2>1, <3>1, StartStep, ListedStep
  <2> QED BY <2>2, <2>3
<1>17. ASSUME NEW t \in Thread, NEW l \in Load, Exec(t, l) PROVE Listed'
  <2>1. phase \notin {"done", "down"} /\ phase' = phase
    BY <1>17, CallerPhase DEF Exec
  <2>2. status' = [status EXCEPT ![t] = LoadStatus[l]]
    BY <1>17 DEF Exec
  <2>3. CASE t \in ToSet(threadList)
    <3>1. threadList' = threadList
      BY <1>17, <2>3 DEF Exec, Entered
    <3>2. \A u \in Thread \ {t} : status'[u] = status[u]
      BY <2>2 DEF TypeOK
    <3> QED BY <1>0, <2>1, <2>3, <3>1, <3>2, ListedStep
  <2>4. CASE t \notin ToSet(threadList)
    <3>1. threadList' = Append(threadList, t)
      BY <1>17, <2>4 DEF Exec, Entered
    <3> QED BY <2>1, <2>2, <3>1, StartStep, ListedStep
  <2> QED BY <2>3, <2>4
<1>18. ASSUME NEW t \in Thread, ExitThread(t) PROVE Listed'
  <2>1. \A u \in Thread : status'[u] # "NONE" => status[u] # "NONE"
    BY <1>18 DEF ExitThread, TypeOK
  <2> QED BY <1>a, <1>18, <2>1, CallerPhase DEF ExitThread
<1>19. ASSUME NEW t \in Thread, Stop(t) \/ Run(t) PROVE Listed'
  <2>1. \A u \in Thread : status'[u] # "NONE" => status[u] # "NONE"
    BY <1>19 DEF Stop, Run, TypeOK
  <2> QED BY <1>a, <1>19, <2>1, CallerPhase DEF Stop, Run
<1>20. ASSUME NEW t \in Thread, Cancel(t) \/ Step(t) PROVE Listed'
  BY <1>a, <1>20, CallerPhase DEF Cancel, Step
<1>21. ASSUME NEW t \in Thread, NEW a \in WaitArgs, WaitOn(t, a) PROVE Listed'
  BY <1>a, <1>21, CallerPhase DEF WaitOn
<1>22. ASSUME NEW t \in Thread, NEW p \in Priority, SetPriority(t, p) PROVE Listed'
  BY <1>a, <1>22, CallerPhase DEF SetPriority
<1>23. ASSUME NEW t \in Thread, NEW m \in StepModes, SetStepMode(t, m) PROVE Listed'
  BY <1>a, <1>23, CallerPhase DEF SetStepMode
<1>24. ASSUME NEW o \in NotifyTargets, NotifyOne(o) \/ NotifyEvery(o) PROVE Listed'
  BY <1>a, <1>24, CallerPhase DEF NotifyOne, NotifyEvery
<1>25. ASSUME NEW x \in Trigger, SendTrigger(x) PROVE Listed'
  BY <1>a, <1>25, CallerPhase DEF SendTrigger
<1> QED
  BY <1>1, <1>2, <1>3, <1>4, <1>5, <1>6, <1>7, <1>8, <1>9, <1>10, <1>11, <1>12,
     <1>13, <1>14, <1>15, <1>15a, <1>16, <1>17, <1>18, <1>19, <1>20, <1>21, <1>22, <1>23,
     <1>24, <1>25 DEF Next, Host, HandBack, Call

\* A live thread is in the thread list, where triggers, getCurrentThread and
\* the next round find it; Thread::done leaves none alive.
THEOREM LiveThreadsListed == Spec => []Listed
<1>1. Init => Listed
  BY DEF Init, Listed
<1>2. Spec => []TypeOK
  BY TypeCorrect
<1>3. TypeOK /\ Listed /\ [Next]_vars => Listed'
  <2> SUFFICES ASSUME TypeOK, Listed, [Next]_vars PROVE Listed'
    OBVIOUS
  <2>1. CASE UNCHANGED vars
    BY <2>1 DEF vars, Listed
  <2> QED BY <2>1, ListedNext
<1> QED BY <1>1, <1>2, <1>3, PTL DEF Spec

-----------------------------------------------------------------------------
ChildAlive ==
    \A t \in Thread : w.waitSystem[t] # Null => status[w.waitSystem[t]] # "NONE"

LEMMA ChildAliveStep ==
  ASSUME TypeOK, WaitRegistered, ChildAlive, Next
  PROVE  ChildAlive'
<1> SUFFICES ASSUME NEW t \in Thread, w'.waitSystem[t] # Null
             PROVE  status'[w'.waitSystem[t]] # "NONE"
  BY DEF ChildAlive
<1>0. \A u \in Thread : w.waitSystem[u] \in Thread \cup {Null}
  BY DEF TypeOK, Registry
<1>1. CASE GoodStep
  <2>1. w'.waitSystem[t] = w.waitSystem[t] /\ w.waitSystem[t] \in Thread
    BY <1>0, <1>1 DEF GoodStep
  <2>2. status[w.waitSystem[t]] # "NONE"
    BY <2>1 DEF ChildAlive
  <2> QED BY <1>1, <2>1, <2>2 DEF GoodStep, WaitRegistered
<1>2. ASSUME NEW c \in Thread, NEW l \in Load, NEW n \in Nested, System(c, l, n)
      PROVE  status'[w'.waitSystem[t]] # "NONE"
  <2> DEFINE st == LoadStatus[l]
  <2>1. l \in {"file", "func"}
    BY <1>2, ThreadAssumption DEF System
  <2>2. st # "NONE"
    BY <2>1 DEF LoadStatus
  <2>3. status' = [status EXCEPT ![c] = st]
    BY <1>2 DEF System
  <2> HIDE DEF st
  <2>4. \A u \in Thread : status'[u] = IF u = c THEN st ELSE status[u]
    BY <2>3 DEF TypeOK
  <2>5. w'.waitSystem[t] = c \/ w'.waitSystem[t] = w.waitSystem[t]
    BY <1>2, SystemStep
  <2> QED BY <1>0, <2>2, <2>4, <2>5 DEF ChildAlive
<1> QED BY <1>1, <1>2, RegistryStep

\* A thread that system() makes its caller wait for is alive and in the thread
\* list: the caller is never left behind by a thread that ended before the wait
\* began or was dropped during it.
THEOREM SystemChildLiveAlways == Spec => []SystemChildLive
<1>1. Init => ChildAlive
  BY WaitAssumption DEF Init, NoWaits, ChildAlive
<1>2. Spec => []TypeOK
  BY TypeCorrect
<1>3. Spec => []WaitRegistered
  BY WaitRegisteredAlways
<1>4. Spec => []Listed
  BY LiveThreadsListed
<1>5. TypeOK /\ WaitRegistered /\ ChildAlive /\ [Next]_vars => ChildAlive'
  <2> SUFFICES ASSUME TypeOK, WaitRegistered, ChildAlive, [Next]_vars
               PROVE  ChildAlive'
    OBVIOUS
  <2>1. CASE UNCHANGED vars
    BY <2>1 DEF vars, ChildAlive
  <2> QED BY <2>1, ChildAliveStep
<1>6. TypeOK /\ Listed /\ ChildAlive => SystemChildLive
  <2> SUFFICES ASSUME TypeOK, Listed, ChildAlive, NEW t \in Thread,
                      w.waitSystem[t] # Null
               PROVE  /\ status[w.waitSystem[t]] # "NONE"
                      /\ w.waitSystem[t] \in ToSet(threadList)
    BY DEF SystemChildLive
  <2>1. w.waitSystem[t] \in Thread
    BY DEF TypeOK, Registry
  <2> QED BY <2>1 DEF Listed, ChildAlive
<1> QED BY <1>1, <1>2, <1>3, <1>4, <1>5, <1>6, PTL DEF Spec

-----------------------------------------------------------------------------
(* The lists of raw thread pointers and the VMs behind them: what          *)
(* Thread::main walks over and what the C++ call stack holds stays alive,  *)
(* once each, and in the state the VM is in.  And the scheduler, with its  *)
(* registry, lists, VMs and rounds, implements ThreadLife: every step is   *)
(* one of the six things that may happen in the life of threads.           *)

Held ==
    /\ ToSet(threadList) \subseteq created
    /\ IsInjective(threadList)
    /\ ToSet(all) \subseteq ToSet(threadList)
    /\ ToSet(stack) \subseteq ToSet(threadList)

\* A step that drops nothing from the thread list and adds nothing to the others.
LEMMA HeldStep ==
  ASSUME Held, threadList' = threadList, created \subseteq created',
         ToSet(all') \subseteq ToSet(all), ToSet(stack') \subseteq ToSet(stack)
  PROVE  Held'
BY DEF Held

\* A step that only makes a new thread or restarts one.
LEMMA StartHeld ==
  ASSUME TypeOK, Held, NEW t \in Thread, t \in created', t \notin ToSet(threadList),
         threadList' = Append(threadList, t), created \subseteq created',
         all' = all, ToSet(stack') \subseteq ToSet(stack)
  PROVE  Held'
<1>1. threadList \in Seq(Thread)
  BY DEF TypeOK
<1>2. /\ ToSet(threadList') = ToSet(threadList) \cup {t}
      /\ IsInjective(threadList')
  BY <1>1, AppendElements DEF Held
<1> QED BY <1>2 DEF Held

\* The two ways in which the innermost script leaves the stack or stays.
LEMMA StackShrinks ==
  ASSUME TypeOK, stack # << >>, NEW n \in Nested,
         stack' = Front(stack) \/ SuspendTop(n)
  PROVE  ToSet(stack') \subseteq ToSet(stack)
<1>1. ToSet(Front(stack)) \subseteq ToSet(stack)
  BY FrontElements DEF TypeOK
<1> QED BY <1>1 DEF SuspendTop

LEMMA HeldNext ==
  ASSUME TypeOK, Listed, Held, Next
  PROVE  Held'
<1>0. /\ threadList \in Seq(Thread) /\ all \in Seq(Thread) /\ stack \in Seq(Thread)
      /\ status \in [Thread -> Status]
  BY DEF TypeOK
<1>1. ASSUME NEW d \in Diff, Update(d) PROVE Held'
  BY <1>1, HeldStep DEF Update
<1>2. CASE BeginMain
  <2> DEFINE S == {t \in ToSet(threadList) : status[t] # "NONE"}
  <2>1. all' \in [1 .. Cardinality(S) -> S]
    BY <1>2 DEF BeginMain, ByPriority
  <2>2. ToSet(all') \subseteq ToSet(threadList)
    BY <2>1 DEF ToSet
  <2> QED BY <1>2, <2>2 DEF BeginMain, Held
<1>3. CASE SkipEnded \/ AwaitFile \/ FailFile \/ DoneThread
  <2>1. ToSet(all') \subseteq ToSet(all)
    BY <1>0, <1>3, TailElements DEF SkipEnded, AwaitFile, FailFile, DoneThread
  <2> QED BY <1>3, <2>1, HeldStep DEF SkipEnded, AwaitFile, FailFile, DoneThread
<1>4. CASE Turn
  <2>1. ToSet(all) = {Head(all)} \cup ToSet(Tail(all)) /\ Head(all) \in Thread
    BY <1>0, <1>4, TailElements DEF Turn
  <2>2. all' = Tail(all) /\ UNCHANGED <<created, threadList>>
    BY <1>4 DEF Turn
  <2>3. stack' = stack \/ stack' = Append(stack, Head(all))
    BY <1>4 DEF Turn, Wake
  <2>4. ToSet(stack') \subseteq ToSet(stack) \cup {Head(all)}
    <3> DEFINE h == Head(all)
    <3>1. h \in Thread /\ (stack' = stack \/ stack' = Append(stack, h))
      BY <2>1, <2>3
    <3> HIDE DEF h
    <3>2. ToSet(Append(stack, h)) = ToSet(stack) \cup {h}
      BY <1>0, <3>1, AppendElements
    <3>3. ToSet(stack') \subseteq ToSet(stack) \cup {h}
      BY <3>1, <3>2
    <3> QED BY <3>3 DEF h
  <2> QED BY <2>1, <2>2, <2>4 DEF Held
<1>5. CASE EndMain
  <2> DEFINE S == {t \in Thread : status[t] = "NONE"}
  <2>1. threadList' = Without(threadList, S)
    BY <1>5 DEF EndMain
  <2>2. ToSet(threadList') \subseteq ToSet(threadList) /\ IsInjective(threadList')
    BY <1>0, <2>1, WithoutElements DEF Held
  <2>3. ToSet(all') = {} /\ ToSet(stack') = {}
    BY <1>5 DEF EndMain, ToSet
  <2> QED BY <1>5, <2>2, <2>3 DEF EndMain, Held
<1>6. CASE Done
  BY <1>6 DEF Done, Held
<1>7. CASE EndDone
  <2>1. threadList' = << >> /\ all' = << >> /\ stack' = << >>
    BY <1>7 DEF EndDone, Listed
  <2> QED BY <2>1 DEF Held, ToSet, IsInjective
<1>8. CASE Return \/ Fail
  <2>1. ToSet(stack') \subseteq ToSet(stack)
    BY <1>8, ThreadAssumption, StackShrinks DEF Return, Fail
  <2> QED BY <1>8, <2>1, HeldStep DEF Return, Fail
<1>9. CASE Suspend
  <2>1. ToSet(stack') \subseteq ToSet(stack)
    BY <1>9, ThreadAssumption, StackShrinks DEF Suspend
  <2> QED BY <1>9, <2>1, HeldStep DEF Suspend
<1>10. ASSUME NEW n \in Nested, SelfExit(n) \/ SystemNothing(n) \/ \E a \in WaitArgs : SelfWait(a, n)
       PROVE  Held'
  <2>1. ToSet(stack') \subseteq ToSet(stack)
    BY <1>10, StackShrinks DEF SelfExit, SystemNothing, SelfWait
  <2> QED BY <1>10, <2>1, HeldStep DEF SelfExit, SystemNothing, SelfWait
<1>11. ASSUME NEW c \in Thread, NEW l \in Load, NEW n \in Nested, System(c, l, n) PROVE Held'
  <2>1. ToSet(stack') \subseteq ToSet(stack)
    BY <1>11, StackShrinks DEF System
  <2> QED BY <1>11, <2>1, StartHeld DEF System, Held
<1>12. ASSUME NEW c \in Thread, NEW l \in Load, Fork(c, l) PROVE Held'
  <2>1. CASE l = "none"
    BY <1>12, <2>1, HeldStep DEF Fork
  <2>2. CASE l # "none"
    BY <1>12, <2>2, StartHeld DEF Fork, Held
  <2> QED BY <2>1, <2>2
<1>13. ASSUME NEW t \in Thread, NEW l \in Load, Exec(t, l) PROVE Held'
  <2>1. CASE t \in ToSet(threadList)
    BY <1>13, <2>1, HeldStep DEF Exec, Entered
  <2>2. CASE t \notin ToSet(threadList)
    BY <1>13, <2>2, StartHeld DEF Exec, Entered
  <2> QED BY <2>1, <2>2
<1>14. ASSUME NEW t \in Thread, Step(t) PROVE Held'
  <2>1. t \in ToSet(threadList)
    BY <1>14 DEF Step, Ready, Listed
  <2>2. ToSet(stack') = ToSet(stack) \cup {t}
    BY <1>0, <1>14, AppendElements DEF Step, Wake
  <2> QED BY <1>14, <2>1, <2>2 DEF Step, Held
<1>15. ASSUME NEW t \in Thread, ExitThread(t) \/ Stop(t) \/ Run(t) \/ Cancel(t) PROVE Held'
  BY <1>15, HeldStep DEF ExitThread, Stop, Run, Cancel
<1>16. ASSUME NEW t \in Thread, NEW a \in WaitArgs, WaitOn(t, a) PROVE Held'
  BY <1>16, HeldStep DEF WaitOn
<1>17. ASSUME NEW t \in Thread, NEW p \in Priority, SetPriority(t, p) PROVE Held'
  BY <1>17, HeldStep DEF SetPriority
<1>18. ASSUME NEW t \in Thread, NEW m \in StepModes, SetStepMode(t, m) PROVE Held'
  BY <1>18, HeldStep DEF SetStepMode
<1>19. ASSUME NEW o \in NotifyTargets, NotifyOne(o) \/ NotifyEvery(o) PROVE Held'
  BY <1>19, HeldStep DEF NotifyOne, NotifyEvery
<1>20. ASSUME NEW x \in Trigger, SendTrigger(x) PROVE Held'
  BY <1>20, HeldStep DEF SendTrigger
<1> QED
  BY <1>1, <1>2, <1>3, <1>4, <1>5, <1>6, <1>7, <1>8, <1>9, <1>10, <1>11, <1>12, <1>13,
     <1>14, <1>15, <1>16, <1>17, <1>18, <1>19, <1>20 DEF Next, Host, HandBack, Call

LEMMA HeldAlways == Spec => []Held
<1>1. Init => Held
  BY DEF Init, Held, ToSet, IsInjective
<1>2. TypeOK /\ Listed /\ Held /\ [Next]_vars => Held'
  <2> SUFFICES ASSUME TypeOK, Listed, Held, [Next]_vars PROVE Held'
    OBVIOUS
  <2>1. CASE UNCHANGED vars
    BY <2>1 DEF vars, Held
  <2> QED BY <2>1, HeldNext
<1> QED BY <1>1, <1>2, TypeCorrect, LiveThreadsListed, PTL DEF Spec

\* What Thread::main has still to visit and what is running on the C++ stack is
\* in the thread list, the only owner of those objects, whatever ends, restarts
\* or steps meanwhile.
THEOREM RawPointersHeldAlways == Spec => []RawPointersHeld
<1>1. Held => RawPointersHeld
  BY DEF Held, RawPointersHeld
<1> QED BY <1>1, HeldAlways, PTL

\* Every live thread is in the thread list exactly once, although it may be
\* restarted while it is there, or after the end of a round dropped it.
THEOREM LiveInListAlways == Spec => []LiveInList
<1>1. Held /\ Listed => LiveInList
  BY DEF Held, Listed, LiveInList
<1> QED BY <1>1, HeldAlways, LiveThreadsListed, PTL

-----------------------------------------------------------------------------
\* The VMs, where nobody restarts a thread that is running.

Loading == {"LOADING_FILE", "LOADING_FUNC"}

VMsSound ==
    /\ \A t \in Thread : t \in ToSet(stack) <=> vm[t] = "running"
    /\ IsInjective(stack)
    /\ \A t \in Thread :
         /\ status[t] \in {"RUN", "STOP"} => vm[t] # "none"
         /\ status[t] \in Loading => vm[t] = "none"
    /\ \A t \in Thread \ created : status[t] = "NONE" /\ vm[t] = "none"

\* A thread keeps its status, ends, stops or goes on, or is a new one.
StatusGoesOn ==
    /\ created \subseteq created'
    /\ \A t \in Thread :
         \/ status'[t] = status[t] \/ status'[t] = "NONE"
         \/ {status[t], status'[t]} \subseteq {"RUN", "STOP"}
         \/ t \in created' \ created /\ status'[t] \in Loading

LEMMA VMsStay ==
  ASSUME TypeOK, VMsSound, vm' = vm, stack' = stack, StatusGoesOn
  PROVE  VMsSound'
<1>1. ASSUME NEW t \in Thread
      PROVE  /\ status'[t] \in {"RUN", "STOP"} => vm[t] # "none"
             /\ status'[t] \in Loading => vm[t] = "none"
             /\ t \notin created' => status'[t] = "NONE" /\ vm[t] = "none"
  BY DEF VMsSound, StatusGoesOn, Loading
<1> QED BY <1>1 DEF VMsSound

\* The innermost script hands back control.
LEMMA VMsLeave ==
  ASSUME TypeOK, Held, VMsSound, stack # << >>, stack' = Front(stack), StatusGoesOn,
         NEW x \in {"idle", "suspended"}, vm' = [vm EXCEPT ![Last(stack)] = x]
  PROVE  VMsSound'
<1> DEFINE l == Last(stack)
<1>1. /\ l \in Thread /\ ToSet(stack) = ToSet(stack') \cup {l}
      /\ IsInjective(stack') /\ l \notin ToSet(stack')
  BY FrontElements DEF TypeOK, VMsSound
<1>2. \A t \in Thread : vm'[t] = IF t = l THEN x ELSE vm[t]
  BY DEF TypeOK
<1>3. vm[l] = "running" /\ l \in created
  BY <1>1 DEF VMsSound, Held
<1> HIDE DEF l
<1>4. ASSUME NEW t \in Thread
      PROVE  /\ t \in ToSet(stack') <=> vm'[t] = "running"
             /\ status'[t] \in {"RUN", "STOP"} => vm'[t] # "none"
             /\ status'[t] \in Loading => vm'[t] = "none"
             /\ t \notin created' => status'[t] = "NONE" /\ vm'[t] = "none"
  <2>1. CASE t = l
    BY <1>1, <1>2, <1>3, <2>1 DEF VMsSound, StatusGoesOn, Loading
  <2>2. CASE t # l
    BY <1>1, <1>2, <2>2 DEF VMsSound, StatusGoesOn, Loading
  <2> QED BY <2>1, <2>2
<1> QED BY <1>1, <1>4 DEF VMsSound

\* A thread that is not on the stack gets a VM, or loses the one it has.
LEMMA VMsReplace ==
  ASSUME TypeOK, VMsSound, NEW t \in created, t \in Thread, t \notin ToSet(stack),
         stack' = stack, created' = created, NEW x, NEW s,
         vm' = [vm EXCEPT ![t] = x], status' = [status EXCEPT ![t] = s],
         (x = "idle" /\ s \in {"RUN", "NONE"}) \/ (x = "none" /\ s \in Loading)
  PROVE  VMsSound'
<1>1. \A u \in Thread : /\ vm'[u] = IF u = t THEN x ELSE vm[u]
                        /\ status'[u] = IF u = t THEN s ELSE status[u]
  BY DEF TypeOK
<1> QED BY <1>1 DEF VMsSound, Loading

\* The script of a thread that is not on the stack runs.
LEMMA VMsEnter ==
  ASSUME TypeOK, VMsSound, NEW t \in created, t \in Thread, t \notin ToSet(stack),
         stack' = Append(stack, t), created' = created,
         vm' = [vm EXCEPT ![t] = "running"], status' = [status EXCEPT ![t] = "RUN"]
  PROVE  VMsSound'
<1>1. ToSet(stack') = ToSet(stack) \cup {t} /\ IsInjective(stack')
  BY AppendElements DEF TypeOK, VMsSound
<1>2. \A u \in Thread : /\ vm'[u] = IF u = t THEN "running" ELSE vm[u]
                        /\ status'[u] = IF u = t THEN "RUN" ELSE status[u]
  BY DEF TypeOK
<1> QED BY <1>1, <1>2 DEF VMsSound, Loading

\* A native of the innermost script suspends it, or is refused.
LEMMA VMsSuspend ==
  ASSUME TypeOK, Held, VMsSound, stack # << >>, NEW n \in Nested, SuspendTop(n), StatusGoesOn
  PROVE  VMsSound'
<1>1. CASE n
  BY <1>1, VMsStay DEF SuspendTop
<1>2. CASE ~ n
  BY <1>2, VMsLeave DEF SuspendTop
<1> QED BY <1>1, <1>2

LEMMA VMsNext ==
  ASSUME ~ ExecSelf, TypeOK, Held, VMsSound, Next
  PROVE  VMsSound'
<1>0. /\ threadList \in Seq(Thread) /\ all \in Seq(Thread) /\ stack \in Seq(Thread)
      /\ status \in [Thread -> Status] /\ created \subseteq Thread
  BY DEF TypeOK
<1>all. ASSUME all # << >> PROVE Head(all) \in created /\ Head(all) \in Thread
  <2>1. ToSet(all) = {Head(all)} \cup ToSet(Tail(all)) /\ Head(all) \in Thread
    BY <1>0, <1>all, TailElements
  <2> QED BY <2>1 DEF Held
<1>load. \A l \in Load : l # "none" => LoadStatus[l] \in Loading
  BY ThreadAssumption DEF LoadStatus, Loading
<1>same. UNCHANGED <<created, status>> => StatusGoesOn
  BY DEF StatusGoesOn
<1>1. ASSUME NEW d \in Diff, Update(d) PROVE VMsSound'
  BY <1>same, <1>1, VMsStay DEF Update
<1>2. CASE BeginMain \/ SkipEnded \/ AwaitFile \/ EndMain \/ Done \/ EndDone
  BY <1>same, <1>2, VMsStay DEF BeginMain, SkipEnded, AwaitFile, EndMain, Done, EndDone
<1>3. CASE FailFile
  <2> DEFINE h == Head(all)
  <2>1. /\ h \in created /\ h \in Thread /\ stack = << >> /\ stack' = stack /\ created' = created
        /\ vm' = [vm EXCEPT ![h] = "idle"] /\ status' = [status EXCEPT ![h] = "NONE"]
    BY <1>3, <1>all DEF FailFile
  <2>2. h \notin ToSet(stack)
    BY <2>1 DEF ToSet
  <2> HIDE DEF h
  <2> QED BY <2>1, <2>2, VMsReplace
<1>4. CASE Turn
  <2> DEFINE h == Head(all)
             loads == status[h] \in {"LOADING_FILE", "LOADING_FUNC"}
             now == Elapse(w, h)
             runs == /\ ~ stepMode[h] /\ ~ IsWait(now, h)
                     /\ loads \/ status[h] = "RUN"
  <2>1. /\ h \in created /\ h \in Thread /\ stack = << >> /\ created' = created
        /\ status[h] # "NONE"
        /\ status' = IF loads THEN [status EXCEPT ![h] = "RUN"] ELSE status
        /\ vm' = [vm EXCEPT ![h] = IF runs THEN "running" ELSE IF loads THEN "idle" ELSE vm[h]]
        /\ stack' = IF runs THEN Append(stack, h) ELSE stack
    BY <1>4, <1>all DEF Turn, Wake
  <2>2. h \notin ToSet(stack)
    BY <2>1 DEF ToSet
  <2> HIDE DEF h, now
  <2>3. CASE runs
    <3>1. status' = [status EXCEPT ![h] = "RUN"]
      BY <1>0, <2>1, <2>3
    <3> HIDE DEF loads
    <3> QED BY <2>1, <2>2, <2>3, <3>1, VMsEnter
  <2>4. CASE ~ runs /\ loads
    <3>1. status' = [status EXCEPT ![h] = "RUN"] /\ vm' = [vm EXCEPT ![h] = "idle"] /\ stack' = stack
      BY <2>1, <2>4
    <3> QED BY <2>1, <2>2, <3>1, VMsReplace
  <2>5. CASE ~ runs /\ ~ loads
    <3>1. vm' = [vm EXCEPT ![h] = vm[h]] /\ stack' = stack /\ status' = status
      BY <2>1, <2>5
    <3>2. vm' = vm
      BY <3>1 DEF TypeOK
    <3> QED BY <1>same, <2>1, <3>1, <3>2, VMsStay
  <2> QED BY <2>3, <2>4, <2>5
<1>5. CASE DoneThread
  <2>1. StatusGoesOn
    BY <1>0, <1>5 DEF DoneThread, StatusGoesOn
  <2> QED BY <1>5, <2>1, VMsStay DEF DoneThread
<1>6. CASE Return \/ Fail
  <2>1. StatusGoesOn
    BY <1>0, <1>6 DEF Return, Fail, StatusGoesOn
  <2> QED BY <1>6, <2>1, VMsLeave DEF Return, Fail
<1>7. CASE Suspend
  BY <1>same, <1>7, ThreadAssumption, VMsSuspend DEF Suspend
<1>8. ASSUME NEW a \in WaitArgs, NEW n \in Nested, SelfWait(a, n) PROVE VMsSound'
  BY <1>same, <1>8, VMsSuspend DEF SelfWait
<1>9. ASSUME NEW n \in Nested, SelfExit(n) PROVE VMsSound'
  <2>1. StatusGoesOn
    BY <1>0, <1>9 DEF SelfExit, StatusGoesOn
  <2> QED BY <1>9, <2>1, VMsSuspend DEF SelfExit
<1>10. ASSUME NEW n \in Nested, SystemNothing(n) PROVE VMsSound'
  BY <1>same, <1>10, VMsSuspend DEF SystemNothing
<1>11. ASSUME NEW c \in Thread, NEW l \in Load, NEW n \in Nested, System(c, l, n) PROVE VMsSound'
  <2>1. StatusGoesOn
    BY <1>0, <1>load, <1>11 DEF System, StatusGoesOn
  <2> QED BY <1>11, <2>1, VMsSuspend DEF System
<1>12. ASSUME NEW c \in Thread, NEW l \in Load, Fork(c, l) PROVE VMsSound'
  <2>1. StatusGoesOn
    BY <1>0, <1>load, <1>12 DEF Fork, StatusGoesOn
  <2> QED BY <1>12, <2>1, VMsStay DEF Fork
<1>13. ASSUME NEW t \in Thread, NEW l \in Load, Exec(t, l) PROVE VMsSound'
  <2>1. t \in created /\ t \notin ToSet(stack) /\ l # "none"
    BY <1>13 DEF Exec, Running
  <2>2. /\ vm' = [vm EXCEPT ![t] = "none"] /\ status' = [status EXCEPT ![t] = LoadStatus[l]]
        /\ stack' = stack /\ created' = created
    BY <1>13 DEF Exec
  <2> QED BY <1>load, <2>1, <2>2, VMsReplace
<1>14. ASSUME NEW t \in Thread, Step(t) PROVE VMsSound'
  <2>1. /\ t \in created /\ t \notin ToSet(stack) /\ created' = created
        /\ stack' = Append(stack, t) /\ vm' = [vm EXCEPT ![t] = "running"]
    BY <1>14 DEF Step, Running, Wake
  <2>2. status' = [status EXCEPT ![t] = "RUN"]
    BY <1>0, <1>14 DEF Step, Ready
  <2> QED BY <2>1, <2>2, VMsEnter
<1>15. ASSUME NEW t \in Thread, ExitThread(t) \/ Stop(t) \/ Run(t) PROVE VMsSound'
  <2>1. StatusGoesOn
    BY <1>0, <1>15 DEF ExitThread, Stop, Run, StatusGoesOn
  <2> QED BY <1>15, <2>1, VMsStay DEF ExitThread, Stop, Run
<1>16. ASSUME NEW t \in Thread, Cancel(t) PROVE VMsSound'
  BY <1>same, <1>16, VMsStay DEF Cancel
<1>17. ASSUME NEW t \in Thread, NEW a \in WaitArgs, WaitOn(t, a) PROVE VMsSound'
  BY <1>same, <1>17, VMsStay DEF WaitOn
<1>18. ASSUME NEW t \in Thread, NEW p \in Priority, SetPriority(t, p) PROVE VMsSound'
  BY <1>same, <1>18, VMsStay DEF SetPriority
<1>19. ASSUME NEW t \in Thread, NEW m \in StepModes, SetStepMode(t, m) PROVE VMsSound'
  BY <1>same, <1>19, VMsStay DEF SetStepMode
<1>20. ASSUME NEW o \in NotifyTargets, NotifyOne(o) \/ NotifyEvery(o) PROVE VMsSound'
  BY <1>same, <1>20, VMsStay DEF NotifyOne, NotifyEvery
<1>21. ASSUME NEW x \in Trigger, SendTrigger(x) PROVE VMsSound'
  BY <1>same, <1>21, VMsStay DEF SendTrigger
<1> QED
  BY <1>1, <1>2, <1>3, <1>4, <1>5, <1>6, <1>7, <1>8, <1>9, <1>10, <1>11, <1>12, <1>13, <1>14,
     <1>15, <1>16, <1>17, <1>18, <1>19, <1>20, <1>21 DEF Next, Host, HandBack, Call

\* As long as no script restarts a thread that is running (exec() releases the
\* running VM then), exactly the VMs of the scripts on the call stack are
\* running, each is there once, whatever may be woken has a VM, and a thread
\* that is loading has none left from before.
THEOREM StackMatchesVMAlways ==
  ASSUME ~ ExecSelf
  PROVE  Spec => []StackMatchesVM
<1>1. Init => VMsSound
  BY DEF Init, VMsSound, Loading, ToSet, IsInjective
<1>2. TypeOK /\ Held /\ VMsSound /\ [Next]_vars => VMsSound'
  <2> SUFFICES ASSUME TypeOK, Held, VMsSound, [Next]_vars PROVE VMsSound'
    OBVIOUS
  <2>1. CASE UNCHANGED vars
    BY <2>1 DEF vars, VMsSound
  <2> QED BY <2>1, VMsNext
<1>3. VMsSound => StackMatchesVM
  BY DEF VMsSound, StackMatchesVM, Running, Loading
<1> QED BY <1>1, <1>2, <1>3, TypeCorrect, HeldAlways, PTL DEF Spec

-----------------------------------------------------------------------------
\* What the operations of the registry do to whole waits.

\* From W to N the threads of S stop waiting for anything, and only they.
Frees(W, S, N) ==
    \A t \in Thread, o \in Waitable : Waits(N, t, o) <=> t \notin S /\ Waits(W, t, o)

\* The same for some threads of unknown identity.
FreesSome(W, N) == \E S \in SUBSET Thread : Frees(W, S, N)

LEMMA FreesNobody ==
  ASSUME NEW W \in Registry, NEW N \in Registry,
         N.waitSystem = W.waitSystem, N.waitList = W.waitList
  PROVE  Frees(W, {}, N)
BY DEF Frees, Waits

LEMMA FreesThen ==
  ASSUME NEW W, NEW V, NEW N, NEW S \in SUBSET Thread, NEW T \in SUBSET Thread,
         Frees(W, S, V), Frees(V, T, N)
  PROVE  Frees(W, S \cup T, N)
BY DEF Frees

LEMMA ClearWaitFrees ==
  ASSUME NEW W \in Registry, NEW S \in SUBSET Thread
  PROVE  Frees(W, S, ClearWait(W, S))
BY ClearWaitFields DEF Cleared, Frees

LEMMA ReleaseFromFrees ==
  ASSUME NEW W \in Registry, NEW S \in SUBSET Thread, NEW o \in Waitable, NEW cut
  PROVE  Frees(W, S, ReleaseFrom(W, S, o, cut))
<1> DEFINE R == Release(W, S, o)
           N == ReleaseFrom(W, S, o, cut)
<1>1. R \in Registry /\ Frees(W, S, R)
  BY ReleaseFields DEF Freed, Frees
<1> DEFINE wtl == [R.waitThreadList EXCEPT ![o] = cut]
<1>2. N = [R EXCEPT !.waitThreadList = wtl]
  BY DEF ReleaseFrom
<1> HIDE DEF R, N, wtl
<1>3. N.waitSystem = R.waitSystem /\ N.waitList = R.waitList
  BY <1>1, <1>2 DEF Registry
<1>4. Frees(W, S, N)
  BY <1>1, <1>3 DEF Frees, Waits
<1> QED BY <1>4 DEF N

LEMMA NotifyFrees ==
  ASSUME NEW W \in Registry, NEW o \in Waitable
  PROVE  FreesSome(W, Notify(W, o))
<1> DEFINE list == W.waitThreadList[o]
           hits == {i \in DOMAIN list : Waits(W, list[i], o)}
           hit  == CHOOSE i \in hits : \A j \in hits : i <= j
<1>1. CASE hits = {}
  <2>1. Notify(W, o) = W
    BY <1>1 DEF Notify
  <2> QED BY <2>1, FreesNobody DEF FreesSome
<1>2. CASE hits # {}
  <2>1. list \in Seq(Thread)
    BY DEF Registry
  <2>2. \E i \in hits : \A j \in hits : i <= j
    <3>1. hits \subseteq Nat
      BY <2>1
    <3> QED BY <1>2, <3>1, SmallestExists
  <2>3. hit \in DOMAIN list
    <3> HIDE DEF hits
    <3>1. hit \in hits
      BY <2>2
    <3> QED BY <3>1 DEF hits
  <2>4. Notify(W, o) = ReleaseFrom(W, {list[hit]}, o, RemoveAt(list, hit))
    BY <1>2 DEF Notify
  <2> HIDE DEF hit
  <2>5. {list[hit]} \in SUBSET Thread
    BY <2>1, <2>3
  <2> QED BY <2>4, <2>5, ReleaseFromFrees DEF FreesSome
<1> QED BY <1>1, <1>2

LEMMA NotifyAllFrees ==
  ASSUME NEW W \in Registry, NEW o \in Waitable
  PROVE  /\ FreesSome(W, NotifyAll(W, o))
         /\ Registered(W) => Frees(W, {t \in Thread : Waits(W, t, o)}, NotifyAll(W, o))
<1> DEFINE S == {t \in ToSet(W.waitThreadList[o]) : Waits(W, t, o)}
<1>1. S \in SUBSET Thread
  BY DEF Registry, ToSet
<1>2. Registered(W) => S = {t \in Thread : Waits(W, t, o)}
  BY <1>1 DEF Registered
<1>3. NotifyAll(W, o) = ReleaseFrom(W, S, o, << >>)
  BY DEF NotifyAll
<1> HIDE DEF S
<1>4. Frees(W, S, NotifyAll(W, o))
  BY <1>1, <1>3, ReleaseFromFrees
<1> QED BY <1>1, <1>2, <1>4 DEF FreesSome

LEMMA NotifyTriggerFrees ==
  ASSUME NEW W \in Registry, NEW S \in SUBSET Thread, NEW x \in Trigger
  PROVE  FreesSome(W, NotifyTrigger(W, S, x))
<1> DEFINE T == {t \in S : x \in W.waitList[t]}
<1>1. T \in SUBSET Thread /\ NotifyTrigger(W, S, x) = Release(W, T, x)
  BY DEF NotifyTrigger
<1> HIDE DEF T
<1>2. Frees(W, T, Release(W, T, x))
  BY <1>1, ReleaseFields DEF Freed, Frees
<1> QED BY <1>1, <1>2 DEF FreesSome

\* The end of t: t and whoever waits for it.
LEMMA ExitFrees ==
  ASSUME NEW W \in Registry, NEW t \in Thread, Registered(W)
  PROVE  Frees(W, {t} \cup {u \in Thread : Waits(W, u, t)}, Exit(W, t))
<1> DEFINE N == NotifyAll(W, t)
           S == {u \in Thread : Waits(W, u, t)}
<1>1. t \in Waitable
  BY DEF Waitable
<1>2. N \in Registry /\ Frees(W, S, N)
  BY <1>1, NotifyAllKeeps, NotifyAllFrees DEF Keeps
<1> HIDE DEF N
<1>3. Frees(N, {t}, ClearWait(N, {t}))
  BY <1>2, ClearWaitFrees
<1>4. Frees(W, S \cup {t}, ClearWait(N, {t}))
  BY <1>2, <1>3, FreesThen
<1>5. S \cup {t} = {t} \cup S
  OBVIOUS
<1> QED BY <1>4, <1>5 DEF Exit, N

LEMMA CancelWaitFrees ==
  ASSUME NEW W \in Registry, NEW t \in Thread
  PROVE  Frees(W, {t}, CancelWait(W, t))
<1> DEFINE C == ClearWait(W, {t})
           N == [C EXCEPT !.waitResult[t] = Null]
<1>1. C \in Registry /\ Frees(W, {t}, C)
  BY ClearWaitFields, ClearWaitFrees DEF Cleared
<1> HIDE DEF C
<1>2. N.waitSystem = C.waitSystem /\ N.waitList = C.waitList
  BY <1>1 DEF Registry
<1>3. Frees(W, {t}, N)
  BY <1>1, <1>2 DEF Frees, Waits
<1> QED BY <1>3 DEF CancelWait, C

LEMMA SetExitCodeFrees ==
  ASSUME NEW W \in Registry, NEW t \in Thread, NEW c \in Code
  PROVE  /\ [W EXCEPT !.exitCode[t] = c] \in Registry
         /\ Frees(W, {}, [W EXCEPT !.exitCode[t] = c])
         /\ Registered(W) => Registered([W EXCEPT !.exitCode[t] = c])
<1> DEFINE V == [W EXCEPT !.exitCode[t] = c]
<1>1. V \in Registry /\ (Registered(W) => Registered(V))
  BY SetExitCode DEF Keeps
<1>2. V.waitSystem = W.waitSystem /\ V.waitList = W.waitList
  BY DEF Registry
<1> HIDE DEF V
<1>3. Frees(W, {}, V)
  BY <1>1, <1>2, FreesNobody
<1> QED BY <1>1, <1>3 DEF V

LEMMA SuspendCodeFrees ==
  ASSUME NEW W \in Registry, TypeOK, stack # << >>, NEW n
  PROVE  SuspendCode(W, n) \in Registry /\ Frees(W, {}, SuspendCode(W, n))
<1>1. Last(stack) \in Thread /\ "suspended" \in Code
  BY DEF TypeOK, Last, Code
<1>2. CASE n
  BY <1>2, FreesNobody DEF SuspendCode
<1>3. CASE ~ n
  BY <1>1, <1>3, SetExitCodeFrees DEF SuspendCode
<1> QED BY <1>2, <1>3 DEF SuspendCode

LEMMA ElapseFrees ==
  ASSUME NEW W \in Registry, TypeOK, NEW t \in Thread
  PROVE  \/ Frees(W, {}, Elapse(W, t))
         \/ Frees(W, {t}, Elapse(W, t))
<1> DEFINE V == [W EXCEPT !.waitTimeout[t] = @ - diffTick]
<1>1. V.waitSystem = W.waitSystem /\ V.waitList = W.waitList
  BY DEF Registry
<1>2. Frees(W, {}, V)
  BY <1>1 DEF Frees, Waits
<1>3. Elapse(W, t) \in {W, ClearWait(W, {t}), V}
  BY DEF Elapse
<1> HIDE DEF V
<1> QED BY <1>2, <1>3, ClearWaitFrees, FreesNobody

LEMMA WakeFrees ==
  ASSUME NEW W \in Registry, NEW t \in Thread, Wake(W, t)
  PROVE  Frees(W, {}, w')
<1> DEFINE V == [W EXCEPT !.waitResult[t] = Null]
<1>1. V.waitSystem = W.waitSystem /\ V.waitList = W.waitList
  BY DEF Registry
<1>2. Frees(W, {}, V)
  BY <1>1 DEF Frees, Waits
<1>3. w' = V \/ w' = W
  BY DEF Wake
<1> HIDE DEF V
<1> QED BY <1>2, <1>3, FreesNobody

-----------------------------------------------------------------------------
\* The call stack: nobody is on it twice.

StackOnce == IsInjective(stack)

LEMMA StackStep ==
  ASSUME TypeOK, Next
  PROVE  \/ stack' = stack
         \/ stack # << >> /\ stack' = Front(stack)
         \/ \E t \in Thread : t \notin ToSet(stack) /\ stack' = Append(stack, t)
<1> DEFINE Goal == \/ stack' = stack
                   \/ stack # << >> /\ stack' = Front(stack)
                   \/ \E t \in Thread : t \notin ToSet(stack) /\ stack' = Append(stack, t)
<1>1. CASE Turn
  <2>1. /\ Head(all) \in Thread /\ stack = << >>
        /\ stack' = stack \/ stack' = Append(stack, Head(all))
    BY <1>1, TailElements DEF Turn, Wake, TypeOK
  <2>2. Head(all) \notin ToSet(stack)
    BY <2>1 DEF ToSet
  <2> QED BY <2>1, <2>2
<1>2. CASE Host /\ ~ Turn
  BY <1>2 DEF Host, Update, BeginMain, SkipEnded, AwaitFile, FailFile, EndMain, DoneThread, EndDone
<1>3. CASE Done
  BY <1>3 DEF Done
<1>4. CASE HandBack
  <2>1. stack' = stack \/ (stack # << >> /\ stack' = Front(stack))
    BY <1>4 DEF HandBack, Return, Fail, Suspend, SelfWait, SelfExit, System, SystemNothing, SuspendTop
  <2> QED BY <2>1
<1>5. ASSUME NEW t \in Thread, Step(t) PROVE Goal
  BY <1>5 DEF Step, Running, Wake
<1>6. CASE Call /\ ~ \E t \in Thread : Step(t)
  BY <1>6 DEF Call, Fork, Exec, ExitThread, Stop, Run, Cancel, WaitOn, SetPriority,
              SetStepMode, NotifyOne, NotifyEvery, SendTrigger
<1> QED BY <1>1, <1>2, <1>3, <1>4, <1>5, <1>6 DEF Next

LEMMA StackOnceAlways == Spec => []StackOnce
<1>1. Init => StackOnce
  BY DEF Init, StackOnce, IsInjective
<1>2. TypeOK /\ StackOnce /\ [Next]_vars => StackOnce'
  <2> SUFFICES ASSUME TypeOK, StackOnce, [Next]_vars PROVE StackOnce'
    OBVIOUS
  <2>0. stack \in Seq(Thread) /\ IsInjective(stack)
    BY DEF TypeOK, StackOnce
  <2>1. CASE stack' = stack
    BY <2>1 DEF StackOnce
  <2>2. CASE stack # << >> /\ stack' = Front(stack)
    BY <2>0, <2>2, FrontElements DEF StackOnce
  <2>3. ASSUME NEW t \in Thread, t \notin ToSet(stack), stack' = Append(stack, t)
        PROVE  StackOnce'
    BY <2>0, <2>3, AppendElements DEF StackOnce
  <2>4. CASE UNCHANGED vars
    BY <2>4 DEF vars, StackOnce
  <2> QED BY <2>1, <2>2, <2>3, <2>4, StackStep
<1> QED BY <1>1, <1>2, TypeCorrect, PTL DEF Spec

-----------------------------------------------------------------------------
\* Each kind of step as a step in the life of threads.

\* What the steps rest on; a thread that does not exist neither lives nor waits.
NewWaitsNot == \A t \in Thread \ created, o \in Waitable : ~ Waits(w, t, o)

Sound ==
    /\ TypeOK /\ WaitRegistered /\ StackOnce /\ NewWaitsNot
    /\ \A t \in Thread \ created : status[t] = "NONE"

SameLive == \A t \in Thread : status'[t] = "NONE" <=> status[t] = "NONE"

\* The innermost script may have handed back control.
TopMayLeave == stack' = stack \/ (stack # << >> /\ stack' = Front(stack))

LEMMA LifeStill ==
  ASSUME TypeOK, FreesSome(w, w'), SameLive, stack' = stack
  PROVE  Life!LifeNext
<1>1. PICK S \in SUBSET Thread : Frees(w, S, w')
  BY DEF FreesSome
<1>2. {t \in Thread : status'[t] # "NONE"} = {t \in Thread : status[t] # "NONE"}
  BY DEF SameLive
<1>3. \A t \in Thread :
        {o \in Waitable : Waits(w', t, o)}
          = IF {o \in Waitable : Waits(w', t, o)} = {} THEN {}
            ELSE {o \in Waitable : Waits(w, t, o)}
  BY <1>1 DEF Frees
<1>4. Life!EndWaits
  BY <1>2, <1>3 DEF Life!EndWaits, Life!Freed
<1> QED BY <1>4 DEF Life!LifeNext

LEMMA TopLeaves ==
  ASSUME Sound, stack # << >>, TopMayLeave
  PROVE  Last(stack) \in Thread /\ Life!MayLeave(Last(stack))
<1>1. /\ Last(stack) \in Thread
      /\ ToSet(stack) = ToSet(Front(stack)) \cup {Last(stack)}
      /\ Last(stack) \notin ToSet(Front(stack))
  BY FrontElements DEF Sound, TypeOK, StackOnce
<1>2. ToSet(Front(stack)) = ToSet(stack) \ {Last(stack)}
  BY <1>1
<1> QED BY <1>1, <1>2 DEF TopMayLeave, Life!MayLeave

\* t begins to wait, for c if that is a thread it starts.
LEMMA LifeBegins ==
  ASSUME TypeOK, NEW t \in Thread, Life!MayLeave(t),
         \A u \in Thread \ {t}, o \in Waitable : Waits(w', u, o) <=> Waits(w, u, o),
         \/ SameLive
         \/ \E c \in Thread :
              /\ status[c] = "NONE"
              /\ \A u \in Thread : status'[u] # "NONE" <=> u = c \/ status[u] # "NONE"
              /\ \A o \in Waitable : Waits(w', t, o) <=> o = c
  PROVE  Life!LifeNext
<1>1. [u \in Thread |-> {o \in Waitable : Waits(w', u, o)}]
        = [[u \in Thread |-> {o \in Waitable : Waits(w, u, o)}] EXCEPT
             ![t] = [u \in Thread |-> {o \in Waitable : Waits(w', u, o)}][t]]
  OBVIOUS
<1>2. CASE SameLive
  <2>1. {u \in Thread : status'[u] # "NONE"} = {u \in Thread : status[u] # "NONE"}
    BY <1>2 DEF SameLive
  <2>2. Life!BeginWait(t)
    BY <1>1, <2>1 DEF Life!BeginWait
  <2> QED BY <2>2 DEF Life!LifeNext
<1>3. ASSUME NEW c \in Thread, status[c] = "NONE",
             \A u \in Thread : status'[u] # "NONE" <=> u = c \/ status[u] # "NONE",
             \A o \in Waitable : Waits(w', t, o) <=> o = c
      PROVE  Life!LifeNext
  <2>1. {u \in Thread : status'[u] # "NONE"} = {u \in Thread : status[u] # "NONE"} \cup {c}
    BY <1>3
  <2>2. c \in Thread \ {u \in Thread : status[u] # "NONE"}
    BY <1>3
  <2>3. [u \in Thread |-> {o \in Waitable : Waits(w', u, o)}][t] = {c}
    BY <1>3 DEF Waitable
  <2>4. Life!BeginWait(t)
    BY <1>1, <2>1, <2>2, <2>3 DEF Life!BeginWait
  <2> QED BY <2>4 DEF Life!LifeNext
<1> QED BY <1>2, <1>3

\* t ends, and whoever waits for it is freed.
LEMMA LifeEnds ==
  ASSUME TypeOK, WaitRegistered, NEW t \in Thread, NEW V \in Registry,
         Frees(w, {}, V), Registered(V), w' = Exit(V, t),
         status' = [status EXCEPT ![t] = "NONE"], Life!MayLeave(t)
  PROVE  Life!LifeNext
<1>1. Frees(V, {t} \cup {u \in Thread : Waits(V, u, t)}, w')
  BY ExitFrees
<1>2. t \in Waitable
  BY DEF Waitable
<1>3. \A u \in Thread, o \in Waitable :
        Waits(w', u, o) <=> u # t /\ ~ Waits(w, u, t) /\ Waits(w, u, o)
  BY <1>1, <1>2 DEF Frees
<1>4. {u \in Thread : status'[u] # "NONE"} = {u \in Thread : status[u] # "NONE"} \ {t}
  BY DEF TypeOK
<1>5. \A u \in Thread :
        {o \in Waitable : Waits(w', u, o)}
          = IF u = t \/ Waits(w, u, t) THEN {} ELSE {o \in Waitable : Waits(w, u, o)}
  BY <1>3
<1>6. Life!End(t)
  BY <1>2, <1>4, <1>5 DEF Life!End, Life!Freed, Life!WaitersOf
<1> QED BY <1>6 DEF Life!LifeNext

LEMMA LifeEndsWith ==
  ASSUME TypeOK, WaitRegistered, NEW t \in Thread, NEW c \in Code,
         w' = Exit([w EXCEPT !.exitCode[t] = c], t),
         status' = [status EXCEPT ![t] = "NONE"], Life!MayLeave(t)
  PROVE  Life!LifeNext
<1>1. w \in Registry /\ Registered(w)
  BY DEF TypeOK, WaitRegistered
<1> DEFINE V == [w EXCEPT !.exitCode[t] = c]
<1>2. V \in Registry /\ Frees(w, {}, V) /\ Registered(V)
  BY <1>1, SetExitCodeFrees
<1> HIDE DEF V
<1>3. w' = Exit(V, t)
  BY DEF V
<1> QED BY <1>2, <1>3, LifeEnds

\* t is started, or restarted.
LEMMA LifeStarts ==
  ASSUME TypeOK, NEW t \in Thread, NEW s, s # "NONE", Frees(w, {t}, w'),
         status' = [status EXCEPT ![t] = s], stack' = stack
  PROVE  Life!LifeNext
<1>1. {u \in Thread : status'[u] # "NONE"} = {u \in Thread : status[u] # "NONE"} \cup {t}
  BY DEF TypeOK
<1>2. \A u \in Thread :
        {o \in Waitable : Waits(w', u, o)}
          = IF u = t THEN {} ELSE {o \in Waitable : Waits(w, u, o)}
  BY DEF Frees
<1>3. Life!Start(t)
  BY <1>1, <1>2 DEF Life!Start, Life!Freed
<1> QED BY <1>3 DEF Life!LifeNext

\* t is started for the first time.
LEMMA LifeForks ==
  ASSUME TypeOK, NEW t \in Thread, NEW s, s # "NONE", w' = w, \A o \in Waitable : ~ Waits(w, t, o),
         status' = [status EXCEPT ![t] = s], stack' = stack
  PROVE  Life!LifeNext
<1>1. {u \in Thread : status'[u] # "NONE"} = {u \in Thread : status[u] # "NONE"} \cup {t}
  BY DEF TypeOK
<1>2. \A u \in Thread :
        {o \in Waitable : Waits(w', u, o)}
          = IF u = t THEN {} ELSE {o \in Waitable : Waits(w, u, o)}
  OBVIOUS
<1>3. Life!Start(t)
  BY <1>1, <1>2 DEF Life!Start, Life!Freed
<1> QED BY <1>3 DEF Life!LifeNext

\* The script of t runs.
LEMMA LifeEnters ==
  ASSUME TypeOK, NEW t \in Thread, status[t] # "NONE", t \notin ToSet(stack),
         NEW S \in SUBSET {t}, Frees(w, S, w'), \A o \in Waitable : ~ Waits(w', t, o),
         SameLive, stack' = Append(stack, t)
  PROVE  Life!LifeNext
<1>1. ToSet(stack') = ToSet(stack) \cup {t}
  BY AppendElements DEF TypeOK
<1>2. {u \in Thread : status'[u] # "NONE"} = {u \in Thread : status[u] # "NONE"}
  BY DEF SameLive
<1>3. \A u \in Thread :
        {o \in Waitable : Waits(w', u, o)}
          = IF u = t THEN {} ELSE {o \in Waitable : Waits(w, u, o)}
  BY DEF Frees
<1>4. Life!Enter(t)
  BY <1>1, <1>2, <1>3 DEF Life!Enter, Life!Freed
<1> QED BY <1>4 DEF Life!LifeNext

\* The script of t hands back control, and nothing else happens.
LEMMA LifeLeaves ==
  ASSUME Sound, stack # << >>, Frees(w, {}, w'), status' = status, stack' = Front(stack)
  PROVE  Life!LifeNext
<1>1. Last(stack) \in Thread /\ Life!MayLeave(Last(stack))
  BY TopLeaves DEF TopMayLeave
<1>2. \A u \in Thread, o \in Waitable : Waits(w', u, o) <=> Waits(w, u, o)
  BY DEF Frees
<1>3. SameLive
  BY DEF SameLive
<1> QED BY <1>1, <1>2, <1>3, LifeBegins DEF Sound

-----------------------------------------------------------------------------
LEMMA LifeStep ==
  ASSUME Sound, Next
  PROVE  Life!LifeNext
<1>0. /\ TypeOK /\ WaitRegistered /\ w \in Registry /\ Registered(w)
      /\ status \in [Thread -> Status] /\ stack \in Seq(Thread) /\ all \in Seq(Thread)
      /\ \A t \in Thread \ created : status[t] = "NONE"
  BY DEF Sound, TypeOK, WaitRegistered
<1>still. ASSUME UNCHANGED <<w, status, stack>> PROVE Life!LifeNext
  BY <1>0, <1>still, FreesNobody, LifeStill DEF SameLive, FreesSome
<1>top. ASSUME stack # << >> PROVE Last(stack) \in Thread
  BY <1>0, <1>top DEF Last
<1>head. ASSUME all # << >> PROVE Head(all) \in Thread
  BY <1>0, <1>head, TailElements
<1>stay. \A t : stack' = stack => Life!MayLeave(t)
  BY DEF Life!MayLeave
<1>code. {"value", "error", "suspended"} \subseteq Code
  BY DEF Code
<1>1. ASSUME NEW d \in Diff, Update(d) PROVE Life!LifeNext
  BY <1>still, <1>1 DEF Update
<1>2. CASE BeginMain \/ SkipEnded \/ AwaitFile \/ EndMain \/ Done
  BY <1>still, <1>2 DEF BeginMain, SkipEnded, AwaitFile, EndMain, Done
<1>3. CASE EndDone
  BY <1>still, <1>3 DEF EndDone
<1>4. CASE FailFile
  BY <1>0, <1>head, <1>stay, <1>code, <1>4, LifeEndsWith DEF FailFile
<1>5. CASE Turn
  <2> DEFINE t == Head(all)
             now == Elapse(w, t)
             loads == status[t] \in {"LOADING_FILE", "LOADING_FUNC"}
             runs == /\ ~ stepMode[t] /\ ~ IsWait(now, t)
                     /\ loads \/ status[t] = "RUN"
  <2>1. /\ t \in Thread /\ stack = << >> /\ status[t] # "NONE"
        /\ status' = IF loads THEN [status EXCEPT ![t] = "RUN"] ELSE status
        /\ IF runs THEN Wake(now, t) ELSE w' = now /\ stack' = stack
    BY <1>5, <1>head DEF Turn
  <2>2. now \in Registry
    BY <1>0, <2>1, ElapseKeeps DEF Keeps
  <2>3. PICK S \in SUBSET {t} : Frees(w, S, now)
    BY <1>0, <2>1, ElapseFrees
  <2>4. S \in SUBSET Thread
    BY <2>1
  <2>5. SameLive
    BY <1>0, <2>1 DEF SameLive
  <2> HIDE DEF t, now, loads
  <2>6. CASE runs
    <3>1. Frees(now, {}, w') /\ stack' = Append(stack, t)
      BY <2>1, <2>2, <2>6, WakeFrees DEF Wake
    <3>2. Frees(w, S, w')
      BY <2>3, <3>1 DEF Frees
    <3>3. \A o \in Waitable : o # Null
      BY WaitAssumption DEF Waitable
    <3>4. \A o \in Waitable : ~ Waits(now, t, o)
      BY <2>6, <3>3 DEF IsWait, Waits
    <3>5. \A o \in Waitable : ~ Waits(w', t, o)
      BY <2>1, <3>1, <3>4 DEF Frees
    <3>6. t \notin ToSet(stack)
      BY <2>1 DEF ToSet
    <3> QED BY <1>0, <2>1, <2>3, <2>5, <3>1, <3>2, <3>5, <3>6, LifeEnters
  <2>7. CASE ~ runs
    <3>1. FreesSome(w, w') /\ stack' = stack
      BY <2>1, <2>3, <2>4, <2>7 DEF FreesSome
    <3> QED BY <1>0, <2>5, <3>1, LifeStill
  <2> QED BY <2>6, <2>7
<1>6. CASE DoneThread
  <2> DEFINE t == Head(all)
  <2>1. /\ t \in Thread /\ w' = Exit(w, t) /\ status' = [status EXCEPT ![t] = "NONE"]
        /\ stack' = stack
    BY <1>6, <1>head DEF DoneThread
  <2> HIDE DEF t
  <2>2. Frees(w, {}, w)
    BY <1>0, FreesNobody
  <2> QED BY <1>0, <1>stay, <2>1, <2>2, LifeEnds
<1>7. CASE Return \/ Fail
  <2> DEFINE t == Last(stack)
  <2>1. t \in Thread /\ Life!MayLeave(t)
    BY <1>7, TopLeaves DEF Return, Fail, TopMayLeave
  <2>2. \E c \in Code : w' = Exit([w EXCEPT !.exitCode[t] = c], t)
    BY <1>7, <1>code DEF Return, Fail
  <2>3. status' = [status EXCEPT ![t] = "NONE"]
    BY <1>7 DEF Return, Fail
  <2> HIDE DEF t
  <2> QED BY <1>0, <2>1, <2>2, <2>3, LifeEndsWith
<1>8. CASE Suspend
  <2>1. Frees(w, {}, w')
    BY <1>0, <1>8, SuspendCodeFrees DEF Suspend
  <2> QED BY <1>8, <2>1, LifeLeaves DEF Suspend, SuspendTop
<1>9. ASSUME NEW a \in WaitArgs, NEW n \in Nested, SelfWait(a, n) PROVE Life!LifeNext
  <2> DEFINE t == Last(stack)  N == WaitFor(w, t, a)
  <2>1. t \in Thread /\ Life!MayLeave(t) /\ stack # << >>
    BY <1>9, TopLeaves DEF SelfWait, SuspendTop, TopMayLeave
  <2>2. a \in WaitArg
    BY ThreadAssumption
  <2>3. N \in Registry /\ \A u \in Thread \ {t}, o \in Waitable : Waits(N, u, o) <=> Waits(w, u, o)
    BY <1>0, <2>1, <2>2, WaitForKeeps DEF Waiting
  <2>4. w' = SuspendCode(N, n) /\ status' = status
    BY <1>9 DEF SelfWait
  <2> HIDE DEF t, N
  <2>5. Frees(N, {}, w')
    BY <1>0, <2>1, <2>3, <2>4, SuspendCodeFrees
  <2>6. \A u \in Thread \ {t}, o \in Waitable : Waits(w', u, o) <=> Waits(w, u, o)
    BY <2>3, <2>5 DEF Frees
  <2>7. SameLive
    BY <2>4 DEF SameLive
  <2> QED BY <1>0, <2>1, <2>6, <2>7, LifeBegins
<1>10. ASSUME NEW n \in Nested, SelfExit(n) PROVE Life!LifeNext
  <2>1. Last(stack) \in Thread /\ Life!MayLeave(Last(stack))
    BY <1>10, TopLeaves DEF SelfExit, SuspendTop, TopMayLeave
  <2> QED BY <1>0, <1>code, <1>10, <2>1, LifeEndsWith DEF SelfExit
<1>11. ASSUME NEW n \in Nested, SystemNothing(n) PROVE Life!LifeNext
  <2> DEFINE t == Last(stack)  N == CancelWait(w, t)
  <2>1. t \in Thread /\ Life!MayLeave(t) /\ stack # << >>
    BY <1>11, TopLeaves DEF SystemNothing, SuspendTop, TopMayLeave
  <2>2. N \in Registry /\ Frees(w, {t}, N)
    BY <1>0, <2>1, CancelWaitKeeps, CancelWaitFrees DEF Keeps
  <2>3. w' = SuspendCode(N, n) /\ status' = status
    BY <1>11 DEF SystemNothing
  <2> HIDE DEF t, N
  <2>4. Frees(N, {}, w')
    BY <1>0, <2>1, <2>2, <2>3, SuspendCodeFrees
  <2>5. \A u \in Thread \ {t}, o \in Waitable : Waits(w', u, o) <=> Waits(w, u, o)
    BY <2>2, <2>4 DEF Frees
  <2>6. SameLive
    BY <2>3 DEF SameLive
  <2> QED BY <1>0, <2>1, <2>5, <2>6, LifeBegins
<1>12. ASSUME NEW c \in Thread, NEW l \in Load, NEW n \in Nested, System(c, l, n)
       PROVE  Life!LifeNext
  <2> DEFINE t == Last(stack)  N == WaitSystem(w, t, c)
  <2>1. t \in Thread /\ Life!MayLeave(t) /\ stack # << >>
    BY <1>12, TopLeaves DEF System, SuspendTop, TopMayLeave
  <2>2. /\ N \in Registry
        /\ \A u \in Thread \ {t}, o \in Waitable : Waits(N, u, o) <=> Waits(w, u, o)
        /\ \A o \in Waitable : Waits(N, t, o) <=> o = c
    <3>1. Waiting(w, t, c, N) /\ \A o \in Waitable : Waits(N, t, o) <=> o = c
      BY <1>0, <2>1, WaitSystemKeeps
    <3> QED BY <3>1 DEF Waiting
  <2>3. w' = SuspendCode(N, n)
    BY <1>12 DEF System
  <2>4. /\ status[c] = "NONE"
        /\ \A u \in Thread : status'[u] # "NONE" <=> u = c \/ status[u] # "NONE"
    BY <1>0, <1>12, ThreadAssumption DEF System, LoadStatus
  <2> HIDE DEF t, N
  <2>5. Frees(N, {}, w')
    BY <1>0, <2>1, <2>2, <2>3, SuspendCodeFrees
  <2>6. /\ \A u \in Thread \ {t}, o \in Waitable : Waits(w', u, o) <=> Waits(w, u, o)
        /\ \A o \in Waitable : Waits(w', t, o) <=> o = c
    BY <2>1, <2>2, <2>5 DEF Frees
  <2> QED BY <1>0, <2>1, <2>4, <2>6, LifeBegins
<1>13. ASSUME NEW c \in Thread, NEW l \in Load, Fork(c, l) PROVE Life!LifeNext
  <2>1. CASE l = "none"
    BY <1>still, <1>13, <2>1 DEF Fork
  <2>2. CASE l # "none"
    <3> DEFINE s == LoadStatus[l]
    <3>1. s # "NONE"
      BY <2>2, ThreadAssumption DEF LoadStatus
    <3>2. status' = [status EXCEPT ![c] = s] /\ w' = w /\ stack' = stack /\ c \notin created
      BY <1>13, <2>2 DEF Fork
    <3> HIDE DEF s
    <3>3. \A o \in Waitable : ~ Waits(w, c, o)
      BY <3>2 DEF Sound, NewWaitsNot
    <3> QED BY <1>0, <3>1, <3>2, <3>3, LifeForks
  <2> QED BY <2>1, <2>2
<1>14. ASSUME NEW t \in Thread, NEW l \in Load, Exec(t, l) PROVE Life!LifeNext
  <2> DEFINE s == LoadStatus[l]
  <2>1. s # "NONE"
    BY <1>14, ThreadAssumption DEF LoadStatus, Exec
  <2>2. status' = [status EXCEPT ![t] = s] /\ w' = ClearWait(w, {t}) /\ stack' = stack
    BY <1>14 DEF Exec
  <2> HIDE DEF s
  <2>3. Frees(w, {t}, w')
    BY <1>0, <2>2, ClearWaitFrees
  <2> QED BY <1>0, <2>1, <2>2, <2>3, LifeStarts
<1>15. ASSUME NEW t \in Thread, ExitThread(t) PROVE Life!LifeNext
  BY <1>0, <1>stay, <1>code, <1>15, LifeEndsWith DEF ExitThread
<1>16. ASSUME NEW t \in Thread, Stop(t) \/ Run(t) PROVE Life!LifeNext
  <2>1. SameLive /\ w' = w /\ stack' = stack
    BY <1>0, <1>16 DEF Stop, Run, SameLive
  <2> QED BY <1>0, <2>1, FreesNobody, LifeStill DEF FreesSome
<1>17. ASSUME NEW t \in Thread, Cancel(t) PROVE Life!LifeNext
  BY <1>0, <1>17, CancelWaitFrees, LifeStill DEF Cancel, SameLive, FreesSome
<1>18. ASSUME NEW t \in Thread, NEW a \in WaitArgs, WaitOn(t, a) PROVE Life!LifeNext
  <2>1. a \in WaitArg
    BY ThreadAssumption
  <2>2. \A u \in Thread \ {t}, o \in Waitable : Waits(w', u, o) <=> Waits(w, u, o)
    BY <1>0, <1>18, <2>1, WaitForKeeps DEF WaitOn, Waiting
  <2>3. SameLive /\ Life!MayLeave(t)
    BY <1>18, <1>stay DEF WaitOn, SameLive
  <2> QED BY <1>0, <2>2, <2>3, LifeBegins
<1>19. ASSUME NEW t \in Thread, Step(t) PROVE Life!LifeNext
  <2>1. /\ t \notin ToSet(stack) /\ status[t] = "RUN" /\ ~ IsWait(w, t) /\ Wake(w, t)
        /\ stack' = Append(stack, t) /\ SameLive
    BY <1>19 DEF Step, Ready, Running, Wake, SameLive
  <2>2. Frees(w, {}, w')
    BY <1>0, <2>1, WakeFrees
  <2>3. \A o \in Waitable : o # Null
    BY WaitAssumption DEF Waitable
  <2>4. \A o \in Waitable : ~ Waits(w', t, o)
    BY <2>1, <2>2, <2>3 DEF Frees, IsWait, Waits
  <2> QED BY <1>0, <2>1, <2>2, <2>4, LifeEnters
<1>20. ASSUME NEW t \in Thread, NEW p \in Priority, SetPriority(t, p) PROVE Life!LifeNext
  BY <1>still, <1>20 DEF SetPriority
<1>21. ASSUME NEW t \in Thread, NEW m \in StepModes, SetStepMode(t, m) PROVE Life!LifeNext
  BY <1>still, <1>21 DEF SetStepMode
<1>22. ASSUME NEW o \in NotifyTargets, NotifyOne(o) \/ NotifyEvery(o) PROVE Life!LifeNext
  <2>1. o \in Waitable
    BY ThreadAssumption
  <2>2. FreesSome(w, w') /\ SameLive /\ stack' = stack
    BY <1>0, <1>22, <2>1, NotifyFrees, NotifyAllFrees DEF NotifyOne, NotifyEvery, SameLive
  <2> QED BY <1>0, <2>2, LifeStill
<1>23. ASSUME NEW x \in Trigger, SendTrigger(x) PROVE Life!LifeNext
  <2>1. ToSet(threadList) \in SUBSET Thread
    BY <1>0 DEF TypeOK, ToSet
  <2>2. FreesSome(w, w') /\ SameLive /\ stack' = stack
    BY <1>0, <1>23, <2>1, NotifyTriggerFrees DEF SendTrigger, SameLive
  <2> QED BY <1>0, <2>2, LifeStill
<1> QED
  BY <1>1, <1>2, <1>3, <1>4, <1>5, <1>6, <1>7, <1>8, <1>9, <1>10, <1>11, <1>12, <1>13, <1>14,
     <1>15, <1>16, <1>17, <1>18, <1>19, <1>20, <1>21, <1>22, <1>23 DEF Next, Host, HandBack, Call

LEMMA CreatedGrows ==
  ASSUME Next
  PROVE  created \subseteq created'
<1>1. CASE Host \/ Done
  BY <1>1 DEF Host, Update, BeginMain, SkipEnded, AwaitFile, FailFile, Turn, EndMain,
              DoneThread, EndDone, Done
<1>2. CASE HandBack
  BY <1>2 DEF HandBack, Return, Fail, Suspend, SelfWait, SelfExit, System, SystemNothing
<1>3. CASE Call
  BY <1>3 DEF Call, Fork, Exec, ExitThread, Stop, Run, Cancel, Step, WaitOn, SetPriority,
              SetStepMode, NotifyOne, NotifyEvery, SendTrigger
<1> QED BY <1>1, <1>2, <1>3 DEF Next

LEMMA NewWaitsNotAlways == Spec => []NewWaitsNot
<1>1. Init => NewWaitsNot
  BY WaitAssumption DEF Init, NoWaits, NewWaitsNot, Waits, Waitable
<1>2. TypeOK /\ Held /\ NewWaitsNot /\ [Next]_vars => NewWaitsNot'
  <2> SUFFICES ASSUME TypeOK, Held, NewWaitsNot, [Next]_vars PROVE NewWaitsNot'
    OBVIOUS
  <2>1. CASE UNCHANGED vars
    BY <2>1 DEF vars, NewWaitsNot
  <2>2. CASE Next
    <3>1. created \subseteq created'
      BY <2>2, CreatedGrows
    <3>2. ToSet(stack) \subseteq created
      BY DEF Held
    <3>3. CASE GoodStep
      BY <3>1, <3>2, <3>3 DEF GoodStep, NewWaitsNot
    <3>4. ASSUME NEW c \in Thread, NEW l \in Load, NEW n \in Nested, System(c, l, n)
          PROVE  NewWaitsNot'
      <4>1. Last(stack) \in created
        BY <3>4 DEF Held, System
      <4> QED BY <3>1, <3>4, <4>1, SystemStep DEF NewWaitsNot
    <3> QED BY <2>2, <3>3, <3>4, RegistryStep
  <2> QED BY <2>1, <2>2
<1> QED BY <1>1, <1>2, TypeCorrect, HeldAlways, PTL DEF Spec

\* The scheduler, with whatever calls scripts make and in whatever order rounds,
\* steps and loads come, never does anything to the life of threads but what
\* ThreadLife allows: who ends frees all who wait for it, a release ends whole
\* waits and nobody else's, and a script runs only in a live thread that waits
\* for nothing.
THEOREM ImplementsLifeAlways == Spec => ImplementsLife
<1>1. Init => Life!LifeInit
  <2> SUFFICES ASSUME Init PROVE Life!LifeInit
    OBVIOUS
  <2>1. \A t \in Thread, o \in Waitable : ~ Waits(w, t, o)
    BY WaitAssumption DEF Init, NoWaits, Waits, Waitable
  <2>2. {t \in Thread : status[t] # "NONE"} = {} /\ ToSet(stack) = {}
    BY DEF Init, ToSet
  <2> QED BY <2>1, <2>2 DEF Life!LifeInit
<1>2. TypeOK /\ WaitRegistered /\ StackOnce /\ NewWaitsNot /\ Listed /\ Held /\ [Next]_vars
        => [Life!LifeNext]_(Life!lifeVars)
  <2> SUFFICES ASSUME TypeOK, WaitRegistered, StackOnce, NewWaitsNot, Listed, Held, [Next]_vars
               PROVE  [Life!LifeNext]_(Life!lifeVars)
    OBVIOUS
  <2>1. Sound
    BY DEF Listed, Held, Sound
  <2>2. CASE UNCHANGED vars
    BY <2>2 DEF vars, Life!lifeVars
  <2> QED BY <2>1, <2>2, LifeStep
<1> QED
  BY <1>1, <1>2, TypeCorrect, WaitRegisteredAlways, StackOnceAlways, NewWaitsNotAlways,
     LiveThreadsListed, HeldAlways, PTL DEF Spec, ImplementsLife, Life!LifeSpec

-----------------------------------------------------------------------------
(***************************************************************************)
(* The other half of the agreement between threads and the objects they    *)
(* wait for: an object's list names nobody who does not wait for it, and   *)
(* nobody twice, where scripts name an object once per wait().  What this  *)
(* and the operations of the registry mean for the threads that wait: whom *)
(* notify() wakes, when system() returns, when a timed wait ends.          *)
(***************************************************************************)

Exact(W) ==
    \A o \in Waitable :
        /\ \A t \in ToSet(W.waitThreadList[o]) : Waits(W, t, o)
        /\ IsInjective(W.waitThreadList[o])

KeepsExact(W, N) == N \in Registry /\ (Exact(W) => Exact(N))

LEMMA ListTypes ==
  ASSUME NEW W \in Registry, NEW o \in Waitable
  PROVE  W.waitThreadList[o] \in Seq(Thread) /\ ToSet(W.waitThreadList[o]) \subseteq Thread
<1>1. W.waitThreadList[o] \in Seq(Thread)
  BY DEF Registry
<1> QED BY <1>1 DEF ToSet

LEMMA SameExact ==
  ASSUME NEW W \in Registry, NEW N \in Registry, N.waitSystem = W.waitSystem,
         N.waitList = W.waitList, N.waitThreadList = W.waitThreadList
  PROVE  KeepsExact(W, N)
BY DEF KeepsExact, Exact, Waits

LEMMA ExactThen ==
  ASSUME NEW W, NEW V, NEW N, KeepsExact(W, V), KeepsExact(V, N)
  PROVE  KeepsExact(W, N)
BY DEF KeepsExact

LEMMA ClearWaitExact ==
  ASSUME NEW W \in Registry, NEW S \in SUBSET Thread
  PROVE  KeepsExact(W, ClearWait(W, S))
<1> DEFINE C == ClearWait(W, S)
<1>1. Cleared(W, S, C)
  BY ClearWaitFields
<1> HIDE DEF C
<1>2. C \in Registry
  BY <1>1 DEF Cleared
<1>3. ASSUME Exact(W), NEW o \in Waitable, NEW t \in ToSet(C.waitThreadList[o])
      PROVE  Waits(C, t, o)
  <2>1. t \in Thread
    BY <1>2, ListTypes
  <2>2. t \in ToSet(W.waitThreadList[o]) /\ ~ (t \in S /\ Waits(W, t, o))
    BY <1>1, <2>1 DEF Cleared
  <2> QED BY <1>1, <1>3, <2>1, <2>2 DEF Cleared, Exact
<1>4. ASSUME Exact(W), NEW o \in Waitable PROVE IsInjective(C.waitThreadList[o])
  BY <1>1, <1>4 DEF Cleared, Exact
<1> QED BY <1>2, <1>3, <1>4 DEF KeepsExact, Exact, C

\* A release by o, whose list becomes cut: cut names none of those released.
LEMMA ReleaseFromExact ==
  ASSUME NEW W \in Registry, NEW S \in SUBSET Thread, NEW o \in Waitable,
         NEW cut \in Seq(Thread), IsInjective(cut),
         ToSet(cut) = ToSet(W.waitThreadList[o]) \ S
  PROVE  KeepsExact(W, ReleaseFrom(W, S, o, cut))
<1> DEFINE R == Release(W, S, o)
           N == ReleaseFrom(W, S, o, cut)
<1>1. Freed(W, S, o, R)
  BY ReleaseFields DEF Waitable
<1>2. N \in Registry
  BY FreeListed DEF FreedFrom, Keeps
<1> DEFINE wtl == [R.waitThreadList EXCEPT ![o] = cut]
<1>3. N = [R EXCEPT !.waitThreadList = wtl]
  BY DEF ReleaseFrom
<1> HIDE DEF R, N
<1>4. R \in Registry
  BY <1>1 DEF Freed
<1>5. wtl[o] = cut /\ \A p \in Waitable \ {o} : wtl[p] = R.waitThreadList[p]
  BY <1>4 DEF Registry
<1> HIDE DEF wtl
<1>6. N.waitThreadList = wtl /\ N.waitSystem = R.waitSystem /\ N.waitList = R.waitList
  BY <1>3, <1>4 DEF Registry
<1>7. \A t \in Thread, p \in Waitable : Waits(N, t, p) <=> t \notin S /\ Waits(W, t, p)
  BY <1>1, <1>6 DEF Waits, Freed
<1>8. ASSUME Exact(W), NEW p \in Waitable, NEW t \in ToSet(N.waitThreadList[p])
      PROVE  Waits(N, t, p)
  <2>1. t \in Thread
    BY <1>2, ListTypes
  <2>2. CASE p = o
    <3>1. t \in ToSet(W.waitThreadList[o]) /\ t \notin S
      BY <1>5, <1>6, <1>8, <2>2
    <3> QED BY <1>7, <1>8, <2>1, <2>2, <3>1 DEF Exact
  <2>3. CASE p # o
    <3>1. t \in ToSet(R.waitThreadList[p])
      BY <1>5, <1>6, <1>8, <2>3
    <3>2. t \in ToSet(W.waitThreadList[p]) /\ ~ (t \in S /\ Waits(W, t, p))
      BY <1>1, <2>1, <2>3, <3>1 DEF Freed
    <3> QED BY <1>7, <1>8, <2>1, <3>2 DEF Exact
  <2> QED BY <2>2, <2>3
<1>9. ASSUME Exact(W), NEW p \in Waitable PROVE IsInjective(N.waitThreadList[p])
  <2>1. IsInjective(R.waitThreadList[p])
    BY <1>1, <1>9 DEF Freed, Exact
  <2> QED BY <1>5, <1>6, <2>1
<1> QED BY <1>2, <1>8, <1>9 DEF KeepsExact, Exact, N

LEMMA NotifyExact ==
  ASSUME NEW W \in Registry, NEW o \in Waitable, Exact(W)
  PROVE  KeepsExact(W, Notify(W, o))
<1> DEFINE list == W.waitThreadList[o]
           hits == {i \in DOMAIN list : Waits(W, list[i], o)}
           hit  == CHOOSE i \in hits : \A j \in hits : i <= j
<1>0. KeepsExact(W, W)
  BY DEF KeepsExact
<1>1. CASE hits = {}
  BY <1>0, <1>1 DEF Notify
<1>2. CASE hits # {}
  <2>1. list \in Seq(Thread) /\ IsInjective(list)
    BY DEF Registry, Exact
  <2>2. \E i \in hits : \A j \in hits : i <= j
    <3>1. hits \subseteq Nat
      BY <2>1
    <3> QED BY <1>2, <3>1, SmallestExists
  <2>3. hit \in DOMAIN list
    <3> HIDE DEF hits
    <3>1. hit \in hits
      BY <2>2
    <3> QED BY <3>1 DEF hits
  <2> DEFINE cut == RemoveAt(list, hit)
  <2>4. Notify(W, o) = ReleaseFrom(W, {list[hit]}, o, cut)
    BY <1>2 DEF Notify
  <2> HIDE DEF hit
  <2>5. {list[hit]} \in SUBSET Thread
    BY <2>1, <2>3
  <2>6. /\ cut \in Seq(Thread) /\ IsInjective(cut)
        /\ ToSet(list) \ {list[hit]} \subseteq ToSet(cut) /\ ToSet(cut) \subseteq ToSet(list)
        /\ list[hit] \notin ToSet(cut)
    BY <2>1, <2>3, RemoveAtElements
  <2> HIDE DEF cut
  <2>7. ToSet(cut) = ToSet(list) \ {list[hit]}
    BY <2>6
  <2> QED BY <2>4, <2>5, <2>6, <2>7, ReleaseFromExact
<1> QED BY <1>1, <1>2

LEMMA NotifyAllExact ==
  ASSUME NEW W \in Registry, NEW o \in Waitable, Exact(W)
  PROVE  KeepsExact(W, NotifyAll(W, o))
<1> DEFINE S == {t \in ToSet(W.waitThreadList[o]) : Waits(W, t, o)}
<1>1. S \in SUBSET Thread
  BY ListTypes
<1>2. << >> \in Seq(Thread) /\ IsInjective(<< >>) /\ ToSet(<< >>) = {}
  BY DEF IsInjective, ToSet
<1>3. ToSet(W.waitThreadList[o]) \ S = {}
  BY DEF Exact
<1>4. NotifyAll(W, o) = ReleaseFrom(W, S, o, << >>)
  BY DEF NotifyAll
<1> HIDE DEF S
<1> QED BY <1>1, <1>2, <1>3, <1>4, ReleaseFromExact

LEMMA NotifyTriggerExact ==
  ASSUME NEW W \in Registry, NEW S \in SUBSET Thread, NEW x \in Trigger
  PROVE  KeepsExact(W, NotifyTrigger(W, S, x))
<1> DEFINE T == {t \in S : x \in W.waitList[t]}
           R == Release(W, T, x)
<1>1. T \in SUBSET Thread /\ NotifyTrigger(W, S, x) = R
  BY DEF NotifyTrigger
<1> HIDE DEF T
<1>2. Freed(W, T, x, R)
  BY <1>1, ReleaseFields
<1> HIDE DEF R
<1>3. R \in Registry
  BY <1>2 DEF Freed
<1>4. \A o \in Waitable : o # x
  BY WaitAssumption DEF Waitable
<1>5. ASSUME Exact(W), NEW o \in Waitable, NEW t \in ToSet(R.waitThreadList[o])
      PROVE  Waits(R, t, o)
  <2>1. t \in Thread
    BY <1>3, ListTypes
  <2>2. t \in ToSet(W.waitThreadList[o]) /\ ~ (t \in T /\ Waits(W, t, o))
    BY <1>2, <1>4, <1>5, <2>1 DEF Freed
  <2> QED BY <1>2, <1>5, <2>1, <2>2 DEF Freed, Exact
<1>6. ASSUME Exact(W), NEW o \in Waitable PROVE IsInjective(R.waitThreadList[o])
  BY <1>2, <1>6 DEF Freed, Exact
<1> QED BY <1>1, <1>3, <1>5, <1>6 DEF KeepsExact, Exact

LEMMA ExitExact ==
  ASSUME NEW W \in Registry, NEW t \in Thread, Exact(W)
  PROVE  KeepsExact(W, Exit(W, t))
<1> DEFINE N == NotifyAll(W, t)
<1>1. t \in Waitable /\ {t} \in SUBSET Thread
  BY DEF Waitable
<1>2. KeepsExact(W, N)
  BY <1>1, NotifyAllExact
<1> HIDE DEF N
<1>3. KeepsExact(N, ClearWait(N, {t}))
  BY <1>1, <1>2, ClearWaitExact DEF KeepsExact
<1>4. KeepsExact(W, ClearWait(N, {t}))
  BY <1>2, <1>3, ExactThen
<1> QED BY <1>4 DEF Exit, N

LEMMA SetFieldsExact ==
  ASSUME NEW W \in Registry, NEW t \in Thread
  PROVE  /\ \A c \in Code : KeepsExact(W, [W EXCEPT !.exitCode[t] = c])
         /\ \A r \in Result : KeepsExact(W, [W EXCEPT !.waitResult[t] = r])
         /\ \A n \in -1 .. MaxTimeout : KeepsExact(W, [W EXCEPT !.waitTimeout[t] = n])
<1>1. ASSUME NEW c \in Code PROVE KeepsExact(W, [W EXCEPT !.exitCode[t] = c])
  <2> DEFINE N == [W EXCEPT !.exitCode[t] = c]
  <2>1. N \in Registry
    BY SetExitCode DEF Keeps
  <2>2. /\ N.waitSystem = W.waitSystem /\ N.waitList = W.waitList
        /\ N.waitThreadList = W.waitThreadList
    BY DEF Registry
  <2> HIDE DEF N
  <2>3. KeepsExact(W, N)
    BY <2>1, <2>2, SameExact
  <2> QED BY <2>3 DEF N
<1>2. ASSUME NEW r \in Result PROVE KeepsExact(W, [W EXCEPT !.waitResult[t] = r])
  <2> DEFINE N == [W EXCEPT !.waitResult[t] = r]
  <2>1. N \in Registry
    BY SetWaitResult DEF Keeps
  <2>2. /\ N.waitSystem = W.waitSystem /\ N.waitList = W.waitList
        /\ N.waitThreadList = W.waitThreadList
    BY DEF Registry
  <2> HIDE DEF N
  <2>3. KeepsExact(W, N)
    BY <2>1, <2>2, SameExact
  <2> QED BY <2>3 DEF N
<1>3. ASSUME NEW n \in -1 .. MaxTimeout PROVE KeepsExact(W, [W EXCEPT !.waitTimeout[t] = n])
  <2> DEFINE N == [W EXCEPT !.waitTimeout[t] = n]
  <2>1. N \in Registry
    BY SetWaitTimeout DEF Keeps
  <2>2. /\ N.waitSystem = W.waitSystem /\ N.waitList = W.waitList
        /\ N.waitThreadList = W.waitThreadList
    BY DEF Registry
  <2> HIDE DEF N
  <2>3. KeepsExact(W, N)
    BY <2>1, <2>2, SameExact
  <2> QED BY <2>3 DEF N
<1> QED BY <1>1, <1>2, <1>3

LEMMA CancelWaitExact ==
  ASSUME NEW W \in Registry, NEW t \in Thread
  PROVE  KeepsExact(W, CancelWait(W, t))
<1> DEFINE C == ClearWait(W, {t})
<1>1. KeepsExact(W, C)
  BY ClearWaitExact
<1> HIDE DEF C
<1>2. C \in Registry /\ Null \in Result
  BY <1>1 DEF KeepsExact, Result, Code
<1>3. KeepsExact(C, [C EXCEPT !.waitResult[t] = Null])
  BY <1>2, SetFieldsExact
<1> QED BY <1>1, <1>3, ExactThen DEF CancelWait, C

-----------------------------------------------------------------------------
\* A thread off all lists is put on some of them, once.
LEMMA OnceMore ==
  ASSUME NEW X, NEW s \in Seq(X), NEW x \in X, IsInjective(s), x \notin ToSet(s),
         NEW m, m = 1
  PROVE  IsInjective(s \o [i \in 1 .. m |-> x])
<1> DEFINE n == Len(s)  e == [i \in 1 .. m |-> x]  r == s \o e
<1>1. n \in Nat /\ DOMAIN s = 1 .. n
  OBVIOUS
<1>2. e \in Seq(X) /\ Len(e) = 1
  OBVIOUS
<1>3. r \in Seq(X) /\ DOMAIN r = 1 .. (n + 1)
  BY <1>2
<1>4. \A i \in 1 .. (n + 1) : r[i] = IF i <= n THEN s[i] ELSE x
  BY <1>1, <1>2
<1> HIDE DEF r, n, e
<1>5. \A i \in 1 .. n : s[i] # x
  BY <1>1 DEF ToSet
<1>6. \A i, j \in 1 .. n : s[i] = s[j] => i = j
  BY <1>1 DEF IsInjective
<1>7. ASSUME NEW i \in 1 .. (n + 1), NEW j \in 1 .. (n + 1), r[i] = r[j]
      PROVE  i = j
  <2>1. CASE i \in 1 .. n /\ j \in 1 .. n
    BY <1>1, <1>4, <1>6, <1>7, <2>1
  <2>2. CASE ~ (i \in 1 .. n /\ j \in 1 .. n)
    BY <1>1, <1>4, <1>5, <1>7, <2>2
  <2> QED BY <2>1, <2>2
<1>8. IsInjective(r)
  BY <1>3, <1>7 DEF IsInjective
<1> QED BY <1>8 DEF r, e

\* N is C with t waiting for the objects of O and on their lists behind.
LEMMA WaitingExact ==
  ASSUME NEW C \in Registry, NEW N \in Registry, NEW t \in Thread, NEW O,
         Exact(C),
         \A o \in Waitable : ~ Waits(C, t, o),
         \A o \in Waitable \cap O : Waits(N, t, o),
         \A u \in Thread \ {t}, o \in Waitable : Waits(C, u, o) => Waits(N, u, o),
         \A o \in Waitable \ O : N.waitThreadList[o] = C.waitThreadList[o],
         \A o \in Waitable \cap O :
             /\ ToSet(N.waitThreadList[o]) = ToSet(C.waitThreadList[o]) \cup {t}
             /\ t \notin ToSet(C.waitThreadList[o]) => IsInjective(N.waitThreadList[o])
  PROVE  Exact(N)
<1>1. \A o \in Waitable : t \notin ToSet(C.waitThreadList[o])
  BY DEF Exact
<1>2. ASSUME NEW o \in Waitable PROVE IsInjective(N.waitThreadList[o])
  BY <1>1 DEF Exact
<1>3. ASSUME NEW o \in Waitable, NEW u \in ToSet(N.waitThreadList[o])
      PROVE  Waits(N, u, o)
  <2>1. u \in Thread
    BY <1>3, ListTypes
  <2>2. CASE u = t
    BY <1>1, <1>3, <2>2
  <2>3. CASE u # t
    <3>1. u \in ToSet(C.waitThreadList[o])
      BY <1>3, <2>3
    <3> QED BY <2>1, <2>3, <3>1 DEF Exact
  <2> QED BY <2>2, <2>3
<1> QED BY <1>2, <1>3 DEF Exact

LEMMA WaitForExact ==
  ASSUME NEW W \in Registry, NEW t \in Thread, NEW a \in WaitArg, a.times = 1
  PROVE  KeepsExact(W, WaitFor(W, t, a))
<1> DEFINE C == ClearWait(W, {t})
           lst == [C.waitList EXCEPT ![t] = a.objects \cup a.triggers]
           wtl == [o \in Waitable |->
                     IF o \in a.objects THEN C.waitThreadList[o] \o [i \in 1 .. a.times |-> t]
                     ELSE C.waitThreadList[o]]
           N == WaitFor(W, t, a)
<1>1. N \in Registry
  BY WaitForKeeps DEF Waiting
<1>2. Cleared(W, {t}, C) /\ KeepsExact(W, C)
  BY ClearWaitFields, ClearWaitExact
<1>3. C \in Registry /\ \A o \in Waitable : ~ Waits(C, t, o)
  BY <1>2 DEF Cleared
<1>4. N.waitThreadList = wtl /\ N.waitList = lst /\ N.waitSystem = C.waitSystem
  <2> HIDE DEF C
  <2>1. N = [C EXCEPT !.waitResult = [@ EXCEPT ![t] = IF a.timeout >= 0 THEN "tick" ELSE Null],
                      !.waitTimeout = [@ EXCEPT ![t] = a.timeout],
                      !.waitList = lst, !.waitThreadList = wtl]
    BY DEF WaitFor, C
  <2> HIDE DEF N, lst, wtl
  <2> QED BY <1>3, <2>1 DEF Registry
<1> HIDE DEF C, N
<1>5. \A o \in Waitable \cap a.objects : Waits(N, t, o)
  BY <1>3, <1>4 DEF Registry, Waits
<1>6. \A u \in Thread \ {t}, o \in Waitable : Waits(C, u, o) => Waits(N, u, o)
  BY <1>3, <1>4 DEF Registry, Waits
<1>7. \A o \in Waitable \ a.objects : N.waitThreadList[o] = C.waitThreadList[o]
  BY <1>4
<1>8. ASSUME NEW o \in Waitable \cap a.objects, Exact(C)
      PROVE  /\ ToSet(N.waitThreadList[o]) = ToSet(C.waitThreadList[o]) \cup {t}
             /\ t \notin ToSet(C.waitThreadList[o]) => IsInjective(N.waitThreadList[o])
  <2> DEFINE s == C.waitThreadList[o]
  <2>1. s \in Seq(Thread) /\ IsInjective(s)
    BY <1>3, <1>8 DEF Registry, Exact
  <2>2. N.waitThreadList[o] = s \o [i \in 1 .. a.times |-> t]
    BY <1>4
  <2> HIDE DEF s
  <2>3. \A q \in Seq(Thread), m \in Nat \ {0} :
          ToSet(q \o [i \in 1 .. m |-> t]) = ToSet(q) \cup {t}
    BY RepeatElements
  <2>4. t \notin ToSet(s) => IsInjective(s \o [i \in 1 .. a.times |-> t])
    BY <2>1, OnceMore
  <2>5. a.times \in Nat \ {0}
    OBVIOUS
  <2> QED BY <2>1, <2>2, <2>3, <2>4, <2>5 DEF s
<1>9. Exact(C) => Exact(N)
  <2> SUFFICES ASSUME Exact(C) PROVE Exact(N)
    OBVIOUS
  <2> QED BY <1>1, <1>3, <1>5, <1>6, <1>7, <1>8, WaitingExact
<1> QED BY <1>1, <1>2, <1>9 DEF KeepsExact, N

LEMMA WaitSystemExact ==
  ASSUME NEW W \in Registry, NEW t \in Thread, NEW c \in Thread
  PROVE  KeepsExact(W, WaitSystem(W, t, c))
<1> DEFINE C == ClearWait(W, {t})
           sys == [C.waitSystem EXCEPT ![t] = c]
           wtl == [C.waitThreadList EXCEPT ![c] = Append(C.waitThreadList[c], t)]
           N == WaitSystem(W, t, c)
<1>1. N \in Registry /\ Waits(N, t, c)
  <2>1. c \in Waitable
    BY DEF Waitable
  <2> QED BY <2>1, WaitSystemKeeps DEF Waiting
<1>2. Cleared(W, {t}, C) /\ KeepsExact(W, C)
  BY ClearWaitFields, ClearWaitExact
<1>3. C \in Registry /\ \A o \in Waitable : ~ Waits(C, t, o)
  BY <1>2 DEF Cleared
<1>4. N.waitThreadList = wtl /\ N.waitList = C.waitList /\ N.waitSystem = sys
  <2> HIDE DEF C
  <2>1. N = [C EXCEPT !.waitResult = [@ EXCEPT ![t] = Null], !.waitSystem = sys,
                      !.waitThreadList = wtl]
    BY DEF WaitSystem, C
  <2> HIDE DEF N, sys, wtl
  <2> QED BY <1>3, <2>1 DEF Registry
<1> HIDE DEF C, N
<1>5. c \in Waitable
  BY DEF Waitable
<1>6. \A u \in Thread \ {t}, o \in Waitable : Waits(C, u, o) => Waits(N, u, o)
  BY <1>3, <1>4 DEF Registry, Waits
<1>7. \A o \in Waitable \ {c} : N.waitThreadList[o] = C.waitThreadList[o]
  BY <1>3, <1>4 DEF Registry
<1>8. Exact(C) =>
        /\ ToSet(N.waitThreadList[c]) = ToSet(C.waitThreadList[c]) \cup {t}
        /\ t \notin ToSet(C.waitThreadList[c]) => IsInjective(N.waitThreadList[c])
  <2>1. C.waitThreadList[c] \in Seq(Thread)
    BY <1>3, <1>5 DEF Registry
  <2>2. N.waitThreadList[c] = Append(C.waitThreadList[c], t)
    BY <1>3, <1>4, <1>5 DEF Registry
  <2> QED BY <1>5, <2>1, <2>2, AppendElements DEF Exact
<1>9. Exact(C) => Exact(N)
  <2> SUFFICES ASSUME Exact(C) PROVE Exact(N)
    OBVIOUS
  <2> DEFINE O == {c}
  <2>1. \A o \in Waitable \cap O : Waits(N, t, o)
    BY <1>1
  <2>2. \A o \in Waitable \cap O :
          /\ ToSet(N.waitThreadList[o]) = ToSet(C.waitThreadList[o]) \cup {t}
          /\ t \notin ToSet(C.waitThreadList[o]) => IsInjective(N.waitThreadList[o])
    BY <1>8
  <2>3. \A o \in Waitable \ O : N.waitThreadList[o] = C.waitThreadList[o]
    BY <1>7
  <2> HIDE DEF O
  <2> QED BY <1>1, <1>3, <1>6, <2>1, <2>2, <2>3, WaitingExact
<1> QED BY <1>1, <1>2, <1>9 DEF KeepsExact, N

-----------------------------------------------------------------------------
\* The steps.
LEMMA ItselfExact ==
  ASSUME NEW W \in Registry
  PROVE  KeepsExact(W, W)
BY DEF KeepsExact

LEMMA SuspendCodeExact ==
  ASSUME NEW W, NEW V, TypeOK, stack # << >>, NEW n, KeepsExact(W, V)
  PROVE  KeepsExact(W, SuspendCode(V, n))
<1>1. Last(stack) \in Thread /\ "suspended" \in Code /\ V \in Registry
  BY DEF TypeOK, Last, Code, KeepsExact
<1>2. KeepsExact(V, [V EXCEPT !.exitCode[Last(stack)] = "suspended"])
  BY <1>1, SetFieldsExact
<1>3. KeepsExact(V, SuspendCode(V, n))
  BY <1>1, <1>2, ItselfExact DEF SuspendCode
<1> QED BY <1>3, ExactThen

LEMMA ElapseExact ==
  ASSUME NEW W \in Registry, TypeOK, NEW t \in Thread
  PROVE  KeepsExact(W, Elapse(W, t))
<1>1. CASE W.waitTimeout[t] < 0
  BY <1>1, ItselfExact DEF Elapse
<1>2. CASE ~ (W.waitTimeout[t] < 0) /\ W.waitTimeout[t] < diffTick
  BY <1>2, ClearWaitExact DEF Elapse
<1>3. CASE ~ (W.waitTimeout[t] < 0) /\ ~ (W.waitTimeout[t] < diffTick)
  <2>1. diffTick \in Nat /\ W.waitTimeout[t] \in -1 .. MaxTimeout /\ MaxTimeout \in Nat
    BY ThreadAssumption, WaitAssumption DEF TypeOK, Registry
  <2> DEFINE n == W.waitTimeout[t] - diffTick
  <2>2. n \in -1 .. MaxTimeout
    BY <1>3, <2>1
  <2>3. Elapse(W, t) = [W EXCEPT !.waitTimeout[t] = n]
    BY <1>3 DEF Elapse
  <2> HIDE DEF n
  <2> QED BY <2>2, <2>3, SetFieldsExact
<1> QED BY <1>1, <1>2, <1>3

LEMMA WakeExact ==
  ASSUME NEW W \in Registry, NEW t \in Thread, Wake(W, t)
  PROVE  KeepsExact(W, w')
<1>1. Null \in Result
  BY DEF Result, Code
<1>2. KeepsExact(W, [W EXCEPT !.waitResult[t] = Null])
  BY <1>1, SetFieldsExact
<1> QED BY <1>2, ItselfExact DEF Wake

LEMMA EndExact ==
  ASSUME w \in Registry, Exact(w), NEW t \in Thread, NEW c \in Code,
         w' = Exit([w EXCEPT !.exitCode[t] = c], t)
  PROVE  KeepsExact(w, w')
<1> DEFINE V == [w EXCEPT !.exitCode[t] = c]
<1>1. KeepsExact(w, V)
  BY SetFieldsExact
<1> HIDE DEF V
<1>2. KeepsExact(V, w')
  BY <1>1, ExitExact DEF KeepsExact, V
<1> QED BY <1>1, <1>2, ExactThen

LEMMA ExactStep ==
  ASSUME TypeOK, Exact(w), \A a \in WaitArgs : a.times = 1, Next
  PROVE  KeepsExact(w, w')
<1>0. w \in Registry /\ KeepsExact(w, w)
  BY ItselfExact DEF TypeOK
<1>a. stack # << >> => Last(stack) \in Thread
  BY DEF TypeOK, Last
<1>b. all # << >> => Head(all) \in Thread
  BY DEF TypeOK
<1>c. "value" \in Code /\ "error" \in Code
  BY DEF Code
<1>1. ASSUME NEW d \in Diff, Update(d) PROVE KeepsExact(w, w')
  BY <1>0, <1>1 DEF Update
<1>2. CASE BeginMain \/ SkipEnded \/ AwaitFile \/ EndMain \/ EndDone \/ Done
  BY <1>0, <1>2 DEF BeginMain, SkipEnded, AwaitFile, EndMain, EndDone, Done
<1>3. CASE FailFile
  BY <1>0, <1>3, <1>b, <1>c, EndExact DEF FailFile
<1>4. CASE Turn
  <2> DEFINE t == Head(all)  now == Elapse(w, t)
  <2>1. t \in Thread
    BY <1>4, <1>b DEF Turn
  <2>2. KeepsExact(w, now)
    BY <1>0, <2>1, ElapseExact
  <2>3. Wake(now, t) \/ w' = now
    BY <1>4 DEF Turn
  <2> HIDE DEF now, t
  <2>4. KeepsExact(now, w')
    BY <2>1, <2>2, <2>3, WakeExact, ItselfExact DEF KeepsExact
  <2> QED BY <2>2, <2>4, ExactThen
<1>5. CASE DoneThread
  BY <1>0, <1>5, <1>b, ExitExact DEF DoneThread
<1>6. CASE Return
  BY <1>0, <1>6, <1>a, <1>c, EndExact DEF Return
<1>7. CASE Fail
  BY <1>0, <1>7, <1>a, <1>c, EndExact DEF Fail
<1>8. CASE Suspend
  BY <1>0, <1>8, SuspendCodeExact DEF Suspend
<1>9. ASSUME NEW a \in WaitArgs, NEW n \in Nested, SelfWait(a, n) PROVE KeepsExact(w, w')
  <2> DEFINE t == Last(stack)  N == WaitFor(w, t, a)
  <2>1. t \in Thread /\ a \in WaitArg /\ a.times = 1 /\ stack # << >>
    BY <1>9, <1>a, ThreadAssumption DEF SelfWait
  <2>2. KeepsExact(w, N)
    BY <1>0, <2>1, WaitForExact
  <2>3. w' = SuspendCode(N, n)
    BY <1>9 DEF SelfWait
  <2> HIDE DEF N, t
  <2> QED BY <2>1, <2>2, <2>3, SuspendCodeExact
<1>10. ASSUME NEW n \in Nested, SelfExit(n) PROVE KeepsExact(w, w')
  BY <1>0, <1>10, <1>a, <1>c, EndExact DEF SelfExit
<1>11. ASSUME NEW n \in Nested, SystemNothing(n) PROVE KeepsExact(w, w')
  <2> DEFINE N == CancelWait(w, Last(stack))
  <2>1. stack # << >> /\ KeepsExact(w, N)
    BY <1>0, <1>11, <1>a, CancelWaitExact DEF SystemNothing
  <2>2. w' = SuspendCode(N, n)
    BY <1>11 DEF SystemNothing
  <2> HIDE DEF N
  <2> QED BY <2>1, <2>2, SuspendCodeExact
<1>12. ASSUME NEW c \in Thread, NEW l \in Load, NEW n \in Nested, System(c, l, n)
       PROVE  KeepsExact(w, w')
  <2> DEFINE N == WaitSystem(w, Last(stack), c)
  <2>1. stack # << >> /\ KeepsExact(w, N)
    BY <1>0, <1>12, <1>a, WaitSystemExact DEF System
  <2>2. w' = SuspendCode(N, n)
    BY <1>12 DEF System
  <2> HIDE DEF N
  <2> QED BY <2>1, <2>2, SuspendCodeExact
<1>13. ASSUME NEW c \in Thread, NEW l \in Load, Fork(c, l) \/ Exec(c, l)
       PROVE  KeepsExact(w, w')
  BY <1>0, <1>13, ClearWaitExact DEF Fork, Exec
<1>14. ASSUME NEW t \in Thread, ExitThread(t) PROVE KeepsExact(w, w')
  BY <1>0, <1>14, <1>c, EndExact DEF ExitThread
<1>15. ASSUME NEW t \in Thread, Stop(t) \/ Run(t) \/ Cancel(t) PROVE KeepsExact(w, w')
  BY <1>0, <1>15, CancelWaitExact DEF Stop, Run, Cancel
<1>16. ASSUME NEW t \in Thread, Step(t) PROVE KeepsExact(w, w')
  BY <1>0, <1>16, WakeExact DEF Step
<1>17. ASSUME NEW t \in Thread, NEW a \in WaitArgs, WaitOn(t, a) PROVE KeepsExact(w, w')
  <2>1. a \in WaitArg /\ a.times = 1
    BY ThreadAssumption
  <2> QED BY <1>0, <1>17, <2>1, WaitForExact DEF WaitOn
<1>18. ASSUME NEW t \in Thread, \/ \E p \in Priority : SetPriority(t, p)
                                \/ \E m \in StepModes : SetStepMode(t, m)
       PROVE  KeepsExact(w, w')
  BY <1>0, <1>18 DEF SetPriority, SetStepMode
<1>19. ASSUME NEW o \in NotifyTargets, NotifyOne(o) \/ NotifyEvery(o)
       PROVE  KeepsExact(w, w')
  <2>1. o \in Waitable
    BY ThreadAssumption
  <2> QED BY <1>0, <1>19, <2>1, NotifyExact, NotifyAllExact DEF NotifyOne, NotifyEvery
<1>20. ASSUME NEW x \in Trigger, SendTrigger(x) PROVE KeepsExact(w, w')
  <2>1. ToSet(threadList) \in SUBSET Thread
    BY DEF ToSet, TypeOK
  <2> QED BY <1>0, <1>20, <2>1, NotifyTriggerExact DEF SendTrigger
<1> QED
  BY <1>1, <1>2, <1>3, <1>4, <1>5, <1>6, <1>7, <1>8, <1>9, <1>10, <1>11, <1>12,
     <1>13, <1>14, <1>15, <1>16, <1>17, <1>18, <1>19, <1>20
     DEF Next, Host, HandBack, Call

LEMMA ExactListed ==
  ASSUME TypeOK, Exact(w)
  PROVE  NoStaleWaiter
<1> SUFFICES ASSUME NEW o \in Waitable
             PROVE  /\ \A i \in DOMAIN w.waitThreadList[o] :
                         Waits(w, w.waitThreadList[o][i], o)
                    /\ IsInjective(w.waitThreadList[o])
  BY DEF NoStaleWaiter
<1>1. w.waitThreadList[o] \in Seq(Thread)
  BY DEF TypeOK, Registry
<1> QED BY <1>1 DEF Exact, ToSet

LEMMA ExactAlways ==
  ASSUME \A a \in WaitArgs : a.times = 1
  PROVE  Spec => []Exact(w)
<1>1. Init => Exact(w)
  <2>1. \A o \in Waitable : NoWaits.waitThreadList[o] = << >>
    BY DEF NoWaits
  <2>2. ToSet(<< >>) = {} /\ IsInjective(<< >>)
    BY DEF ToSet, IsInjective
  <2> QED BY <2>1, <2>2 DEF Init, Exact
<1>2. TypeOK /\ Exact(w) /\ [Next]_vars => Exact(w)'
  <2> SUFFICES ASSUME TypeOK, Exact(w), [Next]_vars PROVE Exact(w')
    OBVIOUS
  <2>1. CASE UNCHANGED vars
    BY <2>1 DEF vars
  <2>2. CASE Next
    BY <2>2, ExactStep DEF KeepsExact
  <2> QED BY <2>1, <2>2
<1> QED BY <1>1, <1>2, TypeCorrect, PTL DEF Spec

\* An object lists only threads that wait for it, each one once, where scripts
\* name an object once per wait(): no notify() is lost on a thread that has
\* gone on since.
THEOREM NoStaleWaiterAlways ==
  ASSUME \A a \in WaitArgs : a.times = 1
  PROVE  Spec => []NoStaleWaiter
<1>1. Spec => []Exact(w)
  BY ExactAlways
<1> QED BY <1>1, ExactListed, TypeCorrect, PTL

-----------------------------------------------------------------------------
(* What the operations of the registry do to the threads' side.            *)

SameSide(W, N, t) ==
    /\ N.waitSystem[t] = W.waitSystem[t] /\ N.waitList[t] = W.waitList[t]
    /\ N.waitTimeout[t] = W.waitTimeout[t] /\ N.waitResult[t] = W.waitResult[t]

\* From W to N the threads of S give up all waits; nobody else notices.
Sides(W, S, N) ==
    \A t \in Thread : IF t \in S THEN ~ IsWait(N, t) ELSE SameSide(W, N, t)

LEMMA ClearWaitSides ==
  ASSUME NEW W \in Registry, NEW S \in SUBSET Thread
  PROVE  Sides(W, S, ClearWait(W, S))
<1> DEFINE C == ClearWait(W, S)
           sys == [t \in Thread |-> IF t \in S THEN Null ELSE W.waitSystem[t]]
           lst == [t \in Thread |-> IF t \in S THEN {} ELSE W.waitList[t]]
           tmo == [t \in Thread |-> IF t \in S THEN -1 ELSE W.waitTimeout[t]]
           wtl == [o \in Waitable |->
                     Without(W.waitThreadList[o], {t \in S : Waits(W, t, o)})]
<1>1. C = [W EXCEPT !.waitSystem = sys, !.waitList = lst, !.waitTimeout = tmo,
                    !.waitThreadList = wtl]
  BY DEF ClearWait
<1>2. /\ C.waitSystem = sys /\ C.waitList = lst /\ C.waitTimeout = tmo
      /\ C.waitResult = W.waitResult
  <2> HIDE DEF C, sys, lst, tmo, wtl
  <2> QED BY <1>1 DEF Registry
<1>3. Cleared(W, S, C)
  BY ClearWaitFields
<1> HIDE DEF C
<1>4. Sides(W, S, C)
  BY <1>2, <1>3 DEF Sides, SameSide, Cleared
<1> QED BY <1>4 DEF C

\* A release by x: those of S are told by whom, or what exit code x has.
Told(W, S, x, N) ==
    \A t \in S : N.waitResult[t] = IF W.waitSystem[t] = x THEN W.exitCode[x] ELSE x

LEMMA ReleaseSides ==
  ASSUME NEW W \in Registry, NEW S \in SUBSET Thread, NEW x \in Waitable \cup Trigger
  PROVE  Sides(W, S, Release(W, S, x)) /\ Told(W, S, x, Release(W, S, x))
<1> DEFINE res == [t \in Thread |-> IF t \notin S THEN W.waitResult[t]
                                    ELSE IF W.waitSystem[t] = x THEN W.exitCode[x] ELSE x]
           sys == [t \in Thread |->
                     IF t \in S /\ W.waitSystem[t] = x THEN Null ELSE W.waitSystem[t]]
           lst == [t \in Thread |->
                     IF t \in S THEN W.waitList[t] \ {x} ELSE W.waitList[t]]
           V == [W EXCEPT !.waitResult = res, !.waitSystem = sys, !.waitList = lst]
           csys == [t \in Thread |-> IF t \in S THEN Null ELSE sys[t]]
           clst == [t \in Thread |-> IF t \in S THEN {} ELSE lst[t]]
           ctmo == [t \in Thread |-> IF t \in S THEN -1 ELSE W.waitTimeout[t]]
           wtl == [o \in Waitable |->
                     Without(V.waitThreadList[o], {t \in S : Waits(V, t, o)})]
           R == Release(W, S, x)
<1>1. /\ V.waitResult = res /\ V.waitSystem = sys /\ V.waitList = lst
      /\ V.waitTimeout = W.waitTimeout
      /\ V = [waitSystem |-> V.waitSystem, waitList |-> V.waitList,
              waitTimeout |-> V.waitTimeout, waitResult |-> V.waitResult,
              exitCode |-> V.exitCode, waitThreadList |-> V.waitThreadList]
  <2>1. V = [W EXCEPT !.waitResult = res, !.waitSystem = sys, !.waitList = lst]
    OBVIOUS
  <2> HIDE DEF V, res, sys, lst
  <2> QED BY <2>1 DEF Registry
<1>2. R = ClearWait(V, S)
  BY DEF Release
<1>3. ClearWait(V, S) = [V EXCEPT !.waitSystem = csys, !.waitList = clst,
                                  !.waitTimeout = ctmo, !.waitThreadList = wtl]
  <2> HIDE DEF V
  <2> QED BY <1>1 DEF ClearWait
<1>4. /\ R.waitSystem = csys /\ R.waitList = clst /\ R.waitTimeout = ctmo
      /\ R.waitResult = res
  <2> HIDE DEF V, R, csys, clst, ctmo, wtl, res, sys, lst
  <2> QED BY <1>1, <1>2, <1>3
<1> HIDE DEF R, V, wtl
<1>5. Sides(W, S, R)
  <2> SUFFICES ASSUME NEW t \in Thread
               PROVE  IF t \in S THEN ~ IsWait(R, t) ELSE SameSide(W, R, t)
    BY DEF Sides
  <2> QED BY <1>4 DEF SameSide, IsWait
<1>6. Told(W, S, x, R)
  BY <1>4 DEF Told
<1> QED BY <1>5, <1>6 DEF R

LEMMA ReleaseFromSides ==
  ASSUME NEW W \in Registry, NEW S \in SUBSET Thread, NEW o \in Waitable, NEW cut
  PROVE  Sides(W, S, ReleaseFrom(W, S, o, cut)) /\ Told(W, S, o, ReleaseFrom(W, S, o, cut))
<1> DEFINE R == Release(W, S, o)
           N == ReleaseFrom(W, S, o, cut)
           wtl == [R.waitThreadList EXCEPT ![o] = cut]
<1>1. R \in Registry
  BY ReleaseFields DEF Freed
<1>2. Sides(W, S, R) /\ Told(W, S, o, R)
  BY ReleaseSides
<1>3. N = [R EXCEPT !.waitThreadList = wtl]
  BY DEF ReleaseFrom
<1> HIDE DEF N, R, wtl
<1>4. /\ N.waitSystem = R.waitSystem /\ N.waitList = R.waitList
      /\ N.waitTimeout = R.waitTimeout /\ N.waitResult = R.waitResult
  BY <1>1, <1>3 DEF Registry
<1>5. Sides(W, S, N) /\ Told(W, S, o, N)
  BY <1>2, <1>4 DEF Sides, Told, SameSide, IsWait
<1> QED BY <1>5 DEF N

\* notify() frees the first of the list that waits for the object, if any does.
LEMMA NotifyFirst ==
  ASSUME NEW W \in Registry, NEW o \in Waitable
  PROVE  LET list == W.waitThreadList[o]
             hits == {i \in DOMAIN list : Waits(W, list[i], o)}
         IN  /\ hits = {} => Notify(W, o) = W
             /\ hits # {} =>
                  \E i \in hits : /\ list[i] \in Thread
                                  /\ \A j \in hits : i <= j
                                  /\ Sides(W, {list[i]}, Notify(W, o))
                                  /\ Told(W, {list[i]}, o, Notify(W, o))
<1> DEFINE list == W.waitThreadList[o]
           hits == {i \in DOMAIN list : Waits(W, list[i], o)}
           hit  == CHOOSE i \in hits : \A j \in hits : i <= j
<1>1. hits = {} => Notify(W, o) = W
  BY DEF Notify
<1>2. ASSUME hits # {}
      PROVE  \E i \in hits : /\ list[i] \in Thread
                             /\ \A j \in hits : i <= j
                             /\ Sides(W, {list[i]}, Notify(W, o))
                             /\ Told(W, {list[i]}, o, Notify(W, o))
  <2>1. list \in Seq(Thread)
    BY DEF Registry
  <2>2. \E i \in hits : \A j \in hits : i <= j
    <3>1. hits \subseteq Nat
      BY <2>1
    <3> QED BY <1>2, <3>1, SmallestExists
  <2>3. hit \in hits /\ \A j \in hits : hit <= j
    <3> HIDE DEF hits
    <3> QED BY <2>2
  <2>4. Notify(W, o) = ReleaseFrom(W, {list[hit]}, o, RemoveAt(list, hit))
    BY <1>2 DEF Notify
  <2> HIDE DEF hit
  <2>5. list[hit] \in Thread
    BY <2>1, <2>3
  <2>6. Sides(W, {list[hit]}, Notify(W, o)) /\ Told(W, {list[hit]}, o, Notify(W, o))
    <3> DEFINE cut == RemoveAt(list, hit)
    <3>1. {list[hit]} \in SUBSET Thread /\ Notify(W, o) = ReleaseFrom(W, {list[hit]}, o, cut)
      BY <2>4, <2>5
    <3> HIDE DEF cut
    <3> QED BY <3>1, ReleaseFromSides
  <2> QED BY <2>3, <2>5, <2>6
<1> QED BY <1>1, <1>2

LEMMA NotifyAllSides ==
  ASSUME NEW W \in Registry, NEW o \in Waitable
  PROVE  LET S == {t \in ToSet(W.waitThreadList[o]) : Waits(W, t, o)}
         IN  S \in SUBSET Thread /\ Sides(W, S, NotifyAll(W, o)) /\ Told(W, S, o, NotifyAll(W, o))
<1> DEFINE S == {t \in ToSet(W.waitThreadList[o]) : Waits(W, t, o)}
<1>1. S \in SUBSET Thread
  BY ListTypes
<1>2. NotifyAll(W, o) = ReleaseFrom(W, S, o, << >>)
  BY DEF NotifyAll
<1> HIDE DEF S
<1>3. Sides(W, S, NotifyAll(W, o)) /\ Told(W, S, o, NotifyAll(W, o))
  BY <1>1, <1>2, ReleaseFromSides
<1> QED BY <1>1, <1>3 DEF S

LEMMA SidesThen ==
  ASSUME NEW W, NEW S, NEW V, NEW T, NEW N, Sides(W, S, V), Sides(V, T, N)
  PROVE  Sides(W, S \cup T, N)
<1> SUFFICES ASSUME NEW t \in Thread
             PROVE  IF t \in S \cup T THEN ~ IsWait(N, t) ELSE SameSide(W, N, t)
  BY DEF Sides
<1> QED BY DEF Sides, SameSide, IsWait

\* The end of a thread frees those who wait for it, and tells them its code.
LEMMA ExitSides ==
  ASSUME NEW W \in Registry, NEW u \in Thread
  PROVE  \E S \in SUBSET Thread :
            /\ Sides(W, S \cup {u}, Exit(W, u))
            /\ \A t \in S : Waits(W, t, u)
            /\ \A t \in S \ {u} : W.waitSystem[t] = u => Exit(W, u).waitResult[t] = W.exitCode[u]
<1> DEFINE S == {t \in ToSet(W.waitThreadList[u]) : Waits(W, t, u)}
           V == NotifyAll(W, u)
<1>1. u \in Waitable
  BY DEF Waitable
<1>2. S \in SUBSET Thread /\ Sides(W, S, V) /\ Told(W, S, u, V)
  BY <1>1, NotifyAllSides
<1>3. \A t \in S : Waits(W, t, u)
  OBVIOUS
<1>4. V \in Registry
  BY <1>1, NotifyAllKeeps DEF Keeps
<1> HIDE DEF S, V
<1>5. Sides(V, {u}, ClearWait(V, {u}))
  BY <1>4, ClearWaitSides
<1>6. Exit(W, u) = ClearWait(V, {u})
  BY DEF Exit, V
<1>7. Sides(W, S \cup {u}, Exit(W, u))
  BY <1>2, <1>5, <1>6, SidesThen
<1>8. ASSUME NEW t \in S \ {u}, W.waitSystem[t] = u PROVE Exit(W, u).waitResult[t] = W.exitCode[u]
  BY <1>2, <1>5, <1>6, <1>8 DEF Sides, SameSide, Told
<1> QED BY <1>2, <1>3, <1>7, <1>8

-----------------------------------------------------------------------------
(* notify() wakes one thread, and the one that has waited longest.         *)

LEMMA NotifyOneWakes ==
  ASSUME TypeOK, WaitRegistered, NEW o \in Waitable, w' = Notify(w, o)
  PROVE  LET waiting == {t \in Thread : Waits(w, t, o)}
         IN  \/ waiting = {} /\ w' = w
             \/ \E t \in waiting :
                  /\ ~ IsWait(w', t)
                  /\ \A u \in Thread \ {t} :
                       /\ w'.waitSystem[u] = w.waitSystem[u]
                       /\ w'.waitList[u] = w.waitList[u]
                       /\ w'.waitTimeout[u] = w.waitTimeout[u]
<1> DEFINE list == w.waitThreadList[o]
           hits == {i \in DOMAIN list : Waits(w, list[i], o)}
           waiting == {t \in Thread : Waits(w, t, o)}
<1>1. w \in Registry /\ list \in Seq(Thread)
  BY DEF TypeOK, Registry
<1>2. CASE hits = {}
  <2>1. w' = w
    BY <1>1, <1>2, NotifyFirst
  <2>2. ASSUME NEW t \in waiting PROVE FALSE
    <3>1. t \in ToSet(list)
      BY DEF WaitRegistered, Registered
    <3>2. PICK i \in DOMAIN list : list[i] = t
      BY <3>1 DEF ToSet
    <3> QED BY <1>2, <3>2
  <2> QED BY <2>1, <2>2
<1>3. CASE hits # {}
  <2>1. PICK i \in hits : /\ list[i] \in Thread
                          /\ Sides(w, {list[i]}, Notify(w, o))
    BY <1>1, <1>3, NotifyFirst
  <2>2. list[i] \in waiting /\ Sides(w, {list[i]}, w')
    BY <2>1
  <2> HIDE DEF waiting, list
  <2> QED BY <2>1, <2>2 DEF Sides, SameSide, waiting
<1> QED BY <1>2, <1>3

LEMMA NotifyOneOldest ==
  ASSUME TypeOK, WaitRegistered, Exact(w), NEW o \in Waitable, w' = Notify(w, o),
         NEW t \in Thread, NEW u \in Thread, Waits(w, t, o), Waits(w, u, o),
         ~ Waits(w', t, o), Waits(w', u, o)
  PROVE  LastEntry(w.waitThreadList[o], t) < LastEntry(w.waitThreadList[o], u)
<1> DEFINE list == w.waitThreadList[o]
           hits == {i \in DOMAIN list : Waits(w, list[i], o)}
<1>1. w \in Registry /\ list \in Seq(Thread) /\ IsInjective(list) /\ o # Null
  BY WaitAssumption DEF TypeOK, Registry, Exact, Waitable
<1>2. ASSUME NEW x \in Thread, Waits(w, x, o)
      PROVE  LastEntry(list, x) \in hits /\ list[LastEntry(list, x)] = x
  <2>1. x \in ToSet(list)
    BY <1>2 DEF WaitRegistered, Registered
  <2>2. PICK i \in DOMAIN list : list[i] = x
    BY <2>1 DEF ToSet
  <2>3. \A j \in DOMAIN list : list[j] = x => j = i
    BY <1>1, <2>2 DEF IsInjective
  <2>4. i \in Nat
    BY <1>1
  <2>5. \E k \in DOMAIN list : list[k] = x /\ \A j \in DOMAIN list : list[j] = x => j <= k
    BY <2>2, <2>3, <2>4
  <2>6. LastEntry(list, x) \in DOMAIN list /\ list[LastEntry(list, x)] = x
    <3> HIDE DEF list
    <3> QED BY <2>5 DEF LastEntry
  <2> QED BY <1>2, <2>6
<1>3. PICK i \in hits : /\ list[i] \in Thread
                        /\ \A j \in hits : i <= j
                        /\ Sides(w, {list[i]}, w')
  <2>1. hits # {}
    BY <1>2
  <2> QED BY <1>1, <2>1, NotifyFirst
<1>4. list[i] = t
  <2>1. t # list[i] => SameSide(w, w', t)
    BY <1>3 DEF Sides
  <2> QED BY <2>1 DEF SameSide, Waits
<1>5. u # t
  OBVIOUS
<1>6. LastEntry(list, t) = i
  BY <1>1, <1>2, <1>3, <1>4 DEF IsInjective
<1>7. i <= LastEntry(list, u) /\ i # LastEntry(list, u)
  BY <1>2, <1>3, <1>4, <1>5
<1>8. i \in Nat /\ LastEntry(list, u) \in Nat
  <2>1. i \in DOMAIN list /\ LastEntry(list, u) \in DOMAIN list
    BY <1>2, <1>3
  <2> QED BY <1>1, <2>1
<1> QED BY <1>6, <1>7, <1>8

\* notify() of an object for which somebody waits wakes exactly one thread,
\* leaves the waits of all the others alone, and wakes them in the order in
\* which they began to wait, where scripts name an object once per wait().
THEOREM NotifyServesAlways ==
  ASSUME \A a \in WaitArgs : a.times = 1
  PROVE  Spec => NotifyServes
<1> DEFINE One == \A o \in NotifyTargets :
             LET waiting == {t \in Thread : Waits(w, t, o)}
             IN  NotifyOne(o) =>
                   \/ waiting = {} /\ w' = w
                   \/ \E t \in waiting :
                        /\ ~ IsWait(w', t)
                        /\ \A u \in Thread \ {t} :
                             /\ w'.waitSystem[u] = w.waitSystem[u]
                             /\ w'.waitList[u] = w.waitList[u]
                             /\ w'.waitTimeout[u] = w.waitTimeout[u]
           Oldest == \A o \in NotifyTargets :
             LET list == w.waitThreadList[o]
                 waiting == {t \in Thread : Waits(w, t, o)}
             IN  NotifyOne(o) =>
                   \A t, u \in waiting :
                      ~ Waits(w', t, o) /\ Waits(w', u, o)
                         => LastEntry(list, t) < LastEntry(list, u)
<1>1. TypeOK /\ WaitRegistered => One
  BY NotifyOneWakes, ThreadAssumption DEF NotifyOne
<1>2. TypeOK /\ WaitRegistered /\ Exact(w) => Oldest
  BY NotifyOneOldest, ThreadAssumption DEF NotifyOne
<1>3. TypeOK /\ WaitRegistered /\ Exact(w) => [One]_vars /\ [Oldest]_vars
  <2> HIDE DEF One, Oldest
  <2> QED BY <1>1, <1>2
<1>4. Spec => []Exact(w)
  BY ExactAlways
<1> QED BY <1>3, <1>4, TypeCorrect, WaitRegisteredAlways, PTL
     DEF NotifyServes, NotifyWakesOne, NotifyWakesOldest

-----------------------------------------------------------------------------
(* system() returns when its script ends, with that script's code.         *)

\* Who waits for a script it called by system() waits for nothing else: only
\* the end of that script can release it.
Alone(W) ==
    \A t \in Thread :
        W.waitSystem[t] # Null => W.waitList[t] = {} /\ W.waitTimeout[t] < 0

\* From W to N nobody leaves the wait of a system() call.
Quiet(W, N) ==
    /\ Alone(N)
    /\ \A t \in Thread : W.waitSystem[t] # Null => N.waitSystem[t] = W.waitSystem[t]

\* From W to N only the waits of u change.
OthersSame(W, u, N) == \A t \in Thread \ {u} : SameSide(W, N, t)

\* What SystemReturnsCode says of t.
Returns(t) ==
    LET c == w.waitSystem[t]
    IN  c # Null /\ w'.waitSystem[t] # c =>
          \/ /\ status'[c] = "NONE"
             /\ w'.waitResult[t] = w'.exitCode[c]
             /\ phase = "main" => w'.exitCode[c] # "suspended"
          \/ w'.waitResult[t] = Null \/ IsWait(w', t)
          \/ status'[t] \in {"NONE", "LOADING_FILE", "LOADING_FUNC"}

ReturnStep == Alone(w') /\ \A t \in Thread : Returns(t)

LEMMA QuietStep ==
  ASSUME Quiet(w, w')
  PROVE  ReturnStep
BY DEF Quiet, ReturnStep, Returns

LEMMA QuietThen ==
  ASSUME NEW W, NEW V, NEW N, Quiet(W, V), Quiet(V, N)
  PROVE  Quiet(W, N)
BY DEF Quiet

LEMMA QuietFields ==
  ASSUME NEW W, NEW N, Alone(W), N.waitSystem = W.waitSystem,
         N.waitList = W.waitList, N.waitTimeout = W.waitTimeout
  PROVE  Quiet(W, N)
BY DEF Quiet, Alone

LEMMA QuietSides ==
  ASSUME NEW W, NEW S, NEW N, Alone(W), Sides(W, S, N),
         \A t \in Thread : t \in S => W.waitSystem[t] = Null
  PROVE  Quiet(W, N)
BY DEF Quiet, Alone, Sides, SameSide, IsWait

\* Whoever gives up or replaces its own wait knows about it.
LEMMA OwnStep ==
  ASSUME Alone(w), NEW u \in Thread, OthersSame(w, u, w'),
         w'.waitSystem[u] # Null => w'.waitList[u] = {} /\ w'.waitTimeout[u] < 0,
         \/ w'.waitResult[u] = Null \/ IsWait(w', u)
         \/ status'[u] \in {"NONE", "LOADING_FILE", "LOADING_FUNC"}
  PROVE  ReturnStep
<1>1. Alone(w')
  BY DEF Alone, OthersSame, SameSide
<1>2. ASSUME NEW t \in Thread PROVE Returns(t)
  <2>1. CASE t = u
    BY <2>1 DEF Returns
  <2>2. CASE t # u
    BY <2>2 DEF Returns, OthersSame, SameSide
  <2> QED BY <2>1, <2>2
<1> QED BY <1>1, <1>2 DEF ReturnStep

\* The end of u, whose code V already holds, returns to those who called it.
LEMMA EndReturns ==
  ASSUME TypeOK, Alone(w), NEW u \in Thread, NEW V \in Registry,
         V.waitSystem = w.waitSystem, V.waitList = w.waitList,
         V.waitTimeout = w.waitTimeout,
         phase = "main" => V.exitCode[u] # "suspended",
         w' = Exit(V, u), status' = [status EXCEPT ![u] = "NONE"]
  PROVE  ReturnStep
<1>1. PICK S \in SUBSET Thread :
         /\ Sides(V, S \cup {u}, w')
         /\ \A t \in S : Waits(V, t, u)
         /\ \A t \in S \ {u} : V.waitSystem[t] = u => w'.waitResult[t] = V.exitCode[u]
  BY ExitSides
<1>2. w'.exitCode = V.exitCode
  BY ExitKeeps
<1>3. status'[u] = "NONE"
  BY DEF TypeOK
<1>4. Alone(V)
  BY DEF Alone
<1>5. Alone(w')
  BY <1>1, <1>4 DEF Alone, Sides, SameSide, IsWait
<1>6. ASSUME NEW t \in Thread PROVE Returns(t)
  <2>1. CASE t \notin S \cup {u}
    BY <1>1, <2>1 DEF Returns, Sides, SameSide
  <2>2. CASE t = u
    BY <1>3, <2>2 DEF Returns
  <2>3. CASE t \in S \ {u} /\ w.waitSystem[t] # Null
    <3>1. w.waitSystem[t] = u
      BY <1>1, <1>4, <2>3 DEF Waits, Alone
    <3>2. w'.waitResult[t] = w'.exitCode[u]
      BY <1>1, <1>2, <2>3, <3>1
    <3>3. phase = "main" => w'.exitCode[u] # "suspended"
      BY <1>2
    <3> QED BY <1>3, <3>1, <3>2, <3>3 DEF Returns
  <2>4. CASE w.waitSystem[t] = Null
    BY <2>4 DEF Returns
  <2> QED BY <2>1, <2>2, <2>3, <2>4
<1> QED BY <1>5, <1>6 DEF ReturnStep

LEMMA EndWithReturns ==
  ASSUME TypeOK, Alone(w), NEW u \in Thread, NEW c \in {"value", "error"},
         w' = Exit([w EXCEPT !.exitCode[u] = c], u),
         status' = [status EXCEPT ![u] = "NONE"]
  PROVE  ReturnStep
<1> DEFINE V == [w EXCEPT !.exitCode[u] = c]
           codes == [w.exitCode EXCEPT ![u] = c]
<1>1. w \in Registry /\ c \in Code
  BY DEF TypeOK, Code
<1>2. V \in Registry
  BY <1>1, SetExitCode DEF Keeps
<1>3. codes[u] = c
  BY <1>1 DEF Registry
<1>4. V = [w EXCEPT !.exitCode = codes]
  OBVIOUS
<1>5. w' = Exit(V, u)
  OBVIOUS
<1> HIDE DEF V, codes
<1>6. /\ V.waitSystem = w.waitSystem /\ V.waitList = w.waitList
      /\ V.waitTimeout = w.waitTimeout /\ V.exitCode = codes
  BY <1>1, <1>4 DEF Registry
<1>7. V.exitCode[u] # "suspended"
  BY <1>3, <1>6
<1> QED BY <1>2, <1>5, <1>6, <1>7, EndReturns

LEMMA SuspendCodeFields ==
  ASSUME NEW W \in Registry, NEW n
  PROVE  LET V == SuspendCode(W, n)
         IN  /\ V.waitSystem = W.waitSystem /\ V.waitList = W.waitList
             /\ V.waitTimeout = W.waitTimeout /\ V.waitResult = W.waitResult
BY DEF SuspendCode, Registry

LEMMA CancelWaitSides ==
  ASSUME NEW W \in Registry, NEW t \in Thread
  PROVE  LET N == CancelWait(W, t)
         IN  N \in Registry /\ OthersSame(W, t, N) /\ ~ IsWait(N, t) /\ N.waitResult[t] = Null
<1> DEFINE C == ClearWait(W, {t})
           res == [C.waitResult EXCEPT ![t] = Null]
           N == CancelWait(W, t)
<1>1. N = [C EXCEPT !.waitResult = res]
  BY DEF CancelWait
<1>2. C \in Registry
  BY ClearWaitFields DEF Cleared
<1>3. Sides(W, {t}, C)
  BY ClearWaitSides
<1>4. N \in Registry /\ ~ IsWait(N, t)
  BY CancelWaitKeeps DEF Keeps
<1> HIDE DEF C
<1>5. res[t] = Null /\ \A u \in Thread \ {t} : res[u] = C.waitResult[u]
  BY <1>2 DEF Registry
<1> HIDE DEF N, res
<1>6. /\ N.waitSystem = C.waitSystem /\ N.waitList = C.waitList
      /\ N.waitTimeout = C.waitTimeout /\ N.waitResult = res
  BY <1>1, <1>2 DEF Registry
<1>7. OthersSame(W, t, N)
  BY <1>3, <1>5, <1>6 DEF OthersSame, Sides, SameSide
<1> QED BY <1>4, <1>5, <1>6, <1>7 DEF N

LEMMA WaitForSides ==
  ASSUME NEW W \in Registry, NEW t \in Thread, NEW a \in WaitArg
  PROVE  LET N == WaitFor(W, t, a)
         IN  /\ N \in Registry /\ OthersSame(W, t, N)
             /\ N.waitSystem[t] = Null /\ N.waitTimeout[t] = a.timeout
             /\ N.waitList[t] = a.objects \cup a.triggers
             /\ N.waitResult[t] = Null \/ IsWait(N, t)
<1> DEFINE C == ClearWait(W, {t})
           res == [C.waitResult EXCEPT ![t] = IF a.timeout >= 0 THEN "tick" ELSE Null]
           tmo == [C.waitTimeout EXCEPT ![t] = a.timeout]
           lst == [C.waitList EXCEPT ![t] = a.objects \cup a.triggers]
           more == [i \in 1 .. a.times |-> t]
           wtl == [o \in Waitable |-> IF o \in a.objects THEN C.waitThreadList[o] \o more
                                      ELSE C.waitThreadList[o]]
           N == WaitFor(W, t, a)
<1>1. N = [C EXCEPT !.waitResult = res, !.waitTimeout = tmo, !.waitList = lst,
                    !.waitThreadList = wtl]
  BY DEF WaitFor
<1>2. C \in Registry /\ C.waitSystem[t] = Null
  BY ClearWaitFields DEF Cleared
<1>3. Sides(W, {t}, C)
  BY ClearWaitSides
<1>4. N \in Registry
  BY WaitForKeeps DEF Waiting
<1> HIDE DEF C
<1>5. /\ res[t] = (IF a.timeout >= 0 THEN "tick" ELSE Null) /\ tmo[t] = a.timeout
      /\ lst[t] = a.objects \cup a.triggers
      /\ \A u \in Thread \ {t} : /\ res[u] = C.waitResult[u] /\ tmo[u] = C.waitTimeout[u]
                                 /\ lst[u] = C.waitList[u]
  BY <1>2 DEF Registry
<1> HIDE DEF N, res, tmo, lst, wtl
<1>6. /\ N.waitSystem = C.waitSystem /\ N.waitList = lst
      /\ N.waitTimeout = tmo /\ N.waitResult = res
  BY <1>1, <1>2 DEF Registry
<1>7. OthersSame(W, t, N)
  BY <1>3, <1>5, <1>6 DEF OthersSame, Sides, SameSide
<1>8. N.waitResult[t] = Null \/ IsWait(N, t)
  BY <1>5, <1>6 DEF IsWait
<1> QED BY <1>2, <1>4, <1>5, <1>6, <1>7, <1>8 DEF N

LEMMA WaitSystemSides ==
  ASSUME NEW W \in Registry, NEW t \in Thread, NEW c \in Thread
  PROVE  LET N == WaitSystem(W, t, c)
         IN  /\ N \in Registry /\ OthersSame(W, t, N)
             /\ N.waitSystem[t] = c /\ N.waitList[t] = {} /\ N.waitTimeout[t] < 0
<1> DEFINE C == ClearWait(W, {t})
           res == [C.waitResult EXCEPT ![t] = Null]
           sys == [C.waitSystem EXCEPT ![t] = c]
           wtl == [C.waitThreadList EXCEPT ![c] = Append(C.waitThreadList[c], t)]
           N == WaitSystem(W, t, c)
<1>1. N = [C EXCEPT !.waitResult = res, !.waitSystem = sys, !.waitThreadList = wtl]
  BY DEF WaitSystem
<1>2. C \in Registry
  BY ClearWaitFields DEF Cleared
<1>3. Sides(W, {t}, C) /\ ~ IsWait(C, t)
  BY ClearWaitSides DEF Sides
<1>4. N \in Registry
  BY WaitSystemKeeps DEF Waiting
<1> HIDE DEF C
<1>5. /\ sys[t] = c
      /\ \A u \in Thread \ {t} : res[u] = C.waitResult[u] /\ sys[u] = C.waitSystem[u]
  BY <1>2 DEF Registry
<1>6. C.waitList[t] = {} /\ C.waitTimeout[t] < 0
  <2>1. C.waitTimeout[t] \in Int
    BY <1>2, WaitAssumption DEF Registry
  <2> QED BY <1>3, <2>1 DEF IsWait
<1> HIDE DEF N, res, sys, wtl
<1>7. /\ N.waitSystem = sys /\ N.waitList = C.waitList
      /\ N.waitTimeout = C.waitTimeout /\ N.waitResult = res
  BY <1>1, <1>2 DEF Registry
<1>8. OthersSame(W, t, N)
  BY <1>3, <1>5, <1>7 DEF OthersSame, Sides, SameSide
<1> QED BY <1>4, <1>5, <1>6, <1>7, <1>8 DEF N

LEMMA ElapseQuiet ==
  ASSUME NEW W \in Registry, TypeOK, Alone(W), NEW t \in Thread
  PROVE  Quiet(W, Elapse(W, t)) /\ Elapse(W, t) \in Registry
<1>0. Elapse(W, t) \in Registry
  BY ElapseKeeps DEF Keeps
<1>1. CASE W.waitTimeout[t] < 0
  BY <1>1, QuietFields DEF Elapse
<1>2. CASE ~ (W.waitTimeout[t] < 0) /\ W.waitTimeout[t] < diffTick
  <2>1. Elapse(W, t) = ClearWait(W, {t})
    BY <1>2 DEF Elapse
  <2>2. Sides(W, {t}, Elapse(W, t))
    BY <2>1, ClearWaitSides
  <2>3. W.waitSystem[t] = Null
    BY <1>2 DEF Alone
  <2> QED BY <1>0, <2>2, <2>3, QuietSides
<1>3. CASE ~ (W.waitTimeout[t] < 0) /\ ~ (W.waitTimeout[t] < diffTick)
  <2> DEFINE N == Elapse(W, t)  tmo == [W.waitTimeout EXCEPT ![t] = @ - diffTick]
  <2>1. N = [W EXCEPT !.waitTimeout = tmo]
    BY <1>3 DEF Elapse
  <2>2. \A u \in Thread \ {t} : tmo[u] = W.waitTimeout[u]
    BY DEF Registry
  <2>3. W.waitSystem[t] = Null
    BY <1>3 DEF Alone
  <2> HIDE DEF N, tmo
  <2>4. N.waitSystem = W.waitSystem /\ N.waitList = W.waitList /\ N.waitTimeout = tmo
    BY <2>1 DEF Registry
  <2>5. Quiet(W, N)
    BY <2>2, <2>3, <2>4 DEF Quiet, Alone
  <2> QED BY <1>0, <2>5 DEF N
<1> QED BY <1>0, <1>1, <1>2, <1>3

LEMMA WakeQuiet ==
  ASSUME NEW W \in Registry, Alone(W), NEW t \in Thread, Wake(W, t)
  PROVE  Quiet(W, w')
<1>1. /\ w'.waitSystem = W.waitSystem /\ w'.waitList = W.waitList
      /\ w'.waitTimeout = W.waitTimeout
  BY DEF Wake, Registry
<1> QED BY <1>1, QuietFields

LEMMA NotifyQuiet ==
  ASSUME NEW W \in Registry, Alone(W), NEW o \in Object
  PROVE  Quiet(W, Notify(W, o)) /\ Quiet(W, NotifyAll(W, o))
<1> DEFINE list == W.waitThreadList[o]
           hits == {i \in DOMAIN list : Waits(W, list[i], o)}
           S == {t \in ToSet(list) : Waits(W, t, o)}
<1>1. o \in Waitable
  BY DEF Waitable
<1>2. ASSUME NEW t \in Thread, Waits(W, t, o) PROVE W.waitSystem[t] = Null
  <2>1. o \notin Thread /\ o # Null /\ W.waitSystem[t] \in Thread \cup {Null}
    BY WaitAssumption DEF Registry
  <2>2. o \in W.waitList[t]
    BY <1>2, <2>1 DEF Waits
  <2> QED BY <2>2 DEF Alone
<1>3. Quiet(W, Notify(W, o))
  <2>1. CASE hits = {}
    <3>1. Notify(W, o) = W
      BY <1>1, <2>1, NotifyFirst
    <3> QED BY <3>1 DEF Quiet
  <2>2. CASE hits # {}
    <3>1. PICK i \in hits : list[i] \in Thread /\ Sides(W, {list[i]}, Notify(W, o))
      BY <1>1, <2>2, NotifyFirst
    <3>2. W.waitSystem[list[i]] = Null
      BY <1>2, <3>1
    <3> HIDE DEF list
    <3> QED BY <3>1, <3>2, QuietSides
  <2> QED BY <2>1, <2>2
<1>4. Quiet(W, NotifyAll(W, o))
  <2>1. Sides(W, S, NotifyAll(W, o))
    BY <1>1, NotifyAllSides
  <2>2. \A t \in Thread : t \in S => W.waitSystem[t] = Null
    BY <1>2
  <2> HIDE DEF S
  <2> QED BY <2>1, <2>2, QuietSides
<1> QED BY <1>3, <1>4

LEMMA NotifyTriggerQuiet ==
  ASSUME NEW W \in Registry, Alone(W), NEW L \in SUBSET Thread, NEW x \in Trigger
  PROVE  Quiet(W, NotifyTrigger(W, L, x))
<1> DEFINE S == {t \in L : x \in W.waitList[t]}
<1>1. NotifyTrigger(W, L, x) = Release(W, S, x)
  BY DEF NotifyTrigger
<1>2. S \in SUBSET Thread /\ x \in Waitable \cup Trigger
  OBVIOUS
<1>3. \A t \in Thread : t \in S => W.waitSystem[t] = Null
  BY DEF Alone
<1> HIDE DEF S
<1>4. Sides(W, S, Release(W, S, x))
  BY <1>2, ReleaseSides
<1> QED BY <1>1, <1>3, <1>4, QuietSides

LEMMA ReturnNext ==
  ASSUME TypeOK, Alone(w), NotifyTargets \subseteq Object, Next
  PROVE  ReturnStep
<1>0. w \in Registry /\ (w' = w => ReturnStep)
  BY QuietFields, QuietStep DEF TypeOK
<1>a. stack # << >> => Last(stack) \in Thread
  BY DEF TypeOK, Last
<1>b. all # << >> => Head(all) \in Thread
  BY DEF TypeOK
<1>1. ASSUME NEW d \in Diff, Update(d) PROVE ReturnStep
  BY <1>0, <1>1 DEF Update
<1>2. CASE BeginMain \/ SkipEnded \/ AwaitFile \/ EndMain \/ EndDone \/ Done
  BY <1>0, <1>2 DEF BeginMain, SkipEnded, AwaitFile, EndMain, EndDone, Done
<1>3. CASE FailFile
  BY <1>3, <1>b, EndWithReturns DEF FailFile
<1>4. CASE Turn
  <2> DEFINE t == Head(all)  now == Elapse(w, t)
  <2>1. t \in Thread
    BY <1>4, <1>b DEF Turn
  <2>2. Quiet(w, now) /\ now \in Registry
    BY <1>0, <2>1, ElapseQuiet
  <2>3. Wake(now, t) \/ w' = now
    BY <1>4 DEF Turn
  <2> HIDE DEF now, t
  <2>4. Quiet(w, w')
    <3>1. CASE w' = now
      BY <2>2, <3>1
    <3>2. CASE Wake(now, t)
      BY <2>1, <2>2, <3>2, WakeQuiet, QuietThen DEF Quiet
    <3> QED BY <2>3, <3>1, <3>2
  <2> QED BY <2>4, QuietStep
<1>5. CASE DoneThread
  <2>1. Head(all) \in Thread /\ phase # "main"
    BY <1>5, <1>b DEF DoneThread
  <2> QED BY <1>0, <1>5, <2>1, EndReturns DEF DoneThread
<1>6. CASE Return
  BY <1>6, <1>a, EndWithReturns DEF Return
<1>7. CASE Fail
  BY <1>7, <1>a, EndWithReturns DEF Fail
<1>8. CASE Suspend
  BY <1>0, <1>8, SuspendCodeFields, QuietFields, QuietStep DEF Suspend
<1>9. ASSUME NEW a \in WaitArgs, NEW n \in Nested, SelfWait(a, n) PROVE ReturnStep
  <2> DEFINE t == Last(stack)  N == WaitFor(w, t, a)
  <2>1. t \in Thread /\ a \in WaitArg
    BY <1>9, <1>a, ThreadAssumption DEF SelfWait
  <2>2. /\ N \in Registry /\ OthersSame(w, t, N) /\ N.waitSystem[t] = Null
        /\ N.waitResult[t] = Null \/ IsWait(N, t)
    BY <1>0, <2>1, WaitForSides
  <2>3. w' = SuspendCode(N, n)
    BY <1>9 DEF SelfWait
  <2> HIDE DEF N, t
  <2>4. /\ w'.waitSystem = N.waitSystem /\ w'.waitList = N.waitList
        /\ w'.waitTimeout = N.waitTimeout /\ w'.waitResult = N.waitResult
    BY <2>2, <2>3, SuspendCodeFields
  <2>5. OthersSame(w, t, w') /\ (w'.waitResult[t] = Null \/ IsWait(w', t))
    BY <2>2, <2>4 DEF OthersSame, SameSide, IsWait
  <2> QED BY <2>1, <2>2, <2>4, <2>5, OwnStep
<1>10. ASSUME NEW n \in Nested, SelfExit(n) PROVE ReturnStep
  BY <1>10, <1>a, EndWithReturns DEF SelfExit
<1>11. ASSUME NEW n \in Nested, SystemNothing(n) PROVE ReturnStep
  <2> DEFINE t == Last(stack)  N == CancelWait(w, t)
  <2>1. t \in Thread
    BY <1>11, <1>a DEF SystemNothing
  <2>2. N \in Registry /\ OthersSame(w, t, N) /\ ~ IsWait(N, t) /\ N.waitResult[t] = Null
    BY <1>0, <2>1, CancelWaitSides
  <2>3. w' = SuspendCode(N, n)
    BY <1>11 DEF SystemNothing
  <2> HIDE DEF N, t
  <2>4. /\ w'.waitSystem = N.waitSystem /\ w'.waitList = N.waitList
        /\ w'.waitTimeout = N.waitTimeout /\ w'.waitResult = N.waitResult
    BY <2>2, <2>3, SuspendCodeFields
  <2>5. OthersSame(w, t, w') /\ w'.waitSystem[t] = Null /\ w'.waitResult[t] = Null
    BY <2>2, <2>4 DEF OthersSame, SameSide, IsWait
  <2> QED BY <2>1, <2>5, OwnStep
<1>12. ASSUME NEW c \in Thread, NEW l \in Load, NEW n \in Nested, System(c, l, n)
       PROVE  ReturnStep
  <2> DEFINE t == Last(stack)  N == WaitSystem(w, t, c)
  <2>1. t \in Thread
    BY <1>12, <1>a DEF System
  <2>2. /\ N \in Registry /\ OthersSame(w, t, N)
        /\ N.waitSystem[t] = c /\ N.waitList[t] = {} /\ N.waitTimeout[t] < 0
    BY <1>0, <2>1, WaitSystemSides
  <2>3. w' = SuspendCode(N, n)
    BY <1>12 DEF System
  <2> HIDE DEF N, t
  <2>4. /\ w'.waitSystem = N.waitSystem /\ w'.waitList = N.waitList
        /\ w'.waitTimeout = N.waitTimeout /\ w'.waitResult = N.waitResult
    BY <2>2, <2>3, SuspendCodeFields
  <2>5. OthersSame(w, t, w') /\ IsWait(w', t)
    <3>1. c # Null
      BY WaitAssumption
    <3> QED BY <2>2, <2>4, <3>1 DEF OthersSame, SameSide, IsWait
  <2> QED BY <2>1, <2>2, <2>4, <2>5, OwnStep
<1>13. ASSUME NEW c \in Thread, NEW l \in Load, Fork(c, l) PROVE ReturnStep
  BY <1>0, <1>13 DEF Fork
<1>14. ASSUME NEW t \in Thread, NEW l \in Load, Exec(t, l) PROVE ReturnStep
  <2>1. w' = ClearWait(w, {t}) /\ status' = [status EXCEPT ![t] = LoadStatus[l]] /\ l # "none"
    BY <1>14 DEF Exec
  <2>2. status'[t] \in {"LOADING_FILE", "LOADING_FUNC"}
    BY <2>1, ThreadAssumption DEF LoadStatus, TypeOK
  <2>3. Sides(w, {t}, w')
    BY <1>0, <2>1, ClearWaitSides
  <2>4. OthersSame(w, t, w') /\ w'.waitSystem[t] = Null
    BY <2>3 DEF OthersSame, Sides, IsWait
  <2> QED BY <2>2, <2>4, OwnStep
<1>15. ASSUME NEW t \in Thread, ExitThread(t) PROVE ReturnStep
  BY <1>15, EndWithReturns DEF ExitThread
<1>16. ASSUME NEW t \in Thread, Cancel(t) PROVE ReturnStep
  <2>1. w' = CancelWait(w, t)
    BY <1>16 DEF Cancel
  <2>2. OthersSame(w, t, w') /\ ~ IsWait(w', t) /\ w'.waitResult[t] = Null
    BY <1>0, <2>1, CancelWaitSides
  <2>3. w'.waitSystem[t] = Null
    BY <2>2 DEF IsWait
  <2> QED BY <2>2, <2>3, OwnStep
<1>17. ASSUME NEW t \in Thread, Step(t) PROVE ReturnStep
  BY <1>0, <1>17, WakeQuiet, QuietStep DEF Step
<1>18. ASSUME NEW t \in Thread, NEW a \in WaitArgs, WaitOn(t, a) PROVE ReturnStep
  <2>1. a \in WaitArg /\ w' = WaitFor(w, t, a)
    BY <1>18, ThreadAssumption DEF WaitOn
  <2>2. /\ OthersSame(w, t, w') /\ w'.waitSystem[t] = Null
        /\ w'.waitResult[t] = Null \/ IsWait(w', t)
    BY <1>0, <2>1, WaitForSides
  <2> QED BY <2>2, OwnStep
<1>19. ASSUME NEW t \in Thread, \/ Stop(t) \/ Run(t)
                                \/ \E p \in Priority : SetPriority(t, p)
                                \/ \E m \in StepModes : SetStepMode(t, m)
       PROVE  ReturnStep
  BY <1>0, <1>19 DEF Stop, Run, SetPriority, SetStepMode
<1>20. ASSUME NEW o \in NotifyTargets, NotifyOne(o) \/ NotifyEvery(o)
       PROVE  ReturnStep
  BY <1>0, <1>20, NotifyQuiet, QuietStep DEF NotifyOne, NotifyEvery
<1>21. ASSUME NEW x \in Trigger, SendTrigger(x) PROVE ReturnStep
  <2>1. ToSet(threadList) \in SUBSET Thread
    BY DEF ToSet, TypeOK
  <2> QED BY <1>0, <1>21, <2>1, NotifyTriggerQuiet, QuietStep DEF SendTrigger
<1> QED
  BY <1>1, <1>2, <1>3, <1>4, <1>5, <1>6, <1>7, <1>8, <1>9, <1>10, <1>11, <1>12,
     <1>13, <1>14, <1>15, <1>16, <1>17, <1>18, <1>19, <1>20, <1>21
     DEF Next, Host, HandBack, Call

\* A system() call returns because the script it started has ended, with the
\* exit code of that script, unless the caller's wait is cancelled or replaced
\* or the caller is restarted or ended, where scripts call notify() on objects
\* that are no threads.
THEOREM SystemReturnsCodeAlways ==
  ASSUME NotifyTargets \subseteq Object
  PROVE  Spec => SystemReturnsCode
<1> DEFINE EachReturns == \A t \in Thread :
             LET c == w.waitSystem[t]
             IN  c # Null /\ w'.waitSystem[t] # c =>
                   \/ /\ status'[c] = "NONE"
                      /\ w'.waitResult[t] = w'.exitCode[c]
                      /\ phase = "main" => w'.exitCode[c] # "suspended"
                   \/ w'.waitResult[t] = Null \/ IsWait(w', t)
                   \/ status'[t] \in {"NONE", "LOADING_FILE", "LOADING_FUNC"}
<1>1. Init => Alone(w)
  BY DEF Init, NoWaits, Alone
<1>2. TypeOK /\ Alone(w) /\ [Next]_vars => Alone(w)'
  <2> SUFFICES ASSUME TypeOK, Alone(w), [Next]_vars PROVE Alone(w')
    OBVIOUS
  <2>1. CASE UNCHANGED vars
    BY <2>1 DEF vars
  <2>2. CASE Next
    BY <2>2, ReturnNext DEF ReturnStep
  <2> QED BY <2>1, <2>2
<1>3. TypeOK /\ Alone(w) /\ [Next]_vars => [EachReturns]_vars
  <2> SUFFICES ASSUME TypeOK, Alone(w), Next PROVE EachReturns
    OBVIOUS
  <2> QED BY ReturnNext DEF ReturnStep, Returns
<1> QED BY <1>1, <1>2, <1>3, TypeCorrect, PTL DEF Spec, SystemReturnsCode

-----------------------------------------------------------------------------
(* A timed wait is not ended early.                                        *)

\* Where only the host loop starts scripts: they run in Thread::main, and the
\* threads it has still to visit are not running.
Round ==
    /\ \A t \in Thread : ~ stepMode[t]
    /\ stack # << >> => phase = "main"
    /\ ToSet(stack) \cap ToSet(all) = {}
    /\ phase = "main" => IsInjective(all)

\* Thread::main has yet to charge the elapsed time to the wait of t.
Pending(t) == phase = "updated" \/ (phase = "main" /\ t \in ToSet(all))

\* What is owed of a wait is never more than its timeout, and while the
\* elapsed time is not yet charged, less by that time.
OwedSound ==
    /\ owed \in [Thread -> Nat]
    /\ \A t \in Thread : w.waitTimeout[t] >= 0 =>
         /\ owed[t] <= w.waitTimeout[t]
         /\ Pending(t) => owed[t] = 0 \/ owed[t] + diffTick <= w.waitTimeout[t]

\* What a step may do to the timeout of t: nothing, end it, charge the elapsed
\* time to it, or set it, when the script of t is running.
TimeoutStep(t) ==
    \/ w'.waitTimeout[t] = w.waitTimeout[t]
    \/ w'.waitTimeout[t] < 0
    \/ t \in ToSet(stack) /\ all' = all /\ phase' = phase
    \/ /\ phase = "main" /\ phase' = phase
       /\ all # << >> /\ t = Head(all) /\ all' = Tail(all)
       /\ w.waitTimeout[t] >= diffTick
       /\ w'.waitTimeout[t] = w.waitTimeout[t] - diffTick

\* A thread the host loop visits keeps a wait that is not over.
VisitStep ==
    phase = "main" /\ all # << >> /\ all' = Tail(all) =>
        LET t == Head(all)
        IN  w.waitTimeout[t] >= 0 /\ w'.waitTimeout[t] < 0 /\ status'[t] # "NONE"
              => w.waitTimeout[t] < diffTick

TimeStep == (\A t \in Thread : TimeoutStep(t)) /\ VisitStep

LEMMA TailInjective ==
  ASSUME NEW X, NEW s \in Seq(X), s # << >>, IsInjective(s)
  PROVE  IsInjective(Tail(s)) /\ Head(s) \notin ToSet(Tail(s)) /\ Tail(s) # s
<1>1. Len(s) \in Nat \ {0} /\ DOMAIN s = 1 .. Len(s) /\ Head(s) = s[1]
  OBVIOUS
<1>2. Len(Tail(s)) = Len(s) - 1 /\ DOMAIN Tail(s) = 1 .. (Len(s) - 1)
  OBVIOUS
<1>3. \A i \in DOMAIN Tail(s) : Tail(s)[i] = s[i + 1] /\ i + 1 \in DOMAIN s
  BY <1>1, <1>2
<1>4. IsInjective(Tail(s))
  BY <1>1, <1>2, <1>3 DEF IsInjective
<1>5. \A i \in DOMAIN Tail(s) : Tail(s)[i] # Head(s)
  BY <1>1, <1>2, <1>3 DEF IsInjective
<1>6. Tail(s) # s
  <2> DEFINE r == Tail(s)  n == Len(s)  h == Head(s)
  <2>1. /\ n \in Nat \ {0} /\ DOMAIN s = 1 .. n /\ h = s[1]
        /\ \A i \in DOMAIN r : r[i] # h
    BY <1>1, <1>5
  <2> HIDE DEF r, n, h
  <2>2. r # s
    BY <2>1
  <2> QED BY <2>2 DEF r
<1> QED BY <1>4, <1>5, <1>6 DEF ToSet

LEMMA ByPriorityInjective ==
  ASSUME TypeOK, NEW S \in SUBSET ToSet(threadList), NEW q \in ByPriority(S)
  PROVE  IsInjective(q)
<1>1. S \in SUBSET Thread
  BY DEF TypeOK, ToSet
<1>2. q \in Seq(Thread)
  BY <1>1, ByPriorityType
<1>3. q \in [1 .. Cardinality(S) -> S] /\ \A i, j \in DOMAIN q : i < j => Before(q[i], q[j])
  BY DEF ByPriority
<1>4. ASSUME NEW t \in S PROVE ~ Before(t, t)
  <2>1. PICK i \in DOMAIN threadList : threadList[i] = t
    BY DEF ToSet
  <2>2. Position(t) \in DOMAIN threadList
    BY <2>1 DEF Position
  <2>3. Position(t) \in Int /\ priority[t] \in Int
    <3>1. threadList \in Seq(Thread) /\ priority[t] \in Priority
      BY <1>1 DEF TypeOK
    <3>2. DOMAIN threadList \subseteq Int
      BY <3>1
    <3> QED BY <2>2, <3>1, <3>2, ThreadAssumption
  <2> QED BY <2>3 DEF Before
<1>5. ASSUME NEW i \in DOMAIN q, NEW j \in DOMAIN q, q[i] = q[j], i # j PROVE FALSE
  <2>1. i \in Nat /\ j \in Nat /\ q[i] \in S
    BY <1>2, <1>3
  <2>2. CASE i < j
    BY <1>3, <1>4, <1>5, <2>1, <2>2
  <2>3. CASE j < i
    BY <1>3, <1>4, <1>5, <2>1, <2>3
  <2> QED BY <1>5, <2>1, <2>2, <2>3
<1> QED BY <1>5 DEF IsInjective

LEMMA RoundNext ==
  ASSUME StepModes \subseteq {FALSE}, TypeOK, Listed, Round, Next
  PROVE  Round'
<1>0. /\ stack \in Seq(Thread) /\ all \in Seq(Thread) /\ threadList \in Seq(Thread)
      /\ stepMode \in [Thread -> BOOLEAN]
  BY DEF TypeOK
<1>a. ASSUME UNCHANGED <<stepMode, phase, all>>, ToSet(stack') \subseteq ToSet(stack),
             stack = << >> => stack' = << >>
      PROVE  Round'
  BY <1>a DEF Round
<1>b. ASSUME UNCHANGED <<stepMode, phase, all, stack>>
      PROVE  Round'
  BY <1>b DEF Round
<1>c. ASSUME UNCHANGED <<stepMode, phase, stack>>, all # << >>, all' = Tail(all)
      PROVE  Round'
  <2>1. ToSet(Tail(all)) \subseteq ToSet(all)
    BY <1>0, <1>c, TailElements
  <2>2. phase = "main" => IsInjective(Tail(all))
    BY <1>0, <1>c, TailInjective DEF Round
  <2> QED BY <1>c, <2>1, <2>2 DEF Round
<1>d. ToSet(<< >>) = {}
  BY DEF ToSet
<1>1. ASSUME NEW d \in Diff, Update(d) PROVE Round'
  BY <1>1 DEF Update, Round
<1>2. CASE BeginMain
  <2>1. all' \in ByPriority({t \in ToSet(threadList) : status[t] # "NONE"})
    BY <1>2 DEF BeginMain
  <2>2. IsInjective(all')
    BY <2>1, ByPriorityInjective
  <2> QED BY <1>2, <1>d, <2>2 DEF BeginMain, Round
<1>3. CASE SkipEnded \/ AwaitFile \/ FailFile \/ DoneThread
  BY <1>3, <1>c DEF SkipEnded, AwaitFile, FailFile, DoneThread
<1>4. CASE Turn
  <2> DEFINE t == Head(all)
  <2>1. /\ phase = "main" /\ stack = << >> /\ all # << >> /\ all' = Tail(all)
        /\ UNCHANGED <<stepMode, phase>>
        /\ stack' = Append(stack, t) \/ stack' = stack
    BY <1>4 DEF Turn, Wake
  <2>2. t \in Thread /\ ToSet(Tail(all)) \subseteq ToSet(all)
    BY <1>0, <2>1, TailElements
  <2>3. IsInjective(Tail(all)) /\ t \notin ToSet(Tail(all))
    BY <1>0, <2>1, TailInjective DEF Round
  <2>4. ToSet(stack') \subseteq {t}
    <3>1. ToSet(Append(stack, t)) = ToSet(stack) \cup {t}
      BY <1>0, <2>2, AppendElements
    <3> HIDE DEF t
    <3> QED BY <1>d, <2>1, <3>1
  <2> HIDE DEF t
  <2> QED BY <2>1, <2>2, <2>3, <2>4 DEF Round
<1>5. CASE EndMain
  BY <1>5 DEF EndMain, Round
<1>6. CASE EndDone \/ Done
  <2>1. stack = << >> /\ stack' = stack /\ phase' # "main" /\ stepMode' = stepMode
    BY <1>6 DEF EndDone, Done, Listed
  <2> QED BY <1>d, <2>1 DEF Round
<1>7. ASSUME stack # << >>, stack' = Front(stack) \/ stack' = stack,
             UNCHANGED <<stepMode, phase, all>>
      PROVE  Round'
  <2>1. ToSet(Front(stack)) \subseteq ToSet(stack)
    BY <1>0, <1>7, FrontElements
  <2> QED BY <1>7, <1>a, <2>1
<1>8. CASE HandBack
  BY <1>7, <1>8 DEF HandBack, Return, Fail, Suspend, SelfWait, SelfExit, SystemNothing,
                     System, SuspendTop
<1>9. ASSUME NEW c \in Thread, NEW l \in Load, Fork(c, l) \/ Exec(c, l) PROVE Round'
  BY <1>9, <1>b DEF Fork, Exec
<1>10. ASSUME NEW t \in Thread, ExitThread(t) \/ Stop(t) \/ Run(t) \/ Cancel(t)
       PROVE  Round'
  BY <1>10, <1>b DEF ExitThread, Stop, Run, Cancel
<1>11. ASSUME NEW t \in Thread, Step(t) PROVE Round'
  BY <1>11 DEF Step, Round
<1>12. ASSUME NEW t \in Thread, NEW a \in WaitArgs, WaitOn(t, a) PROVE Round'
  BY <1>12, <1>b DEF WaitOn
<1>13. ASSUME NEW t \in Thread, NEW p \in Priority, SetPriority(t, p) PROVE Round'
  BY <1>13, <1>b DEF SetPriority
<1>14. ASSUME NEW t \in Thread, NEW m \in StepModes, SetStepMode(t, m) PROVE Round'
  <2>1. m = FALSE /\ stepMode' = [stepMode EXCEPT ![t] = m]
    BY <1>14 DEF SetStepMode
  <2>2. \A u \in Thread : ~ stepMode'[u]
    BY <1>0, <2>1 DEF Round
  <2> QED BY <1>14, <2>2 DEF SetStepMode, Round
<1>15. ASSUME NEW o \in NotifyTargets, NotifyOne(o) \/ NotifyEvery(o) PROVE Round'
  BY <1>15, <1>b DEF NotifyOne, NotifyEvery
<1>16. ASSUME NEW x \in Trigger, SendTrigger(x) PROVE Round'
  BY <1>16, <1>b DEF SendTrigger
<1> QED
  BY <1>1, <1>2, <1>3, <1>4, <1>5, <1>6, <1>8, <1>9, <1>10, <1>11, <1>12, <1>13,
     <1>14, <1>15, <1>16 DEF Next, Host, Call

LEMMA SidesTimeouts ==
  ASSUME NEW W, NEW S, NEW N \in Registry, Sides(W, S, N), NEW t \in Thread
  PROVE  N.waitTimeout[t] = W.waitTimeout[t] \/ N.waitTimeout[t] < 0
<1>1. N.waitTimeout[t] \in Int
  BY WaitAssumption DEF Registry
<1> QED BY <1>1 DEF Sides, SameSide, IsWait

\* The waits of all but u keep their timeouts or end, outside Thread::main.
LEMMA OwnTimeouts ==
  ASSUME NEW u \in Thread, OthersSame(w, u, w'),
         \/ w'.waitTimeout[u] < 0
         \/ u \in ToSet(stack) /\ all' = all /\ phase' = phase
  PROVE  \A t \in Thread : TimeoutStep(t)
BY DEF TimeoutStep, OthersSame, SameSide

LEMMA EndTimeouts ==
  ASSUME NEW V \in Registry, V.waitTimeout = w.waitTimeout, NEW u \in Thread, w' = Exit(V, u)
  PROVE  \A t \in Thread : TimeoutStep(t)
<1>1. w' \in Registry
  BY ExitKeeps DEF Keeps
<1>2. PICK S \in SUBSET Thread : Sides(V, S \cup {u}, w')
  BY ExitSides
<1> QED BY <1>1, <1>2, SidesTimeouts DEF TimeoutStep

LEMMA EndWithTimeouts ==
  ASSUME TypeOK, NEW u \in Thread, NEW c \in Code,
         w' = Exit([w EXCEPT !.exitCode[u] = c], u)
  PROVE  \A t \in Thread : TimeoutStep(t)
<1> DEFINE V == [w EXCEPT !.exitCode[u] = c]
<1>1. w \in Registry
  BY DEF TypeOK
<1>2. V \in Registry
  BY <1>1, SetExitCode DEF Keeps
<1>3. V.waitTimeout = w.waitTimeout
  BY <1>1 DEF Registry
<1>4. w' = Exit(V, u)
  OBVIOUS
<1> HIDE DEF V
<1> QED BY <1>2, <1>3, <1>4, EndTimeouts

LEMMA NotifyTimeouts ==
  ASSUME NEW W \in Registry, NEW o \in Waitable, NEW t \in Thread,
         NEW N \in {Notify(W, o), NotifyAll(W, o)}
  PROVE  N.waitTimeout[t] = W.waitTimeout[t] \/ N.waitTimeout[t] < 0
<1>0. N \in Registry
  BY NotifyKeeps, NotifyAllKeeps DEF Keeps
<1>1. CASE N = NotifyAll(W, o)
  <2>1. PICK S : Sides(W, S, N)
    BY <1>1, NotifyAllSides
  <2> QED BY <1>0, <2>1, SidesTimeouts
<1>2. CASE N = Notify(W, o)
  <2>1. N = W \/ \E S : Sides(W, S, N)
    BY <1>2, NotifyFirst
  <2> QED BY <1>0, <2>1, SidesTimeouts
<1> QED BY <1>1, <1>2

LEMMA NotifyTriggerTimeouts ==
  ASSUME NEW W \in Registry, NEW L \in SUBSET Thread, NEW x \in Trigger, NEW t \in Thread
  PROVE  LET N == NotifyTrigger(W, L, x)
         IN  N.waitTimeout[t] = W.waitTimeout[t] \/ N.waitTimeout[t] < 0
<1> DEFINE S == {u \in L : x \in W.waitList[u]}  N == NotifyTrigger(W, L, x)
<1>1. N = Release(W, S, x)
  BY DEF NotifyTrigger
<1>2. S \in SUBSET Thread /\ x \in Waitable \cup Trigger
  OBVIOUS
<1>3. N \in Registry
  BY NotifyTriggerKeeps DEF Keeps
<1> HIDE DEF S, N
<1>4. Sides(W, S, N)
  BY <1>1, <1>2, ReleaseSides
<1>5. N.waitTimeout[t] = W.waitTimeout[t] \/ N.waitTimeout[t] < 0
  BY <1>3, <1>4, SidesTimeouts
<1> QED BY <1>5 DEF N

\* Thread::_main charges the elapsed time to a timed wait, or ends it when
\* that is more than is left of it.
LEMMA ElapseTimeouts ==
  ASSUME NEW W \in Registry, TypeOK, NEW t \in Thread
  PROVE  LET N == Elapse(W, t)
         IN  /\ \A u \in Thread \ {t} : N.waitTimeout[u] = W.waitTimeout[u]
             /\ \/ N.waitTimeout[t] = W.waitTimeout[t] /\ W.waitTimeout[t] < 0
                \/ N.waitTimeout[t] < 0 /\ W.waitTimeout[t] < diffTick
                \/ /\ W.waitTimeout[t] >= diffTick
                   /\ N.waitTimeout[t] = W.waitTimeout[t] - diffTick
<1>0. W.waitTimeout[t] \in Int /\ diffTick \in Nat
  BY WaitAssumption, ThreadAssumption DEF Registry, TypeOK
<1>1. CASE W.waitTimeout[t] < 0
  BY <1>1 DEF Elapse
<1>2. CASE ~ (W.waitTimeout[t] < 0) /\ W.waitTimeout[t] < diffTick
  <2> DEFINE N == Elapse(W, t)
  <2>1. Elapse(W, t) = ClearWait(W, {t})
    BY <1>2 DEF Elapse
  <2>2. Sides(W, {t}, N) /\ N \in Registry
    BY <2>1, ClearWaitSides, ClearWaitKeeps DEF Keeps
  <2> HIDE DEF N
  <2>3. N.waitTimeout[t] \in Int
    BY <2>2, WaitAssumption DEF Registry
  <2>4. N.waitTimeout[t] < 0 /\ \A u \in Thread \ {t} : N.waitTimeout[u] = W.waitTimeout[u]
    BY <2>2, <2>3 DEF Sides, SameSide, IsWait
  <2> QED BY <1>2, <2>4 DEF N
<1>3. CASE ~ (W.waitTimeout[t] < 0) /\ ~ (W.waitTimeout[t] < diffTick)
  <2> DEFINE N == Elapse(W, t)  tmo == [W.waitTimeout EXCEPT ![t] = @ - diffTick]
  <2>1. N = [W EXCEPT !.waitTimeout = tmo]
    BY <1>3 DEF Elapse
  <2>2. /\ tmo[t] = W.waitTimeout[t] - diffTick
        /\ \A u \in Thread \ {t} : tmo[u] = W.waitTimeout[u]
    BY DEF Registry
  <2> HIDE DEF N, tmo
  <2>3. N.waitTimeout = tmo
    BY <2>1 DEF Registry
  <2>4. W.waitTimeout[t] >= diffTick
    BY <1>0, <1>3
  <2> QED BY <2>2, <2>3, <2>4 DEF N
<1> QED BY <1>1, <1>2, <1>3

LEMMA TimeNext ==
  ASSUME ~ ForeignWait, TypeOK, Listed, Round, Next
  PROVE  TimeStep
<1>0. w \in Registry /\ all \in Seq(Thread) /\ stack \in Seq(Thread)
  BY DEF TypeOK
<1>a. stack # << >> => Last(stack) \in Thread /\ Last(stack) \in ToSet(stack)
  <2> SUFFICES ASSUME stack # << >>
               PROVE  Last(stack) \in Thread /\ Last(stack) \in ToSet(stack)
    OBVIOUS
  <2>1. Last(stack) \in Thread /\ ToSet(stack) = ToSet(Front(stack)) \cup {Last(stack)}
    BY <1>0, FrontElements
  <2> QED BY <2>1
<1>b. all # << >> => /\ Head(all) \in Thread
                     /\ phase = "main" => Tail(all) # all
  BY <1>0, TailInjective DEF Round
<1>c. "value" \in Code /\ "error" \in Code
  BY DEF Code
\* Steps that are no visit of the host loop.
<1>d. ASSUME all' = all \/ phase # "main" \/ all = << >>, \A t \in Thread : TimeoutStep(t)
      PROVE  TimeStep
  BY <1>b, <1>d DEF TimeStep, VisitStep
<1>e. w' = w => \A t \in Thread : TimeoutStep(t)
  BY DEF TimeoutStep
<1>1. ASSUME NEW d \in Diff, Update(d) PROVE TimeStep
  BY <1>1, <1>d, <1>e DEF Update
<1>2. CASE BeginMain \/ EndMain \/ EndDone \/ Done
  BY <1>2, <1>d, <1>e DEF BeginMain, EndMain, EndDone, Done
<1>3. CASE SkipEnded \/ AwaitFile
  <2>1. w' = w /\ \A t \in Thread : w.waitTimeout[t] \in Int
    BY <1>0, <1>3, WaitAssumption DEF SkipEnded, AwaitFile, Registry
  <2> QED BY <1>3, <1>b, <1>e, <2>1 DEF SkipEnded, AwaitFile, TimeStep, VisitStep
<1>4. CASE FailFile
  <2>1. \A t \in Thread : TimeoutStep(t)
    BY <1>4, <1>b, <1>c, EndWithTimeouts DEF FailFile
  <2>2. status'[Head(all)] = "NONE"
    BY <1>4, <1>b DEF FailFile, TypeOK
  <2> QED BY <2>1, <2>2 DEF TimeStep, VisitStep
<1>5. CASE Turn
  <2> DEFINE t == Head(all)  now == Elapse(w, t)
  <2>1. /\ phase = "main" /\ phase' = phase /\ all # << >> /\ all' = Tail(all)
        /\ t \in Thread
        /\ w' = now \/ Wake(now, t)
    BY <1>5, <1>b DEF Turn
  <2>2. now \in Registry
    BY <1>0, <2>1, ElapseKeeps DEF Keeps
  <2>3. /\ \A u \in Thread \ {t} : now.waitTimeout[u] = w.waitTimeout[u]
        /\ \/ now.waitTimeout[t] = w.waitTimeout[t] /\ w.waitTimeout[t] < 0
           \/ now.waitTimeout[t] < 0 /\ w.waitTimeout[t] < diffTick
           \/ /\ w.waitTimeout[t] >= diffTick
              /\ now.waitTimeout[t] = w.waitTimeout[t] - diffTick
    BY <1>0, <2>1, ElapseTimeouts
  <2>4. w'.waitTimeout = now.waitTimeout
    <3> HIDE DEF now
    <3> QED BY <2>1, <2>2 DEF Wake, Registry
  <2>5. t = Head(all)
    OBVIOUS
  <2>6. w.waitTimeout[t] \in Int /\ diffTick \in Nat
    BY <2>1, WaitAssumption, ThreadAssumption DEF Registry, TypeOK
  <2> HIDE DEF now, t
  <2>7. \A u \in Thread : TimeoutStep(u)
    BY <2>1, <2>3, <2>4, <2>5 DEF TimeoutStep
  <2>8. VisitStep
    BY <2>3, <2>4, <2>5, <2>6 DEF VisitStep
  <2> QED BY <2>7, <2>8 DEF TimeStep
<1>6. CASE DoneThread
  BY <1>0, <1>6, <1>b, <1>d, EndTimeouts DEF DoneThread
<1>7. CASE Return \/ Fail
  BY <1>7, <1>a, <1>c, <1>d, EndWithTimeouts DEF Return, Fail
<1>8. CASE Suspend
  <2>1. w'.waitTimeout = w.waitTimeout /\ all' = all
    BY <1>0, <1>8, SuspendCodeFields DEF Suspend
  <2> QED BY <2>1, <1>d DEF TimeoutStep
<1>9. ASSUME NEW a \in WaitArgs, NEW n \in Nested, SelfWait(a, n) PROVE TimeStep
  <2> DEFINE t == Last(stack)  N == WaitFor(w, t, a)
  <2>1. t \in Thread /\ t \in ToSet(stack) /\ a \in WaitArg
    BY <1>9, <1>a, ThreadAssumption DEF SelfWait
  <2>2. N \in Registry /\ OthersSame(w, t, N)
    BY <1>0, <2>1, WaitForSides
  <2>3. w' = SuspendCode(N, n) /\ all' = all /\ phase' = phase
    BY <1>9 DEF SelfWait
  <2> HIDE DEF N, t
  <2>4. /\ w'.waitSystem = N.waitSystem /\ w'.waitList = N.waitList
        /\ w'.waitTimeout = N.waitTimeout /\ w'.waitResult = N.waitResult
    BY <2>2, <2>3, SuspendCodeFields
  <2>5. OthersSame(w, t, w')
    BY <2>2, <2>4 DEF OthersSame, SameSide
  <2> QED BY <2>1, <2>3, <2>5, <1>d, OwnTimeouts
<1>10. ASSUME NEW n \in Nested, SelfExit(n) PROVE TimeStep
  BY <1>10, <1>a, <1>c, <1>d, EndWithTimeouts DEF SelfExit
<1>11. ASSUME NEW n \in Nested, SystemNothing(n) PROVE TimeStep
  <2> DEFINE t == Last(stack)  N == CancelWait(w, t)
  <2>1. t \in Thread /\ t \in ToSet(stack)
    BY <1>11, <1>a DEF SystemNothing
  <2>2. N \in Registry /\ OthersSame(w, t, N)
    BY <1>0, <2>1, CancelWaitSides
  <2>3. w' = SuspendCode(N, n) /\ all' = all /\ phase' = phase
    BY <1>11 DEF SystemNothing
  <2> HIDE DEF N, t
  <2>4. /\ w'.waitSystem = N.waitSystem /\ w'.waitList = N.waitList
        /\ w'.waitTimeout = N.waitTimeout /\ w'.waitResult = N.waitResult
    BY <2>2, <2>3, SuspendCodeFields
  <2>5. OthersSame(w, t, w')
    BY <2>2, <2>4 DEF OthersSame, SameSide
  <2> QED BY <2>1, <2>3, <2>5, <1>d, OwnTimeouts
<1>12. ASSUME NEW c \in Thread, NEW l \in Load, NEW n \in Nested, System(c, l, n)
       PROVE  TimeStep
  <2> DEFINE t == Last(stack)  N == WaitSystem(w, t, c)
  <2>1. t \in Thread /\ t \in ToSet(stack)
    BY <1>12, <1>a DEF System
  <2>2. N \in Registry /\ OthersSame(w, t, N)
    BY <1>0, <2>1, WaitSystemSides
  <2>3. w' = SuspendCode(N, n) /\ all' = all /\ phase' = phase
    BY <1>12 DEF System
  <2> HIDE DEF N, t
  <2>4. /\ w'.waitSystem = N.waitSystem /\ w'.waitList = N.waitList
        /\ w'.waitTimeout = N.waitTimeout /\ w'.waitResult = N.waitResult
    BY <2>2, <2>3, SuspendCodeFields
  <2>5. OthersSame(w, t, w')
    BY <2>2, <2>4 DEF OthersSame, SameSide
  <2> QED BY <2>1, <2>3, <2>5, <1>d, OwnTimeouts
<1>13. ASSUME NEW c \in Thread, NEW l \in Load, Fork(c, l) PROVE TimeStep
  BY <1>13, <1>d, <1>e DEF Fork
<1>14. ASSUME NEW t \in Thread, NEW l \in Load, Exec(t, l) PROVE TimeStep
  <2>1. w' = ClearWait(w, {t}) /\ all' = all
    BY <1>14 DEF Exec
  <2>2. Sides(w, {t}, w') /\ w' \in Registry
    BY <1>0, <2>1, ClearWaitSides, ClearWaitKeeps DEF Keeps
  <2>3. \A u \in Thread : TimeoutStep(u)
    BY <2>2, SidesTimeouts DEF TimeoutStep
  <2> QED BY <2>1, <2>3, <1>d
<1>15. ASSUME NEW t \in Thread, ExitThread(t) PROVE TimeStep
  BY <1>15, <1>c, <1>d, EndWithTimeouts DEF ExitThread
<1>16. ASSUME NEW t \in Thread, Cancel(t) PROVE TimeStep
  <2>1. w' = CancelWait(w, t) /\ all' = all
    BY <1>16 DEF Cancel
  <2>2. OthersSame(w, t, w') /\ ~ IsWait(w', t) /\ w' \in Registry
    BY <1>0, <2>1, CancelWaitSides
  <2>3. w'.waitTimeout[t] < 0
    <3>1. w'.waitTimeout[t] \in Int
      BY <2>2, WaitAssumption DEF Registry
    <3> QED BY <2>2, <3>1 DEF IsWait
  <2> QED BY <2>1, <2>2, <2>3, <1>d, OwnTimeouts
<1>17. ASSUME NEW t \in Thread, Step(t) PROVE TimeStep
  BY <1>17 DEF Step, Round
<1>18. ASSUME NEW t \in Thread, NEW a \in WaitArgs, WaitOn(t, a) PROVE TimeStep
  BY <1>18 DEF WaitOn
<1>19. ASSUME NEW t \in Thread, \/ Stop(t) \/ Run(t)
                                \/ \E p \in Priority : SetPriority(t, p)
                                \/ \E m \in StepModes : SetStepMode(t, m)
       PROVE  TimeStep
  BY <1>19, <1>d, <1>e DEF Stop, Run, SetPriority, SetStepMode
<1>20. ASSUME NEW o \in NotifyTargets, NotifyOne(o) \/ NotifyEvery(o)
       PROVE  TimeStep
  <2>1. o \in Waitable /\ all' = all /\ w' \in {Notify(w, o), NotifyAll(w, o)}
    BY <1>20, ThreadAssumption DEF NotifyOne, NotifyEvery
  <2>2. \A t \in Thread : TimeoutStep(t)
    BY <1>0, <2>1, NotifyTimeouts DEF TimeoutStep
  <2> QED BY <2>1, <2>2, <1>d
<1>21. ASSUME NEW x \in Trigger, SendTrigger(x) PROVE TimeStep
  <2>1. ToSet(threadList) \in SUBSET Thread
    BY DEF ToSet, TypeOK
  <2>2. \A t \in Thread : TimeoutStep(t)
    BY <1>0, <1>21, <2>1, NotifyTriggerTimeouts DEF TimeoutStep, SendTrigger
  <2> QED BY <1>21, <2>2, <1>d DEF SendTrigger
<1> QED
  BY <1>1, <1>2, <1>3, <1>4, <1>5, <1>6, <1>7, <1>8, <1>9, <1>10, <1>11, <1>12,
     <1>13, <1>14, <1>15, <1>16, <1>17, <1>18, <1>19, <1>20, <1>21
     DEF Next, Host, HandBack, Call

\* The host's clock moves in Update and nowhere else, and then it is charged
\* to the threads Thread::main goes on to visit.
LEMMA PendingStep ==
  ASSUME TypeOK, Listed, Round, Next
  PROVE  /\ (phase = "idle" /\ phase' = "updated") => w' = w /\ diffTick' \in Nat
         /\ ~ (phase = "idle" /\ phase' = "updated") =>
              /\ diffTick' = diffTick
              /\ \A t \in Thread : Pending(t)' => Pending(t)
<1>0. all \in Seq(Thread) /\ Diff \subseteq Nat
  BY ThreadAssumption DEF TypeOK
<1>1. ASSUME NEW d \in Diff, Update(d)
      PROVE  phase = "idle" /\ phase' = "updated" /\ w' = w /\ diffTick' \in Nat
  BY <1>0, <1>1 DEF Update
<1>2. CASE BeginMain
  BY <1>2 DEF BeginMain, Pending
<1>3. CASE SkipEnded \/ AwaitFile \/ FailFile \/ Turn \/ DoneThread
  <2>1. all # << >> /\ all' = Tail(all) /\ phase' = phase /\ diffTick' = diffTick
    BY <1>3 DEF SkipEnded, AwaitFile, FailFile, Turn, DoneThread
  <2>2. ToSet(Tail(all)) \subseteq ToSet(all)
    BY <1>0, <2>1, TailElements
  <2> QED BY <2>1, <2>2 DEF Pending
<1>4. CASE EndMain \/ EndDone \/ Done
  BY <1>4 DEF EndMain, EndDone, Done, Pending
<1>5. CASE HandBack \/ Call
  BY <1>5 DEF HandBack, Return, Fail, Suspend, SelfWait, SelfExit, SystemNothing, System,
              Call, Fork, Exec, ExitThread, Stop, Run, Cancel, Step, WaitOn, SetPriority,
              SetStepMode, NotifyOne, NotifyEvery, SendTrigger, Pending
<1> QED BY <1>1, <1>2, <1>3, <1>4, <1>5 DEF Next, Host

LEMMA OwedNext ==
  ASSUME TypeOK, TypeOK', Listed, Round, Round', OwedSound, Next, TimeStep,
         owed' = [t \in Thread |-> Owed(t)]
  PROVE  OwedSound'
<1>0. /\ \A t \in Thread : w.waitTimeout[t] \in Int /\ w'.waitTimeout[t] \in Int
      /\ diffTick \in Nat /\ all \in Seq(Thread)
  BY WaitAssumption, ThreadAssumption DEF TypeOK, Registry
<1>1. \/ phase = "idle" /\ phase' = "updated" /\ w' = w /\ diffTick' \in Nat
      \/ /\ ~ (phase = "idle" /\ phase' = "updated")
         /\ diffTick' = diffTick
         /\ \A t \in Thread : Pending(t)' => Pending(t)
  BY PendingStep
<1> SUFFICES ASSUME NEW t \in Thread
             PROVE  /\ owed'[t] \in Nat
                    /\ w'.waitTimeout[t] >= 0 =>
                         /\ owed'[t] <= w'.waitTimeout[t]
                         /\ Pending(t)' =>
                              owed'[t] = 0 \/ owed'[t] + diffTick' <= w'.waitTimeout[t]
  <2>1. owed' = [u \in Thread |-> owed'[u]]
    OBVIOUS
  <2> QED BY <2>1 DEF OwedSound
<1>2. /\ owed[t] \in Nat
      /\ w.waitTimeout[t] >= 0 =>
           /\ owed[t] <= w.waitTimeout[t]
           /\ Pending(t) => owed[t] = 0 \/ owed[t] + diffTick <= w.waitTimeout[t]
  BY DEF OwedSound
<1>3. owed'[t] = Owed(t)
  OBVIOUS
<1>4. CASE w'.waitTimeout[t] < 0
  BY <1>0, <1>3, <1>4 DEF Owed
<1>5. CASE w'.waitTimeout[t] >= 0 /\ phase = "idle" /\ phase' = "updated"
  <2>1. w' = w /\ diffTick' \in Nat
    BY <1>1, <1>5
  <2>2. owed'[t] = IF owed[t] < diffTick' THEN 0 ELSE owed[t] - diffTick'
    BY <1>0, <1>3, <1>5, <2>1 DEF Owed, SetsTimeout
  <2> QED BY <1>0, <1>2, <1>5, <2>1, <2>2
<1>6. CASE w'.waitTimeout[t] >= 0 /\ ~ (phase = "idle" /\ phase' = "updated")
  <2>1. diffTick' = diffTick /\ (Pending(t)' => Pending(t))
    BY <1>1, <1>6
  <2>2. owed'[t] = IF SetsTimeout(t) THEN w'.waitTimeout[t] ELSE owed[t]
    BY <1>0, <1>3, <1>6 DEF Owed
  <2>3. CASE w'.waitTimeout[t] = w.waitTimeout[t]
    BY <1>2, <1>6, <2>1, <2>2, <2>3 DEF SetsTimeout
  <2>4. CASE t \in ToSet(stack) /\ all' = all /\ phase' = phase
                /\ w'.waitTimeout[t] # w.waitTimeout[t]
    <3>1. SetsTimeout(t)
      BY <1>6, <2>4 DEF SetsTimeout
    <3>2. stack # << >> /\ t \notin ToSet(all)
      BY <2>4 DEF Round, ToSet
    <3>3. ~ Pending(t)'
      BY <2>4, <3>2 DEF Round, Pending
    <3> QED BY <1>0, <1>6, <2>2, <3>1, <3>3
  <2>5. CASE /\ phase = "main" /\ phase' = phase
             /\ all # << >> /\ t = Head(all) /\ all' = Tail(all)
             /\ w.waitTimeout[t] >= diffTick
             /\ w'.waitTimeout[t] = w.waitTimeout[t] - diffTick
    <3>1. t \notin ToSet(Tail(all)) /\ Tail(all) # all /\ t \in ToSet(all)
      BY <1>0, <2>5, TailInjective, TailElements DEF Round
    <3>2. ~ SetsTimeout(t) /\ Pending(t) /\ ~ Pending(t)'
      BY <2>5, <3>1 DEF SetsTimeout, Pending
    <3>3. owed'[t] = owed[t] /\ w.waitTimeout[t] >= 0
      BY <1>0, <2>2, <2>5, <3>2
    <3>4. owed[t] = 0 \/ owed[t] + diffTick <= w.waitTimeout[t]
      BY <1>2, <3>2, <3>3
    <3> QED BY <1>0, <1>2, <2>5, <3>2, <3>3, <3>4
  <2> QED BY <1>0, <1>6, <2>3, <2>4, <2>5 DEF TimeStep, TimeoutStep
<1> QED BY <1>0, <1>4, <1>5, <1>6

\* A thread that waits for a time is stopped for at least that time, on the
\* clock the host passes to update(), where the host loop alone starts scripts
\* and scripts call wait() for themselves.
THEOREM NotEarlyAlways ==
  ASSUME StepModes \subseteq {FALSE}, ~ ForeignWait
  PROVE  ClockSpec => NotEarly
<1> DEFINE Late == \A t \in Thread :
             /\ phase = "main" /\ all # << >> /\ t = Head(all) /\ all' = Tail(all)
             /\ w.waitTimeout[t] >= 0 /\ w'.waitTimeout[t] < 0
             /\ status'[t] # "NONE"
             => owed[t] = 0
<1>1. ClockInit => Round /\ OwedSound
  BY DEF ClockInit, Init, NoWaits, Round, OwedSound, ToSet, Pending
<1>2. TypeOK /\ TypeOK' /\ Listed /\ Round /\ OwedSound /\ [ClockNext]_clockVars
        => Round' /\ OwedSound'
  <2> SUFFICES ASSUME TypeOK, TypeOK', Listed, Round, OwedSound, [ClockNext]_clockVars
               PROVE  Round' /\ OwedSound'
    OBVIOUS
  <2>1. CASE UNCHANGED clockVars
    BY <2>1 DEF clockVars, vars, Round, OwedSound, Pending
  <2>2. CASE ClockNext
    <3>1. Next /\ owed' = [t \in Thread |-> Owed(t)]
      BY <2>2 DEF ClockNext, Observe
    <3>2. Round' /\ TimeStep
      BY <3>1, RoundNext, TimeNext
    <3> QED BY <3>1, <3>2, OwedNext
  <2> QED BY <2>1, <2>2
<1>3. TypeOK /\ Listed /\ Round /\ OwedSound /\ [ClockNext]_clockVars => [Late]_clockVars
  <2> SUFFICES ASSUME TypeOK, Listed, Round, OwedSound, ClockNext, NEW t \in Thread,
                      phase = "main", all # << >>, t = Head(all), all' = Tail(all),
                      w.waitTimeout[t] >= 0, w'.waitTimeout[t] < 0, status'[t] # "NONE"
               PROVE  owed[t] = 0
    OBVIOUS
  <2>1. w.waitTimeout[t] < diffTick
    BY TimeNext DEF ClockNext, TimeStep, VisitStep
  <2>2. Pending(t)
    BY TailElements DEF TypeOK, Pending
  <2>3. owed[t] = 0 \/ owed[t] + diffTick <= w.waitTimeout[t]
    BY <2>2 DEF OwedSound
  <2>4. owed[t] \in Nat /\ diffTick \in Nat /\ w.waitTimeout[t] \in Int
    BY WaitAssumption, ThreadAssumption DEF TypeOK, Registry, OwedSound
  <2> QED BY <2>1, <2>3, <2>4
<1>4. ClockSpec => Spec
  <2>1. ClockInit => Init
    BY DEF ClockInit
  <2>2. [ClockNext]_clockVars => [Next]_vars
    BY DEF ClockNext, clockVars
  <2> QED BY <2>1, <2>2, PTL DEF ClockSpec, Spec
<1> QED BY <1>1, <1>2, <1>3, <1>4, TypeCorrect, LiveThreadsListed, PTL
     DEF ClockSpec, NotEarly
=============================================================================
