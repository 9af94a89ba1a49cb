------------------------------- MODULE SqWait -------------------------------
(***************************************************************************)
(* The two-sided wait registry of the pseudo-thread library: what each     *)
(* thread waits for (Thread: _waitSystem, _waitList, _waitTimeout,         *)
(* _waitResult) and which threads wait for each object (Object:            *)
(* _waitThreadList).  The code never updates the two sides in one place:   *)
(* every operation below walks one side and fixes up the other.            *)
(*                                                                         *)
(* W is a record of the whole registry.  The operators are the bodies of   *)
(* the methods; SqThread.tla applies them in its actions.  An operator      *)
(* whose comment begins with "Defect" is a variant of the one below it with *)
(* a plausible bug; no specification uses it (see README, seeded defects).  *)
(***************************************************************************)
EXTENDS SqListOps, FiniteSets

CONSTANTS Thread,     \* Thread objects
          Object,     \* Object instances that are not threads
          Trigger,    \* trigger names
          Null,       \* the script value null
          MaxTimeout  \* largest numeric argument of wait()

ASSUME WaitAssumption ==
    /\ IsFiniteSet(Thread)
    /\ Thread \cap Object = {} /\ Thread \cap Trigger = {}
    /\ Object \cap Trigger = {}
    /\ Null \notin Thread \cup Object \cup Trigger
    /\ MaxTimeout \in Nat

Waitable == Thread \cup Object

\* A script's exit code, seen from the registry: what a return or an exit()
\* gave, what an error left, or the argument of the last suspend.
Code == {Null, "value", "error", "suspended"}

\* _waitResult also holds the number a timed wait was given.
Result == Code \cup Waitable \cup Trigger \cup {"tick"}

Registry ==
    [waitSystem     : [Thread -> Thread \cup {Null}],
     waitList       : [Thread -> SUBSET (Waitable \cup Trigger)],
     waitTimeout    : [Thread -> -1 .. MaxTimeout],
     waitResult     : [Thread -> Result],
     exitCode       : [Thread -> Code],
     waitThreadList : [Waitable -> Seq(Thread)]]

NoWaits ==
    [waitSystem     |-> [t \in Thread |-> Null],
     waitList       |-> [t \in Thread |-> {}],
     waitTimeout    |-> [t \in Thread |-> -1],
     waitResult     |-> [t \in Thread |-> Null],
     exitCode       |-> [t \in Thread |-> Null],
     waitThreadList |-> [o \in Waitable |-> << >>]]

\* What a script passes to wait(): numbers, trigger names and objects.  An
\* object may be passed several times; times is how often each one is.
WaitArg ==
    [objects : SUBSET Waitable, triggers : SUBSET Trigger,
     timeout : -1 .. MaxTimeout, times : Nat \ {0}]

-----------------------------------------------------------------------------
Waits(W, t, o) == W.waitSystem[t] = o \/ o \in W.waitList[t]

\* The two sides agree: who waits for an object is on its list.
Registered(W) ==
    \A t \in Thread, o \in Waitable :
        Waits(W, t, o) => t \in ToSet(W.waitThreadList[o])

\* Defect: the wait of system() is not looked at.
IsWaitNoSystem(W, t) == W.waitList[t] # {} \/ W.waitTimeout[t] >= 0

IsWait(W, t) ==
    \/ W.waitSystem[t] # Null
    \/ W.waitList[t] # {}
    \/ W.waitTimeout[t] >= 0

\* Defect: the objects are not told that the thread no longer waits.
ClearWaitOneSided(W, S) ==
    [W EXCEPT
       !.waitSystem  = [t \in Thread |-> IF t \in S THEN Null ELSE @[t]],
       !.waitList    = [t \in Thread |-> IF t \in S THEN {} ELSE @[t]],
       !.waitTimeout = [t \in Thread |-> IF t \in S THEN -1 ELSE @[t]]]

\* Thread::_clearWait of every thread of S: a thread takes itself off the
\* list of each object it still waits for.
ClearWait(W, S) ==
    [W EXCEPT
       !.waitSystem  = [t \in Thread |-> IF t \in S THEN Null ELSE @[t]],
       !.waitList    = [t \in Thread |-> IF t \in S THEN {} ELSE @[t]],
       !.waitTimeout = [t \in Thread |-> IF t \in S THEN -1 ELSE @[t]],
       !.waitThreadList =
           [o \in Waitable |-> Without(@[o], {t \in S : Waits(W, t, o)})]]

\* A thread's side of a release by x: x leaves its wait state and the cause
\* is recorded; the other waits are cleared.  Several threads may be released
\* by one call: each one touches only its own entries.
Release(W, S, x) ==
    ClearWait(
        [W EXCEPT
           !.waitResult = [t \in Thread |->
               IF t \notin S THEN @[t]
               ELSE IF W.waitSystem[t] = x THEN W.exitCode[x] ELSE x],
           !.waitSystem = [t \in Thread |->
               IF t \in S /\ @[t] = x THEN Null ELSE @[t]],
           !.waitList = [t \in Thread |->
               IF t \in S THEN @[t] \ {x} ELSE @[t]]], S)

\* The same by an object, whose list becomes list.
ReleaseFrom(W, S, o, list) ==
    [Release(W, S, o) EXCEPT !.waitThreadList = [@ EXCEPT ![o] = list]]

\* Defect: the list is searched from its end.
NotifyNewest(W, o) ==
    LET list == W.waitThreadList[o]
        hits == {i \in DOMAIN list : Waits(W, list[i], o)}
        hit  == CHOOSE i \in hits : \A j \in hits : i >= j
    IN  IF hits = {} THEN W
        ELSE ReleaseFrom(W, {list[hit]}, o, RemoveAt(list, hit))

\* Object::notify: the first listed thread that really waits for o.
Notify(W, o) ==
    LET list == W.waitThreadList[o]
        hits == {i \in DOMAIN list : Waits(W, list[i], o)}
        hit  == CHOOSE i \in hits : \A j \in hits : i <= j
    IN  IF hits = {} THEN W
        ELSE ReleaseFrom(W, {list[hit]}, o, RemoveAt(list, hit))

\* Defect: the loop returns after the first thread, with the list emptied.
NotifyAllFirst(W, o) ==
    ReleaseFrom(W, {t \in Thread : W.waitThreadList[o] # << >>
                                    /\ t = Head(W.waitThreadList[o])}, o, << >>)

\* Object::notifyAll: every listed thread, then the list is emptied.
NotifyAll(W, o) ==
    ReleaseFrom(W, {t \in ToSet(W.waitThreadList[o]) : Waits(W, t, o)}, o, << >>)

\* Thread::trigger over the threads of the thread list.
NotifyTrigger(W, S, x) == Release(W, {t \in S : x \in W.waitList[t]}, x)

\* Defect: the timeout counts from one.
WaitForLate(W, t, a) ==
    LET C == ClearWait(W, {t})
    IN  [C EXCEPT
           !.waitTimeout[t] = a.timeout + 1,
           !.waitList[t]    = a.objects \cup a.triggers,
           !.waitThreadList = [o \in Waitable |->
               IF o \in a.objects THEN Append(@[o], t) ELSE @[o]]]

\* Defect: the new wait is put on the objects' lists before the old one is
\* taken off them.
WaitForRegisterFirst(W, t, a) ==
    LET R == [W EXCEPT !.waitThreadList = [o \in Waitable |->
                 IF o \in a.objects THEN Append(@[o], t) ELSE @[o]]]
        C == ClearWait(R, {t})
    IN  [C EXCEPT !.waitTimeout[t] = a.timeout,
                  !.waitList[t]    = a.objects \cup a.triggers]

\* Thread::_wait: old waits are dropped, then each argument is registered.
WaitFor(W, t, a) ==
    LET C == ClearWait(W, {t})
    IN  [C EXCEPT
           !.waitResult[t]  = IF a.timeout >= 0 THEN "tick" ELSE Null,
           !.waitTimeout[t] = a.timeout,
           !.waitList[t]    = a.objects \cup a.triggers,
           !.waitThreadList = [o \in Waitable |->
               IF o \in a.objects THEN @[o] \o [i \in 1 .. a.times |-> t]
               ELSE @[o]]]

\* Thread::_system: wait for the thread c that was just forked.
WaitSystem(W, t, c) ==
    LET C == ClearWait(W, {t})
    IN  [C EXCEPT !.waitResult[t] = Null, !.waitSystem[t] = c,
                  !.waitThreadList[c] = Append(@, t)]

\* Thread::cancelWait
CancelWait(W, t) == [ClearWait(W, {t}) EXCEPT !.waitResult[t] = Null]

\* Defect: the end of a thread is not notified.
ExitQuiet(W, t) == ClearWait(W, {t})

\* Thread::_exit: notifyAll, then _clear (its other half, the status, is in
\* SqThread).
Exit(W, t) == ClearWait(NotifyAll(W, t), {t})
=============================================================================
