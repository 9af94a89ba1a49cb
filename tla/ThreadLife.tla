----------------------------- MODULE ThreadLife -----------------------------
(***************************************************************************)
(* What pseudo-threads promise, without lists, VMs or a scheduler: which   *)
(* threads are alive, what each one waits for, and whose scripts are in    *)
(* the middle of running.  Waiting is one relation here; the promises are  *)
(* that the end of a thread frees everyone who waits for it, that a notify *)
(* frees nobody else, and that a thread starts to run only while it is     *)
(* alive and waits for nothing.                                            *)
(***************************************************************************)
EXTENDS FiniteSets

CONSTANTS Thread, Waitable

VARIABLES live,   \* threads that have been started and have not ended
          waits,  \* what each thread waits for
          runs    \* threads whose scripts are running

lifeVars == <<live, waits, runs>>

LifeTypeOK ==
    /\ live \subseteq Thread
    /\ waits \in [Thread -> SUBSET Waitable]
    /\ runs \subseteq Thread

LifeInit ==
    /\ live = {}
    /\ waits = [t \in Thread |-> {}]
    /\ runs = {}

Freed(S) == [t \in Thread |-> IF t \in S THEN {} ELSE waits[t]]
WaitersOf(o) == {t \in Thread : o \in waits[t]}

\* A running script may hand control back in the same step.
MayLeave(t) == runs' \in {runs, runs \ {t}}

\* t begins to wait; with system() it waits for a thread it starts.
BeginWait(t) ==
    /\ waits' = [waits EXCEPT ![t] = waits'[t]]
    /\ \/ live' = live
       \/ \E c \in Thread \ live : live' = live \cup {c} /\ waits'[t] = {c}
    /\ MayLeave(t)

\* Some threads stop waiting: by time-out, trigger, cancel or a notify.
EndWaits ==
    /\ waits' = Freed({t \in Thread : waits'[t] = {}})
    /\ UNCHANGED <<live, runs>>

Start(t) == live' = live \cup {t} /\ waits' = Freed({t}) /\ UNCHANGED runs

\* Nobody is left waiting for a thread that ends.
End(t) == live' = live \ {t} /\ waits' = Freed({t} \cup WaitersOf(t)) /\ MayLeave(t)

\* The script of t starts or goes on.
Enter(t) ==
    /\ t \in live /\ t \notin runs
    /\ waits' = Freed({t}) /\ runs' = runs \cup {t}
    /\ UNCHANGED live

Leave(t) == runs' = runs \ {t} /\ UNCHANGED <<live, waits>>

LifeNext ==
    \/ EndWaits
    \/ \E t \in Thread : BeginWait(t) \/ Start(t) \/ End(t) \/ Enter(t) \/ Leave(t)

LifeSpec == LifeInit /\ [][LifeNext]_lifeVars
=============================================================================
