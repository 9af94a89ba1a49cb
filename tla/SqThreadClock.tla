--------------------------- MODULE SqThreadClock ----------------------------
(***************************************************************************)
(* SqThread with an observer of time.  owed[t] is how much of the time t   *)
(* asked for in its current wait has not yet elapsed on the host's clock,  *)
(* which moves when the host calls update() and at no other moment.  The   *)
(* observer reads the system and never constrains it.                      *)
(***************************************************************************)
EXTENDS SqThread

VARIABLE owed

clockVars == <<vars, owed>>

\* A script, not the passing of time in Thread::_main, sets t's timeout.
SetsTimeout(t) ==
    /\ w'.waitTimeout[t] >= 0
    /\ w'.waitTimeout[t] # w.waitTimeout[t]
    /\ all' = all

Owed(t) ==
    IF w'.waitTimeout[t] < 0 THEN 0
    ELSE IF SetsTimeout(t) THEN w'.waitTimeout[t]
    ELSE IF phase = "idle" /\ phase' = "updated"
      THEN IF owed[t] < diffTick' THEN 0 ELSE owed[t] - diffTick'
    ELSE owed[t]

Observe == owed' = [t \in Thread |-> Owed(t)]

ClockInit == Init /\ owed = [t \in Thread |-> 0]
ClockNext == Next /\ Observe
ClockSpec == ClockInit /\ [][ClockNext]_clockVars

\* The host's clock goes on: there may be rounds without time, but not only those.
ClockMoves == SF_clockVars((\E d \in Diff \ {0} : Update(d)) /\ Observe)
LiveSpec == ClockSpec /\ Fairness /\ ClockMoves

-----------------------------------------------------------------------------
\* A thread is stopped for at least the time it asked for: when Thread::_main
\* ends a timed wait nothing of that time is still owed.
NotEarly ==
    [][\A t \in Thread :
         /\ phase = "main" /\ all # << >> /\ t = Head(all) /\ all' = Tail(all)
         /\ w.waitTimeout[t] >= 0 /\ w'.waitTimeout[t] < 0
         /\ status'[t] # "NONE"
         => owed[t] = 0]_clockVars
=============================================================================
