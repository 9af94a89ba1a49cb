-------------------------- MODULE MCSqThreadClock ---------------------------
(***************************************************************************)
(* Instances of SqThreadClock for TLC.                                     *)
(***************************************************************************)
EXTENDS SqThreadClock

\* Timed waits of each length, none included.
MCWaitArgs ==
    {[objects |-> {}, triggers |-> {}, timeout |-> n, times |-> 1] :
        n \in 0 .. MaxTimeout}
=============================================================================
