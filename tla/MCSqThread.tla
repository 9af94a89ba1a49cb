----------------------------- MODULE MCSqThread -----------------------------
(***************************************************************************)
(* Instances of SqThread for TLC.                                          *)
(***************************************************************************)
EXTENDS SqThread

Arg(os, xs, n) == [objects |-> os, triggers |-> xs, timeout |-> n, times |-> 1]

\* Waits on one thread, or on all the rest there is to wait for.
MCWaitArgs ==
    {Arg({o}, {}, -1) : o \in Thread} \cup {Arg(Object, Trigger, MaxTimeout)}

Symmetry == Permutations(Thread)
=============================================================================
