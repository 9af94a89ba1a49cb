----------------------------- MODULE SqListOps ------------------------------
(***************************************************************************)
(* The operation of ObjectInfo on arrays that the schedulers' lists share. *)
(***************************************************************************)
EXTENDS Integers, SequencesExt

\* ObjectInfo::removeValue(value, true): every occurrence goes.
Without(s, S) ==
    LET kept[i \in 0 .. Len(s)] ==
            IF i = 0 THEN << >>
            ELSE IF s[i] \in S THEN kept[i - 1] ELSE Append(kept[i - 1], s[i])
    IN  kept[Len(s)]
=============================================================================
