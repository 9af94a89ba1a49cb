------------------------------ MODULE MCSqTable -----------------------------
(***************************************************************************)
(* Instances of SqTable for TLC: keys that collide in four nodes and in    *)
(* eight, in four only, and not at all.                                    *)
(***************************************************************************)
EXTENDS SqTable, TLC

CONSTANTS a, b, c, d

MCKey == {a, b, c, d}
MCHash == a :> 3 @@ b :> 11 @@ c :> 7 @@ d :> 2

=============================================================================
