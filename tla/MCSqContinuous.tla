--------------------------- MODULE MCSqContinuous ---------------------------
(***************************************************************************)
(* Instances of SqContinuous for TLC.                                      *)
(***************************************************************************)
EXTENDS SqContinuous

Symmetry == Permutations(Handler)
=============================================================================
