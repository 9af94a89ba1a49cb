------------------------------ MODULE MCSqHeap ------------------------------
(***************************************************************************)
(* Instances of SqHeap for TLC.                                            *)
(***************************************************************************)
EXTENDS SqHeap, TLC
=============================================================================
