------------------------------- MODULE MCSqVM -------------------------------
(***************************************************************************)
(* Instances of SqVM for TLC.  MaxTop limits how much a suspended VM's     *)
(* stack may grow by calls from the host, which leave their arguments.     *)
(***************************************************************************)
EXTENDS SqVM, TLC
=============================================================================
