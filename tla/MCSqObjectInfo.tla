--------------------------- MODULE MCSqObjectInfo ---------------------------
(* Instances of SqObjectInfo for TLC. *)
EXTENDS SqObjectInfo

MCKeyOrder == << IntV(1), <<"string", 1>> >>
InfoSymmetry == Permutations(Info)
=============================================================================
