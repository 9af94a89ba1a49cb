------------------------------- MODULE SqDict -------------------------------
(***************************************************************************)
(* What a table promises to those who use it: a function from keys to      *)
(* values, NoSlot standing for a key without a slot.  How the slots are    *)
(* kept, and when they move, is nobody's business.                         *)
(***************************************************************************)
CONSTANTS Key, Value, NoSlot

VARIABLE dict

Init == dict = [k \in Key |-> NoSlot]

NewSlot(k, v) == dict' = [dict EXCEPT ![k] = v]

Set(k, v) == dict[k] # NoSlot /\ dict' = [dict EXCEPT ![k] = v]

Remove(k) == dict[k] # NoSlot /\ dict' = [dict EXCEPT ![k] = NoSlot]

Clear == dict' = [k \in Key |-> NoSlot]

Next ==
    \/ \E k \in Key, v \in Value : NewSlot(k, v) \/ Set(k, v)
    \/ \E k \in Key : Remove(k)
    \/ Clear

Spec == Init /\ [][Next]_dict
=============================================================================
