------------------------------- MODULE SqValues -------------------------------
(* The operators of the language on plain values (sqvm.cpp).  A value is a     *)
(* pair of its type and its content; an operator that raises an error returns  *)
(* a failure, which carries the message in place of a content.                 *)
EXTENDS Integers, Sequences, TLC

IntV(n) == <<"int", n>>
StrV(s) == <<"str", s>>
BoolV(b) == <<"bool", IF b THEN 1 ELSE 0>>
Null == <<"null", 0>>
Fail(message) == <<"fail", message>>
Failed(v) == v[1] = "fail"

IsFalse(v) == v[1] \in {"null", "int", "bool"} /\ v[2] = 0

\* C's division truncates towards zero and its remainder has the dividend's sign.
Abs(n) == IF n < 0 THEN -n ELSE n
Quotient(a, b) == IF (a < 0) = (b < 0) THEN Abs(a) \div Abs(b) ELSE -(Abs(a) \div Abs(b))

ConvertToString(v) ==
  CASE v[1] = "str" -> v[2]
    [] v[1] = "int" -> ToString(v[2])
    [] v[1] = "bool" -> IF v[2] = 1 THEN "true" ELSE "false"
    [] OTHER -> "(" \o v[1] \o ")"

Arith(op, v, w) ==
  IF v[1] = "int" /\ w[1] = "int"
  THEN CASE op = "+" -> IntV(v[2] + w[2])
         [] op = "-" -> IntV(v[2] - w[2])
         [] op = "*" -> IntV(v[2] * w[2])
         [] w[2] = 0 -> Fail("by zero")
         [] op = "/" -> IntV(Quotient(v[2], w[2]))
         [] op = "%" -> IntV(v[2] - w[2] * Quotient(v[2], w[2]))
  ELSE IF op = "+" /\ "str" \in {v[1], w[1]} THEN StrV(ConvertToString(v) \o ConvertToString(w))
  ELSE Fail("arith")

\* Only what has an order here: integers, and null before everything else.
Compare(v, w) ==
  CASE v[1] = "int" /\ w[1] = "int" -> IntV(v[2] - w[2])
    [] v = w -> IntV(0)
    [] v[1] = "null" -> IntV(-1)
    [] w[1] = "null" -> IntV(1)
    [] OTHER -> Fail("compare")

Cmp(op, v, w) ==
  LET r == Compare(v, w)
  IN  IF Failed(r) THEN r
      ELSE CASE op = ">" -> BoolV(r[2] > 0)
             [] op = ">=" -> BoolV(r[2] >= 0)
             [] op = "<" -> BoolV(r[2] < 0)
             [] op = "<=" -> BoolV(r[2] <= 0)
================================================================================
