------------------------------- MODULE SqMeaning -------------------------------
(* What a function of the language means, defined on its syntax tree without   *)
(* registers, instructions or jumps: the reference the compiled code is        *)
(* compared with.  A bare local is a place, read when the operator it is an    *)
(* operand of is applied; every other expression is a value.                   *)
EXTENDS SqValues, SequencesExt

\* m.env: the locals in scope, <<name, value>>, the innermost last; m.val: the
\* value or the place of the last expression; m.sig: how the last statement or
\* expression ended.
Place(k) == <<"place", k>>
Read(m, v) == IF v[1] = "place" THEN m.env[v[2]][2] ELSE v
Where(m, x) == SelectLastInSeq(m.env, LAMBDA l : l[1] = x)

Is(m, v) == [m EXCEPT !.val = v]
Signal(m, sig, v) == [m EXCEPT !.sig = sig, !.val = v]
IsOrRaises(m, v) == IF Failed(v) THEN Signal(m, "raised", StrV(v[2])) ELSE Is(m, v)
Write(m, k, v) == [m EXCEPT !.env[k][2] = v]
Leaves(m, n) == [m EXCEPT !.env = SubSeq(@, 1, n)]

Slot(m, key) == IF key[1] = "str" /\ key[2] \in DOMAIN m.slots THEN m.slots[key[2]] ELSE Fail("index")

\* A write of v over old, to a local or to a slot; the expression's value is kept.
Update(m, v, kept, Do(_)) == IF Failed(v) THEN IsOrRaises(m, v) ELSE Is(Do(m), kept)

Call(m, f, v) ==
  IF f[1] # "fun" THEN IsOrRaises(m, Fail("call"))
  ELSE LET d == [m EXCEPT !.out = Append(@, v)]
       IN  IF f[2] = "boom" THEN Signal(d, "raised", v) ELSE Is(d, v)

RECURSIVE Eval(_, _), EvalAll(_, _, _)
EvalAll(m, es, vs) ==        \* the values of es, evaluated in order, as an array
  IF m.sig # "none" THEN m
  ELSE IF es = <<>> THEN Is(m, <<"arr", vs>>)
  ELSE LET d == Eval(m, Head(es)) IN EvalAll(d, Tail(es), Append(vs, IF d.sig = "none" THEN Read(d, d.val) ELSE Null))

\* The expression behind e, then F on its state and value.
Then(m, e, F(_, _)) == LET d == Eval(m, e) IN IF d.sig # "none" THEN d ELSE F(d, Read(d, d.val))

Operator(op, how, v, w) ==
  CASE op = "ARITH" -> Arith(how, v, w)
    [] op = "CMP" -> Cmp(how, v, w)
    [] op = "EQ" -> BoolV(v = w)
    [] op = "NE" -> BoolV(v # w)

Value(m, e) ==
  CASE e[1] \in {"int", "str"} -> Is(m, e)
    [] e[1] = "bool" -> Is(m, e)
    [] e[1] = "null" -> Is(m, Null)
    [] e[1] = "var" -> Is(m, Place(Where(m, e[2])))
    [] e[1] = "slot" -> IsOrRaises(m, Slot(m, StrV(e[2])))
    [] e[1] = "index" -> Then(m, e[2], LAMBDA d, v : IsOrRaises(d, Slot(d, v)))
    [] e[1] = "array" -> EvalAll(m, e[2], <<>>)
    [] e[1] = "comma" -> Then(m, e[2], LAMBDA d, v : Eval(d, e[3]))
    [] e[1] = "not" -> Then(m, e[2], LAMBDA d, v : Is(d, BoolV(IsFalse(v))))
    [] e[1] \in {"ARITH", "CMP", "EQ", "NE"} ->
         LET l == Eval(m, e[3]) IN
         IF l.sig # "none" THEN l
         ELSE Then(l, e[4], LAMBDA d, w : IsOrRaises(d, Operator(e[1], e[2], Read(d, l.val), w)))
    [] e[1] \in {"AND", "OR"} ->
         Then(m, e[2], LAMBDA d, v : IF IsFalse(v) = (e[1] = "AND") THEN Is(d, v)
                                     ELSE Then(d, e[3], Is))
    [] e[1] = "cond" -> Then(m, e[2], LAMBDA d, v : Then(d, IF IsFalse(v) THEN e[4] ELSE e[3], Is))
    [] e[1] = "set" ->
         Then(m, e[3], LAMBDA d, v : Is(Write(d, Where(d, e[2]), v), Place(Where(d, e[2]))))
    [] e[1] \in {"add", "pre", "post"} ->
         LET k == Where(m, e[2])
             By(d, w) == LET old == d.env[k][2]
                             v == Arith("+", old, w)
                         IN  Update(d, v, IF e[1] = "post" THEN old ELSE v, LAMBDA t : Write(t, k, v))
         IN  IF e[1] = "add" THEN Then(m, e[3], By) ELSE By(m, IntV(1))
    [] e[1] = "setslot" ->
         Then(m, e[3], LAMBDA d, v : Update(d, IF e[2] \in DOMAIN d.slots THEN v ELSE Fail("index"), v,
                                            LAMBDA t : [t EXCEPT !.slots[e[2]] = v]))
    [] e[1] \in {"addslot", "preslot", "postslot"} ->
         LET By(d, w) == LET old == Slot(d, StrV(e[2]))
                             v == IF Failed(old) THEN old ELSE Arith("+", old, w)
                         IN  Update(d, v, IF e[1] = "postslot" THEN old ELSE v,
                                    LAMBDA t : [t EXCEPT !.slots[e[2]] = v])
         IN  IF e[1] = "addslot" THEN Then(m, e[3], By) ELSE By(m, IntV(1))
    [] e[1] = "call" ->
         LET f == Slot(m, StrV(e[2])) IN
         IF Failed(f) THEN IsOrRaises(m, f) ELSE Then(m, e[3], LAMBDA d, v : Call(d, f, v))
    [] e[1] = "calllocal" ->
         Then(m, e[3], LAMBDA d, v : Call(d, d.env[Where(m, e[2])][2], v))

RECURSIVE RunAll(_, _), Loop(_, _, _, _), Each(_, _, _, _), Choose(_, _, _, _), Locals(_, _)

\* A signal a loop or a switch takes for itself; anything else goes through.
Takes(m, sigs) == IF m.sig \in sigs THEN Signal(m, "none", Null) ELSE m

\* Repeat the body, then the increment, while the condition holds.
Loop(m, e, inc, body) ==
  LET test == IF e = <<>> THEN Is(m, IntV(1)) ELSE Then(m, e, Is)
      b == Takes(Leaves(Eval(test, body), Len(m.env)), {"continue"})
      next == IF b.sig # "none" \/ inc = <<>> THEN b ELSE Eval(b, inc)
  IN  IF test.sig # "none" \/ IsFalse(test.val) THEN test
      ELSE IF next.sig # "none" THEN next ELSE Loop(next, e, inc, body)

\* The elements of the array at place or value a from the k-th on.
Each(m, a, k, s) ==
  LET v == Read(m, a)
      n == Len(m.env)
      b == Takes(Leaves(Eval([m EXCEPT !.env = @ \o <<<<s[2], IntV(k - 1)>>, <<s[3], v[2][k]>>>>], s[5]), n), {"continue"})
  IN  IF v[1] # "arr" THEN IsOrRaises(m, Fail("iterate"))
      ELSE IF k > Len(v[2]) THEN m
      ELSE IF b.sig # "none" THEN b ELSE Each(b, a, k + 1, s)

\* The first case that equals the value at a, and every body from there on.
Choose(m, a, cs, default) ==
  IF cs = <<>> THEN RunAll(m, default)
  ELSE LET t == Eval(m, Head(cs)[1])
       IN  IF t.sig # "none" THEN t
           ELSE IF Read(t, t.val) # Read(t, a) THEN Choose(t, a, Tail(cs), default)
           ELSE RunAll(t, [j \in DOMAIN cs |-> <<"block", cs[j][2]>>] \o default)

Locals(m, ds) ==
  IF ds = <<>> THEN m
  ELSE Then(m, Head(ds)[2], LAMBDA d, v : Locals([d EXCEPT !.env = Append(@, <<Head(ds)[1], v>>)], Tail(ds)))

RunAll(m, ss) == IF m.sig # "none" \/ ss = <<>> THEN m ELSE RunAll(Eval(m, Head(ss)), Tail(ss))

Effect(m, s) ==
  LET n == Len(m.env) IN
  CASE s[1] = "exp" -> Eval(m, s[2])
    [] s[1] = "local" -> Locals(m, s[2])
    [] s[1] = "block" -> Leaves(RunAll(m, s[2]), n)
    [] s[1] = "if" ->
         Then(m, s[2], LAMBDA d, v : IF ~IsFalse(v) THEN Leaves(Eval(d, s[3]), n)
                                     ELSE IF Len(s) = 4 THEN Leaves(Eval(d, s[4]), n) ELSE d)
    [] s[1] = "while" -> Takes(Loop(m, s[2], <<>>, s[3]), {"break"})
    [] s[1] = "dowhile" ->
         LET b == Takes(Leaves(Eval(m, s[2]), n), {"continue"})
         IN  Takes(IF b.sig # "none" THEN b ELSE Loop(b, s[3], <<>>, s[2]), {"break"})
    [] s[1] = "for" ->
         LET d == IF s[2] = <<>> THEN m ELSE IF s[2][1] = "local" THEN Locals(m, s[2][2]) ELSE Eval(m, s[2])
         IN  Leaves(IF d.sig # "none" THEN d ELSE Takes(Loop(d, s[3], s[4], s[5]), {"break"}), n)
    [] s[1] = "foreach" ->
         LET d == Eval(m, s[4]) IN IF d.sig # "none" THEN d ELSE Takes(Each(d, d.val, 1, s), {"break"})
    [] s[1] = "switch" ->
         LET d == Eval(m, s[2])
         IN  IF d.sig # "none" THEN d
             ELSE Takes(Leaves(Choose(d, d.val, s[3], <<<<"block", s[4]>>>>), n), {"break"})
    [] s[1] = "try" ->
         LET d == Leaves(Eval(m, s[2]), n)
         IN  IF d.sig # "raised" THEN d
             ELSE Leaves(Eval([d EXCEPT !.sig = "none", !.env = Append(@, <<s[3], d.val>>)], s[4]), n)
    [] s[1] = "throw" -> Then(m, s[2], LAMBDA d, v : Signal(d, "raised", v))
    [] s[1] = "return" -> IF Len(s) = 1 THEN Signal(m, "return", Null)
                          ELSE Then(m, s[2], LAMBDA d, v : Signal(d, "return", v))
    [] s[1] \in {"break", "continue"} -> Signal(m, s[1], Null)

StatementKinds == {"exp", "local", "block", "if", "while", "dowhile", "for", "foreach", "switch", "try",
                   "throw", "return", "break", "continue"}
Eval(m, t) == IF t[1] \in StatementKinds THEN Effect(m, t) ELSE Value(m, t)

\* How the function ends, with what, and what it leaves in the slots and printed.
Meaning(p, slots) ==
  LET env == <<<<"this", <<"this", 0>>>>>> \o [k \in DOMAIN p.params |-> <<p.params[k], p.args[k]>>]
      m == RunAll([env |-> env, slots |-> slots, out |-> <<>>, sig |-> "none", val |-> Null], p.body)
  IN  [how |-> IF m.sig = "raised" THEN "raised" ELSE "returned",
       result |-> IF m.sig = "none" THEN Null ELSE m.val, slots |-> m.slots, out |-> m.out]
================================================================================
