------------------------------ MODULE SqCompiler ------------------------------
(* The code generator: SQCompiler (sqcompiler.cpp) turns a function into the   *)
(* instructions SQFuncState (sqfuncstate.cpp) collects, and the optimizer of   *)
(* SQFuncState::AddInstruction merges an instruction with the one before it.   *)
(* The parser is one pass: every production emits code while it reads, so here *)
(* every production is an operator from a function state c to the next one,    *)
(* over an abstract syntax tree in place of the tokens.  A literal stands for  *)
(* its index in the pool of literals.                                          *)
EXTENDS Integers, Sequences, SequencesExt

Unnamed == ""                     \* the name of a temporary stack slot
NoReg == 255                      \* MAX_FUNC_STACKSIZE: no register
Ins(op, a0, a1, a2, a3) == [op |-> op, a0 |-> a0, a1 |-> a1, a2 |-> a2, a3 |-> a3]

(* SQFuncState *)
Fresh(params) == [code |-> <<>>, opt |-> TRUE, returnexp |-> 0, traps |-> 0,
                  locals |-> <<"this">> \o params, targets |-> <<>>,
                  breakTraps |-> <<>>, continueTraps |-> <<>>, breaks |-> <<>>, continues |-> <<>>]

Pos(c) == Len(c.code) - 1
Top(c) == Last(c.targets)
Under(c) == c.targets[Len(c.targets) - 1]
IsLocal(c, r) == r < Len(c.locals) /\ c.locals[r + 1] # Unnamed
Local(c, x) == SelectLastInSeq(c.locals, LAMBDA y : y = x) - 1

PushAt(c, r) == [c EXCEPT !.targets = Append(@, r)]
Push(c) == [PushAt(c, Len(c.locals)) EXCEPT !.locals = Append(@, Unnamed)]
Pop(c) == [c EXCEPT !.targets = Front(@),
                    !.locals = IF c.locals[Top(c) + 1] = Unnamed THEN Front(@) ELSE @]
Declare(c, x) == [c EXCEPT !.locals = Append(@, x)]
Shrink(c, n) == [c EXCEPT !.locals = SubSeq(@, 1, n)]

Emit(c, i) == [c EXCEPT !.code = Append(@, i), !.opt = TRUE]
Snooze(c) == [c EXCEPT !.opt = FALSE]
Merge(c, i) == [c EXCEPT !.code[Len(c.code)] = i]
Retarget(c, at, to) == [c EXCEPT !.code[at + 1].a1 = to - at]

\* The optimizer.  A literal that was just loaded into a temporary moves into
\* the instruction that reads it, the result of an instruction goes where it
\* would be moved to, neighbours become one instruction, a call in a return
\* becomes a tail call.
\* Defect: a literal loaded into a variable is merged away.
LoadsForLocal(c, pi, r) == pi.op = "LOAD" /\ pi.a0 = r

LoadsFor(c, pi, r) == pi.op = "LOAD" /\ pi.a0 = r /\ ~IsLocal(c, r)

Add(c, i) ==
  LET pi == Last(c.code) IN
  IF c.code = <<>> \/ ~c.opt THEN Emit(c, i)
  ELSE CASE /\ i.op = "RETURN" /\ i.a0 # NoReg
            /\ pi.op = "CALL" /\ c.returnexp < Pos(c)
              -> Emit(Merge(c, [pi EXCEPT !.op = "TAILCALL"]), i)
         [] i.op = "GET" /\ LoadsFor(c, pi, i.a2) -> Merge(c, Ins("GETK", i.a0, pi.a1, i.a1, 0))
         [] i.op = "PREPCALL" /\ LoadsFor(c, pi, i.a1)
              -> Merge(c, [i EXCEPT !.op = "PREPCALLK", !.a1 = pi.a1])
         [] i.op = "APPENDARRAY" /\ LoadsFor(c, pi, i.a1)
              -> Merge(c, Ins("APPENDARRAY", i.a0, pi.a1, NoReg, NoReg))
         [] i.op \in {"EQ", "NE"} /\ LoadsFor(c, pi, i.a1)
              -> Merge(c, Ins(i.op, i.a0, pi.a1, i.a2, NoReg))
         [] i.op = "MOVE" /\ pi.op \in {"GET", "ARITH"} /\ pi.a0 = i.a1
              -> Snooze(Merge(c, [pi EXCEPT !.a0 = i.a0]))
         [] i.op = "MOVE" /\ pi.op = "MOVE" -> Merge(c, Ins("DMOVE", pi.a0, pi.a1, i.a0, i.a1))
         [] i.op = "LOAD" /\ pi.op = "LOAD" -> Merge(c, Ins("DLOAD", pi.a0, pi.a1, i.a0, i.a1))
         [] i.op = "LOADNULLS" /\ pi.op = "LOADNULLS" /\ pi.a0 + pi.a1 = i.a0
              -> Merge(c, [pi EXCEPT !.a1 = @ + 1])
         [] OTHER -> Emit(c, i)

\* An instruction whose target is a new temporary, after the operands were popped.
AddPush(c, op, a1, a2, a3) == LET d == Push(c) IN Add(d, Ins(op, Top(d), a1, a2, a3))
AddPop(c, op, a1) == Add(Pop(c), Ins(op, Top(c), a1, 0, 0))

\* Emit2ArgsOP, EmitDerefOp, EmitCompoundArith.
Emit2Args(c, op, a3) == AddPush(Pop(Pop(c)), op, Under(c), Top(c), a3)
EmitDeref(c, op) ==
  LET d == Pop(c) IN AddPush(Pop(Pop(d)), op, Under(d), Top(d), Top(c))
EmitCompound(c, operator) ==
  LET d == Pop(c) IN AddPush(Pop(Pop(d)), "COMPARITH", <<Under(d), Top(c)>>, Top(d), operator)

\* The value on top goes to the register below it, if it is not there yet.
MoveInto(c, r) == LET d == Pop(c) IN IF Top(c) # r THEN Add(d, Ins("MOVE", r, Top(c), 0, 0)) ELSE d
MoveIfLocal(c) == IF IsLocal(c, Top(c)) THEN AddPush(Pop(c), "MOVE", Top(c), 0, 0) ELSE c

\* A slot of this: the object, and the name in a temporary.
Slot(c, name) == AddPush(PushAt(c, 0), "LOAD", <<"str", name>>, 0, 0)

\* Every production: Gen(c, t) is the state after the tree t was read.
RECURSIVE Gen(_, _), LocalDecl(_, _), Elements(_, _)

\* EXP && EXP, EXP || EXP
Logical(c, op, l, r) ==
  LET c1 == Gen(c, l)
      first == Top(c1)
      c2 == Push(Pop(c1))
      trg == Top(c2)
      c3 == Add(c2, Ins(op, trg, 0, first, 0))
      c4 == IF trg # first THEN Add(c3, Ins("MOVE", trg, first, 0, 0)) ELSE c3
      c5 == Snooze(MoveInto(Snooze(Gen(c4, r)), trg))
  IN  Retarget(c5, Pos(c3), Pos(c5))

\* EXP ? EXP : EXP
Conditional(c, e, l, r) ==
  LET c1 == Push(AddPop(Gen(c, e), "JZ", 0))
      trg == Top(c1)
      c2 == MoveInto(Gen(c1, l), trg)
      c3 == Add(c2, Ins("JMP", 0, 0, 0, 0))
      c4 == MoveInto(Gen(c3, r), trg)
  IN  Snooze(Retarget(Retarget(c4, Pos(c3), Pos(c4)), Pos(c1), Pos(c2) + 1))

\* FunctionCallArgs; the closure and this were pushed before.
Arguments(c, e) ==
  LET d == Pop(MoveIfLocal(Gen(c, e)))
  IN  AddPush(Pop(Pop(d)), "CALL", Under(d), Top(d), 2)

\* A literal, an array, an expression in parentheses.
Factor(c, e) ==
  CASE e[1] = "int"  -> AddPush(c, "LOADINT", e[2], 0, 0)
    [] e[1] = "bool" -> AddPush(c, "LOADBOOL", e[2], 0, 0)
    [] e[1] = "str"  -> AddPush(c, "LOAD", e, 0, 0)
    [] e[1] = "null" -> AddPush(c, "LOADNULLS", 1, 0, 0)
    [] e[1] = "array" -> Elements(AddPush(c, "NEWARRAY", Len(e[2]), 0, 0), e[2])
    [] e[1] = "comma" -> Gen(Pop(Gen(c, e[2])), e[3])

\* A variable, a slot of this, an index, a call.
Prefixed(c, e) ==
  CASE e[1] = "var"  -> PushAt(c, Local(c, e[2]))
    [] e[1] = "slot" -> Emit2Args(Slot(c, e[2]), "GET", 0)
    [] e[1] = "index" -> Emit2Args(Gen(PushAt(c, 0), e[2]), "GET", 0)
    [] e[1] = "post" -> AddPush(c, "PINCL", Local(c, e[2]), 0, 1)
    [] e[1] = "postslot" -> Emit2Args(Slot(c, e[2]), "PINC", 1)
    [] e[1] = "call" ->                              \* a function in a slot of this
         LET d == Slot(c, e[2])
             f == Push(Push(Pop(Pop(d))))
         IN  Arguments(Add(f, Ins("PREPCALL", Under(f), Top(d), Under(d), Top(f))), e[3])
    [] e[1] = "calllocal" ->                         \* a function in a local
         Arguments(AddPush(PushAt(c, Local(c, e[2])), "MOVE", 0, 0, 0), e[3])

PrefixIncDec(c, e) ==
  IF e[1] = "pre" THEN AddPush(c, "INCL", Local(c, e[2]), 0, 1)
  ELSE Emit2Args(Slot(c, e[2]), "INC", 1)

UnaryOP(c, e) == LET d == Gen(c, e[2]) IN AddPush(Pop(d), "NOT", Top(d), 0, 0)

BinExp(c, e) ==                                      \* the right operand comes first
  LET d == Gen(Gen(c, e[3]), e[4]) IN AddPush(Pop(Pop(d)), e[1], Top(d), Under(d), e[2])

Assignment(c, e) ==
  CASE e[1] = "set"  -> LET d == Gen(PushAt(c, Local(c, e[2])), e[3])
                        IN  Add(Pop(d), Ins("MOVE", Under(d), Top(d), 0, 0))
    [] e[1] = "add"  -> Emit2Args(Gen(PushAt(c, Local(c, e[2])), e[3]), "COMPARITHL", "+")
    [] e[1] = "setslot" -> EmitDeref(Gen(Slot(c, e[2]), e[3]), "SET")
    [] e[1] = "addslot" -> EmitCompound(Gen(Slot(c, e[2]), e[3]), "+")

Expression(c, e) ==
  CASE e[1] \in {"int", "bool", "str", "null", "array", "comma"} -> Factor(c, e)
    [] e[1] \in {"var", "slot", "index", "post", "postslot", "call", "calllocal"} -> Prefixed(c, e)
    [] e[1] \in {"pre", "preslot"} -> PrefixIncDec(c, e)
    [] e[1] = "not" -> UnaryOP(c, e)
    [] e[1] \in {"ARITH", "CMP", "EQ", "NE"} -> BinExp(c, e)
    [] e[1] \in {"AND", "OR"} -> Logical(c, e[1], e[2], e[3])
    [] e[1] = "cond" -> Conditional(c, e[2], e[3], e[4])
    [] e[1] \in {"set", "add", "setslot", "addslot"} -> Assignment(c, e)

Elements(c, es) ==
  IF es = <<>> THEN c
  ELSE LET d == Gen(c, Head(es))
           p == Pop(d)
       IN  Elements(Add(p, Ins("APPENDARRAY", Top(p), Top(d), 0, 0)), Tail(es))

LocalDecl(c, ds) ==          \* local x = EXP, y = EXP ...
  IF ds = <<>> THEN c
  ELSE LET d == Gen(c, Head(ds)[2])
           p == Push(Pop(d))
           n == IF Top(p) # Top(d) THEN Add(p, Ins("MOVE", Top(p), Top(d), 0, 0)) ELSE p
       IN  LocalDecl(Declare(Pop(n), Head(ds)[1]), Tail(ds))

(* Statements *)
PopTraps(c, n) == IF n > 0 THEN Add(c, Ins("POPTRAP", n, 0, 0, 0)) ELSE c
Jump(c) == Add(c, Ins("JMP", 0, 0, 0, 0))

JumpBack(c, to) == Add(c, Ins("JMP", 0, to - Pos(c) - 1, 0, 0))

\* Which element of a stack of trap counts the innermost try adds to.
Deeper(ts, n) == IF ts = <<>> THEN ts ELSE [ts EXCEPT ![Len(ts)] = @ + n]
\* Defect: only loops count the traps, returns do not.
InTryLoops(c, n) == [c EXCEPT !.breakTraps = Deeper(@, n), !.continueTraps = Deeper(@, n)]

InTry(c, n) == [c EXCEPT !.traps = @ + n, !.breakTraps = Deeper(@, n), !.continueTraps = Deeper(@, n)]

BeginSwitch(c) == [c EXCEPT !.breakTraps = Append(@, 0)]
BeginLoop(c) == [BeginSwitch(c) EXCEPT !.continueTraps = Append(@, 0)]

\* Jumps collected since the block began (b is its state then) get their target.
Resolve(c, ats, to) ==
  [c EXCEPT !.code = [k \in DOMAIN @ |->
     IF \E j \in DOMAIN ats : ats[j] = k - 1 THEN [@[k] EXCEPT !.a1 = to - (k - 1)] ELSE @[k]]]
Since(before, after) == SubSeq(after, Len(before) + 1, Len(after))

ResolveBreaks(c, b) ==
  [Resolve(c, Since(b.breaks, c.breaks), Pos(c)) EXCEPT !.breaks = b.breaks, !.breakTraps = Front(@)]
ResolveContinues(c, b, to) ==
  [Resolve(c, Since(b.continues, c.continues), to) EXCEPT !.continues = b.continues, !.continueTraps = Front(@)]
\* Defect: continue jumps to where the loop began.
EndLoopEarly(c, b, to) == ResolveBreaks(ResolveContinues(c, b, Pos(b)), b)

EndLoop(c, b, to) == ResolveBreaks(ResolveContinues(c, b, to), b)

RECURSIVE AddAll(_, _), Statements(_, _), Cases(_, _, _, _, _)
AddAll(c, is) == IF is = <<>> THEN c ELSE AddAll(Add(c, Head(is)), Tail(is))

ReturnStatement(c, s) ==
  IF Len(s) = 1 THEN Add([PopTraps(c, c.traps) EXCEPT !.returnexp = -1], Ins("RETURN", NoReg, 0, 0, 0))
  ELSE LET d == PopTraps(Gen(c, s[2]), c.traps)
       IN  Add([Pop(d) EXCEPT !.returnexp = Pos(c) + 1], Ins("RETURN", 1, Top(d), 0, 0))

IfStatement(c, s) ==
  LET c1 == AddPop(Gen(c, s[2]), "JZ", 0)
      c2 == Shrink(Gen(c1, s[3]), Len(c1.locals))
      c3 == Jump(c2)
      c4 == Shrink(Gen(c3, s[4]), Len(c3.locals))
  IN  IF Len(s) = 3 THEN Retarget(c2, Pos(c1), Pos(c2))
      ELSE Retarget(Retarget(c4, Pos(c3), Pos(c4)), Pos(c1), Pos(c2) + 1)

WhileStatement(c, s) ==
  LET c1 == AddPop(BeginLoop(Gen(c, s[2])), "JZ", 0)
      c2 == JumpBack(Shrink(Gen(c1, s[3]), Len(c1.locals)), Pos(c))
  IN  EndLoop(Retarget(c2, Pos(c1), Pos(c2)), c, Pos(c))

DoWhileStatement(c, s) ==
  LET c1 == Shrink(Gen(BeginLoop(c), s[2]), Len(c.locals))
      c2 == Gen(c1, s[3])
      c3 == AddPop(c2, "JNZ", Pos(c) - Pos(c2) - 1)
  IN  EndLoop(c3, c, Pos(c1))

\* The increment is compiled before the body and moved behind it; a condition
\* whose jump is the first instruction of the function is not patched.
ForStatement(c, s) ==
  LET start == IF s[2] = <<>> THEN c
               ELSE IF s[2][1] = "local" THEN LocalDecl(c, s[2][2]) ELSE Pop(Gen(c, s[2]))
      c1 == Snooze(start)
      c2 == IF s[3] = <<>> THEN c1 ELSE AddPop(Gen(c1, s[3]), "JZ", 0)
      jz == IF s[3] = <<>> THEN -1 ELSE Pos(c2)
      c3 == Snooze(IF s[4] = <<>> THEN c2 ELSE Pop(Gen(Snooze(c2), s[4])))
      inc == Since(c2.code, c3.code)
      c4 == Gen(BeginLoop([c3 EXCEPT !.code = c2.code]), s[5])
      c5 == JumpBack(AddAll(c4, inc), Pos(c1))
      c6 == IF jz > 0 THEN Retarget(c5, jz, Pos(c5)) ELSE c5
  IN  EndLoop(Shrink(c6, Len(c.locals)), c, Pos(c4))

ForEachStatement(c, s) ==
  LET c1 == Gen(c, s[4])
      index == Len(c1.locals)
      NullLocal(d, x) == Add(Declare(d, x), Ins("LOADNULLS", Len(d.locals), 1, 0, 0))
      c2 == NullLocal(NullLocal(NullLocal(c1, s[2]), s[3]), "@ITERATOR@")
      c3 == Add(c2, Ins("FOREACH", Top(c1), 0, index, 0))
      c4 == Add(c3, Ins("POSTFOREACH", Top(c1), 0, index, 0))
      c5 == JumpBack(Gen(BeginLoop(c4), s[5]), Pos(c2))
      c6 == Retarget(c5, Pos(c3), Pos(c5))
      c7 == [c6 EXCEPT !.code[Pos(c4) + 1].a1 = Pos(c5) - Pos(c3)]
  IN  EndLoop(Shrink(c7, Len(c.locals)), c, Pos(c2))

\* cs: the cases that are left; next: the jump of the case before, -1 at the first.
\* A body of a case that does not break falls into the body of the next one.
Cases(c, cs, expr, next, skip) ==
  IF cs = <<>> THEN IF next = -1 THEN c ELSE Retarget(c, next, Pos(c))
  ELSE LET c1 == IF next = -1 THEN c ELSE LET j == Jump(c) IN Retarget(j, next, Pos(j))
           over == IF next = -1 THEN skip ELSE Pos(c1)
           c2 == Gen(c1, Head(cs)[1])
           trg == Top(c2)
           c3 == Add(Add(Pop(c2), Ins("EQ", trg, trg, expr, 0)), Ins("JZ", trg, 0, 0, 0))
           c4 == IF over # -1 THEN Retarget(c3, over, Pos(c3)) ELSE c3
       IN  Cases(Shrink(Statements(c4, Head(cs)[2]), Len(c4.locals)), Tail(cs), expr, Pos(c4), over)

SwitchStatement(c, s) ==
  LET c1 == Gen(c, s[2])
      c2 == Cases(BeginSwitch(c1), s[3], Top(c1), -1, -1)
      c3 == Shrink(Statements(c2, s[4]), Len(c2.locals))
  IN  ResolveBreaks(Pop(c3), c)

TryCatchStatement(c, s) ==
  LET c1 == InTry(Add(c, Ins("PUSHTRAP", 0, 0, 0, 0)), 1)
      c2 == InTry(Gen(c1, s[2]), -1)
      c3 == Jump(Add(c2, Ins("POPTRAP", 1, 0, 0, 0)))
      c4 == [Retarget(c3, Pos(c1), Pos(c3)) EXCEPT !.code[Pos(c1) + 1].a0 = Len(c3.locals)]
      c5 == Gen(Declare(c4, s[3]), s[4])
  IN  Shrink(Retarget(c5, Pos(c3), Pos(c5)), Len(c3.locals))

Statement(c, s) == Snooze(
  CASE s[1] = "exp" -> Pop(Gen(c, s[2]))
    [] s[1] = "local" -> LocalDecl(c, s[2])
    [] s[1] = "block" -> Shrink(Statements(c, s[2]), Len(c.locals))
    [] s[1] = "if" -> IfStatement(c, s)
    [] s[1] = "while" -> WhileStatement(c, s)
    [] s[1] = "dowhile" -> DoWhileStatement(c, s)
    [] s[1] = "for" -> ForStatement(c, s)
    [] s[1] = "foreach" -> ForEachStatement(c, s)
    [] s[1] = "switch" -> SwitchStatement(c, s)
    [] s[1] = "try" -> TryCatchStatement(c, s)
    [] s[1] = "throw" -> AddPop(Gen(c, s[2]), "THROW", 0)
    [] s[1] = "return" -> ReturnStatement(c, s)
    [] s[1] = "break" -> LET d == Jump(PopTraps(c, Last(c.breakTraps)))
                         IN  [d EXCEPT !.breaks = Append(@, Pos(d))]
    [] s[1] = "continue" -> LET d == Jump(PopTraps(c, Last(c.continueTraps)))
                            IN  [d EXCEPT !.continues = Append(@, Pos(d))])

StatementKinds == {"exp", "local", "block", "if", "while", "dowhile", "for", "foreach", "switch", "try",
                   "throw", "return", "break", "continue"}
Gen(c, t) == IF t[1] \in StatementKinds THEN Statement(c, t) ELSE Expression(c, t)

Statements(c, ss) == IF ss = <<>> THEN c ELSE Statements(Gen(c, Head(ss)), Tail(ss))

\* CreateFunction: the body is one block, and the function ends in a return.
CreateFunction(params, body) ==
  Add(Gen(Fresh(params), <<"block", body>>), Ins("RETURN", NoReg, 0, 0, 0)).code
================================================================================
