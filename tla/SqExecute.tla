------------------------------- MODULE SqExecute -------------------------------
(* SQVM::Execute running one compiled function, an instruction at a time: its  *)
(* registers, the slots of its this, its exception traps, and the output of    *)
(* the functions it calls.  Those are scripts: they print their argument and   *)
(* return or throw it, and leave nothing of the registers from their own       *)
(* stack base on.                                                              *)
EXTENDS SqCompiler, SqValues

CONSTANTS Programs,     \* the functions, as Compiled makes them
          Slots0,       \* the slots of this at the start: names to values
          MaxRegs,      \* bound: the registers that are modelled
          MaxCalls      \* bound: the calls a function makes

VARIABLES prog, ip, stk, traps, slots, out, status, result
vars == <<prog, ip, stk, traps, slots, out, status, result>>

Regs == 0 .. MaxRegs - 1
Junk == <<"junk", 0>>

\* A function on its arguments, with the code the compiler makes of it and with
\* its meaning.
M == INSTANCE SqMeaning
Compiled(p) == [code |-> CreateFunction(p.params, p.body), args |-> p.args, meaning |-> M!Meaning(p, Slots0)]

Init ==
  /\ prog \in Programs
  /\ ip = 0
  /\ stk = [r \in Regs |-> IF r = 0 THEN <<"this", 0>>
                           ELSE IF r <= Len(prog.args) THEN prog.args[r] ELSE Junk]
  /\ traps = <<>> /\ slots = Slots0 /\ out = <<>>
  /\ status = "running" /\ result = Null

I == prog.code[ip + 1]
Fetch(ops) == status = "running" /\ I.op \in ops

\* COND_LITERAL: the operand is a literal when arg3 is set, a register otherwise.
Operand1 == IF I.a3 # 0 THEN I.a1 ELSE stk[I.a1]

Get(key) == IF key[1] = "str" /\ key[2] \in DOMAIN slots THEN slots[key[2]] ELSE Fail("index")

Leave(how, v) == status' = how /\ result' = v

Store(r, v) ==
  /\ stk' = [stk EXCEPT ![r] = v]
  /\ ip' = ip + 1
  /\ UNCHANGED <<prog, traps, slots, out, status, result>>

\* exception_trap: the innermost trap of the function, or the end of it.
Throw(regs, v) ==
  /\ UNCHANGED <<prog, slots>>
  /\ IF traps = <<>>
     THEN Leave("raised", v) /\ UNCHANGED <<ip, stk, traps>>
     ELSE /\ ip' = Last(traps).ip
          /\ stk' = [regs EXCEPT ![Last(traps).target] = v]
          /\ traps' = Front(traps)
          /\ UNCHANGED <<status, result>>

Raise(v) == Throw(stk, StrV(v[2])) /\ UNCHANGED out
StoreOrRaise(r, v) == IF Failed(v) THEN Raise(v) ELSE Store(r, v)

Load ==
  \/ Fetch({"LOAD"}) /\ Store(I.a0, I.a1)
  \/ Fetch({"LOADINT"}) /\ Store(I.a0, IntV(I.a1))
  \/ Fetch({"LOADBOOL"}) /\ Store(I.a0, BoolV(I.a1 # 0))
  \/ Fetch({"MOVE"}) /\ Store(I.a0, stk[I.a1])
  \/ Fetch({"NOT"}) /\ Store(I.a0, BoolV(IsFalse(stk[I.a1])))

MakeArray ==
  \/ Fetch({"NEWARRAY"}) /\ Store(I.a0, <<"arr", <<>>>>)
  \/ Fetch({"APPENDARRAY"}) /\ Store(I.a0, <<"arr", Append(stk[I.a0][2], Operand1)>>)

Operate ==
  \/ Fetch({"EQ"}) /\ Store(I.a0, BoolV(stk[I.a2] = Operand1))
  \/ Fetch({"NE"}) /\ Store(I.a0, BoolV(stk[I.a2] # Operand1))
  \/ Fetch({"ARITH"}) /\ StoreOrRaise(I.a0, Arith(I.a3, stk[I.a2], stk[I.a1]))
  \/ Fetch({"CMP"}) /\ StoreOrRaise(I.a0, Cmp(I.a3, stk[I.a2], stk[I.a1]))

GetSlot ==
  \/ Fetch({"GET"}) /\ StoreOrRaise(I.a0, Get(stk[I.a2]))
  \/ Fetch({"GETK"}) /\ StoreOrRaise(I.a0, Get(I.a1))

Registers(s) == /\ stk' = s /\ ip' = ip + 1
                /\ UNCHANGED <<prog, traps, slots, out, status, result>>

LoadTwo ==
  \/ Fetch({"DLOAD"}) /\ Registers([stk EXCEPT ![I.a0] = I.a1, ![I.a2] = I.a3])
  \/ /\ Fetch({"DMOVE"})
     /\ LET s == [stk EXCEPT ![I.a0] = stk[I.a1]] IN Registers([s EXCEPT ![I.a2] = s[I.a3]])
  \/ Fetch({"LOADNULLS"}) /\ Registers([r \in Regs |-> IF r \in I.a0 .. I.a0 + I.a1 - 1 THEN Null ELSE stk[r]])

\* LOCAL_INC and PLOCAL_INC: the target gets the new or the old value.
IncrementLocal ==
  /\ Fetch({"INCL", "PINCL", "COMPARITHL"})
  /\ LET v == Arith("+", stk[I.a1], IF I.op = "COMPARITHL" THEN stk[I.a2] ELSE IntV(I.a3))
         kept == IF I.op = "PINCL" THEN stk[I.a1] ELSE v
     IN  IF Failed(v) THEN Raise(v) ELSE Registers([stk EXCEPT ![I.a0] = kept, ![I.a1] = v])

\* SET, and DerefInc with its read of the slot; keeps: what the target gets.
WriteSlot(key, v, keeps) ==
  IF Failed(v) THEN Raise(v)
  ELSE /\ slots' = [slots EXCEPT ![key[2]] = v]
       /\ stk' = [stk EXCEPT ![I.a0] = keeps]
       /\ ip' = ip + 1
       /\ UNCHANGED <<prog, traps, out, status, result>>

SetSlot ==
  /\ Fetch({"SET"})
  /\ LET key == stk[I.a2]
         v == IF Failed(Get(key)) THEN Get(key) ELSE stk[I.a3]
     IN  WriteSlot(key, v, v)

IncrementSlot ==
  /\ Fetch({"INC", "PINC", "COMPARITH"})
  /\ LET old == Get(stk[I.a2])
         v == IF Failed(old) THEN old
              ELSE Arith("+", old, IF I.op = "COMPARITH" THEN stk[I.a1[2]] ELSE IntV(I.a3))
     IN  WriteSlot(stk[I.a2], v, IF I.op = "PINC" THEN old ELSE v)

PrepCall ==
  /\ Fetch({"PREPCALL", "PREPCALLK"})
  /\ LET f == Get(IF I.op = "PREPCALLK" THEN I.a1 ELSE stk[I.a1])
     IN  IF Failed(f) THEN Raise(f) ELSE Registers([stk EXCEPT ![I.a3] = stk[I.a2], ![I.a0] = f])

\* What a call leaves: nothing from the callee's stack base on.
Cleared == [r \in Regs |-> IF r >= I.a2 THEN Junk ELSE stk[r]]

Call ==
  /\ Fetch({"CALL", "TAILCALL"}) /\ Len(out) < MaxCalls
  /\ LET f == stk[I.a1]
         arg == stk[I.a2 + 1]
     IN  IF f[1] # "fun" THEN Raise(Fail("call"))
         ELSE /\ out' = Append(out, arg)
              /\ CASE f[2] = "boom" -> Throw(Cleared, arg)
                   [] f[2] # "boom" /\ I.op = "TAILCALL" ->
                        Leave("returned", arg) /\ UNCHANGED <<prog, ip, stk, traps, slots>>
                   [] OTHER -> /\ stk' = [Cleared EXCEPT ![I.a0] = arg]
                               /\ ip' = ip + 1
                               /\ UNCHANGED <<prog, traps, slots, status, result>>

Goto(to) == ip' = to /\ UNCHANGED <<prog, stk, traps, slots, out, status, result>>

Jumps ==
  \/ Fetch({"JMP"}) /\ Goto(ip + 1 + I.a1)
  \/ Fetch({"JZ"}) /\ Goto(IF IsFalse(stk[I.a0]) THEN ip + 1 + I.a1 ELSE ip + 1)
  \/ Fetch({"JNZ"}) /\ Goto(IF IsFalse(stk[I.a0]) THEN ip + 1 ELSE ip + 1 + I.a1)

\* The first operand decides: it is the value, or the second one is evaluated.
ShortCircuit ==
  /\ Fetch({"AND", "OR"})
  /\ IF IsFalse(stk[I.a2]) = (I.op = "AND")
     THEN /\ stk' = [stk EXCEPT ![I.a0] = stk[I.a2]]
          /\ ip' = ip + 1 + I.a1
          /\ UNCHANGED <<prog, traps, slots, out, status, result>>
     ELSE Goto(ip + 1)

\* FOREACH_OP over an array: key, value and iterator are three registers in a
\* row; a step skips the POSTFOREACH behind it, which is for generators, and
\* the end clears what lies above the three.
NextElement ==
  /\ Fetch({"FOREACH"})
  /\ LET a == stk[I.a0]
         k == IF stk[I.a2 + 2] = Null THEN 0 ELSE stk[I.a2 + 2][2]
     IN  IF a[1] # "arr" THEN Raise(Fail("iterate"))
         ELSE IF k < Len(a[2])
         THEN /\ stk' = [stk EXCEPT ![I.a2] = IntV(k), ![I.a2 + 1] = a[2][k + 1], ![I.a2 + 2] = IntV(k + 1)]
              /\ ip' = ip + 2
              /\ UNCHANGED <<prog, traps, slots, out, status, result>>
         ELSE /\ stk' = [r \in Regs |-> IF r > I.a2 + 2 THEN Null ELSE stk[r]]
              /\ ip' = ip + 1 + I.a1
              /\ UNCHANGED <<prog, traps, slots, out, status, result>>

Trap ==
  /\ Fetch({"PUSHTRAP", "POPTRAP"})
  /\ traps' = IF I.op = "PUSHTRAP" THEN Append(traps, [ip |-> ip + 1 + I.a1, target |-> I.a0])
              ELSE SubSeq(traps, 1, Len(traps) - I.a0)
  /\ ip' = ip + 1
  /\ UNCHANGED <<prog, stk, slots, out, status, result>>

ThrowValue == Fetch({"THROW"}) /\ Throw(stk, stk[I.a0]) /\ UNCHANGED out

Return ==
  /\ Fetch({"RETURN"})
  /\ Leave("returned", IF I.a0 = NoReg THEN Null ELSE stk[I.a1])
  /\ UNCHANGED <<prog, ip, stk, traps, slots, out>>

Next == \/ Load \/ MakeArray \/ Operate \/ GetSlot \/ LoadTwo \/ IncrementLocal \/ SetSlot \/ IncrementSlot \/ PrepCall \/ Call
        \/ Jumps \/ ShortCircuit \/ NextElement \/ Trap \/ ThrowValue \/ Return

Spec == Init /\ [][Next]_vars /\ WF_vars(Next)


\* The compiled function ends the way its source says: the same result or
\* exception, the same slots, the same calls in the same order.
SameMeaning ==
  status # "running" =>
    [how |-> status, result |-> result, slots |-> slots, out |-> out] = prog.meaning

\* A function that returns has removed every trap it set (sqvm.cpp:931).
TrapsBalanced == status = "returned" => traps = <<>>

\* No jump was left without its target: every function comes to its end.
Ends == <>(status # "running")
================================================================================
