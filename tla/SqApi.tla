------------------------------- MODULE SqApi -------------------------------
(***************************************************************************)
(* The C API as a machine on the stacks of VMs (sqapi.cpp).  A state S of  *)
(* it has the objects, the stack of each VM, the counts of references the  *)
(* host holds, the result code of the last call, what it gave out, and how *)
(* many arguments calls that refused have left on a stack.                 *)
(* Positions are given from the top: -1 is the last value pushed.          *)
(***************************************************************************)
EXTENDS SqObjects, SqListOps

Up(S, vm, idx) == S.stack[vm][Len(S.stack[vm]) + 1 + idx]
Push(S, vm, v) == [S EXCEPT !.stack[vm] = Append(@, v)]
Pop(S, vm, n) == [S EXCEPT !.stack[vm] = SubSeq(@, 1, Len(@) - n)]
Succeed(S) == [S EXCEPT !.ok = TRUE]
Fail(S) == [S EXCEPT !.ok = FALSE]
FailLeaving(S) == [S EXCEPT !.ok = FALSE, !.left = @ + 1]
Give(S, x) == [S EXCEPT !.out = x]
After(S, r) == [S EXCEPT !.heap = r.heap, !.ok = r.ok]
Array(S, vm, idx) == S.heap[Up(S, vm, idx)[2]].val
WithArray(S, vm, idx, s) == [S EXCEPT !.heap[Up(S, vm, idx)[2]].val = s]
IsArray(S, vm, idx) == Type(S.heap, Up(S, vm, idx)) = "array"
\* The new object nothing refers to, not even weakly.
Fresh(S) ==
    LET onStack == UNION {ToSet(S.stack[vm]) : vm \in DOMAIN S.stack}
        held == {r \in DOMAIN S.refs : S.refs[r] > 0}
        weak == {v[2] : v \in {u \in Contents(S.heap) \cup onStack \cup held : u[1] = "weak"}}
    IN  {o \in Obj : S.heap[o] = Free /\ o \notin weak}
New(S) == CHOOSE o \in Fresh(S) : \A p \in Fresh(S) : o <= p

sq_pop(S, vm, n) == Pop(S, vm, n)
sq_remove(S, vm, idx) == [S EXCEPT !.stack[vm] = RemoveAt(@, Len(@) + 1 + idx)]
sq_move(S, dest, src, idx) == Push(S, dest, Up(S, src, idx))
sq_pushobject(S, vm, v) == Push(S, vm, v)
sq_pushnull(S, vm) == Push(S, vm, Null)

sq_addref(S, v) == IF v \in DOMAIN S.refs THEN [S EXCEPT !.refs[v] = @ + 1] ELSE S
sq_release(S, v) == IF v \in DOMAIN S.refs THEN [S EXCEPT !.refs[v] = @ - 1] ELSE S

Make(S, vm, c) == LET o == New(S) IN Push([S EXCEPT !.heap[o] = c], vm, Ref(o))
sq_newarray(S, vm, n) == Make(S, vm, NewArray([i \in 1 .. n |-> Null]))
sq_newtable(S, vm) == Make(S, vm, NewTable(Nobody))
sq_newclosure(S, vm) == Push(S, vm, Closure)

sq_newclass(S, vm, hasbase) ==
    CASE hasbase /\ Type(S.heap, Up(S, vm, -1)) # "class" -> Fail(S)
      [] hasbase /\ Type(S.heap, Up(S, vm, -1)) = "class" ->
           LET base == Up(S, vm, -1)[2]
           IN  Succeed(Make(Pop(S, vm, 1), vm, NewClass(S.heap, base)))
      [] OTHER -> Succeed(Make(S, vm, NewClass(S.heap, Nobody)))

-----------------------------------------------------------------------------
\* Arrays.  A call that refuses what is no array leaves its argument on the stack.

\* Defect: the value is popped by nobody.
sq_arrayappendKeeping(S, vm, idx) ==
    IF IsArray(S, vm, idx)
      THEN Succeed(WithArray(S, vm, idx, Append(Array(S, vm, idx), Up(S, vm, -1))))
      ELSE Fail(S)

sq_arrayappend(S, vm, idx) ==
    IF IsArray(S, vm, idx)
      THEN Succeed(Pop(WithArray(S, vm, idx, Append(Array(S, vm, idx), Up(S, vm, -1))), vm, 1))
      ELSE FailLeaving(S)

sq_arrayinsert(S, vm, idx, n) ==
    LET s == Array(S, vm, idx)
    IN  IF ~ IsArray(S, vm, idx) THEN FailLeaving(S)
        ELSE IF n \in 0 .. Len(s)
          THEN Succeed(Pop(WithArray(S, vm, idx, InsertAt(s, n + 1, Up(S, vm, -1))), vm, 1))
          ELSE Fail(Pop(S, vm, 1))

sq_arrayremove(S, vm, idx, n) ==
    IF IsArray(S, vm, idx) /\ n \in 0 .. Len(Array(S, vm, idx)) - 1
      THEN Succeed(WithArray(S, vm, idx, RemoveAt(Array(S, vm, idx), n + 1)))
      ELSE Fail(S)

\* The elements whose places are not in I.
Spared(s, I) ==
    LET kept == Without([i \in DOMAIN s |-> i], I)
    IN  [k \in DOMAIN kept |-> s[kept[k]]]

\* The result of a comparison that fails is not looked at, and the variable that
\* should have it is not set: such an element may be taken for an equal one.
sq_arrayremovevalue(S, vm, idx, all) ==
    LET s == Array(S, vm, idx)
        cmp(i) == ObjCmp(S.heap, Up(S, vm, -1), s[i])
        equal == {i \in DOMAIN s : cmp(i) = 0}
        unset == {i \in DOMAIN s : cmp(i) = NoOrder}
        first(i) == \A j \in equal : i <= j
        gone == IF all THEN {equal \cup U : U \in SUBSET unset}
                ELSE {{i} : i \in {j \in equal \cup unset : first(j)}} \cup (IF equal = {} THEN {{}} ELSE {})
    IN  IF ~ IsArray(S, vm, idx) THEN {FailLeaving(S)}
        ELSE {Succeed(Pop(WithArray(S, vm, idx, Spared(s, I)), vm, 1)) : I \in gone}

sq_clear(S, vm, idx) ==
    LET v == Up(S, vm, idx)
    IN  CASE Type(S.heap, v) = "table" -> Succeed([S EXCEPT !.heap[v[2]].slot = << >>])
          [] Type(S.heap, v) = "array" -> Succeed([S EXCEPT !.heap[v[2]].val = << >>])
          [] OTHER -> Fail(S)

-----------------------------------------------------------------------------
\* Slots.

sq_get(S, vm, idx) ==
    LET r == Get(S.heap, Up(S, vm, idx), Up(S, vm, -1))
    IN  IF r.found THEN Succeed(Push(Pop(S, vm, 1), vm, r.val)) ELSE Fail(Pop(S, vm, 1))

sq_exists(S, vm, idx) ==
    Give(Pop(S, vm, 1), IF Get(S.heap, Up(S, vm, idx), Up(S, vm, -1)).found THEN IntV(1) ELSE IntV(0))

sq_set(S, vm, idx) ==
    Pop(After(S, Set(S.heap, Up(S, vm, idx), Up(S, vm, -2), Up(S, vm, -1))), vm, 2)

\* Whether the slot could be made is not told, except for the null key.
sq_newslot(S, vm, idx) ==
    LET self == Up(S, vm, idx)
        r == NewSlot(S.heap, self, Up(S, vm, -2), Up(S, vm, -1))
    IN  CASE Type(S.heap, self) \in {"table", "class"} /\ Up(S, vm, -2) = Null -> Fail(Pop(S, vm, 2))
          [] Type(S.heap, self) \in {"table", "class"} /\ Up(S, vm, -2) # Null ->
               Succeed(Pop(After(S, r), vm, 2))
          [] OTHER -> Succeed(Pop(S, vm, 2))

\* A call that refuses leaves the key on the stack.
sq_deleteslot(S, vm, idx) ==
    LET self == Up(S, vm, idx)
        r == DeleteSlot(S.heap, self, Up(S, vm, -1))
    IN  IF Type(S.heap, self) = "table" /\ Up(S, vm, -1) # Null /\ r.ok
          THEN Pop(After(S, r), vm, 1) ELSE FailLeaving(S)

sq_clone(S, vm, idx) ==
    LET self == Up(S, vm, idx)
        o == New(S)
    IN  IF Type(S.heap, self) \in {"array", "table", "instance"}
          THEN Succeed(Push([S EXCEPT !.heap = Clone(@, self, o).heap], vm, Ref(o)))
          ELSE Fail(S)

\* One turn of a walk: the container at idx, the position on top.
sq_next(S, vm, idx) ==
    LET at == Up(S, vm, -1)
        t == NextTurn(S.heap, Up(S, vm, idx), at[2])
        moved == [S EXCEPT !.stack[vm][Len(S.stack[vm])] = IntV(t.at)]
    IN  IF t = NoTurn THEN Fail(S) ELSE Succeed(Push(Push(moved, vm, t.key), vm, t.val))

sq_weakref(S, vm, idx) ==
    LET v == Up(S, vm, idx) IN Push(S, vm, IF v[1] = "ref" THEN Weak(v[2]) ELSE v)

sq_getweakrefval(S, vm, idx) ==
    LET v == Up(S, vm, idx)
    IN  IF v[1] # "weak" THEN Fail(S) ELSE Succeed(Push(S, vm, RealVal(S.heap, v)))

\* What the called function returns or that it fails is a parameter; it keeps the
\* stack itself.  The closure stays, the arguments go.  Calling a class that has no
\* constructor makes an instance.
Failure == <<"failure", 0>>

sq_call(S, vm, params, retval, result) ==
    LET f == Up(S, vm, -(params + 1))
        o == New(S)
        popped == Pop(S, vm, params)
        made == IF Type(S.heap, f) = "class" THEN [popped EXCEPT !.heap = NewInstance(@, f[2], o)] ELSE popped
        res == IF Type(S.heap, f) = "class" THEN Ref(o) ELSE result
    IN  IF Type(S.heap, f) \in {"closure", "class"} /\ res # Failure
          THEN Succeed(IF retval THEN Push(made, vm, res) ELSE made)
          ELSE Fail(popped)
=============================================================================
