---------------------------- MODULE SqObjectInfo ----------------------------
(***************************************************************************)
(* ObjectInfo: the host's variables for script values (sqobjectinfo.h and  *)
(* .cpp).  Every method works on the stack of the global VM, which nobody  *)
(* clears, and holds what it refers to through the host's reference table. *)
(* A method is written as the calls it makes; a function of the host may   *)
(* use all of them while foreach() is walking a container.                 *)
(*                                                                         *)
(* A definition whose comment begins with "Defect" is a variant of the one *)
(* below it with a plausible bug; Next uses none of them.                  *)
(***************************************************************************)
EXTENDS SqApi

CONSTANTS Info,      \* ObjectInfo variables of the host
          MaxHeld,     \* bound on the variables that hold something and the elements, slots and
                       \* members of all objects together
          MaxChanges   \* bound on the calls of one walk's callbacks that change something

\* Local ObjectInfos: a result or copy, and the two parameters of a foreach callback.
Local == {"ret", "key", "val"}

ASSUME InfoAssumption ==
    /\ IsFiniteSet(Info) /\ Info \cap Local = {}
    /\ {MaxHeld, MaxChanges} \subseteq Nat

VARIABLES heap, stack, refs, info,
          loop,  \* the foreach() in progress, or NoLoop: what it walks, the stack below it, whether
                 \* its callbacks left the container alone, the keys met until then, the
                 \* number of their calls that changed something
          left   \* how many arguments calls that refused have left on the stack

vars == <<heap, stack, refs, info, loop, left>>

NoLoop == [self |-> Null, depth |-> 0, whole |-> TRUE, seen |-> << >>, changes |-> 0]
Root == <<"root", 0>>

Init ==
    /\ heap = [o \in Obj |-> Free]
    /\ stack = << >>
    /\ refs = [r \in Held |-> 0]
    /\ info = [i \in Info \cup Local |-> Null]
    /\ loop = NoLoop
    /\ left = 0

\* The state the methods work on; the native function that calls them has its
\* arguments on the stack of its own VM.
Now(args) ==
    [heap |-> heap, stack |-> [gv |-> stack, v |-> args], refs |-> refs, info |-> info,
     ok |-> TRUE, out |-> Null, left |-> 0]

\* What neither the stack nor the host holds is destroyed.
Settled(S) ==
    [S EXCEPT !.heap = Released(@, ToSet(S.stack.gv) \cup {r \in Held : S.refs[r] > 0})]

-----------------------------------------------------------------------------
\* References.

clear(S, i) == [sq_release(S, S.info[i]) EXCEPT !.info[i] = Null]

\* sq_getstackobj and sq_addref
TakeTop(S, i) == LET v == Up(S, "gv", -1) IN [sq_addref(S, v) EXCEPT !.info[i] = v]

ObjectInfo(S, i, vm, idx) == sq_pop(TakeTop(sq_move(S, "gv", vm, idx), i), "gv", 1)

\* Defect: what the variable held is not released.
getStackKeeping(S, i, vm, idx) == ObjectInfo(S, i, vm, idx)

getStack(S, i, vm, idx) == ObjectInfo(clear(S, i), i, vm, idx)

getStackWeak(S, i, vm, idx) ==
    LET w == sq_weakref(clear(S, i), vm, idx)
        m == sq_pop(sq_move(w, "gv", vm, -1), vm, 1)
    IN  sq_pop(TakeTop(m, i), "gv", 1)

push(S, vm, v) ==
    IF v[1] = "weak"
      THEN sq_remove(sq_getweakrefval(sq_pushobject(S, vm, v), vm, -1), vm, -2)
      ELSE sq_pushobject(S, vm, v)

getWeak(S, i, j) ==
    LET c == clear(S, i)
        w == sq_weakref(push(c, "gv", c.info[j]), "gv", -1)
    IN  sq_pop(TakeTop(w, i), "gv", 2)

getStrong(S, i, j) ==
    LET c == clear(S, i) IN sq_pop(TakeTop(push(c, "gv", c.info[j]), i), "gv", 1)

assign(S, i, j) ==
    LET c == clear(S, i) IN [sq_addref(c, c.info[j]) EXCEPT !.info[i] = c.info[j]]

\* A local ObjectInfo is returned into variable i and destroyed.
Return(S, i) == clear(assign(S, i, "ret"), "ret")

type(S, i) == Type(S.heap, RealVal(S.heap, S.info[i]))

clone(S, i, j) ==
    LET c == sq_clone(push(S, "gv", S.info[j]), "gv", -1)
        p == IF c.ok THEN c ELSE sq_pushnull(c, "gv")
    IN  Return(sq_pop(ObjectInfo(p, "ret", "gv", -1), "gv", 2), i)

pushClone(S, vm, i) ==
    LET c == sq_clone(push(S, vm, S.info[i]), vm, -1)
    IN  sq_remove(IF c.ok THEN c ELSE sq_pushnull(c, vm), vm, -2)

initArray(S, i, n) == sq_pop(TakeTop(sq_newarray(clear(S, i), "gv", n), i), "gv", 1)
initTable(S, i) == sq_pop(TakeTop(sq_newtable(clear(S, i), "gv"), i), "gv", 1)

\* A class for the host's type, below the class in j if there is one.
SQTemplate(S, i, j) ==
    LET p == IF S.info[j] = Null THEN sq_newclass(S, "gv", FALSE)
             ELSE sq_newclass(sq_pushobject(S, "gv", S.info[j]), "gv", TRUE)
    IN  sq_pop(TakeTop(clear(p, i), i), "gv", 1)

-----------------------------------------------------------------------------
\* Values.  An argument is a native function, an ObjectInfo or a plain value.

Var(j) == <<"var", j>>

pushValue(S, vm, x) ==
    CASE x[1] = "var" -> push(S, vm, S.info[x[2]])
      [] x = Closure -> sq_newclosure(S, vm)
      [] OTHER -> Push(S, vm, x)

\* getValue into a number; what the number is when there is none depends on the caller.
sq_getinteger(S, vm, idx) ==
    LET v == Up(S, vm, idx) IN IF v[1] = "int" THEN Succeed(Give(S, v)) ELSE Fail(S)

\* Conversion to a number, 0 if it is none.
cast(S, i) ==
    LET g == sq_getinteger(push(S, "gv", S.info[i]), "gv", -1)
    IN  sq_pop(IF g.ok THEN g ELSE Give(g, IntV(0)), "gv", 1)

setValue(S, i, x) == sq_pop(getStack(pushValue(S, "gv", x), i, "gv", -1), "gv", 1)

\* The argument is compared with the object, in this order.
compare(S, i, x) ==
    LET p == pushValue(push(S, "gv", S.info[i]), "gv", x)
        c == ObjCmp(p.heap, Up(p, "gv", -1), Up(p, "gv", -2))
    IN  {Give(sq_pop(p, "gv", 2), IntV(r)) : r \in IF c = NoOrder THEN -1 .. 1 ELSE {c}}

-----------------------------------------------------------------------------
\* Arrays and tables.

append(S, i, x) ==
    sq_pop(sq_arrayappend(pushValue(push(S, "gv", S.info[i]), "gv", x), "gv", -2), "gv", 1)

appendStack(S, i, vm, idx) ==
    sq_pop(sq_arrayappend(sq_move(push(S, "gv", S.info[i]), "gv", vm, idx), "gv", -2), "gv", 1)

insert(S, i, n, x) ==
    sq_pop(sq_arrayinsert(pushValue(push(S, "gv", S.info[i]), "gv", x), "gv", -2, n), "gv", 1)

remove(S, i, n) == sq_pop(sq_arrayremove(push(S, "gv", S.info[i]), "gv", -1, n), "gv", 1)

removeValue(S, i, x, all) ==
    {sq_pop(T, "gv", 1) :
        T \in sq_arrayremovevalue(pushValue(push(S, "gv", S.info[i]), "gv", x), "gv", -2, all)}

set(S, i, key, x) ==
    sq_pop(sq_set(pushValue(Push(push(S, "gv", S.info[i]), "gv", key), "gv", x), "gv", -3), "gv", 1)

create(S, i, key, x) ==
    sq_pop(sq_newslot(pushValue(Push(push(S, "gv", S.info[i]), "gv", key), "gv", x), "gv", -3), "gv", 1)

deleteslot(S, i, key) ==
    sq_pop(sq_deleteslot(Push(push(S, "gv", S.info[i]), "gv", key), "gv", -2), "gv", 1)

has(S, i, key) == sq_pop(sq_exists(Push(push(S, "gv", S.info[i]), "gv", key), "gv", -2), "gv", 1)

pushData(S, vm, i, key) ==
    LET g == sq_get(Push(push(S, vm, S.info[i]), vm, key), vm, -2)
    IN  sq_remove(IF g.ok THEN g ELSE sq_pushnull(g, vm), vm, -2)

\* The local result is left in "ret".
Fetch(S, i, key) == sq_pop(ObjectInfo(pushData(S, "gv", i, key), "ret", "gv", -1), "gv", 1)

get(S, i, j, key) == Return(Fetch(S, j, key), i)

\* get() into a variable of the host.
getNumber(S, i, key) ==
    LET g == sq_get(Push(push(S, "gv", S.info[i]), "gv", key), "gv", -2)
    IN  IF g.ok THEN sq_pop(sq_getinteger(g, "gv", -1), "gv", 2) ELSE sq_pop(g, "gv", 1)

clearData(S, i) == sq_pop(sq_clear(push(S, "gv", S.info[i]), "gv", -1), "gv", 1)

len(S, i) ==
    LET p == push(S, "gv", S.info[i]) IN Give(sq_pop(p, "gv", 1), IntV(Size(p.heap, Up(p, "gv", -1))))

\* How often a loop from 0 to below n runs.
Turns(n) == IF n \in Nat THEN n ELSE 0

\* The number of elements is read before the first is appended.
appendArray(S, i, j) ==
    LET p == push(S, "gv", S.info[i])
        n == Turns(len(p, j).out[2])
        after[k \in 0 .. n] ==
            IF k = 0 THEN p
            ELSE IF ~ after[k - 1].ok THEN after[k - 1]
            ELSE sq_arrayappend(pushData(after[k - 1], "gv", j, IntV(k - 1)), "gv", -2)
    IN  sq_pop(after[n], "gv", 1)

pushArray(S, vm, i) ==
    LET p == push(S, "gv", S.info[i])
        n == Turns(len(p, i).out[2])
        after[k \in 0 .. n] ==
            IF k = 0 THEN p
            ELSE sq_pop(sq_move(sq_get(Push(after[k - 1], "gv", IntV(k - 1)), "gv", -2), vm, "gv", -1), "gv", 1)
    IN  IF type(S, i) # "array" THEN S ELSE sq_pop(after[n], "gv", 1)

-----------------------------------------------------------------------------
\* References to elements: i[key] on the left or the right of an assignment.

\* The array in variable i with n values of null more.
WithNulls(S, i, n) ==
    LET after[k \in 0 .. n] ==
            IF k = 0 THEN push(S, "gv", S.info[i])
            ELSE sq_arrayappend(sq_pushnull(after[k - 1], "gv"), "gv", -2)
    IN  sq_pop(after[n], "gv", 1)

\* Defect: an array is filled up to the index, not beyond it.
FilledShort(S, i, n) == WithNulls(S, i, Turns(n - len(S, i).out[2]))

\* An array too short for the index is filled with null.
Filled(S, i, n) == WithNulls(S, i, Turns(n + 1 - len(S, i).out[2]))

\* The assignment works on a copy of the reference in "ret".
AssignElement(S, key, x) ==
    LET o == "ret"
        s == set(S, o, key, x)
    IN  CASE type(S, o) = "array" /\ key[1] = "int" -> set(Filled(S, o, key[2]), o, key, x)
          [] type(S, o) = "array" /\ key[1] # "int" -> S
          [] type(S, o) \in {"table", "class"} -> IF s.ok THEN s ELSE create(s, o, key, x)
          [] OTHER -> s

setElement(S, i, key, x) ==
    clear(AssignElement(assign(S, "ret", i), key, x), "ret")

\* i[key][second] = x: the object in between is referred to without being held.
setElementOf(S, i, key, second, x) ==
    LET p == pushData(S, "gv", i, key)
        target == Up(p, "gv", -1)
        q == sq_pop(p, "gv", 1)
        o == [sq_addref(q, target) EXCEPT !.info["ret"] = target]
    IN  clear(AssignElement(o, second, x), "ret")

\* A number from i[key], 0 if there is none.
castElement(S, i, key) ==
    LET g == getNumber(assign(S, "ret", i), "ret", key)
    IN  clear(IF g.ok THEN g ELSE Give(g, IntV(0)), "ret")

\* i = j[key]
setValueElement(S, i, j, key) ==
    LET p == clear(pushData(assign(S, "ret", j), "gv", "ret", key), "ret")
    IN  sq_pop(getStack(p, i, "gv", -1), "gv", 1)

-----------------------------------------------------------------------------
\* Calls: with an ObjectInfo or the root table as this.

Called(S, f, self, x, retval, result) ==
    sq_call(pushValue(push(push(S, "gv", S.info[f]), "gv", self), "gv", x), "gv", 2, retval, result)

call(S, f, self, x, result) == sq_pop(Called(S, f, self, x, FALSE, result), "gv", 1)

\* Defect: the result stays when the call went well.
callResultLeaving(S, i, f, self, x, result) ==
    LET c == Called(S, f, self, x, TRUE, result)
    IN  IF c.ok THEN sq_pop(getStack(c, i, "gv", -1), "gv", 1) ELSE sq_pop(c, "gv", 1)

callResult(S, i, f, self, x, result) ==
    LET c == Called(S, f, self, x, TRUE, result)
    IN  IF c.ok THEN sq_pop(getStack(c, i, "gv", -1), "gv", 2) ELSE sq_pop(c, "gv", 1)

callMethod(S, i, key, x, result) ==
    LET m == Fetch(S, i, key)
    IN  CASE type(S, i) # "null" /\ type(m, "ret") = "closure" ->
               clear(call(m, "ret", S.info[i], x, result), "ret")
          [] type(S, i) # "null" /\ type(m, "ret") # "closure" -> Fail(clear(m, "ret"))
          [] OTHER -> Fail(S)

-----------------------------------------------------------------------------
\* Steps.  What a method drops is destroyed before the next one.  The callback of a
\* walk keeps and changes; the other methods are followed outside of walks only.

Entries(c) ==
    CASE c.type \in {"array", "instance"} -> Len(c.val)
      [] c.type = "table" -> Cardinality(DOMAIN c.slot)
      [] c.type = "class" -> Len(c.default) + Len(c.methods)
      [] OTHER -> 0

InBound(S) ==
    FoldSet(LAMBDA o, n : n + Entries(S.heap[o]), Cardinality({i \in Info : S.info[i] # Null}), Obj) <= MaxHeld

\* What follows when a call has left something on the stack is not pursued: it stays
\* there, out of reach; and a walk in whose callback that happens is left out, for it no
\* longer finds what it put there.
Become(S) ==
    /\ left = 0
    /\ InBound(S)
    /\ heap' = Settled(S).heap
    /\ stack' = S.stack.gv
    /\ refs' = S.refs
    /\ info' = S.info
    /\ left' = S.left

\* The loop's observer: has the container changed?
Method(S) ==
    /\ Become(S)
    /\ IF loop = NoLoop THEN loop' = loop
       ELSE LET whole == loop.whole /\ S.heap[loop.self[2]] = heap[loop.self[2]]
                changes == heap' # heap \/ info' # info
            IN  /\ S.left = 0
                /\ changes => loop.changes < MaxChanges
                /\ loop' = [loop EXCEPT !.whole = whole,
                                        !.seen = IF whole THEN @ ELSE << >>,
                                        !.changes = IF changes THEN @ + 1 ELSE @]

Room == Fresh(Now(<< >>)) # {}
Variable == Info \cup (IF loop = NoLoop THEN {} ELSE {"val"})
Element == {Var(j) : j \in Variable}
Argument == Element \cup {Closure}
\* What a script passes to a native function.
Passed == {Ref(o) : o \in {p \in Obj : heap[p] # Free}}
Outcome == {Null, Failure}

Hold(i) ==
    \/ /\ loop = NoLoop
       /\ \/ Method(clear(Now(<< >>), i))
          \/ \E v \in Passed :
              \/ Method(getStack(Now(<< v >>), i, "v", -1))
              \/ Method(getStackWeak(Now(<< v >>), i, "v", -1))
          \/ \E j \in Info : Method(getWeak(Now(<< >>), i, j)) \/ Method(getStrong(Now(<< >>), i, j))
          \/ \E x \in Argument : Method(setValue(Now(<< >>), i, x))
    \/ \E j \in Variable : Method(assign(Now(<< >>), i, j))

Create(i) ==
    /\ loop = NoLoop /\ Room
    /\ \/ \E n \in 0 .. 1 : Method(initArray(Now(<< >>), i, n))
       \/ Method(initTable(Now(<< >>), i))
       \/ \E j \in Info : type(Now(<< >>), j) \in {"null", "class"} /\ Method(SQTemplate(Now(<< >>), i, j))
       \/ \E j \in Info : Method(clone(Now(<< >>), i, j))
       \/ Method(pushClone(Now(<< >>), "v", i))

ChangeArray(i) ==
    \/ \E x \in Element :
        \/ Method(append(Now(<< >>), i, x))
        \/ \E n \in 0 .. 2 : Method(insert(Now(<< >>), i, n, x))
        \/ \E all \in BOOLEAN : \E T \in removeValue(Now(<< >>), i, x, all) : Method(T)
    \/ /\ loop = NoLoop
       /\ \E v \in Passed : Method(appendStack(Now(<< v >>), i, "v", -1))
    \/ \E n \in 0 .. 2 : Method(remove(Now(<< >>), i, n))
    \/ \E j \in Info : Method(appendArray(Now(<< >>), i, j))
    \/ Method(clearData(Now(<< >>), i))

ChangeSlot(i) ==
    \E key \in Key :
        \/ \E x \in Argument :
            Method(set(Now(<< >>), i, key, x)) \/ (loop = NoLoop /\ Method(create(Now(<< >>), i, key, x)))
        \/ Method(deleteslot(Now(<< >>), i, key))

SetElement(i, key, x) == loop = NoLoop /\ Method(setElement(Now(<< >>), i, key, x))

SetElementOf(i) ==
    /\ loop = NoLoop
    /\ \E key, second \in Key, x \in {Closure, Var(i)} : Method(setElementOf(Now(<< >>), i, key, second, x))

Read(i) ==
    /\ loop = NoLoop
    /\ \/ \E key \in Key :
            \/ \E j \in Info :
                Method(get(Now(<< >>), i, j, key)) \/ Method(setValueElement(Now(<< >>), i, j, key))
            \/ Method(getNumber(Now(<< >>), i, key))
            \/ Method(castElement(Now(<< >>), i, key))
            \/ Method(has(Now(<< >>), i, key))
       \/ Method(cast(Now(<< >>), i))
       \/ Method(len(Now(<< >>), i))
       \/ Method(pushArray(Now(<< >>), "v", i))
       \/ \E x \in Argument : \E T \in compare(Now(<< >>), i, x) : Method(T)

Call(i) ==
    /\ loop = NoLoop
    /\ \E x \in {Null, Var(i)}, result \in Outcome :
        \/ \E j \in Info :
            /\ type(Now(<< >>), i) = "class" => Room
            /\ \/ Method(call(Now(<< >>), i, Root, x, result))
               \/ Method(callResult(Now(<< >>), j, i, Root, x, result))
        \/ \E key \in Key : Method(callMethod(Now(<< >>), i, key, x, result))

\* A script makes one table the delegate of another.
Delegate(i, j) ==
    LET S == Now(<< >>)
        r == SetDelegate(heap, RealVal(heap, info[i])[2], RealVal(heap, info[j])[2])
    IN  /\ loop = NoLoop /\ type(S, i) = "table" /\ type(S, j) = "table"
        /\ r.ok /\ Method([S EXCEPT !.heap = r.heap])

\* foreach(): the parameters of the callback are ObjectInfos.
Turn(S) == ObjectInfo(ObjectInfo(S, "key", "gv", -2), "val", "gv", -1)

Begin(i) ==
    LET p == sq_pushnull(push(Now(<< >>), "gv", info[i]), "gv")
        n == sq_next(p, "gv", -2)
    IN  /\ loop = NoLoop
        /\ IF n.ok
             THEN /\ Become(Turn(n))
                  /\ loop' = [self |-> Up(p, "gv", -2), depth |-> Len(stack), whole |-> TRUE, changes |-> 0,
                              seen |-> << Up(n, "gv", -2) >>]
             ELSE Become(sq_pop(n, "gv", 2)) /\ loop' = NoLoop

Continue ==
    LET p == sq_pop(clear(clear(Now(<< >>), "val"), "key"), "gv", 2)
        n == sq_next(p, "gv", -2)
    IN  /\ loop # NoLoop /\ n.ok
        /\ Become(Turn(n))
        /\ loop' = [loop EXCEPT !.seen = IF loop.whole THEN Append(@, Up(n, "gv", -2)) ELSE @]

End ==
    LET p == sq_pop(clear(clear(Now(<< >>), "val"), "key"), "gv", 2)
        n == sq_next(p, "gv", -2)
    IN  /\ loop # NoLoop /\ ~ n.ok
        /\ Become(sq_pop(n, "gv", 2))
        /\ loop' = NoLoop

Next ==
    \/ \E i \in Info :
        \/ Hold(i) \/ Create(i) \/ ChangeArray(i) \/ ChangeSlot(i) \/ SetElementOf(i) \/ Read(i) \/ Call(i)
        \/ \E key \in Key, x \in Argument : SetElement(i, key, x)
        \/ \E j \in Info : Delegate(i, j)
        \/ Begin(i)
    \/ Continue \/ End

Spec == Init /\ [][Next]_vars

-----------------------------------------------------------------------------
\* The host's reference table counts, for every object and every weak reference,
\* exactly the ObjectInfos that hold it, and none holds an object that is gone:
\* whatever is assigned over, returned, walked or assigned to itself.
RefsHeld ==
    /\ \A r \in Held : refs[r] = Cardinality({i \in DOMAIN info : info[i] = r})
    /\ \A i \in DOMAIN info : Alive(heap, info[i])

\* Every value an instance's class numbers is in the instance, for every instance:
\* a class does not change its fields once it has instances, its base included.
InstancesFit ==
    /\ \A o \in Obj : heap[o].type = "instance" => Len(heap[o].val) = Len(heap[heap[o].class].default)
    /\ \A c \in Obj : heap[c].type = "class" =>
        \A key \in DOMAIN heap[c].member :
            LET m == heap[c].member[key]
            IN  m.at <= Len(IF m.kind = "field" THEN heap[c].default ELSE heap[c].methods)

\* Both: what the host holds is there, and is what it is taken for.
HeldSound == RefsHeld /\ InstancesFit

\* A method leaves the global VM's stack as it found it, except for what a refusing
\* call of the API left there; and so does a walk with the methods of its callbacks.
StackKept ==
    [][LET kept == IF loop = NoLoop THEN Len(stack) ELSE loop.depth + 1
       IN  IF loop # NoLoop /\ loop' = NoLoop
             THEN stack' = SubSeq(stack, 1, loop.depth)
             ELSE /\ SubSeq(stack', 1, kept) = SubSeq(stack, 1, kept)
                  /\ (loop # NoLoop \/ loop' = NoLoop) => Len(stack') - Len(stack) = left' - left]_vars

\* What a container holds, in the order of its walk.
Walk(c) ==
    IF c.type = "array" THEN [k \in 1 .. Len(c.val) |-> IntV(k - 1)]
    ELSE Without(KeyOrder, Key \ DOMAIN (IF c.type = "table" THEN c.slot ELSE c.member))

\* A walk meets every element once, in order, if its callback leaves the container and
\* the stack as they are.
WalkMeetsAll ==
    [][loop # NoLoop /\ loop' = NoLoop /\ loop.whole =>
         loop.seen = Walk(heap[loop.self[2]])]_vars

\* i[key] = x could be read back at any moment: in an array of any length, in a table with or without the
\* slot and with any delegates, and in a class that has no instances.  An array's indices are those from 0.
ReadsBack ==
    \A i \in Info, key \in Key, x \in Argument :
        LET self == RealVal(heap, info[i])
            kind == Type(heap, self)
        IN  (\/ kind = "array" /\ key[1] = "int" /\ key[2] \in Nat
             \/ kind = "table"
             \/ kind = "class" /\ ~ heap[self[2]].locked)
            => Get(setElement(Now(<< >>), i, key, x).heap, self, key)
                 = Found(IF x[1] = "var" THEN RealVal(heap, info[x[2]]) ELSE x)
=============================================================================
