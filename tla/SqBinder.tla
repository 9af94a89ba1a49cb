------------------------------ MODULE SqBinder ------------------------------
(***************************************************************************)
(* C++ classes bound to script classes: by sqrat, and by the templates of  *)
(* sqobject that do without it.  An instance points to the C++ object its  *)
(* constructor made; a release hook deletes that object.  Bound functions  *)
(* find the object of "this", convert the arguments and push the result,   *)
(* which may be an object again.  The host holds script objects and        *)
(* functions in wrappers that count as references.                         *)
(*                                                                         *)
(* What the code leaves to its users is left out here: a constructor       *)
(* called twice loses the first object; a function taken from one class    *)
(* and called with an instance of another one is not refused by sqrat; the *)
(* host hands over an object once and keeps alive what it lends; a number  *)
(* given for a C string is text that is gone when the function runs; an    *)
(* object parameter (by value or reference) needs an object; a wrapper of  *)
(* a function that is not there and the value of a call that failed are    *)
(* not used; a wrapper of an object is not assigned to itself while it has *)
(* the last reference (the object is gone before it is counted again); the *)
(* overloaded functions of a name are alike in having a result or not.     *)
(* The templates of sqobject ask for numbers and are given them.           *)
(*                                                                         *)
(* A definition whose comment begins with "Defect" is a variant of the one *)
(* below it with a plausible bug; Next uses none of them.                  *)
(***************************************************************************)
EXTENDS Integers, SequencesExt, FiniteSetsExt

CONSTANTS Class,       \* bound classes and classes that scripts derive from them
          Script,      \* the latter
          Chain,       \* a class and those it derives from, nearest first
          Allocators,  \* names of those that a bound class may be registered with
          Bound,       \* the bound functions
          MaxNative, MaxInst, MaxWrap, MaxCalls     \* bounds

VARIABLES maker,       \* the allocator of every bound class
          native,      \* C++ objects
          inst,        \* instances
          wrap,        \* wrappers
          height,      \* of the stack, over what the host had on it
          out,         \* what the last call of a bound function did
          calls

bindvars == <<maker, native, inst, wrap, height, out, calls>>

None == "none"
Native == 1 .. MaxNative
Inst == 1 .. MaxInst
Wrap == 1 .. MaxWrap

NoNative == [cls |-> None, life |-> "none", host |-> FALSE]
NoInst == [cls |-> None, up |-> 0, hook |-> FALSE, script |-> FALSE, refs |-> 0]
NoWrap == [kind |-> None, obj |-> 0, env |-> 0]
Quiet == [cls |-> None, form |-> None, params |-> << >>, on |-> 0, got |-> << >>, gives |-> None]

IsA(c, d) == Contains(Chain[c], d)
Nearest(c, S) == SelectInSeq(Chain[c], LAMBDA d : d \in S)
BoundClass(c) == Chain[c][Nearest(c, Class \ Script)]

\* A chain begins with its class and goes on with the chain of the class that one
\* derives from; a bound class is in it.  Functions belong to bound classes, and the
\* objects they take and give are of such.
Given == {"object", "pointer"}
Form == {"member", "cast", "bridge", "proxy", "varargs", "member global", "global", "template"}

ASSUME BinderAssumption ==
    /\ {MaxNative, MaxInst, MaxWrap, MaxCalls} \subseteq Nat
    /\ None \notin Class
    /\ \A c \in Class :
          /\ Chain[c] \in Seq(Class) /\ Chain[c] # << >> /\ Chain[c][1] = c
          /\ \E d \in Class \ Script : IsA(c, d)
          /\ \A k \in DOMAIN Chain[c] : Chain[Chain[c][k]] = SubSeq(Chain[c], k, Len(Chain[c]))
    /\ \A f \in Bound :
          /\ f.cls \in Class \ Script /\ f.form \in Form
          /\ \/ f.gives \in {"nothing", "plain"}
             \/ f.gives \in {"copy", "pointer", "const"} /\ f.of \in Class \ Script
          /\ \A k \in DOMAIN f.params :
                f.params[k].kind \in Given => f.params[k].cls \in Class \ Script
    /\ \A f, g \in Bound :
          f.over /\ g.over /\ f.name = g.name => (f.gives = "nothing" <=> g.gives = "nothing")

-----------------------------------------------------------------------------
\* Allocators: what the constructor, a copy and an object handed over lead to.

DefaultAllocator == [new |-> "makes", copy |-> "copies", init |-> "owns"]
NoConstructor == [new |-> "nothing", copy |-> "nothing", init |-> "nothing"]
CopyOnly == [new |-> "nothing", copy |-> "copies", init |-> "owns"]
NoCopy == [new |-> "makes", copy |-> "nothing", init |-> "owns"]
Factory == [new |-> "tries", copy |-> "nothing", init |-> "owns"]
ArgsConstructor == [new |-> "makes", copy |-> "nothing", init |-> "owns"]
VMConstructor == [new |-> "makes", copy |-> "nothing", init |-> "owns"]
NOConstructor == [new |-> "throws", copy |-> "nothing", init |-> "owns"]
SQTemplate == [new |-> "makes", copy |-> "nothing", init |-> "owns"]

Named ==
    [DefaultAllocator |-> DefaultAllocator, NoConstructor |-> NoConstructor,
     CopyOnly |-> CopyOnly, NoCopy |-> NoCopy, Factory |-> Factory,
     ArgsConstructor |-> ArgsConstructor, VMConstructor |-> VMConstructor,
     NOConstructor |-> NOConstructor, SQTemplate |-> SQTemplate]

\* A second delete is remembered.
Delete(nat, n) == [nat EXCEPT ![n].life = IF @ = "live" THEN "gone" ELSE "twice"]

\* The instances without a reference go, and the objects their hooks delete.
Lost(in) == {i \in Inst : in[i].cls # None /\ ~ in[i].script /\ in[i].refs = 0}

HooksOn(in, n) == {i \in Lost(in) : in[i].hook /\ in[i].up = n}

Settle(in, nat) ==
    /\ inst' = [i \in Inst |-> IF i \in Lost(in) THEN NoInst ELSE in[i]]
    /\ native' = [n \in Native |->
                     IF HooksOn(in, n) = {} THEN nat[n]
                     ELSE IF Cardinality(HooksOn(in, n)) = 1 THEN Delete(nat, n)[n]
                     ELSE [nat[n] EXCEPT !.life = "twice"]]

Fresh(i) == inst[i].cls = None /\ \A j \in 1 .. i - 1 : inst[j].cls # None
FreshNative(n) == native[n].life = "none" /\ \A m \in 1 .. n - 1 : native[m].life # "none"
Made(c, host) == [cls |-> c, life |-> "live", host |-> host]

\* An instance that a script has got.
Instance(c, up, hook) == [NoInst EXCEPT !.cls = c, !.up = up, !.hook = hook, !.script = TRUE]

\* Value parameters and results are pushed as copies: of the class they are bound as,
\* whatever the object's own is.
PushInstanceCopy(c, n, i, nat) ==
    IF maker[c].copy = "copies"
      THEN \E m \in Native : FreshNative(m) /\ Settle([inst EXCEPT ![i] = Instance(c, m, TRUE)],
                                                      [nat EXCEPT ![m] = Made(c, FALSE)])
      ELSE Settle([inst EXCEPT ![i] = Instance(c, 0, FALSE)], nat)

\* Defect: the instance does not own what it is given.
PushInstanceInitLent(c, n, i, nat) ==
    Settle([inst EXCEPT ![i] = Instance(c, n, FALSE)], [nat EXCEPT ![n].host = FALSE])

\* A pointer is handed over, if the allocator takes it.
PushInstanceInit(c, n, i, nat) ==
    IF maker[c].init = "owns"
      THEN Settle([inst EXCEPT ![i] = Instance(c, n, TRUE)], [nat EXCEPT ![n].host = FALSE])
      ELSE Settle([inst EXCEPT ![i] = Instance(c, 0, FALSE)], nat)

\* A pointer to a constant object is lent.
PushInstance(c, n, i, nat) == Settle([inst EXCEPT ![i] = Instance(c, n, FALSE)], nat)

-----------------------------------------------------------------------------
\* Parameters: an argument as the function gets it.  Arguments and what they become
\* are tagged values; what follows the last argument is the function's own user data.

Zero == <<"int", 0>>
UserData == <<"userdata">>
NoObject == <<"object", 0>>

\* Defect: the class is not looked at.
GetInstanceAny(x, c) ==
    IF x[1] = "inst" THEN <<"object", inst[x[2]].up>> ELSE NoObject

GetInstance(x, c) ==
    IF x[1] = "inst" /\ IsA(inst[x[2]].cls, c) THEN <<"object", inst[x[2]].up>> ELSE NoObject

Convert(p, x) ==
    CASE p.kind = "integer" -> IF x[1] = "int" THEN x ELSE Zero
      [] p.kind = "bool" -> <<"bool", x # Zero>>
      [] p.kind \in {"string", "chars"} -> <<"text", x>>
      [] p.kind \in {"pointer", "object"} -> GetInstance(x, p.cls)
      [] p.kind = "info" -> x

\* What the code may be given.
Fits(p, x) ==
    /\ p.kind = "object" => GetInstance(x, p.cls) # NoObject
    /\ p.kind = "chars" => x[1] = "text"

\* The arguments are enough, and of the kinds that parameters ask for.
Takes(f, args) ==
    LET own == IF f.form = "member global" THEN 1 ELSE 0
    IN  /\ Len(args) + own >= Len(f.params)
        /\ \A k \in own + 1 .. Len(f.params) : Fits(f.params[k], args[k - own])
        /\ f.form = "template" => \A k \in DOMAIN f.params : args[k][1] = "int"

ArgAt(args, k) == IF k \in DOMAIN args THEN args[k] ELSE UserData

\* The function f runs on object n; "start" is the position of its first parameter.
Ran(f, n, args, start) ==
    [cls |-> f.cls, form |-> f.form, params |-> f.params, on |-> n, gives |-> "value",
     got |-> [k \in DOMAIN f.params |-> Convert(f.params[k], ArgAt(args, start + k - 2))]]

BadInstance == [Quiet EXCEPT !.gives = "error"]
NoFunction == [Quiet EXCEPT !.gives = "nothing"]
Void(r) == IF r.gives = "value" THEN [r EXCEPT !.gives = "nothing"] ELSE r
IsVoid(f) == f.gives = "nothing"

\* Functions of a class's objects.
SqMember(f, i, args) == IF inst[i].up = 0 THEN BadInstance ELSE Ran(f, inst[i].up, args, 2)
SqMemberVoid(f, i, args) == Void(SqMember(f, i, args))
SqMemberFunc(f, i, args) == IF IsVoid(f) THEN SqMemberVoid(f, i, args) ELSE SqMember(f, i, args)

\* Functions of what the object is cast to.
SqCastMember(f, i, args) == IF inst[i].up = 0 THEN BadInstance ELSE Ran(f, inst[i].up, args, 2)
SqCastMemberVoid(f, i, args) == Void(SqCastMember(f, i, args))
SqCastMemberFunc(f, i, args) ==
    IF IsVoid(f) THEN SqCastMemberVoid(f, i, args) ELSE SqCastMember(f, i, args)

\* Functions that take what the object is cast to, or the object, before the arguments.
SqBridge(f, i, args) == IF inst[i].up = 0 THEN BadInstance ELSE Ran(f, inst[i].up, args, 2)
SqBridgeVoid(f, i, args) == Void(SqBridge(f, i, args))
SqBridgeFunc(f, i, args) == IF IsVoid(f) THEN SqBridgeVoid(f, i, args) ELSE SqBridge(f, i, args)

SqProxy(f, i, args) == IF inst[i].up = 0 THEN BadInstance ELSE Ran(f, inst[i].up, args, 2)
SqProxyVoid(f, i, args) == Void(SqProxy(f, i, args))
SqProxyFunc(f, i, args) == IF IsVoid(f) THEN SqProxyVoid(f, i, args) ELSE SqProxy(f, i, args)

\* One that takes its arguments from the stack, without its user data.
SqVarArgMember(f, i, args) ==
    IF inst[i].up = 0 THEN BadInstance
    ELSE [Ran(f, inst[i].up, << >>, 2) EXCEPT !.params = << >>, !.got = args]

\* Functions without an object: "this" is no argument of theirs, or the first one.
SqGlobal(f, all, start) == Ran(f, 0, all, start + 1)
SqGlobalVoid(f, all, start) == Void(SqGlobal(f, all, start))
SqGlobalFunc(f, all) == IF IsVoid(f) THEN SqGlobalVoid(f, all, 2) ELSE SqGlobal(f, all, 2)
SqMemberGlobalFunc(f, all) == IF IsVoid(f) THEN SqGlobalVoid(f, all, 1) ELSE SqGlobal(f, all, 1)

\* sqobject's own templates ask for the class, too.
SQTemplateCaller(f, i, args) ==
    LET r == Ran(f, inst[i].up, args, 2)
    IN  IF ~ IsA(inst[i].cls, f.cls) \/ inst[i].up = 0 THEN BadInstance
        ELSE IF IsVoid(f) THEN Void(r) ELSE r

Caller(f, i, args) ==
    CASE f.form = "member" -> SqMemberFunc(f, i, args)
      [] f.form = "cast" -> SqCastMemberFunc(f, i, args)
      [] f.form = "bridge" -> SqBridgeFunc(f, i, args)
      [] f.form = "proxy" -> SqProxyFunc(f, i, args)
      [] f.form = "varargs" -> SqVarArgMember(f, i, args)
      [] f.form = "member global" -> SqMemberGlobalFunc(f, <<<<"inst", i>>>> \o args)
      [] f.form = "global" -> SqGlobalFunc(f, <<<<"inst", i>>>> \o args)
      [] f.form = "template" -> SQTemplateCaller(f, i, args)

\* An overloaded function is the one that takes as many arguments as there are.
SqGetArgCount(f) == Len(f.params)
Overload(S, n) == {f \in S : SqGetArgCount(f) = n}

\* The handler that calls it hears of no failure.  It returns what is on the stack,
\* which after one is the function itself.
SqOverload(f, r) ==
    IF ~ f.over \/ r.gives # "error" THEN r
    ELSE [Quiet EXCEPT !.gives = IF IsVoid(f) THEN "nothing" ELSE "function"]

\* What a script finds under a name: the nearest class's.
Found(c, name, n) ==
    LET named == {f \in Bound : f.name = name /\ IsA(c, f.cls)}
        nearest(S) == {f \in S : \A g \in S : IsA(f.cls, g.cls)}
    IN  IF \E f \in nearest(named) : f.over
          THEN nearest(Overload({f \in named : f.over}, n)) ELSE nearest(named)

-----------------------------------------------------------------------------
\* Scripts.

Step == calls < MaxCalls /\ calls' = calls + 1 /\ UNCHANGED maker
Held == {i \in Inst : inst[i].cls # None}
InScript == {i \in Held : inst[i].script}

\* A class of the script may leave its base's constructor alone.
New ==
    /\ Step
    /\ \E c \in Class, i \in Inst :
          LET b == BoundClass(c)
              how == maker[b].new
          IN  /\ Fresh(i)
              /\ \/ how \in {"makes", "tries"} /\ \E n \in Native :
                       FreshNative(n) /\ Settle([inst EXCEPT ![i] = Instance(c, n, TRUE)],
                                                [native EXCEPT ![n] = Made(b, FALSE)])
                 \/ (how = "nothing" \/ c \in Script) /\
                       Settle([inst EXCEPT ![i] = Instance(c, 0, FALSE)], native)
                 \/ how \in {"throws", "tries"} /\ UNCHANGED <<inst, native>>
    /\ out' = Quiet
    /\ UNCHANGED <<wrap, height>>

\* Defect: the copy has the object of the original, and its hook.
CloneOf(i, j) == inst' = [inst EXCEPT ![j] = [inst[i] EXCEPT !.refs = 0, !.script = TRUE]]

\* A clone has no C++ object.
Cloned(i, j) == inst' = [inst EXCEPT ![j] = Instance(inst[i].cls, 0, FALSE)]

Clone ==
    /\ Step
    /\ \E i \in InScript, j \in Inst : Fresh(j) /\ Cloned(i, j)
    /\ out' = Quiet
    /\ UNCHANGED <<native, wrap, height>>

Forget ==
    /\ Step
    /\ \E i \in InScript : Settle([inst EXCEPT ![i].script = FALSE], native)
    /\ out' = Quiet
    /\ UNCHANGED <<wrap, height>>

Text == <<"text", "s">>
Argument == {<<"int", 7>>, Text} \cup {<<"inst", i>> : i \in InScript}
Arguments == {<< >>} \cup {<<x>> : x \in Argument} \cup {<<x, Text>> : x \in Argument}

\* No instance points to what the host deletes or hands over.
Unlent(n) == \A i \in Inst : inst[i].up # n

\* The result of a function is pushed; an object comes from the host's own.
PushVar(f) ==
    CASE f.gives \in {"nothing", "plain"} -> UNCHANGED <<inst, native>>
      [] OTHER -> \E n \in Native, i \in Inst :
                     /\ native[n].life = "live" /\ native[n].host /\ IsA(native[n].cls, f.of)
                     /\ Fresh(i)
                     /\ f.gives = "pointer" => Unlent(n)
                     /\ CASE f.gives = "copy" -> PushInstanceCopy(f.of, n, i, native)
                          [] f.gives = "pointer" -> PushInstanceInit(f.of, n, i, native)
                          [] f.gives = "const" -> PushInstance(f.of, n, i, native)

Call ==
    /\ Step
    /\ \E i \in InScript, g \in Bound, args \in Arguments :
          LET fs == Found(inst[i].cls, g.name, Len(args))
          IN  /\ IsA(inst[i].cls, g.cls)
              /\ \/ fs = {} /\ out' = NoFunction /\ UNCHANGED <<inst, native>>
                 \/ \E f \in fs :
                       /\ Takes(f, args)
                       /\ out' = SqOverload(f, Caller(f, i, args))
                       /\ IF out'.gives = "value" THEN PushVar(f) ELSE UNCHANGED <<inst, native>>
    /\ UNCHANGED <<wrap, height>>

-----------------------------------------------------------------------------
\* The host: its own objects.

HostNew ==
    /\ Step
    /\ \E n \in Native, c \in Class \ Script :
          FreshNative(n) /\ native' = [native EXCEPT ![n] = Made(c, TRUE)]
    /\ out' = Quiet
    /\ UNCHANGED <<inst, wrap, height>>

HostDelete ==
    /\ Step
    /\ \E n \in Native :
          /\ native[n].host /\ Unlent(n)
          /\ native' = [Delete(native, n) EXCEPT ![n].host = FALSE]
    /\ out' = Quiet
    /\ UNCHANGED <<inst, wrap, height>>

\* Wrappers.  AddRef and Release count on a set of instances.
AddRef(in, i) == IF i = 0 THEN in ELSE [in EXCEPT ![i].refs = @ + 1]
Unref(in, i) == IF i = 0 THEN in ELSE [in EXCEPT ![i].refs = @ - 1]
AddRefs(in, h) == AddRef(AddRef(in, h.obj), h.env)
Unrefs(in, h) == Unref(Unref(in, h.obj), h.env)

Object(i) == [kind |-> "object", obj |-> i, env |-> 0]
Function(i) == [kind |-> "function", obj |-> 0, env |-> i]

\* A wrapper is made of an instance, or of one of its functions.
Wrapped ==
    /\ Step
    /\ \E w \in Wrap, h \in {Object(i) : i \in InScript} \cup {Function(i) : i \in InScript} :
          /\ wrap[w] = NoWrap
          /\ wrap' = [wrap EXCEPT ![w] = h]
          /\ Settle(AddRefs(inst, h), native)
    /\ out' = Quiet
    /\ UNCHANGED height

\* What a wrapper gets with another one's value, or its own: one of a function is
\* emptied when it is released, before it is read.
Assigned(w, x) == IF w = x /\ wrap[x].kind = "function" THEN NoWrap ELSE wrap[x]

\* Defect: the wrapper that is assigned to keeps what it had.
AssignKeeping(w, x) == Settle(AddRefs(inst, Assigned(w, x)), native)

\* One is copied, or assigned to one, which releases what it had first.
Assign(w, x) == Settle(AddRefs(Unrefs(inst, wrap[w]), Assigned(w, x)), native)

Copy ==
    /\ Step
    /\ \E w, x \in Wrap :
          /\ wrap[x] # NoWrap /\ wrap[w].kind \in {None, wrap[x].kind}
          /\ w = x => wrap[w].obj \notin Lost(Unrefs(inst, wrap[w]))
          /\ wrap' = [wrap EXCEPT ![w] = Assigned(w, x)]
          /\ Assign(w, x)
    /\ out' = Quiet
    /\ UNCHANGED height

Destroy ==
    /\ Step
    /\ \E w \in Wrap :
          /\ wrap[w] # NoWrap
          /\ wrap' = [wrap EXCEPT ![w] = NoWrap]
          /\ Settle(Unrefs(inst, wrap[w]), native)
    /\ out' = Quiet
    /\ UNCHANGED height

\* What is on the stack after a call of a function with n values, "this" being one:
\* the function stays there, and the result if there is one and it is wanted.
SqCall(n, retval, ok) == IF ok /\ retval THEN 1 - n ELSE -n

Evaluate(n, ok) == 2 + n + SqCall(n + 1, TRUE, ok) - 2
Execute(n, ok) == 2 + n + SqCall(n + 1, FALSE, ok) - 1

\* The host calls a script's function; who asks for its value sees it succeed.
CallScript ==
    /\ Step
    /\ \E w \in Wrap, n \in 0 .. 2 :
          /\ wrap[w].kind = "function"
          /\ \/ height' = height + Evaluate(n, TRUE)
             \/ \E ok \in BOOLEAN : height' = height + Execute(n, ok)
    /\ out' = Quiet
    /\ UNCHANGED <<native, inst, wrap>>

-----------------------------------------------------------------------------
Init ==
    /\ \E name \in [Class \ Script -> DOMAIN Named] :
          /\ \A c \in Class \ Script : name[c] \in Allocators[c]
          /\ maker = [c \in Class \ Script |-> Named[name[c]]]
    /\ native = [n \in Native |-> NoNative]
    /\ inst = [i \in Inst |-> NoInst]
    /\ wrap = [w \in Wrap |-> NoWrap]
    /\ height = 0
    /\ out = Quiet
    /\ calls = 0

Next ==
    \/ New \/ Clone \/ Forget \/ Call
    \/ HostNew \/ HostDelete \/ Wrapped \/ Copy \/ Destroy \/ CallScript

Spec == Init /\ [][Next]_bindvars

-----------------------------------------------------------------------------
\* Properties.

\* Every C++ object has one owner, the host or one instance, and goes with it, once;
\* no instance points to one that is gone.
NativesOwned ==
    /\ \A n \in Native :
          /\ native[n].life # "twice"
          /\ native[n].life = "live" =>
                Cardinality({i \in Held : inst[i].hook /\ inst[i].up = n})
                  + (IF native[n].host THEN 1 ELSE 0) = 1
    /\ \A i \in Held : inst[i].up # 0 => native[inst[i].up].life = "live"

\* A bound function runs on an object that is there and of its class, whatever class
\* a script has derived and however the instance came about; so do its parameters.
RunsOnOwn ==
    out.cls # None =>
      /\ \/ out.form \in {"global", "member global"}
         \/ out.on # 0 /\ native[out.on].life = "live" /\ IsA(native[out.on].cls, out.cls)
      /\ \A k \in DOMAIN out.params :
            LET p == out.params[k]
            IN  p.kind \in {"object", "pointer"} /\ out.got[k][2] # 0 =>
                  IsA(native[out.got[k][2]].cls, p.cls)

\* The host's wrappers hold what they refer to, and its calls leave the stack alone.
HandlesCounted ==
    /\ height = 0
    /\ \A i \in Held : inst[i].refs = Cardinality({w \in Wrap : wrap[w].obj = i})
                                       + Cardinality({w \in Wrap : wrap[w].env = i})
=============================================================================
