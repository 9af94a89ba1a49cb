------------------------------- MODULE SqHeap -------------------------------
(***************************************************************************)
(* The life of objects: reference counts, weak references, release hooks,  *)
(* the host's references (RefTable), the collector of cycles and the       *)
(* shutdown.  One record holds the heap; the operators below are the       *)
(* functions of the code that change it, each with everything it sets off: *)
(* a released reference may free an object, whose release hook runs native *)
(* code and a script, which release others.                                *)
(*                                                                         *)
(* Tables stand for every container, instances for what may have a hook.   *)
(* A class's table of member names refers to no object and is left out, as *)
(* are strings and the VM's stack, which is empty between two calls.       *)
(*                                                                         *)
(* "Allow" names what the code does not get right; a step that meets one   *)
(* of these is left out unless a run allows it:                            *)
(*   "kept in sweep"    a hook stores its object while the collector takes it: *)
(*                      it lives on, but the chain forgets it              *)
(*   "class first"      the collector finalizes a class before an instance of *)
(*                      it, which then keeps what it refers to: a class that *)
(*                      holds its own instance, once a collection has passed *)
(*   "late hook"        a hook runs when the VM it works on is gone        *)
(*   "released twice"   a hook reads a weak reference to the object that   *)
(*                      is being freed around it                           *)
(*                                                                         *)
(* A definition whose comment begins with "Defect" is a variant of the one *)
(* below it with a plausible bug; Next uses none of them.                  *)
(***************************************************************************)
EXTENDS Integers, SequencesExt, FiniteSetsExt, Functions

CONSTANTS Obj,        \* addresses, 1 is the root table's
          Slots,      \* the slots of a table
          Fields,     \* the members of a class
          MaxHolds, MaxWrites,   \* bounds: the host's references, stores
          Allow

Defects == {"kept in sweep", "class first", "late hook", "released twice"}

ASSUME HeapAssumption ==
    /\ Obj = 1 .. Cardinality(Obj)
    /\ {Slots, Fields, MaxHolds, MaxWrites} \subseteq Nat
    /\ Allow \subseteq Defects

VARIABLES heap,     \* everything below
          writes,   \* how many stores scripts have made
          open      \* FALSE once sq_close has run

vars == <<heap, writes, open>>

Root == 1
None == 0      \* no class, no base, no delegate

Null == <<"null", None>>
Ref(o) == <<"ref", o>>
Weak(o) == <<"weak", o>>
Val == {Null} \cup {Ref(o) : o \in Obj} \cup {Weak(o) : o \in Obj}

NoHook == [holds |-> Null, event |-> "none", on |-> None]

IsLive(h, o) == h.kind[o] \notin {"free", "dead"}
Live(h) == {o \in Obj : IsLive(h, o)}

Fault(h, what) == IF h.fault = "" THEN [h EXCEPT !.fault = what] ELSE h

-----------------------------------------------------------------------------
\* Counting.  A step of these operators changes the heap and says what has to be
\* done next, before what was already to be done: "todo" is the C++ stack.

Then(h, steps) == [h EXCEPT !.todo = steps \o @]

AddRef(h, v) ==
    CASE v[1] = "null" -> h
      [] v[1] = "weak" -> [h EXCEPT !.weak[v[2]] = @ + 1]
      [] v[1] = "ref" -> IF IsLive(h, v[2]) THEN [h EXCEPT !.refs[v[2]] = @ + 1]
                         ELSE Fault(h, "dangling")

\* __Release: the mark bit is in the counter, so a marked object is never freed.
Unref(h, v) ==
    CASE v[1] = "null" -> h
      [] v[1] = "weak" -> [h EXCEPT !.weak[v[2]] = @ - 1]
      [] v[1] = "ref" ->
           IF ~IsLive(h, v[2]) \/ h.refs[v[2]] = 0 THEN Fault(h, "dangling")
           ELSE LET d == [h EXCEPT !.refs[v[2]] = @ - 1]
                IN  IF d.refs[v[2]] = 0 /\ ~d.mark[v[2]]
                      THEN Then(d, << <<"release", v[2]>> >>) ELSE d

\* Defect: what was there is not let go.
AssignOver(h, o, i, v) == AddRef([h EXCEPT !.val[o][i] = v], v)

\* SQObjectPtr::operator=: the new value is held before the old one is let go.
Assign(h, o, i, v) ==
    Then(AddRef([h EXCEPT !.val[o][i] = v], v), << <<"unref", h.val[o][i]>> >>)

\* The values from the i-th one on.
Clear(h, o, i) ==
    IF i > Len(h.val[o]) THEN h
    ELSE Assign(Then(h, << <<"clear", o, i + 1>> >>), o, i, Null)

\* Up is an instance's class, a class's base, a table's delegate.
LetGoUp(h, o) ==
    IF h.up[o] = None THEN h
    ELSE Then([h EXCEPT !.up[o] = None], << <<"unref", Ref(h.up[o])>> >>)

\* RefTable: one reference for every value the host holds, however often.
RefTableAddRef(h, v) ==
    [(IF h.held[v] = 0 THEN AddRef(h, v) ELSE h) EXCEPT !.held[v] = @ + 1]

\* Defect: every release lets the object go.
RefTableReleaseAlways(h, v) ==
    IF h.held[v] = 0 THEN Fault(h, "not held")
    ELSE Then([h EXCEPT !.held[v] = @ - 1], << <<"unref", v>> >>)

RefTableRelease(h, v) ==
    IF h.held[v] = 0 THEN Fault(h, "not held")
    ELSE LET d == [h EXCEPT !.held[v] = @ - 1]
         IN  IF d.held[v] = 0 THEN Then(d, << <<"unref", v>> >>) ELSE d

\* A script gets hold of an object for a moment.
Touch(h, o) ==
    IF IsLive(h, o) THEN Then(AddRef(h, Ref(o)), << <<"unref", Ref(o)>> >>) ELSE h

-----------------------------------------------------------------------------
\* Release hooks and destructors.

Raised(h, o) == [h EXCEPT !.refs[o] = @ + 1]
Lowered(h, o) == [h EXCEPT !.refs[o] = @ - 1]

\* The native object behind an instance is deleted: first its script method
\* destructor() runs, then it lets go of what it holds.
Event(h, o) ==
    LET k == h.hook[o]
    IN  CASE k.event = "touch" -> Touch(h, k.on)
          [] k.event = "keep" /\ h.root # None /\ Slots > 0 ->
               Assign(IF h.marked = << >> THEN h ELSE Fault(h, "kept in sweep"),
                      Root, 1, Ref(o))
          [] OTHER -> h

\* Defect: the hook stays set.
UnhookKeeping(h, o) == [h EXCEPT !.due[o] = @ - 1]

Unhook(h, o) == [h EXCEPT !.hook[o] = NoHook, !.due[o] = @ - 1]

RunHook(h, o) ==
    IF h.hook[o] = NoHook THEN h
    ELSE LET v == h.hook[o].holds
             d == Then(h, (IF v = Null THEN << >> ELSE << <<"drop", v>> >>)
                          \o << <<"unhook", o>> >>)
         IN  Event(IF h.vm THEN d ELSE Fault(d, "late hook"), o)

\* Around a hook the instance is held.
HookHeld(h, o) == Then(Raised(h, o), << <<"hook", o>>, <<"lower", o>> >>)

Finalize(h, o) ==
    IF h.kind[o] = "instance" THEN HookHeld(Then(h, << <<"leave class", o>> >>), o)
    ELSE Then(h, << <<"clear", o, 1>>, <<"finalized", o>> >>)

\* An instance learns from its class how many values it has; if the class has
\* been finalized before it, it clears none of them.
LeaveClass(h, o) ==
    IF h.up[o] = None THEN Fault(h, "no class")
    ELSE IF Len(h.val[h.up[o]]) > 0 THEN LetGoUp(Then(h, << <<"clear", o, 1>> >>), o)
    ELSE LetGoUp(IF h.val[o] = << >> THEN h ELSE Fault(h, "class first"), o)

Finalized(h, o) ==
    LetGoUp(IF h.kind[o] = "class" THEN [h EXCEPT !.val[o] = << >>] ELSE h, o)

\* The destructor.  The first value is a C++ member; weak references are told at
\* the very end.
Die(h, o) ==
    LET d == [h EXCEPT !.dying = @ \cup {o},
                       !.chain = IF h.mark[o] THEN @ ELSE Remove(@, o)]
        f == Then(d, << <<"first", o>>, <<"free", o>> >>)
    IN  IF h.kind[o] = "instance" /\ h.up[o] = None THEN f ELSE Finalize(f, o)

First(h, o) == IF h.val[o] = << >> THEN h ELSE Assign(h, o, 1, Null)

Free(h, o) ==
    [h EXCEPT !.dying = @ \ {o}, !.kind[o] = "dead", !.val[o] = << >>, !.up[o] = None]

\* An instance survives if its hook has stored it, without the hook.
Release(h, o) ==
    IF o \in h.dying THEN Fault(h, "released twice")
    ELSE IF h.kind[o] = "instance" THEN HookHeld(Then(h, << <<"settle", o>> >>), o)
    ELSE Die(h, o)

Settle(h, o) == IF h.refs[o] > 0 THEN h ELSE Die(h, o)

-----------------------------------------------------------------------------
\* The collector.  What is marked moves to a chain of its own, each object in
\* front of those it refers to, but behind one that it refers back to.

RefsIn(s) == SelectSeq([i \in DOMAIN s |-> IF s[i][1] = "ref" THEN s[i][2] ELSE None],
                       LAMBDA o : o # None)

MarkEach(s) == [i \in DOMAIN s |-> <<"mark", s[i]>>]

\* Defect: the class of an instance is taken for marked.
MarkValues(h, o) ==
    IF h.mark[o] THEN h
    ELSE Then([h EXCEPT !.mark[o] = TRUE],
              MarkEach(RefsIn(h.val[o])) \o << <<"marked", o>> >>)

Mark(h, o) ==
    IF h.mark[o] THEN h
    ELSE IF h.kind[o] = "instance" /\ h.up[o] = None THEN Fault(h, "no class")
    ELSE Then([h EXCEPT !.mark[o] = TRUE],
              MarkEach((IF h.up[o] = None THEN << >> ELSE <<h.up[o]>>) \o RefsIn(h.val[o]))
                \o << <<"marked", o>> >>)

Marked(h, o) == [h EXCEPT !.chain = Remove(@, o), !.marked = <<o>> \o @]

\* The values the host holds, in the order of the table's nodes.
HeldValues(h) ==
    LET all == [i \in 1 .. 2 * Cardinality(Obj) |->
                   IF i % 2 = 1 THEN Ref((i + 1) \div 2) ELSE Weak(i \div 2)]
    IN  SelectSeq(all, LAMBDA v : h.held[v] > 0)

Sweep(h) == IF h.chain = << >> THEN h
            ELSE Then(Raised(h, Head(h.chain)), << <<"sweep", Head(h.chain)>> >>)

SweepOne(h, t) == Finalize(Then(h, << <<"next", t>> >>), t)

\* Every object of the chain is finalized, and freed as soon as no other refers
\* to it; the one behind it is held meanwhile.
SweepNext(h, t) ==
    LET at == CHOOSE i \in DOMAIN h.chain : h.chain[i] = t
        nx == IF at = Len(h.chain) THEN None ELSE h.chain[at + 1]
        n == IF nx = None THEN h ELSE Then(Raised(h, nx), << <<"sweep", nx>> >>)
        l == Lowered(n, t)
    IN  IF l.refs[t] = 0 THEN Then(l, << <<"release", t>> >>) ELSE l

\* What is still in the chain then is forgotten.
Swept(h) == [h EXCEPT !.mark = [o \in Obj |-> FALSE], !.chain = h.marked, !.marked = << >>]

\* sq_close: the root VM lets go of the root table and is freed, then the host's
\* references go, then what is left in the chain.
Closing(h) == [h EXCEPT !.vm = FALSE]
Forget(h, v) == Then([h EXCEPT !.held[v] = 0], << <<"unref", v>> >>)
ForgetAll(h) == Then(h, [i \in DOMAIN HeldValues(h) |-> <<"forget", HeldValues(h)[i]>>])

Do(h, t) ==
    CASE t[1] = "unref" -> Unref(h, t[2])
      [] t[1] = "drop" -> RefTableRelease(h, t[2])
      [] t[1] = "clear" -> Clear(h, t[2], t[3])
      [] t[1] = "release" -> Release(h, t[2])
      [] t[1] = "settle" -> Settle(h, t[2])
      [] t[1] = "hook" -> RunHook(h, t[2])
      [] t[1] = "unhook" -> Unhook(h, t[2])
      [] t[1] = "lower" -> Lowered(h, t[2])
      [] t[1] = "leave class" -> LeaveClass(h, t[2])
      [] t[1] = "finalized" -> Finalized(h, t[2])
      [] t[1] = "first" -> First(h, t[2])
      [] t[1] = "free" -> Free(h, t[2])
      [] t[1] = "mark" -> Mark(h, t[2])
      [] t[1] = "marked" -> Marked(h, t[2])
      [] t[1] = "sweep" -> SweepOne(h, t[2])
      [] t[1] = "next" -> SweepNext(h, t[2])
      [] t[1] = "forget" -> Forget(h, t[2])
      [] t[1] = "sweep all" -> Sweep(h)
      [] t[1] = "swept" -> Swept(h)
      [] t[1] = "forget all" -> ForgetAll(h)
      [] t[1] = "closing" -> Closing(h)

RECURSIVE Run(_)
Run(h) == IF h.todo = << >> \/ h.fault \notin {""} \cup Allow THEN [h EXCEPT !.todo = << >>]
          ELSE Run(Do([h EXCEPT !.todo = Tail(@)], Head(h.todo)))

CollectGarbage(h) ==
    Run(Then(h, MarkEach(<<Root>> \o RefsIn(HeldValues(h)))
                \o << <<"sweep all">>, <<"swept">> >>))

CloseHeap(h) ==
    Run(Then([h EXCEPT !.root = None],
             << <<"unref", Ref(Root)>>, <<"closing">>, <<"forget all">>,
                <<"sweep all">> >>))

-----------------------------------------------------------------------------
\* What the host and its scripts do.

Init ==
    /\ heap = [kind |-> [o \in Obj |-> IF o = Root THEN "table" ELSE "free"],
               refs |-> [o \in Obj |-> IF o = Root THEN 1 ELSE 0],
               mark |-> [o \in Obj |-> FALSE],
               val |-> [o \in Obj |-> IF o = Root THEN [i \in 1 .. Slots |-> Null] ELSE << >>],
               up |-> [o \in Obj |-> None],
               hook |-> [o \in Obj |-> NoHook],
               due |-> [o \in Obj |-> 0],      \* observer: hooks set and not run
               weak |-> [o \in Obj |-> 0],
               held |-> [v \in Val |-> 0],
               chain |-> <<Root>>, marked |-> << >>,
               dying |-> {}, todo |-> << >>, root |-> Root, vm |-> TRUE, fault |-> ""]
    /\ writes = 0
    /\ open = TRUE

Targets(h, o) ==
    ToSet(RefsIn(h.val[o])) \cup (IF h.up[o] = None THEN {} ELSE {h.up[o]})

RECURSIVE Closure(_, _, _)
Closure(h, new, seen) ==
    IF new \subseteq seen THEN seen
    ELSE Closure(h, UNION {Targets(h, o) : o \in new \ seen}, seen \cup new)

\* What is reachable from the VM and from the host.
Reach(h) ==
    Closure(h, {o \in Obj : o = h.root \/ h.held[Ref(o)] > 0}, {})

\* A script also gets at what it finds through a weak reference.
Access(h) ==
    LET weak == {o \in Live(h) : \/ h.held[Weak(o)] > 0
                                 \/ \E p \in Reach(h) : Weak(o) \in ToSet(h.val[p])}
    IN  Closure(h, weak, Reach(h))

\* The root table itself is neither stored nor held.
Others(h) == Access(h) \ {Root}
Values(h) == {Null} \cup {Ref(o) : o \in Others(h)} \cup {Weak(o) : o \in Others(h)}

\* A step whose result meets a defect that is not allowed is left out.
Becomes(h) == /\ h.fault \notin Defects \ Allow
              /\ heap' = h

Unused(h) == {o \in Obj : h.kind[o] = "free"}

\* The host or a script creates an object; the host holds it first.
Create(h, o, kind, vals, up, hook) ==
    LET a == [h EXCEPT !.kind[o] = kind, !.val[o] = vals, !.up[o] = up, !.hook[o] = hook,
                       !.due[o] = IF hook = NoHook THEN 0 ELSE 1, !.chain = <<o>> \o @]
        b == IF up = None THEN a ELSE AddRef(a, Ref(up))
        c == FoldLeft(AddRef, b, vals)
        d == IF hook.holds = Null THEN c ELSE RefTableAddRef(c, hook.holds)
    IN  RefTableAddRef(d, Ref(o))

Holds(h) == FoldSet(LAMBDA v, n : n + h.held[v], 0, Val)

\* The next object to create.
New == Min(Unused(heap))
CanCreate == open /\ Unused(heap) # {} /\ Holds(heap) < MaxHolds

NewTable ==
    /\ CanCreate
    /\ Becomes(Create(heap, New, "table", [i \in 1 .. Slots |-> Null], None, NoHook))
    /\ UNCHANGED <<writes, open>>

\* A class takes the members of its base, or gets its own.
NewClass ==
    /\ CanCreate
    /\ \/ \E s \in [1 .. Fields -> {Null} \cup {Ref(p) : p \in Others(heap)}] :
              Becomes(Create(heap, New, "class", s, None, NoHook))
       \/ \E b \in Access(heap) :
              /\ heap.kind[b] = "class"
              /\ Becomes(Create(heap, New, "class", heap.val[b], b, NoHook))
    /\ UNCHANGED <<writes, open>>

\* The constructor may tie a native object to the instance, which holds what it
\* was given and whose script method destructor() does something.
Hooks(h, o) ==
    {NoHook}
      \cup {[NoHook EXCEPT !.holds = v] : v \in {Ref(p) : p \in Others(h)} \cup {Weak(o)}}
      \cup {[NoHook EXCEPT !.event = "touch", !.on = p] : p \in Others(h) \cup {o}}
      \cup {[NoHook EXCEPT !.event = "keep"]}

NewInstance ==
    /\ CanCreate
    /\ \E c \in Access(heap) : \E k \in Hooks(heap, New) :
          /\ heap.kind[c] = "class"
          /\ Becomes(Create(heap, New, "instance", heap.val[c], c, k))
    /\ UNCHANGED <<writes, open>>

\* A clone has no hook.
Clone ==
    /\ CanCreate
    /\ \E o \in Access(heap) :
          /\ heap.kind[o] \in {"table", "instance"}
          /\ Becomes(Create(heap, New, heap.kind[o], heap.val[o], heap.up[o], NoHook))
    /\ UNCHANGED <<writes, open>>

CanStore == open /\ writes < MaxWrites

Store ==
    /\ CanStore
    /\ \E o \in Access(heap) : \E i \in DOMAIN heap.val[o] : \E v \in Values(heap) :
          /\ heap.kind[o] # "class"
          /\ v # heap.val[o][i]
          /\ Becomes(Run(Assign(heap, o, i, v)))
    /\ writes' = writes + 1
    /\ UNCHANGED open

Delegates(h, t) == Closure([h EXCEPT !.val = [o \in Obj |-> << >>]], {t}, {})

\* Delegates form no cycle.
SetDelegate ==
    /\ CanStore
    /\ \E o, t \in Access(heap) :
          /\ heap.kind[o] = "table" /\ heap.kind[t] = "table" /\ o \notin Delegates(heap, t)
          /\ heap.up[o] # t
          /\ Becomes(Run([LetGoUp(AddRef(heap, Ref(t)), o) EXCEPT !.up[o] = t]))
    /\ writes' = writes + 1
    /\ UNCHANGED open

Hold ==
    /\ open /\ Holds(heap) < MaxHolds
    /\ \E o \in Others(heap) : Becomes(RefTableAddRef(heap, Ref(o)))
    /\ UNCHANGED <<writes, open>>

NativeHolds(h, v) == Cardinality({o \in Live(h) : h.hook[o].holds = v})

Drop ==
    /\ open
    /\ \E o \in Obj :
          /\ heap.held[Ref(o)] > NativeHolds(heap, Ref(o))
          /\ Becomes(Run(RefTableRelease(heap, Ref(o))))
    /\ UNCHANGED <<writes, open>>

\* Only what nobody refers to any more is changed by it.
Use ==
    /\ open
    /\ \E o \in Access(heap) : heap.refs[o] = 0 /\ Becomes(Run(Touch(heap, o)))
    /\ UNCHANGED <<writes, open>>

Collect ==
    /\ open
    /\ Becomes(CollectGarbage(heap))
    /\ UNCHANGED <<writes, open>>

Close ==
    /\ open
    /\ Becomes(CloseHeap(heap))
    /\ open' = FALSE
    /\ UNCHANGED writes

Next ==
    \/ NewTable \/ NewClass \/ NewInstance \/ Clone
    \/ Store \/ SetDelegate \/ Hold \/ Drop \/ Use
    \/ Collect \/ Close

Spec == Init /\ [][Next]_vars

-----------------------------------------------------------------------------
\* Properties.

Count(s, v) == Cardinality({i \in DOMAIN s : s[i] = v})

RefsTo(h, o) ==
      FoldSet(LAMBDA p, n : n + Count(h.val[p], Ref(o)) + (IF h.up[p] = o THEN 1 ELSE 0),
              0, Live(h))
    + (IF h.root = o THEN 1 ELSE 0) + (IF h.held[Ref(o)] > 0 THEN 1 ELSE 0)

WeakRefsTo(h, o) ==
      FoldSet(LAMBDA p, n : n + Count(h.val[p], Weak(o)), 0, Live(h))
    + (IF h.held[Weak(o)] > 0 THEN 1 ELSE 0)

\* Every counter says how many references there are, the weak ones too: what is
\* counted too high is never freed, what is counted too low is freed in use.
CountsExact ==
    /\ \A o \in Live(heap) : heap.refs[o] = RefsTo(heap, o)
    /\ \A o \in Obj : heap.weak[o] = WeakRefsTo(heap, o)

\* Nothing freed is referred to or released again, and the host never releases
\* what it does not hold, whatever the hooks do while objects go.
NothingDangles ==
    /\ heap.fault = ""
    /\ \A o \in Live(heap) : Targets(heap, o) \subseteq Live(heap)

\* The native object behind an instance is deleted once, with the instance or
\* before it, also when the instance lives on.
HookOnce ==
    \A o \in Obj :
        /\ heap.due[o] = IF heap.hook[o] = NoHook THEN 0 ELSE 1
        /\ heap.kind[o] = "dead" => heap.hook[o] = NoHook

\* Once the shared state is gone nothing is left, in the chain or outside it.
ClosesClean ==
    ~open => /\ heap.chain = << >> /\ Live(heap) = {}
             /\ \A o \in Obj : heap.weak[o] = 0

\* Nothing dangles while the program runs, and nothing is left when it has ended.
NothingLost == NothingDangles /\ ClosesClean

\* A collection frees all that nobody reaches, and changes nothing of the rest.
CollectsGarbage ==
    [][Collect =>
         /\ Live(heap') = Reach(heap)
         /\ \A o \in Reach(heap) : heap'.val[o] = heap.val[o] /\ heap'.up[o] = heap.up[o]]_vars
=============================================================================
