-------------------------------- MODULE SqVM --------------------------------
(***************************************************************************)
(* One SQVM: call frames, exception traps, extra arguments, generators and *)
(* suspension.  Three stacks have to agree: the frames (_callsstack), the  *)
(* traps (_etraps, each Execute counting its own), and the C++ stack on    *)
(* which Execute and native functions call each other.                     *)
(*                                                                         *)
(* Bytecode is abstract: a running frame may issue any instruction that    *)
(* touches these stacks, as the compiler emits them (no traps left at a    *)
(* return, so none at a tail call).  Values are left out.  An exception    *)
(* class and an error handler, which exception_trap may call, are not set. *)
(*                                                                         *)
(* "Allow" names what the code does not get right; a run that leaves one   *)
(* out shows what holds for programs that keep away from it:               *)
(*   "foreach traps"  foreach resumes a generator that yielded inside try  *)
(*   "moved traps"    such a generator is resumed at another stack depth   *)
(*   "bad tail call"  a function with extra arguments makes a tail call    *)
(*                    with a wrong number of arguments                     *)
(*   "mixed resume"   a script resumes what the host has resumed before    *)
(*   "dead resume"    the host resumes a generator that is not suspended   *)
(*   "late pop"       a generator resumed by the host suspends the VM      *)
(*                                                                         *)
(* A definition whose comment begins with "Defect" is a variant of the one *)
(* below it with a plausible bug; Next uses none of them.                  *)
(***************************************************************************)
EXTENDS Integers, SequencesExt, FiniteSetsExt, Functions

CONSTANTS Gen,         \* generator objects
          NoGen,
          Extra,       \* how many extra arguments calls may have
          MaxFrames, MaxTraps, MaxTop,   \* bounds: frames, traps set,
                                         \* stack slots when the host calls
          MAX_NATIVE_CALLS,
          Allow

Hazard == {"foreach traps", "moved traps", "bad tail call", "mixed resume",
           "dead resume", "late pop"}

ASSUME VMAssumption ==
    /\ IsFiniteSet(Gen) /\ NoGen \notin Gen
    /\ Extra \subseteq Nat /\ 0 \in Extra
    /\ {MaxFrames, MaxTraps, MaxTop, MAX_NATIVE_CALLS} \subseteq Nat
    /\ Allow \subseteq Hazard

VARIABLES vm,     \* the VM's data
          cpp     \* the C++ stack above the host: Execute, with its counter
                  \* "traps" and the API function it serves, and native
                  \* functions

vars == <<vm, cpp>>

FrameSize == 2    \* _stacksize of every function

NotSuspended == [on |-> FALSE, traps |-> 0, root |-> FALSE, vargs |-> 0]

NoFrame == [native |-> FALSE, gen |-> NoGen, etraps |-> 0, vargs |-> 0,
            root |-> FALSE, pbase |-> 0, ptop |-> 0, home |-> 0]

NewGen == [state |-> "none", ci |-> NoFrame, size |-> 0, traps |-> << >>, vargs |-> 0]

\* A thread's VM with a function on its stack.
Init ==
    /\ vm = [calls |-> << >>, etraps |-> << >>, nvargs |-> 0, base |-> 0,
             top |-> 1, susp |-> NotSuspended, gens |-> [g \in Gen |-> NewGen],
             undefined |-> FALSE]
    /\ cpp = << >>

Ci(v) == Last(v.calls)

SetCi(v, f) == [v EXCEPT !.calls = Append(Front(@), f)]

-----------------------------------------------------------------------------
\* Calls.

\* The CallInfo of a call whose stack begins at "at"; home, where the code of
\* the frame finds its registers, is an observer.
PushFrame(v, at, extra, native) ==
    [v EXCEPT !.calls = Append(@, [NoFrame EXCEPT
                            !.native = native, !.vargs = extra, !.home = at,
                            !.pbase = at - v.base, !.ptop = v.top - v.base]),
              !.base = at]

\* StartCall: the extra arguments leave the stack.
StartCall(v, at, extra) ==
    [PushFrame(v, at, extra, FALSE) EXCEPT
        !.nvargs = @ + extra, !.top = at + FrameSize]

\* _OP_TAILCALL: the frame is used again.
StartTailCall(v, extra) ==
    [SetCi(v, [Ci(v) EXCEPT !.vargs = extra]) EXCEPT
        !.nvargs = @ - Ci(v).vargs + extra, !.top = v.base + FrameSize]

\* CallNative up to the call of the function: one argument.
StartNative(v, at) == [PushFrame(v, at, 0, TRUE) EXCEPT !.top = at + 1]

\* What Return and the end of CallNative do to the stacks.
PopFrame(v) ==
    [v EXCEPT !.calls = Front(@), !.nvargs = @ - Ci(v).vargs,
              !.base = @ - Ci(v).pbase,
              !.top = v.base - Ci(v).pbase + Ci(v).ptop]

-----------------------------------------------------------------------------
\* Generators.

LastOf(s, n) == SubSeq(s, Len(s) - n + 1, Len(s))

\* What a generator keeps of its frame; Resume overwrites all the rest.
Saved(v) ==
    [state |-> "suspended", size |-> v.top - v.base, vargs |-> Ci(v).vargs,
     ci |-> [NoFrame EXCEPT !.etraps = Ci(v).etraps, !.root = Ci(v).root],
     traps |-> Reverse(LastOf(v.etraps, Ci(v).etraps))]

\* SQGenerator::Yield: the frame moves into the generator, its traps from the
\* top down; the extra arguments are copied, and popped with the frame.
Yield(v, g) ==
    [v EXCEPT !.gens[g] = Saved(v),
              !.etraps = SubSeq(@, 1, Len(@) - Ci(v).etraps)]

\* Defect: the traps are not turned round again.
ResumeReversed(v, g) ==
    LET s == v.gens[g]
        below == v.top - v.base
    IN  [v EXCEPT
          !.calls = Append(@, [s.ci EXCEPT !.gen = g, !.vargs = s.vargs,
                      !.pbase = below, !.ptop = below, !.home = v.top]),
          !.etraps = @ \o s.traps,
          !.nvargs = @ + s.vargs,
          !.base = v.top, !.top = @ + s.size,
          !.gens[g] = [s EXCEPT !.state = "running", !.traps = << >>, !.vargs = 0]]

\* SQGenerator::Resume of a suspended one, on top of the stack.  The traps
\* come back as they were pushed, with the stack positions of that time; so
\* does the root flag.
Resume(v, g) ==
    LET s == v.gens[g]
        below == v.top - v.base
    IN  [v EXCEPT
          !.calls = Append(@, [s.ci EXCEPT !.gen = g, !.vargs = s.vargs,
                      !.pbase = below, !.ptop = below, !.home = v.top]),
          !.etraps = @ \o Reverse(s.traps),
          !.nvargs = @ + s.vargs,
          !.base = v.top, !.top = @ + s.size,
          !.gens[g] = [s EXCEPT !.state = "running", !.traps = << >>, !.vargs = 0]]

\* SQGenerator::Kill of the generators of these frames.
Kill(v, frames) ==
    [v EXCEPT !.gens = [g \in Gen |->
        IF \E f \in frames : f.gen = g THEN [NewGen EXCEPT !.state = "dead"] ELSE @[g]]]

\* Whether the traps a generator yielded with still point into its frame.
TrapsFit(v, g) == \A e \in Range(v.gens[g].traps) : e.base = v.top

-----------------------------------------------------------------------------
\* Exceptions.

\* The frames with a trap that no native function hides.
Landing(v) ==
    {i \in DOMAIN v.calls : /\ v.calls[i].etraps > 0
                            /\ \A j \in i .. Len(v.calls) : ~ v.calls[j].native}

Above(v, n) == {v.calls[i] : i \in n + 1 .. Len(v.calls)}

\* The sums of a sequence's first elements: none, one, and so on.
Sums(s) == LET sum[i \in 0 .. Len(s)] == IF i = 0 THEN 0 ELSE sum[i - 1] + s[i]
           IN  sum

SumAbove(s, n) == Sums(s)[Len(s)] - Sums(s)[n]

EtrapsOf(calls) == [i \in DOMAIN calls |-> calls[i].etraps]

VargsOf(calls) == [i \in DOMAIN calls |-> calls[i].vargs]

PbaseOf(calls) == [i \in DOMAIN calls |-> calls[i].pbase]

\* The frames above n are popped, their generators killed.
Unwind(v, n) ==
    [Kill(v, Above(v, n)) EXCEPT
        !.calls = SubSeq(@, 1, n),
        !.nvargs = @ - SumAbove(VargsOf(v.calls), n)]

\* Defect: the stack base is left to the frames that are popped.
CatchInPlace(v) ==
    LET n == Max(Landing(v))
    IN  [Unwind(v, n) EXCEPT !.calls[n].etraps = @ - 1, !.etraps = Front(@),
                             !.top = Last(v.etraps).top]

\* The innermost trap takes the exception.
Catch(v) ==
    LET n == Max(Landing(v))
        e == Last(v.etraps)
    IN  [Unwind(v, n) EXCEPT !.calls[n].etraps = @ - 1, !.etraps = Front(@),
                             !.base = e.base, !.top = e.top]

\* No trap: frames are popped up to the one Execute began with or the one a
\* native function called.
Escape(v) ==
    LET n == Max({i \in DOMAIN v.calls :
                    i = 1 \/ v.calls[i].root \/ v.calls[i - 1].native})
        base == v.base - SumAbove(PbaseOf(v.calls), n - 1)
    IN  [Unwind(v, n - 1) EXCEPT !.base = base, !.top = base + v.calls[n].ptop]

-----------------------------------------------------------------------------
\* The C++ side.

Native == [native |-> TRUE, traps |-> 0, by |-> "script"]

Execute(traps, by) == [native |-> FALSE, traps |-> traps, by |-> by]

\* What the API function that has called Execute does when it comes back:
\* sq_call pops the argument, but not while the VM is suspended; sq_resume, or
\* its caller after a failure, pops the result; sq_wakeupvm, or
\* its caller after a failure, clears the stack of a VM that has ended.
Epilogue(v, by, ok) ==
    LET pops == CASE by = "call" -> IF ok /\ v.susp.on THEN 0 ELSE 1
                  [] by = "resume" -> 1
                  [] by = "wakeup" ->
                       IF v.calls = << >> /\ ~ v.susp.on /\ v.top > 1
                       THEN v.top - 1 ELSE 0
    IN  [v EXCEPT !.top = @ - pops]

\* An exception in the running frame of an Execute with these counters, on
\* the C++ stack below.  If the counter says that there is a trap and there
\* is none, the frames of others are popped.
Throw(v, x, below) ==
    \/ /\ x.traps # 0 /\ Landing(v) # {}
       /\ vm' = Catch(v)
       /\ cpp' = Append(below, [x EXCEPT !.traps = @ - 1])
    \/ /\ x.traps # 0 /\ Landing(v) = {}
       /\ vm' = [v EXCEPT !.undefined = TRUE]
       /\ cpp' = << >>
    \/ /\ x.traps = 0
       /\ vm' = Epilogue(Escape(v), x.by, FALSE)
       /\ cpp' = below

\* The frame on top comes back to the one that called it, or to C++.
Leave(v, x) ==
    IF Ci(v).root
    THEN vm' = Epilogue(PopFrame(v), x.by, TRUE) /\ cpp' = Front(cpp)
    ELSE vm' = PopFrame(v) /\ cpp' = Append(Front(cpp), x)

InScript == cpp # << >> /\ ~ Last(cpp).native

InNative == cpp # << >> /\ Last(cpp).native

Room == Len(vm.calls) < MaxFrames

-----------------------------------------------------------------------------
\* Instructions of the running frame.

\* The handler a trap leads to is told by its number in the frame.
PushTrap ==
    /\ InScript
    /\ Len(vm.etraps) < MaxTraps
    /\ vm' = [SetCi(vm, [Ci(vm) EXCEPT !.etraps = @ + 1]) EXCEPT
                 !.etraps = Append(@, [base |-> vm.base, top |-> vm.top,
                                      nth |-> Ci(vm).etraps + 1])]
    /\ cpp' = [cpp EXCEPT ![Len(cpp)].traps = @ + 1]

PopTrap(n) ==
    /\ InScript
    /\ n <= Ci(vm).etraps
    /\ vm' = [SetCi(vm, [Ci(vm) EXCEPT !.etraps = @ - n]) EXCEPT
                 !.etraps = SubSeq(@, 1, Len(@) - n)]
    /\ cpp' = [cpp EXCEPT ![Len(cpp)].traps = @ - n]

CallScript(extra) ==
    /\ InScript /\ Room
    /\ vm' = StartCall(vm, vm.base + 1, extra)
    /\ UNCHANGED cpp

\* A generator function is called, yields at once and returns the generator.
Generate(g, at, extra) == PopFrame(Yield(StartCall(vm, at, extra), g))

CallGenerator(g, extra) ==
    /\ InScript /\ Room
    /\ vm.gens[g].state \in {"none", "dead"}
    /\ vm' = Generate(g, vm.base + 1, extra)
    /\ UNCHANGED cpp

TailCall(extra) ==
    /\ InScript
    /\ Ci(vm).etraps = 0
    /\ vm' = StartTailCall(vm, extra)
    /\ UNCHANGED cpp

\* The arguments of the caller are gone when StartCall refuses the call.
BadTailCall ==
    /\ InScript
    /\ Ci(vm).etraps = 0
    /\ Ci(vm).vargs = 0 \/ "bad tail call" \in Allow
    /\ Throw([vm EXCEPT !.nvargs = @ - Ci(vm).vargs], Last(cpp), Front(cpp))

CallNative ==
    /\ InScript /\ Room
    /\ Len(cpp) + 1 <= MAX_NATIVE_CALLS
    /\ vm' = StartNative(vm, vm.base + 1)
    /\ cpp' = Append(cpp, Native)

YieldOp ==
    LET g == Ci(vm).gen
        x == [Last(cpp) EXCEPT !.traps = @ - Ci(vm).etraps]
    IN  InScript /\ g # NoGen /\ Leave(Yield(vm, g), x)

Return ==
    /\ InScript
    /\ Ci(vm).etraps = 0
    /\ Leave(Kill(vm, {Ci(vm)}), Last(cpp))

ResumeOp(g) ==
    /\ InScript /\ Room
    /\ vm.gens[g].state = "suspended"
    /\ ~ vm.gens[g].ci.root \/ "mixed resume" \in Allow
    /\ TrapsFit(vm, g) \/ "moved traps" \in Allow
    /\ vm' = Resume(vm, g)
    /\ cpp' = [cpp EXCEPT ![Len(cpp)].traps = @ + vm.gens[g].ci.etraps]

\* FOREACH_OP on a generator does not count the traps that come back.
Foreach(g) ==
    /\ InScript /\ Room
    /\ vm.gens[g].state = "suspended"
    /\ ~ vm.gens[g].ci.root \/ "mixed resume" \in Allow
    /\ vm.gens[g].traps = << >> \/ "foreach traps" \in Allow
    /\ TrapsFit(vm, g) \/ "moved traps" \in Allow
    /\ vm' = Resume(vm, g)
    /\ UNCHANGED cpp

\* A throw statement, and every instruction that fails: a call with a wrong
\* number of arguments, one past MAX_NATIVE_CALLS, the resumption of a
\* generator that is dead or running, a yield outside a generator.
ThrowOp == InScript /\ Throw(vm, Last(cpp), Front(cpp))

-----------------------------------------------------------------------------
\* Native functions and the host.

NativeReturn ==
    /\ InNative
    /\ vm' = PopFrame(vm)
    /\ cpp' = Front(cpp)

NativeFail ==
    /\ InNative
    /\ Throw(PopFrame(vm), cpp[Len(cpp) - 1], SubSeq(cpp, 1, Len(cpp) - 2))

\* Defect: a native call in between does not count.
MaySuspendDeep == ~ vm.susp.on

\* SQVM::Suspend: only right below the Execute the host has called.
MaySuspend == ~ vm.susp.on /\ Len(cpp) = 2

\* A native function returns what sq_suspendvm gave it: where the VM refuses,
\* that is an error.
NativeSuspend ==
    /\ InNative /\ MaySuspend
    /\ LET x == cpp[Len(cpp) - 1]
           v == PopFrame(vm)
       IN  /\ x.by # "resume" \/ "late pop" \in Allow
           /\ vm' = Epilogue([v EXCEPT !.susp =
                       [on |-> TRUE, traps |-> x.traps, root |-> Ci(v).root,
                        vargs |-> Ci(v).vargs]], x.by, TRUE)
           /\ cpp' = SubSeq(cpp, 1, Len(cpp) - 2)

CanCall == InNative \/ cpp = << >>

\* The host, or a native function, has room for another Execute.
CanExecute ==
    /\ CanCall /\ Room
    /\ vm.top < MaxTop
    /\ Len(cpp) + 1 <= MAX_NATIVE_CALLS

Pushed == [vm EXCEPT !.top = @ + 1]

RootCi(v) == SetCi(v, [Ci(v) EXCEPT !.root = TRUE])

\* sq_call of a script function, with one argument; the VM may be suspended.
Call(extra) ==
    /\ CanExecute
    /\ vm' = RootCi(StartCall(Pushed, vm.top, extra))
    /\ cpp' = Append(cpp, Execute(0, "call"))

\* sq_call of a generator function.
CallGenerate(g, extra) ==
    /\ CanExecute
    /\ vm.gens[g].state \in {"none", "dead"}
    /\ vm' = Epilogue(PopFrame(Yield(StartCall(Pushed, vm.top, extra), g)), "call", TRUE)
    /\ UNCHANGED cpp

\* sq_resume; Execute looks neither at the result of Resume nor whether a
\* frame is there to be made its root.
SqResume(g) ==
    /\ CanExecute
    /\ vm.gens[g].state # "none"
    /\ IF vm.gens[g].state = "suspended"
       THEN /\ TrapsFit(Pushed, g) \/ "moved traps" \in Allow
            /\ vm' = RootCi(Resume(Pushed, g))
            /\ cpp' = Append(cpp, Execute(vm.gens[g].ci.etraps, "resume"))
       ELSE /\ "dead resume" \in Allow
            /\ vm' = [vm EXCEPT !.undefined = TRUE]
            /\ cpp' = << >>

\* Defect: the traps of the suspended frames are not counted again.
Woken == [vm EXCEPT !.susp = NotSuspended]

WakeForgetting(throw) ==
    /\ cpp = << >> /\ vm.susp.on /\ ~ vm.undefined
    /\ IF throw THEN Throw(Woken, Execute(0, "wakeup"), << >>)
       ELSE vm' = Woken /\ cpp' = << Execute(0, "wakeup") >>

\* sq_wakeupvm, with a value or with an exception.
Wake(throw) ==
    LET v == SetCi(Woken, [Ci(vm) EXCEPT !.root = vm.susp.root, !.vargs = vm.susp.vargs])
        x == Execute(vm.susp.traps, "wakeup")
    IN  /\ cpp = << >> /\ vm.susp.on /\ ~ vm.undefined
        /\ IF throw THEN Throw(v, x, << >>)
           ELSE vm' = v /\ cpp' = << x >>

-----------------------------------------------------------------------------
Next ==
    \/ PushTrap
    \/ \E n \in 1 .. MaxTraps : PopTrap(n)
    \/ \E extra \in Extra : CallScript(extra) \/ TailCall(extra) \/ Call(extra)
    \/ \E g \in Gen, extra \in Extra : CallGenerator(g, extra) \/ CallGenerate(g, extra)
    \/ BadTailCall \/ CallNative \/ YieldOp \/ Return \/ ThrowOp
    \/ \E g \in Gen : ResumeOp(g) \/ Foreach(g) \/ SqResume(g)
    \/ NativeReturn \/ NativeFail \/ NativeSuspend
    \/ \E throw \in BOOLEAN : Wake(throw)

Spec == Init /\ [][Next]_vars

-----------------------------------------------------------------------------
GenState == {"none", "suspended", "running", "dead"}

TypeOK ==
    /\ vm.base \in Nat /\ vm.top \in Nat /\ vm.nvargs \in Nat
    /\ \A i \in DOMAIN vm.calls :
          LET f == vm.calls[i]
          IN  /\ f.gen \in Gen \cup {NoGen}
              /\ {f.etraps, f.vargs, f.pbase, f.ptop, f.home} \subseteq Nat
    /\ \A g \in Gen : vm.gens[g].state \in GenState
    /\ \A i \in DOMAIN cpp : cpp[i].traps \in Nat
    /\ vm.undefined = FALSE

\* Where the frame stack has what is on the C++ stack, in the same order: every
\* Execute has one frame to return from and every native function its own, and
\* a suspended VM keeps below them the frames of the Execute it has left.
Left == IF vm.susp.on THEN 1 ELSE 0

Places == [1 .. Len(cpp) + Left -> DOMAIN vm.calls]

Matches(at) ==
    /\ \A m, n \in DOMAIN at : m < n => at[m] < at[n]
    /\ \A i \in DOMAIN vm.calls :
          vm.calls[i].root \/ vm.calls[i].native <=> i \in Range(at)

\* The two stacks are in step.  Otherwise a return ends the wrong activation.
StacksAgree ==
    \E at \in Places :
        /\ Matches(at)
        /\ \A m \in DOMAIN cpp : cpp[m].native = vm.calls[at[m + Left]].native

\* Traps of the frames from i to j.
Between(i, j) == Sums(EtrapsOf(vm.calls))[j] - Sums(EtrapsOf(vm.calls))[i - 1]

\* The traps are those of the frames, in their order, and each takes an
\* exception into the frame that has set it, at the place where that frame
\* has its registers: across calls, yields at other depths, suspensions and
\* exceptions in between.
TrapsFitFrames ==
    /\ Len(vm.etraps) = Between(1, Len(vm.calls))
    /\ \A i \in DOMAIN vm.calls :
          \A k \in Between(1, i - 1) + 1 .. Between(1, i) :
              /\ vm.etraps[k].nth = k - Between(1, i - 1)
              /\ vm.etraps[k].base = vm.calls[i].home
              /\ vm.etraps[k].top >= vm.calls[i].home + FrameSize

\* Every Execute counts exactly the traps of its own frames, so that it
\* returns with none (assert(traps==0) at _OP_RETURN), and an exception is
\* looked for neither in vain nor too little; so does what a suspended VM will
\* count when it is woken.  A native function has none.
TrapsCounted ==
    \E at \in Places :
        LET end(m) == IF m = Len(at) THEN Len(vm.calls) ELSE at[m + 1] - 1
            count(m) == IF m <= Left THEN vm.susp.traps ELSE cpp[m - Left].traps
        IN  /\ Matches(at)
            /\ \A m \in DOMAIN at : count(m) = Between(at[m], end(m))

\* A generator has a frame exactly while it is running, and never two.
OneFrameEach ==
    \A g \in Gen :
        Cardinality({i \in DOMAIN vm.calls : vm.calls[i].gen = g})
            = IF vm.gens[g].state = "running" THEN 1 ELSE 0

\* Whatever was called, yielded, thrown or woken in between, a frame that runs
\* has its registers where it left them, its extra arguments are there, and it
\* has read nothing that is undefined; a generator's frame is in one place.
FrameAtHome ==
    /\ TypeOK
    /\ OneFrameEach
    /\ vm.nvargs = SumAbove(VargsOf(vm.calls), 0)
    /\ vm.calls # << >> =>
          /\ vm.base = Ci(vm).home
          /\ vm.top >= Ci(vm).home + (IF Ci(vm).native THEN 1 ELSE FrameSize)
=============================================================================
