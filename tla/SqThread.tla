------------------------------ MODULE SqThread ------------------------------
(***************************************************************************)
(* The pseudo-thread scheduler of sqobject: class Thread with its methods, *)
(* the global functions scripts call (fork, exec, exit, system, wait,      *)
(* notify), and the loop a host runs around them,                          *)
(*                                                                         *)
(*     Thread::update(diff); beforeContinuous(); Thread::main();           *)
(*     afterContinuous();                                                  *)
(*                                                                         *)
(* Everything runs on one operating-system thread.  Concurrency comes from *)
(* scripts that stop in the middle (wait, suspend) and from the callbacks  *)
(* between them: the script of a thread may act on every other thread, and *)
(* step() starts one script inside another.                                *)
(*                                                                         *)
(* A definition whose comment begins with "Defect" is a variant of the one *)
(* below it with a plausible bug; Next uses none of them.                  *)
(***************************************************************************)
EXTENDS SqWait

CONSTANTS Diff,          \* elapsed times a host passes to update()
          Priority,      \* priorities scripts use
          DefaultPriority,
          StepModes,     \* values scripts give setStepMode()
          Load,          \* how code is given: "file", "func"; "none": no code
          WaitArgs,      \* argument lists of wait()
          NotifyTargets, \* objects on which scripts call notify()/notifyAll()
          ForeignWait,   \* TRUE: scripts call wait() on other thread objects
          Nested,        \* {FALSE}, or {TRUE, FALSE}: wait(), exit(), system()
                         \* are also called below a native function
          ExecSelf       \* TRUE: exec() is called on a thread that is running

ASSUME ThreadAssumption ==
    /\ Diff \subseteq Nat
    /\ Priority \subseteq Int /\ DefaultPriority \in Priority
    /\ StepModes \subseteq BOOLEAN
    /\ Load \subseteq {"file", "func", "none"}
    /\ WaitArgs \subseteq WaitArg
    /\ NotifyTargets \subseteq Waitable
    /\ ForeignWait \in BOOLEAN /\ ExecSelf \in BOOLEAN
    /\ Nested \subseteq BOOLEAN /\ FALSE \in Nested

VARIABLES w,          \* the wait registry (SqWait)
          created,    \* the Thread objects constructed so far
          status,     \* Thread::_status
          vm,         \* state of the thread's VM; "none" while _thread is null
          priority,   \* Thread::_priority
          stepMode,   \* Thread::_stepMode
          threadList, \* Thread::threadList
          phase,      \* where the host loop is
          diffTick,   \* Thread::diffTick
          all,        \* Thread::all, what is left of it in this round
          stack       \* the threads whose scripts are running, innermost last

vars == <<w, created, status, vm, priority, stepMode, threadList, phase,
          diffTick, all, stack>>

LoadStatus == [file |-> "LOADING_FILE", func |-> "LOADING_FUNC"]
Status == {"NONE", "LOADING_FILE", "LOADING_FUNC", "STOP", "RUN"}
Phase == {"idle", "updated", "main", "done", "down"}

TypeOK ==
    /\ w \in Registry
    /\ created \subseteq Thread
    /\ status \in [Thread -> Status]
    /\ vm \in [Thread -> {"none", "idle", "running", "suspended"}]
    /\ priority \in [Thread -> Priority]
    /\ stepMode \in [Thread -> BOOLEAN]
    /\ threadList \in Seq(Thread)
    /\ phase \in Phase
    /\ diffTick \in Diff \cup {0}
    /\ all \in Seq(Thread)
    /\ stack \in Seq(Thread)

Init ==
    /\ w = NoWaits
    /\ created = {}
    /\ status = [t \in Thread |-> "NONE"]
    /\ vm = [t \in Thread |-> "none"]
    /\ priority = [t \in Thread |-> DefaultPriority]
    /\ stepMode = [t \in Thread |-> FALSE]
    /\ threadList = << >>
    /\ phase = "idle"
    /\ diffTick = 0
    /\ all = << >>
    /\ stack = << >>

-----------------------------------------------------------------------------
\* State formulae.

Running(t) == t \in ToSet(stack)

\* Some script can make a call: that of the innermost running thread or, out
\* of Thread::main, one on the base VM (the host's event code, a continuous
\* handler, execOnBase).
CanCall == stack # << >> \/ phase \in {"idle", "updated"}

\* _wakeup and step() run a thread only in this state.
Ready(W, t) == ~ IsWait(W, t) /\ status[t] = "RUN"

\* The sequences that list S by priority and, for equal priorities, in the
\* order of the thread list: std::multiset inserts behind its equals.
Position(t) == CHOOSE i \in DOMAIN threadList : threadList[i] = t
Before(t, u) ==
    \/ priority[t] < priority[u]
    \/ priority[t] = priority[u] /\ Position(t) < Position(u)
ByPriority(S) ==
    {q \in [1 .. Cardinality(S) -> S] :
        \A i, j \in DOMAIN q : i < j => Before(q[i], q[j])}

\* Defect: a thread is entered again although it is in the list.
EnteredAgain(t) == Append(threadList, t)

Entered(t) == IF t \in ToSet(threadList) THEN threadList ELSE Append(threadList, t)

\* SQVM::Suspend refuses unless the call comes straight from the script; the
\* natives have changed the wait state by then.  The innermost script goes on
\* (with an exception it may catch) or hands control back.
SuspendTop(nested) ==
    IF nested THEN UNCHANGED <<vm, stack>>
    ELSE /\ vm' = [vm EXCEPT ![Last(stack)] = "suspended"]
         /\ stack' = Front(stack)

\* _exitCode takes what the suspending call leaves on top of the stack.
SuspendCode(W, nested) ==
    IF nested THEN W ELSE [W EXCEPT !.exitCode[Last(stack)] = "suspended"]

-----------------------------------------------------------------------------
\* The host loop.

Update(d) ==
    /\ phase = "idle" /\ stack = << >>
    /\ phase' = "updated"
    /\ diffTick' = d
    /\ UNCHANGED <<w, created, status, vm, priority, stepMode, threadList, all, stack>>

\* Defect: a set instead of a multiset keeps one thread of each priority.
BeginMainSet ==
    /\ phase = "updated" /\ stack = << >>
    /\ phase' = "main"
    /\ LET live == {t \in ToSet(threadList) : status[t] # "NONE"}
       IN  all' \in ByPriority({t \in live : \A u \in live :
                                  priority[u] = priority[t] => Position(t) <= Position(u)})
    /\ UNCHANGED <<w, created, status, vm, priority, stepMode, threadList, diffTick, stack>>

\* Thread::main collects the live threads; what is created or re-prioritised
\* from here on does not change this round.
BeginMain ==
    /\ phase = "updated" /\ stack = << >>
    /\ phase' = "main"
    /\ all' \in ByPriority({t \in ToSet(threadList) : status[t] # "NONE"})
    /\ UNCHANGED <<w, created, status, vm, priority, stepMode, threadList, diffTick, stack>>

\* Thread::_main of a thread that ended since the round began.
SkipEnded ==
    /\ phase = "main" /\ stack = << >> /\ all # << >>
    /\ status[Head(all)] = "NONE"
    /\ all' = Tail(all)
    /\ UNCHANGED <<w, created, status, vm, priority, stepMode, threadList, phase, diffTick, stack>>

\* _main while the host is still reading the script file.
AwaitFile ==
    /\ phase = "main" /\ stack = << >> /\ all # << >>
    /\ status[Head(all)] = "LOADING_FILE"
    /\ all' = Tail(all)
    /\ UNCHANGED <<w, created, status, vm, priority, stepMode, threadList, phase, diffTick, stack>>

\* _main when the file does not compile: the thread ends with the error.
FailFile ==
    /\ phase = "main" /\ stack = << >> /\ all # << >>
    /\ LET t == Head(all)
       IN  /\ status[t] = "LOADING_FILE"
           /\ w' = Exit([w EXCEPT !.exitCode[t] = "error"], t)
           /\ status' = [status EXCEPT ![t] = "NONE"]
           /\ vm' = [vm EXCEPT ![t] = "idle"]
    /\ all' = Tail(all)
    /\ UNCHANGED <<created, priority, stepMode, threadList, phase, diffTick, stack>>

\* Defect: any time that passes ends the wait.
ElapseAtOnce(W, t) ==
    IF W.waitTimeout[t] >= 0 /\ diffTick > 0 THEN ClearWait(W, {t}) ELSE W

\* Defect: a timeout of zero is taken for none.
ElapseZero(W, t) ==
    IF W.waitTimeout[t] <= 0 THEN W
    ELSE IF W.waitTimeout[t] < diffTick THEN ClearWait(W, {t})
    ELSE [W EXCEPT !.waitTimeout[t] = @ - diffTick]

\* Time passes for the waits of a thread, whatever else it does.
Elapse(W, t) ==
    IF W.waitTimeout[t] < 0 THEN W
    ELSE IF W.waitTimeout[t] < diffTick THEN ClearWait(W, {t})
    ELSE [W EXCEPT !.waitTimeout[t] = @ - diffTick]

\* _wakeup hands the cause of the release to a script it resumes.
Wake(W, t) ==
    /\ w' = IF vm[t] = "suspended" THEN [W EXCEPT !.waitResult[t] = Null] ELSE W
    /\ stack' = Append(stack, t)

\* _main of any other thread: a freshly loaded one gets its VM, time passes
\* and, outside step mode, the script runs if nothing holds it.
Turn ==
    /\ phase = "main" /\ stack = << >> /\ all # << >>
    /\ LET t     == Head(all)
           loads == status[t] \in {"LOADING_FILE", "LOADING_FUNC"}
           now   == Elapse(w, t)
           runs  == /\ ~ stepMode[t] /\ ~ IsWait(now, t)
                    /\ loads \/ status[t] = "RUN"
       IN  /\ status[t] # "NONE"
           /\ status' = IF loads THEN [status EXCEPT ![t] = "RUN"] ELSE status
           /\ vm' = [vm EXCEPT ![t] = IF runs THEN "running"
                                      ELSE IF loads THEN "idle" ELSE @]
           /\ IF runs THEN Wake(now, t) ELSE w' = now /\ UNCHANGED stack
    /\ all' = Tail(all)
    /\ UNCHANGED <<created, priority, stepMode, threadList, phase, diffTick>>

\* The end of Thread::main drops the threads that ended.
EndMain ==
    /\ phase = "main" /\ stack = << >> /\ all = << >>
    /\ phase' = "idle"
    /\ threadList' = Without(threadList, {t \in Thread : status[t] = "NONE"})
    /\ UNCHANGED <<w, created, status, vm, priority, stepMode, diffTick, all, stack>>

\* Thread::done ends every thread of the list, one after the other.
Done ==
    /\ phase = "idle" /\ stack = << >>
    /\ phase' = "done"
    /\ all' = threadList
    /\ UNCHANGED <<w, created, status, vm, priority, stepMode, threadList, diffTick, stack>>

DoneThread ==
    /\ phase = "done" /\ all # << >>
    /\ w' = Exit(w, Head(all))
    /\ status' = [status EXCEPT ![Head(all)] = "NONE"]
    /\ all' = Tail(all)
    /\ UNCHANGED <<created, vm, priority, stepMode, threadList, phase, diffTick, stack>>

EndDone ==
    /\ phase = "done" /\ all = << >>
    /\ phase' = "down"
    /\ threadList' = << >>
    /\ UNCHANGED <<w, created, status, vm, priority, stepMode, diffTick, all, stack>>

-----------------------------------------------------------------------------
\* How a running script hands control back (the second half of _wakeup).

\* Defect: the waiters are told before the exit code is known.
ReturnLateCode ==
    /\ stack # << >>
    /\ LET t == Last(stack)
       IN  /\ w' = [Exit(w, t) EXCEPT !.exitCode[t] = "value"]
           /\ status' = [status EXCEPT ![t] = "NONE"]
           /\ vm' = [vm EXCEPT ![t] = "idle"]
    /\ stack' = Front(stack)
    /\ UNCHANGED <<created, priority, stepMode, threadList, phase, diffTick, all>>

\* return: the thread ends with the value.
Return ==
    /\ stack # << >>
    /\ LET t == Last(stack)
       IN  /\ w' = Exit([w EXCEPT !.exitCode[t] = "value"], t)
           /\ status' = [status EXCEPT ![t] = "NONE"]
           /\ vm' = [vm EXCEPT ![t] = "idle"]
    /\ stack' = Front(stack)
    /\ UNCHANGED <<created, priority, stepMode, threadList, phase, diffTick, all>>

\* an exception nobody caught: the thread ends with the error.
Fail ==
    /\ stack # << >>
    /\ LET t == Last(stack)
       IN  /\ w' = Exit([w EXCEPT !.exitCode[t] = "error"], t)
           /\ status' = [status EXCEPT ![t] = "NONE"]
           /\ vm' = [vm EXCEPT ![t] = "idle"]
    /\ stack' = Front(stack)
    /\ UNCHANGED <<created, priority, stepMode, threadList, phase, diffTick, all>>

\* suspend(): nothing to wait for, the next round goes on.
Suspend ==
    /\ stack # << >>
    /\ w' = SuspendCode(w, FALSE)
    /\ SuspendTop(FALSE)
    /\ UNCHANGED <<created, status, priority, stepMode, threadList, phase, diffTick, all>>

\* wait(...), the global function.  getCurrentThread finds the caller in the
\* thread list.
SelfWait(a, nested) ==
    /\ stack # << >> /\ Last(stack) \in ToSet(threadList)
    /\ w' = SuspendCode(WaitFor(w, Last(stack), a), nested)
    /\ SuspendTop(nested)
    /\ UNCHANGED <<created, status, priority, stepMode, threadList, phase, diffTick, all>>

\* exit(code), the global function.  The code is also what the suspending
\* call leaves on top of the stack.
SelfExit(nested) ==
    /\ stack # << >> /\ Last(stack) \in ToSet(threadList)
    /\ LET t == Last(stack)
       IN  /\ w' = Exit([w EXCEPT !.exitCode[t] = "value"], t)
           /\ status' = [status EXCEPT ![t] = "NONE"]
    /\ SuspendTop(nested)
    /\ UNCHANGED <<created, priority, stepMode, threadList, phase, diffTick, all>>

\* system(code, ...): fork, then wait for the new thread.
System(c, load, nested) ==
    /\ stack # << >> /\ Last(stack) \in ToSet(threadList)
    /\ c \in Thread \ created
    /\ load # "none"
    /\ created' = created \cup {c}
    /\ w' = SuspendCode(WaitSystem(w, Last(stack), c), nested)
    /\ status' = [status EXCEPT ![c] = LoadStatus[load]]
    /\ threadList' = Append(threadList, c)
    /\ SuspendTop(nested)
    /\ UNCHANGED <<priority, stepMode, phase, diffTick, all>>

\* system() without code: only the stack of the call holds the new thread, so
\* it is destroyed when the call pops it, and ~Thread notifies the caller.
SystemNothing(nested) ==
    /\ stack # << >> /\ Last(stack) \in ToSet(threadList)
    /\ "none" \in Load
    /\ w' = SuspendCode(CancelWait(w, Last(stack)), nested)
    /\ SuspendTop(nested)
    /\ UNCHANGED <<created, status, priority, stepMode, threadList, phase, diffTick, all>>

-----------------------------------------------------------------------------
\* Calls any script makes on a thread object.

\* Thread(delegate [, code, ...]) and fork(code, ...).
Fork(c, load) ==
    /\ CanCall
    /\ c \in Thread \ created
    /\ created' = created \cup {c}
    /\ IF load = "none" THEN UNCHANGED <<status, threadList>>
       ELSE /\ status' = [status EXCEPT ![c] = LoadStatus[load]]
            /\ threadList' = Append(threadList, c)
    /\ UNCHANGED <<w, vm, priority, stepMode, phase, diffTick, all, stack>>

\* Defect: the old VM is kept.
ExecKeepsVM(t, load) ==
    /\ CanCall /\ t \in created /\ load # "none" /\ (Running(t) => ExecSelf)
    /\ w' = ClearWait(w, {t})
    /\ status' = [status EXCEPT ![t] = LoadStatus[load]]
    /\ threadList' = Entered(t)
    /\ UNCHANGED <<created, vm, priority, stepMode, phase, diffTick, all, stack>>

\* t.exec(code, ...): the old VM is released; waiters of t are not told.  The global
\* exec() does it to its caller, which is running, and then suspends the VM it was
\* called in: that case is left out with ExecSelf = FALSE, and what it does after
\* this with it.
Exec(t, load) ==
    /\ CanCall /\ t \in created
    /\ load # "none"
    /\ Running(t) => ExecSelf
    /\ w' = ClearWait(w, {t})
    /\ status' = [status EXCEPT ![t] = LoadStatus[load]]
    /\ vm' = [vm EXCEPT ![t] = "none"]
    /\ threadList' = Entered(t)
    /\ UNCHANGED <<created, priority, stepMode, phase, diffTick, all, stack>>

\* Defect: the thread leaves the thread list at once.
ExitThreadUnlisted(t) ==
    /\ CanCall /\ t \in created
    /\ w' = Exit([w EXCEPT !.exitCode[t] = "value"], t)
    /\ status' = [status EXCEPT ![t] = "NONE"]
    /\ threadList' = Without(threadList, {t})
    /\ UNCHANGED <<created, vm, priority, stepMode, phase, diffTick, all, stack>>

\* t.exit(code): a running t goes on until it hands control back.
ExitThread(t) ==
    /\ CanCall /\ t \in created
    /\ w' = Exit([w EXCEPT !.exitCode[t] = "value"], t)
    /\ status' = [status EXCEPT ![t] = "NONE"]
    /\ UNCHANGED <<created, vm, priority, stepMode, threadList, phase, diffTick, all, stack>>

Stop(t) ==
    /\ CanCall /\ status[t] = "RUN"
    /\ status' = [status EXCEPT ![t] = "STOP"]
    /\ UNCHANGED <<w, created, vm, priority, stepMode, threadList, phase, diffTick, all, stack>>

Run(t) ==
    /\ CanCall /\ status[t] = "STOP"
    /\ status' = [status EXCEPT ![t] = "RUN"]
    /\ UNCHANGED <<w, created, vm, priority, stepMode, threadList, phase, diffTick, all, stack>>

\* t.wait(...): registers only; t need not be the caller nor be suspended.
WaitOn(t, a) ==
    /\ CanCall /\ t \in created /\ ForeignWait
    /\ w' = WaitFor(w, t, a)
    /\ UNCHANGED <<created, status, vm, priority, stepMode, threadList, phase, diffTick, all, stack>>

Cancel(t) ==
    /\ CanCall /\ t \in created
    /\ w' = CancelWait(w, t)
    /\ UNCHANGED <<created, status, vm, priority, stepMode, threadList, phase, diffTick, all, stack>>

SetPriority(t, p) ==
    /\ CanCall /\ t \in created
    /\ priority' = [priority EXCEPT ![t] = p]
    /\ UNCHANGED <<w, created, status, vm, stepMode, threadList, phase, diffTick, all, stack>>

SetStepMode(t, mode) ==
    /\ CanCall /\ t \in created
    /\ stepMode' = [stepMode EXCEPT ![t] = mode]
    /\ UNCHANGED <<w, created, status, vm, priority, threadList, phase, diffTick, all, stack>>

\* t.step() runs the script of t inside the caller's.  A script that steps a
\* thread already on the stack is left out (see README, bounds).
Step(t) ==
    /\ CanCall /\ t \in created /\ ~ Running(t)
    /\ stepMode[t] /\ Ready(w, t)
    /\ Wake(w, t)
    /\ vm' = [vm EXCEPT ![t] = "running"]
    /\ UNCHANGED <<created, status, priority, stepMode, threadList, phase, diffTick, all>>

NotifyOne(o) ==
    /\ CanCall /\ o \in Object \cup created
    /\ w' = Notify(w, o)
    /\ UNCHANGED <<created, status, vm, priority, stepMode, threadList, phase, diffTick, all, stack>>

NotifyEvery(o) ==
    /\ CanCall /\ o \in Object \cup created
    /\ w' = NotifyAll(w, o)
    /\ UNCHANGED <<created, status, vm, priority, stepMode, threadList, phase, diffTick, all, stack>>

\* The global notify(name).
SendTrigger(x) ==
    /\ CanCall
    /\ w' = NotifyTrigger(w, ToSet(threadList), x)
    /\ UNCHANGED <<created, status, vm, priority, stepMode, threadList, phase, diffTick, all, stack>>

-----------------------------------------------------------------------------
Host ==
    \/ \E d \in Diff : Update(d)
    \/ BeginMain \/ SkipEnded \/ AwaitFile \/ FailFile \/ Turn \/ EndMain
    \/ DoneThread \/ EndDone

HandBack ==
    \/ Return \/ Fail \/ Suspend
    \/ \E a \in WaitArgs, n \in Nested : SelfWait(a, n)
    \/ \E n \in Nested : SelfExit(n) \/ SystemNothing(n)
    \/ \E c \in Thread, l \in Load, n \in Nested : System(c, l, n)

Call ==
    \/ \E t \in Thread, l \in Load : Fork(t, l) \/ Exec(t, l)
    \/ \E t \in Thread : ExitThread(t) \/ Stop(t) \/ Run(t) \/ Cancel(t) \/ Step(t)
    \/ \E t \in Thread, a \in WaitArgs : WaitOn(t, a)
    \/ \E t \in Thread, p \in Priority : SetPriority(t, p)
    \/ \E t \in Thread, m \in StepModes : SetStepMode(t, m)
    \/ \E o \in NotifyTargets : NotifyOne(o) \/ NotifyEvery(o)
    \/ \E x \in Trigger : SendTrigger(x)

Next == Host \/ Done \/ HandBack \/ Call

Spec == Init /\ [][Next]_vars

-----------------------------------------------------------------------------
\* Fairness.  The host loop goes on (that it is shut down is nobody's duty), each
\* script hands control back in the end, as Thread::main asks of it, and a
\* file that is being read is read in the end.
HandsBack(t) == stack # << >> /\ Last(stack) = t /\ HandBack /\ stack' = Front(stack)
LoadFile(t) == all # << >> /\ Head(all) = t /\ status[t] = "LOADING_FILE" /\ (Turn \/ FailFile)

Fairness ==
    /\ SF_vars(Host)
    /\ \A t \in Thread : SF_vars(HandsBack(t)) /\ SF_vars(LoadFile(t))

FairSpec == Spec /\ Fairness

-----------------------------------------------------------------------------
\* Safety.

\* A thread that waits for an object is on that object's list of waiters:
\* otherwise notify(), notifyAll() and the end of a thread would miss it and
\* it would wait for ever (Thread::_wait, _system, _clearWait, Object::notify).
WaitRegistered == Registered(w)

\* An object lists only threads that wait for it, each one once, as long as
\* scripts name an object once per wait(): no entry outlives its wait, so
\* notify() wakes waiters in the order in which they began to wait.
NoStaleWaiter ==
    \A o \in Waitable :
        LET list == w.waitThreadList[o]
        IN  /\ \A i \in DOMAIN list : Waits(w, list[i], o)
            /\ IsInjective(list)

\* system() waits for a thread that is alive and that the host loop will run
\* again: its caller cannot be left behind by a thread that already ended.
SystemChildLive ==
    \A t \in Thread :
        w.waitSystem[t] # Null =>
            /\ status[w.waitSystem[t]] # "NONE"
            /\ w.waitSystem[t] \in ToSet(threadList)

\* Every live thread is in the thread list exactly once: it gets one turn a
\* round, triggers reach it, getCurrentThread finds it.
LiveInList ==
    /\ \A t \in Thread : status[t] # "NONE" => t \in ToSet(threadList)
    /\ IsInjective(threadList)

\* The VMs in state "running" are those of the scripts on the call stack, each
\* of them there once; a thread that may be woken has a VM (_wakeup uses
\* _thread unchecked) and one that is loading has none left over from before.
StackMatchesVM ==
    /\ \A t \in Thread : Running(t) <=> vm[t] = "running"
    /\ IsInjective(stack)
    /\ \A t \in Thread :
         /\ status[t] \in {"RUN", "STOP"} => vm[t] # "none"
         /\ status[t] \in {"LOADING_FILE", "LOADING_FUNC"} => vm[t] = "none"

\* Thread::all and the C++ call stack hold raw Thread pointers; only the
\* thread list keeps those objects alive.  Whatever is still to be visited or
\* is running is in the list, so it is not dropped under the loop's feet.
RawPointersHeld == ToSet(all) \cup ToSet(stack) \subseteq ToSet(threadList)

-----------------------------------------------------------------------------
\* What a step may not do.

\* system() returns when the script it called ends, with that script's exit
\* code: a caller leaves its wait only because the child ended in this very
\* step, or because the wait was cancelled or replaced by another one, or
\* because the caller itself was restarted or ended.
SystemReturnsCode ==
    [][\A t \in Thread :
         LET c == w.waitSystem[t]
         IN  c # Null /\ w'.waitSystem[t] # c =>
               \/ /\ status'[c] = "NONE"
                  /\ w'.waitResult[t] = w'.exitCode[c]
                  /\ phase = "main" => w'.exitCode[c] # "suspended"
               \/ w'.waitResult[t] = Null \/ IsWait(w', t)
               \/ status'[t] \in {"NONE", "LOADING_FILE", "LOADING_FUNC"}]_vars

\* notify() wakes exactly one thread when some thread waits for the object,
\* frees it of all its waits, and leaves the waits of every other thread alone.
NotifyWakesOne ==
    [][\A o \in NotifyTargets :
         LET waiting == {t \in Thread : Waits(w, t, o)}
         IN  NotifyOne(o) =>
               \/ waiting = {} /\ w' = w
               \/ \E t \in waiting :
                    /\ ~ IsWait(w', t)
                    /\ \A u \in Thread \ {t} :
                         /\ w'.waitSystem[u] = w.waitSystem[u]
                         /\ w'.waitList[u] = w.waitList[u]
                         /\ w'.waitTimeout[u] = w.waitTimeout[u]]_vars

\* notify() serves the waiters of an object in the order in which they began
\* to wait: the thread it wakes has no waiter before it.  A thread's current
\* wait is its last entry in the list.
LastEntry(list, t) ==
    CHOOSE i \in DOMAIN list :
        list[i] = t /\ \A j \in DOMAIN list : list[j] = t => j <= i

NotifyWakesOldest ==
    [][\A o \in NotifyTargets :
         LET list == w.waitThreadList[o]
             waiting == {t \in Thread : Waits(w, t, o)}
         IN  NotifyOne(o) =>
               \A t, u \in waiting :
                  ~ Waits(w', t, o) /\ Waits(w', u, o)
                     => LastEntry(list, t) < LastEntry(list, u)]_vars

\* What notify() promises: both of them.
NotifyServes == NotifyWakesOne /\ NotifyWakesOldest

\* The life of threads as scripts see it: SqThread implements ThreadLife.
Life == INSTANCE ThreadLife WITH
    live  <- {t \in Thread : status[t] # "NONE"},
    waits <- [t \in Thread |-> {o \in Waitable : Waits(w, t, o)}],
    runs  <- ToSet(stack)

ImplementsLife == Life!LifeSpec

-----------------------------------------------------------------------------
\* Liveness, under Fairness.

\* A thread that nothing holds is run by the host loop, whatever the other
\* threads do and however their priorities compare.
ReadyRuns ==
    \A t \in Thread :
        Ready(w, t) /\ ~ stepMode[t] ~> Running(t) \/ stepMode[t] \/ ~ Ready(w, t)

\* A timed wait of a live thread ends.
TimedWaitEnds ==
    \A t \in Thread :
        w.waitTimeout[t] >= 0 /\ status[t] # "NONE"
            ~> w.waitTimeout[t] < 0 \/ status[t] = "NONE"

\* A thread whose script file is being read starts or ends.
LoadingEnds ==
    \A t \in Thread : status[t] = "LOADING_FILE" ~> status[t] # "LOADING_FILE"

\* Whatever has to do with the host's clock or files ends: both of them.
TimeEnds == TimedWaitEnds /\ LoadingEnds
=============================================================================
