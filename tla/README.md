# TLA+ models of squirrel2 / sqobject

This directory holds TLA+ specifications of the Squirrel 2 interpreter as it is
found in this repository, of the pseudo-thread and object library `sqobject`
built on it, the TLC configurations that check them on small instances, and
theorems with proofs checked by TLAPS. `PROJECT.json` maps every definition to
the lines it models and lists runs, hazards, seeded defects, findings and theorems.

## 1. The system

| Component | State it keeps | Operations | Interacts with |
|---|---|---|---|
| Thread scheduler (`sqobject/sqthread.*`) | per thread: status, VM, priority, step mode, waits, exit code; global: `threadList`, `all`, ticks | methods of `Thread`; global `fork`, `exec`, `exit`, `system`, `wait`, `notify`, `execOnBase`; host loop `init`, `update`, `main`, `done` | wait registry, VM (call, suspend, wake up), script files |
| Object waits (`sqobject/sqobjectclass.*`) | `_waitThreadList` of each object | `notify`, `notifyAll`, `addWait`, `removeWait` | the `_waitList`/`_waitSystem` of threads |
| Continuous handlers (`sqobject/sqcont.*`) | two lists of functions | add, remove, clear; `beforeContinuous`, `afterContinuous`, `doneContinuous` | host loop, scripts on the base VM |
| ObjectInfo (`sqobjectinfo.*`) | one reference each, strong or weak; the stack of the global VM | push, get, set, compare, arrays, `foreach`, calls | C API, the host's reference table |
| Binders (`sqfunc.*`, `sqratfunc.*`, `sqplusfunc.*`, `sqrat/`) | native objects behind instances, the host's wrappers | construct, clone and release native objects, call bound functions | C API, release hooks |
| Script files (`sqfile.cpp`, `sqmemfile.cpp`) | a handle per file being read | open, check, close | loading threads |
| VM (`squirrel/sqvm.*`, `sqclosure.h`) | value stack, call infos, exception traps, suspension fields, call depth | execute, call, throw and catch, suspend, wake up, generators | everything that runs a script |
| Object model (`sqtable`, `sqarray`, `sqclass`, `sqstring`) | hash nodes, blocks of cells, member tables, string table | get, set, insert, remove, iterate, clone | VM instructions, C API |
| Memory (`sqobject.h`, `sqstate.*`) | reference counts, weak references, release hooks, collector chain, host reference table | add/release reference, collect garbage, shutdown | every object |
| Compiler (`sqlexer`, `sqcompiler`, `sqfuncstate`) | token stream, scopes, registers, jump lists | compile | function prototypes |
| Libraries (`sqbaselib`, `sqstdlib`) | blobs, streams, regular expressions | library functions | C API |
| `sq`, samples, docs | - | command line, examples | - |

Everything runs on one operating-system thread. What is hard in it:

* **scripts that stop in the middle.** `wait`, `suspend`, `exit` and `system`
  leave a script half run; every other script may then act on its thread:
  restart it, end it, cancel its waits, notify it, step it out of turn.
* **state that is kept twice.** Who waits for what is in the thread and in the
  object; traps are counted by frames, by `Execute` and on their own stack;
  references are counted by objects, by the reference table and by wrappers. No
  function updates both sides at once.
* **loops over structures that callbacks change.** `Thread::main`, `notifyAll`, the
  handler loop, `foreach` of scripts and of ObjectInfo, and `array.sort` all walk
  structures that scripts modify meanwhile.
* **raw pointers.** `Thread::all` and the C++ stack point at objects that only
  `threadList` keeps alive; an instance points at a native object.
* **half-finished operations.** Natives change the registry first and suspend
  afterwards; the VM may refuse the suspension. A call of the C API that fails
  leaves its arguments on the stack.
* **code that runs while an object goes.** Release hooks run script code in the
  middle of a release, of a collection and of the shutdown.
* **optimisations that look backwards.** The compiler merges an instruction with
  the one before it, whatever production has emitted that one.

What makes each part correct:

* scheduler: a live thread gets a turn in every round; no operation starves,
  loses or duplicates it; what runs has a VM; `system()` returns the child's code;
* waits: the two sides agree; `notify` frees exactly the oldest waiter; the end of
  a thread frees everybody who waits for it; a timed wait is neither short nor endless;
* handlers: everyone registered is called once, in order, in every pass;
* ObjectInfo: the reference table counts what is held, the stack is left as it
  was found, what was stored is read back, a walk meets every element;
* binders: a native object has one owner and is deleted once; no method runs on an
  object of another class; handles are added and released in pairs;
* VM: exceptions and suspensions unwind to the right frame, generators resume
  with the frame they yielded;
* tables: they are functions, iteration meets every key that stays;
* memory: nothing is freed while referenced, nothing unreachable is kept by a
  collection, every hook runs once, the shutdown leaves nothing;
* compiler: the instructions mean what the program means and leave no trap behind;
* arrays, blobs, expressions: they agree with a sequence, with a stream of bytes and
  with the language.

## 2. Plan

| Order | Modules | Content | State |
|---|---|---|---|
| 1 | `SqWait`, `SqThread`, `SqThreadClock`, `ThreadLife` | wait registry, scheduler, host time, abstract life of threads | done |
| 2 | `SqListOps`, `SqContinuous` | handler lists and their pass | done |
| 3 | `SqTable`, `SqDict` | scatter table with `_firstfree`, rehash, removal, `foreach` with its index; the function it implements | done |
| 4 | `SqVM` | frames, traps, `Suspend`, `sq_wakeupvm`, generators, nested natives | done |
| 5 | `SqHeap` | counts, weak references, release hooks, collector, shutdown | done |
| 6 | `SqValues`, `SqMeaning`, `SqCompiler`, `SqExecute` | code generation against the meaning of programs | done |
| 7 | `SqObjects`, `SqApi`, `SqObjectInfo` | objects, the C API on them, the host's variables | done |
| 8 | `SqArray`/`SqList`, `SqBlob`/`SqStream`, `SqBinder`, `SqRex`/`SqRegular` | libraries and binders | done |
| 9 | the `_proofs` modules | section 5 | scheduler, registry, handlers: done; tables, VM, blobs, binders, ObjectInfo: done; arrays: open |
| 10 | - | saving and loading of bytecode, the string table, the lexer | open |

Composition: `SqThread` EXTENDS `SqWait`, `SqThreadClock` EXTENDS `SqThread`, and
`SqThread` instantiates `ThreadLife`; `SqTable` instantiates `SqDict`, `SqArray`
`SqList`, `SqBlob` `SqStream`; `SqRex` EXTENDS `SqRegular`; `SqExecute` EXTENDS
`SqCompiler` and instantiates `SqMeaning`; `SqObjectInfo` EXTENDS `SqApi`, which
EXTENDS `SqObjects`. `MCSqLibrary` EXTENDS `SqBinder` and instantiates the other
library modules beside it. `SqContinuous` needs nothing of the scheduler: a handler acts on threads like
any other script on the base VM, and `SqThread` has those calls in the phases
`idle` and `updated`, between which the two passes lie. `SqThread` knows of a VM
only whether it is idle, running or suspended; what happens inside it is `SqVM`.

## 3. The modules and the code

### SqWait - who waits for what

`W` is a record with one field for each wait field of the classes
(`_waitSystem`, `_waitList`, `_waitTimeout`, `_waitResult`, `_exitCode` of
`Thread`; `_waitThreadList` of `Object`), each a function over the threads or the
objects. The operators are the methods' bodies: `WaitFor` is `_wait`, `WaitSystem`
`_system`, `ClearWait` `_clearWait`, `Release` `notifyObject`, `Notify`/`NotifyAll`
`Object::notify`/`notifyAll`, `NotifyTrigger` the loop of `trigger`, `Exit` `_exit`.
`_waitList` is a set: its order and repetitions are never observed. The objects'
lists are sequences, since their order decides who is woken; `times` in a wait
argument says how often each object is passed. `Without` (`SqListOps`) is
`sq_arrayremovevalue`, with which entries leave these lists.

The smallest number among several arguments of `wait()` is what counts, so a wait
argument carries one number. Exit codes and wait results are abstracted to the
kinds a property tells apart.

### SqThread - the scheduler

| Variable | Code |
|---|---|
| `w` | the registry above |
| `created` | `Thread` objects that exist |
| `status`, `priority`, `stepMode` | `_status`, `_priority`, `_stepMode` |
| `vm` | `sq_getvmstate(_thread)`, or `"none"` when `_thread` is null |
| `threadList`, `all`, `diffTick` | the statics of the same name; `all` is what is left of the round |
| `phase` | where the host loop is: `idle` and `updated` before and after `update`, `main`, and the two steps of shutdown |
| `stack` | scripts on the C++ call stack: the turn's, and those it stepped |

A turn (`Turn`, `SkipEnded`, `AwaitFile`, `FailFile`) is one call of `_main`; its
second half, what follows `sq_call`/`sq_wakeupvm` in `_wakeup`, is in the actions
by which a script hands back control (`Return`, `Fail`, `Suspend`, `SelfWait`,
`SelfExit`, `System`, `SystemNothing`). Between the two, the script may make any
`Call`; so may a host event handler or a continuous handler outside `main`.

* A call below a native function (`nested`) changes the registry and is then
  refused by `SQVM::Suspend`; the script goes on.
* `system()` without code makes a thread that nothing references. It is destroyed
  when the call pops it, and its destructor releases the caller: `SystemNothing`.
* Destroying any other object releases nobody: a waiter's `_waitList` holds the
  object itself, so an object somebody waits for lives. There is no such action.
* A host may read files asynchronously (the three functions are the host's to
  supply), so a loading thread may be found not ready any number of times.

Left out: `step()` on a thread that is already on the stack (it re-enters a running
VM), coroutines inside threads (`getCurrentThread` refuses them), the
`onThreadDone` callback, arguments, functions and names of scripts, `_currentTick`
and the read-only getters, and `exit()` without a code (null instead of a value).

### SqThreadClock - host time

Adds an observer, `owed`: how much of the time a thread asked for has not passed
on the host's clock, which moves in `update()` only. It never constrains a step.
`LiveSpec` adds the fairness of section 4.

### ThreadLife - what threads promise

Which threads live, what each waits for, whose scripts run. Waiting is one
relation: the end of a thread frees its waiters in the same step, a release
affects whole waits, and a script starts only in a live thread that waits for
nothing. `SqThread!ImplementsLife` maps `live` to the threads whose status is not
`NONE`, `waits` to the registry's thread side, `runs` to the call stack.

### SqContinuous - handlers

`list` are the two lists, `i` and `max` the loop variables of `call()`, `cur` the
running handler. `log` is an observer of the current pass, a record: the handlers
registered when it began (`start`); of these, by their places, those that have stayed
registered since (`left`) and those that went when the index had come to them (`lost`);
the places called, 0 for a newcomer (`called`); how many of `start` handlers have
removed (`removed`); and whether during the present call one went that the index had
come to (`moved`). `freed` is set by
`clearContinuousHandler`, which deletes the lists; any use afterwards is undefined
and leads to the phase `undefined`.

### SqTable, SqDict - tables

`t` is one `SQTable`: per node its key, value and `next`, with `firstfree` and
`used`. `PlaceKey` and `Insert` are `NewSlot` up to the moment it runs out of free
nodes, `Rehash` and `Rebuild` what it does then; `Remove`, `Set`, `Clear`, `Clone`
are the methods of these names; `NextNode` is `Next`. `loop` is a `foreach` over
the table: the index it stands at, and an observer of what it has shown. `Set` asks
for no null key, as `SQTable::Set` does not. `SqDict` is a function from keys to
values; the refinement reads it off the table with `Get`.

### SqVM - frames, traps, generators, suspension

`vm` has the fields of `SQVM`: `calls` is `_callsstack`, `etraps` `_etraps`,
`nvargs` the size of `_vargsstack`, `base` and `top` `_stackbase` and `_top`, `susp`
the fields `_suspended...`, `gens` the generators. `cpp` is the C++ stack: the
`Execute`s with their local counter `traps` and the native functions. Instructions
are actions of the running frame (`PushTrap`, `CallScript`, `TailCall`, `YieldOp`,
`Return`, `ResumeOp`, `Foreach`, `ThrowOp`); the host's calls are `Call`,
`SqResume`, `Wake`. `Catch` and `Escape` are the two ends of the exception
handling in `Execute`. `home`, in a frame, is an observer of where its registers are.

`Allow` names six things the code does not get right; the run leaves them out:

| Name | Where | What happens |
|---|---|---|
| `foreach traps` | `sqvm.cpp:564` | a generator that yielded inside `try` is resumed by `foreach`, which does not count its traps |
| `moved traps` | `sqobject.cpp:168` | resumed at another depth, its traps keep the old stack positions |
| `bad tail call` | `sqvm.cpp:802` | a refused tail call has already popped the caller's extra arguments |
| `mixed resume` | `sqobject.cpp:161` | a generator first resumed by the host keeps the root flag |
| `dead resume` | `sqvm.cpp:769` | `Execute` goes on when `Resume` has failed |
| `late pop` | `sqapi.cpp:1078` | `sq_resume` pops its result while the VM is suspended |

### SqHeap - reference counts, hooks, the collector

`heap` holds per object its kind, count, mark, values, class/base/delegate, release
hook and weak references, and the chain of the collector, the reference table
(`held`) and the C++ stack of what is still to be done (`todo`): a released
reference may free an object, whose hook runs a script, which releases others.
`Run` works `todo` off, so that an action is one call of the host or one store of a
script with all it sets off. `Mark`, `Sweep...` are `SQSharedState::CollectGarbage`,
`CloseHeap` `sq_close`. Tables stand for all containers, instances for all that may
have a hook.

`Allow` again: `kept in sweep` (a hook stores its object during a collection: it
lives on outside the chain), `class first` (`sqstate.cpp:205`), `late hook` (a hook
runs at close, after the VM it works on is gone), `released twice` (a hook reads a
weak reference to the object being freed).

### SqCompiler, SqExecute, SqMeaning, SqValues - code generation

`SqCompiler` has an operator for each production: from a function state (registers,
locals, instructions, jump lists, `_optimization`) to the next one; `AddInstruction`
with its merging rules and `SnoozeOpt` are modelled case by case. `SqExecute` runs
the instructions, an instruction a step, with registers, traps and the functions a
program calls; `SqMeaning` defines the same programs on their syntax tree;
`SqValues` are the operators on values both share. A program of the run is a
syntax tree, compiled at the start.

### SqObjects, SqApi, SqObjectInfo - the host's variables

`SqObjects` are arrays, tables, classes and instances as the VM's access functions
see them; `SqApi` the functions of `sqapi.cpp` on the stacks of VMs, with the
result code of each call; `SqObjectInfo` the methods, written as the calls they
make. `left` is an observer: how many arguments calls that refused have left on the
stack. Nothing else is done once one has. Chains of delegates and base classes, and what
goes with an object that is released, are least sets rather than recursions, so that
they can be reasoned about. `loop` is a `foreach` of the host in
progress; its callbacks assign, change arrays, set and delete slots.

### The libraries

* `SqArray` keeps a block of cells with a size (`sqvector`), `SqList` is a sequence.
  `array.sort` is a heap sort, a step of which ends with the answer of the script's
  comparing function; `sort` is its loop state. `removeValue` is there twice: as scripts
  call it, with the value alone, and as the host does (`ObjectInfo::removeValue`), where
  the first equal value goes; a script that gives a second argument is refused (`CallNative`).
* `SqBlob` has buffer, size, allocation and position (`SQBlob`), with the stream
  functions of `sqstdstream.cpp`; `SqStream` is a text with a position.
* `SqBinder` has native objects, instances, and the host's wrappers; a bound function
  is a record that says how it was bound (member, global, proxy, cast, varargs...),
  what its parameters are and what it gives back. The handler of overloaded functions
  (`SqOverload`) hears of no failure of the one it calls: the script gets the function
  itself, or nothing, and no error.
* `SqRex` reads patterns into nodes and matches from left to right as
  `sqstdrex.cpp` does; `SqRegular` says how expressions are written and what they match.

Each comment at the head of a module says what it leaves out.

### Seeded defects

A definition whose comment begins with "Defect" is the one below it with a
plausible bug: a dropped guard, a swapped order, a forgotten side. No
specification uses them. `PROJECT.json` ("mutants") pairs each property with one:
put in place of the correct definition, TLC finds the property violated.

## 4. The runs

| Run | Question | Instance | Distinct states |
|---|---|---|---|
| `thread_core` | do registry, lists, stack and pointers stay consistent under every call? does `system()` return the child's code? | 2 threads, 1 object, 1 trigger, waits on each thread or on all the rest at once, timeout 1, step mode | 870 000 |
| `thread_foreign` | what if scripts act on behalf of others, without code, below natives? does the scheduler implement `ThreadLife`? | 2 threads, 1 object, notify on all three | 235 000 |
| `thread_time` | are timed waits neither early nor endless, and do loads end? | 2 threads loading files, waits of 0, 1 and 2, rounds of 0 and 1 | 70 000 |
| `thread_round` | is every ready thread run, whatever the priorities? | 2 threads loading files, 2 priorities | 43 000 |
| `continuous` | what does a pass call, skip and drop? does it end? | 3 handlers, 2 lists | 647 000 |
| `table` | is a table a function, and does a walk meet what stays? | 4 keys that collide in four nodes, in eight, or not; 2 values; created with 4 or 8 nodes | 33 000 |
| `vm` | do frames, traps, counters and the C++ stack agree? | 1 generator, up to 1 extra argument, 4 frames, 2 traps, native depth 4, stack of 4 when the host calls | 112 000 |
| `compile` | do the instructions mean what the program means? | four families of functions (expressions, returns, declarations, statements), 20 registers, 10 calls | 80 000 |
| `objectinfo` | are references counted, is the stack kept, is what was stored read back? | 2 ObjectInfos, 2 objects of any type, 2 keys, 3 elements, 1 change in a walk | 30 000 |
| `heap` | are counts exact, hooks run once, cycles collected, is nothing lost? | 4 objects, 1 slot, 1 member, 2 holds, 2 stores | 136 000 |
| `heap_close` | violation of `ClosesClean` | as `heap`, `class first` allowed | - |
| `library` | do arrays, blobs, binders and expressions keep their promises? | see below | 332 000 |

Some properties of a run are conjunctions: `NotifyServes` is `NotifyWakesOne` and
`NotifyWakesOldest`; `TimeEnds` is `TimedWaitEnds` and `LoadingEnds`; `CallsInOrder`
includes `TypeOK` and `RegisteredOnce`; `PassKept` is `SkipsOnlyAfterLoss`,
`DropsOnlyFailed` and `PassEnds`; `WellFormed` is `TypeOK`, `ChainsSound`,
`FreePlaceKept` and `CountRight`; `FrameAtHome` includes `TypeOK` and `OneFrameEach`;
`HeldSound` is `RefsHeld` and `InstancesFit`; `NothingLost` is `NothingDangles` and
`ClosesClean`; `ImplementsList` includes `CellsUsed`; `RegexpsRight` is `ReadsPattern`
and `FindsRight`.

**Bounds of the scheduler's runs.** They are finite without artificial bounds except
two: `MaxTimeout`, the largest number given to `wait()`, and the sets of identities.
Two threads suffice for the interactions of a caller and a callee, a waiter and a
notifier, a stepping and a stepped script; registry operations treat all other
threads alike (the theorems below hold for any number). Timeouts of 0, 1 and 2 against
rounds of 0 and 1 include less, equal and more, and time that does not pass. Three
handlers give a failing one neighbours on both sides. Repetition of objects in one
`wait()` makes lists grow without end and is not enabled in a run; nor is `exec()` on
a running thread, which is what the global `exec()` does to its caller, since nothing is
defined after it.

**Tables.** Hashes 3, 11, 7 and 2: in four nodes three keys collide, in eight two; a
fourth entry makes the table grow, a removal makes it shrink. Two values tell an
overwritten slot from a lost one.

**VM.** Four frames are a caller, a generator, a native function and a callee;
two traps are needed for their order; `MaxTop` bounds the arguments that calls on a
suspended VM leave behind. `MAX_NATIVE_CALLS` is 4 instead of 100.

**Compiler.** Each family varies what one part has to get right: operands that are
places, temporaries, literals, effects and calls; calls in tail position; two
declarations next to each other, the second compiled without a break of the
optimizer; loops, `switch` and `try` around every way to leave them.

**Heap.** Four objects: a root, a class, an instance, and one more for cycles; two
holds and two stores build every cycle among them.

**Library.** A run uses one of the four. Binders: 2 native objects, instances and
wrappers, 4 calls, two classes of `sqobject`, one of a host and one that a script
derives, every allocator, and every form of bound function, parameter and result.
Arrays: 2 values, sizes 0, 2, 5 and 20 (over and under the limits at which the block
grows and shrinks), 2 calls, sorts of up to 5 values. Blobs: bytes of 2 values, up to
10 of them, 3 calls, offsets before, in, at the end of and behind the text, numbers
that fit a byte, that do not, and a negative one. Expressions: patterns of up to 5
symbols in three families and 4 in three others, texts of up to 3 letters; 23 stands
for the largest count, 65535.

Deadlock is checked in `table` and `vm`, which may always go on. In the others the
program may stop: after `Done` or `Close`, at the end of a program or of the calls
a bound admits.

### The violation

* **`heap_close`** `SQSharedState::~SQSharedState` finalizes the chain in its order.
  A class that stands before its instance is finalized first; the instance then
  takes its number of fields from a class that has none, keeps what it refers to,
  and the assertion `_gc_chain == NULL` (`sqstate.cpp:205`) does not hold.

### Defects met, with no run of their own

These were met while the modules were written; the specifications model the code
as it is where that has a defined result, and leave out the step where it has none.

* Scheduler: `exec()` on a running thread releases its VM (`sqthread.cpp:338`).
  `_main` charges a round's time to waits that began inside it (`sqthread.cpp:560`): a
  script that is stepped between `update()` and `main()` and waits for one tick is free in
  the same round, against `manual.nut:123` (with `StepModes = {TRUE}` in `thread_time`, TLC
  finds `NotEarly` violated). `notify()` removes one entry of a thread that named the
  object twice in a wait (`sqobjectclass.cpp:160`); the one left gives its next wait a place it
  has not queued for, against `manual.nut:68` (with `times` 2, TLC finds
  `NotifyWakesOldest` violated), and the list grows.
* Handlers: `call()` increments the index after removing the entry at it
  (`sqcont.cpp:28`), so the next handler is left out; handlers that remove handlers the
  index has passed have others left out in the same way; the handler that fails is
  removed by its position (`sqcont.cpp:27`), so that an innocent neighbour is
  unregistered if the failed one, or one before it, was removed during the call. The
  lists are deleted, the pointers kept (`sqcont.cpp:74`).
* ObjectInfo: calls refused by the type checks of the API leave their argument on the
  stack; assigning an ObjectInfo to itself loses its value, as does making it the weak
  or strong form of itself; the comparison operators are reversed;
  `sq_arrayremovevalue` ignores a failing comparison, `sq_newslot` the result of
  `NewSlot`.
* Heap: a hook that stores its object, or allocates, during a collection loses it
  from the chain; hooks at close run after the root VM is freed; a weak reference
  read by a hook releases the object twice; user data and classes run their hooks
  without holding themselves; in a release build the last loop of the shutdown does
  not end where the assertion fails.
* Compiler: a `for` without initialiser whose condition is the first instruction
  jumps wrongly (`sqcompiler.cpp:976`); `case <local>` overwrites the local; `return f(), x`
  becomes a tail call; the increment of a `for` that ends in `?:`, `&&` or `||` is
  added again without a break of the optimizer; `foreach` leaves its container on the
  target stack; compound assignment to free variables and `++` of what is no place
  are accepted.
* Base library: `FEATURE.txt:238` documents `removeValue(v[,all=true])`, but it is registered for
  one argument exactly (`sqbaselib.cpp:900`), and `CallNative` (`sqvm.cpp:1171`) refuses a
  second one with an exception; `SqList` says that this call is refused. A comparing function that answers "less" for equal values makes
  `sort` go on for ever, one that takes values out of the array makes it work on
  cells it does not have; `slice` and `resize` accept positions before the first.
* Blobs: a blob written to itself is read from the buffer that growing it freed;
  `_nexti` of an empty blob gives 0; a failing `readn` has consumed the bytes.
* Binders: a constructor called twice loses the first native object; no type tag is
  asked of `this`; a parameter by reference given something else is a null
  reference; text given for a number is released before the function runs;
  `Evaluate` after a failed call pops the caller's value; a wrapper of an object assigned
  to itself releases what it then counts, which is gone if that was the last reference
  (`sqratObject.h:77`), and one of a function becomes empty (`sqratFunction.h:71`);
  an overloaded function that fails gives the script the function (`sqratOverloadMethods.h:80`).
* Expressions: `.` and negated sets take the terminator; looking ahead enters groups,
  so a later match of them is not recorded; captures survive from one search to the
  next; `\b` is off by one; counts are cut to 16 bits; a search never tries the end
  of the text; "unfinished range" is never reported.

### Fairness

`SqThread!Fairness`: the host loop goes on (`SF(Host)`); each script hands back
control in the end, which the comment of `Thread::main` demands of scripts (strong,
since a script that steps others is interrupted by them); a file that is being
read is ready in the end. Strong fairness of `Host` is needed because scripts on
the base VM can act between any two host steps; the host is their caller, so
they cannot keep it from going on. Nothing is assumed about which calls scripts
make. Shutdown is not required to happen. `thread_time` has rounds in which no time
passes; there `ClockMoves` adds that the host's clock goes on: a host that calls `update()` for ever
reports time that has passed again and again. One that never does keeps timed waits for
ever, as it should.
`SqContinuous!Fairness` is weak: a handler is called by `sq_call` and cannot be
suspended, the loop has no other way than on. `SqExecute` has `WF(Next)`: the VM
executes the next instruction. `MCSqLibrary` has weak fairness of `ArrayCompare`: the
comparing function answers in the end; which answers make a sort end is said by
`SortEnds`.

## 5. What is proved

Every theorem holds for all values of the constants that satisfy the named
assumptions (`WaitAssumption`, `ThreadAssumption`, `HandlerAssumption`, `TableAssumption`,
`NoSlotAssumption`, `VMAssumption`, `BlobAssumption`, `BinderAssumption`, `ObjectAssumption`,
`InfoAssumption`), which say that the identities are finite sets that do not overlap and
the parameters are of the kind the code gives them. Where a theorem has a further
hypothesis it is stated in the theorem and below.

| Theorem | Module | Says of every run of the model |
|---|---|---|
| `TypeCorrect`, `WaitRegisteredAlways`, `LiveThreadsListed`, `SystemChildLiveAlways` | `SqThread_proofs` | types; who waits is on the list; a live thread is listed and `Thread::done` leaves none alive; the child of `system()` is alive |
| `RawPointersHeldAlways`, `LiveInListAlways`, `StackMatchesVMAlways`, `ImplementsLifeAlways` | `SqThread_proofs` | no raw pointer outlives its object; each live thread is listed once; the running VMs are those of the call stack; the scheduler implements `ThreadLife` |
| `NoStaleWaiterAlways`, `NotifyServesAlways` | `SqThread_proofs` | an object's list is exactly its waiters; `notify()` wakes one, the oldest |
| `SystemReturnsCodeAlways` | `SqThread_proofs` | `system()` returns with the exit code of its script |
| `NotEarlyAlways` | `SqThread_proofs` | a timed wait lasts as long as asked for |
| `CallsInOrderAlways`, `SkipsOnlyAfterLossAlways`, `DropsOnlyFailedAlways` | `SqContinuous_proofs` | who is called in a pass and in which order, who may be left out and who dropped, whatever handlers register, remove and clear |
| `WellFormedAlways`, `EachSlotOnceAlways`, `ImplementsDictAlways` | `SqTable_proofs` | the nodes are in order; a walk shows each slot once; a table is a function |
| `StacksAgreeAlways`, `TrapsFitFramesAlways`, `TrapsCountedAlways`, `FrameAtHomeAlways` | `SqVM_proofs` | the C++ stack, the frames and the traps are in step; a frame finds its registers and extra arguments |
| `ImplementsStreamAlways` | `SqBlob_proofs` | a blob is a stream of bytes |
| `NativesOwnedAlways`, `RunsOnOwnAlways`, `HandlesCountedAlways` | `SqBinder_proofs` | C++ objects have one owner and are deleted once; bound functions run on objects of their class; wrappers are counted |
| `HeldSoundAlways`, `StackKeptAlways` | `SqObjectInfo_proofs` | the host's variables are counted and refer to objects that are there; methods and walks give the stack back |
| `WalkMeetsAllAlways` | `SqObjectInfo_proofs` | a walk over a container its callbacks leave alone meets each element once, in order |
| `ReadsBackAlways` | `SqObjectInfo_proofs` | what is assigned to an element through an ObjectInfo is what is read from it then |

`SqListOps_proofs` holds the lemmas about sequences the others rest on.

### Lists

`Without` and `RemoveAt` remove elements from a sequence in place; the lemmas say
what is left, in which order, and that no repetition appears. Facts about a fold
need induction on its length, which is had without an induction theorem from the
well-foundedness of `<` on the naturals (`SetInduction`, `SmallestExists`).

### The wait registry

`WaitRegistered` is inductive together with `TypeOK`. For each operation of the
registry `SqThread_proofs` shows three facts: the result is a registry; if the two
sides agreed before, they agree after; and who begins to wait, if anybody. The
interesting one is `notify()`, which takes an entry off the list by its position and
not all entries of the thread: the sides still agree since the waiter it finds has
given up all its waits by then. The scheduler then needs one line per action
(`RegistryStep`), with `system()` apart, the only one by which somebody begins to
wait for a thread. `SystemChildLive` is not inductive: that nobody waits for a
thread after it ended needs `WaitRegistered`, and that a live child is still in the
thread list needs `Listed`, which says what each phase of the shutdown has done.

`NoStaleWaiter` is the other direction, and false when a script names an object
twice in one `wait()`: the theorem's hypothesis is that scripts do not
(`a.times = 1`). Its invariant `Exact` says that each list consists of its waiters,
without repetition; `NotifyWakesOldest` follows since the entry removed is the first
that waits. What each operation does to the threads' side of the registry
(`Sides`: those of a set give up all waits, nobody else notices; `Told`: what they
are told) is stated once and used by the three theorems below.

`SystemReturnsCode` needs that a thread that waits for its child waits for nothing
else (`Alone`): then only the child's end, or something done to the thread itself,
can release it. It is false when scripts call `notify()` on the child's thread
object, which returns from `system()` with what the child's exit code is at that
moment; the hypothesis is that they notify objects that are no threads.

`NotEarly` needs that a thread the host loop has yet to visit is not running
(`Round`: the list of the round has no repetitions, since a priority and a position
in the list name one thread, and does not meet the call stack), and that what is
owed of its wait is zero or less than its timeout by the elapsed time (`OwedSound`),
until the visit charges that time. Hypotheses: no step mode and no `wait()` on
another thread's object; with either, a wait may begin inside a round and be charged
with all of it.

### The scheduler

`Held` says for each phase which structures hold the threads that `all` and the call
stack point to. `StackMatchesVM` follows from `VMsSound`, with the status and the VM
of a thread side by side; its hypothesis is that scripts do not call `exec()` on a
running thread (`~ ExecSelf`), after which nothing is defined. For the refinement of
`ThreadLife`, `Frees(W, S, N)` says that an operation frees exactly the threads of
`S` from all waits; each operation of the registry frees a set that the abstract
step names, and every action of `SqThread` maps to a step of `ThreadLife` or to a
stutter (`LifeStep`).

### Handlers

The theorems hold whatever handlers register, remove and clear, and whichever of them
fail. The invariant (`PassSound`) relates the observer `log` to the loop and the list:

* `Standing`: whoever has stayed registered stands in front in the list, in order,
  newcomers behind; the loop's bound is at most one for each who stayed and each
  who was removed, so newcomers get into the pass only in the room removals leave;
* `InOrder`: the places called increase, newcomers come after them, and who has stayed
  and lies ahead of the index comes after all that have been called. Removals shift
  the list under the index and never back, so nobody is called twice;
* `Met`: who has stayed and lies behind the index was called or stands behind one that
  went (`Cause`); `Rest`: while handlers remove none, nobody is missing ahead, which
  makes it the one right behind;
* while nobody the index had come to has gone during a call (`~ log.moved`), the running
  handler stands at the index, so that the position by which `call()` removes is its own.

### Tables

A table's nodes form chains through `next`; `WellFormed` says that chains end, that
each key is on the chain of its main position, that `firstfree` is free, and that
`used` counts. It is not inductive. The invariant adds (`Ordered`) that a node has one
predecessor at most, that whatever was taken from the free nodes lies above
`firstfree` - the nodes chains lead to, and the keys that are not in their main
position -, and that where such a key lies no key is at home; and (`Walkable`) that
the nodes can be numbered along the chains. From these:

* a chain ends: otherwise one node would come twice in a walk as long as the table,
  which the numbering excludes; `Reach` is the least set closed under `next`, so what
  is on a chain is shown without following it;
* `NewSlot` keeps the order in its three cases: main position free, taken by a key
  that belongs there, taken by a stray, which moves to the free node while its one
  predecessor is redirected;
* while nothing has been removed (`Fresh`) the nodes without a key are all free and
  below `firstfree`, so `NewSlot` inside `Rehash` and `Clone` finds one and rebuilds
  no more: the recursion of the code ends after one step;
* sizes are powers of two; the fact is used through doubling.

The walk's invariant (`LoopKept`) counts for each slot whether its index is behind
or ahead. The refinement reads the function off the nodes: each operation changes
it in one place. `NoSlotAssumption` says that the mark for an empty slot is no value.

### The VM

The four theorems are about programs that keep away from what `Allow` names
(`Allow = {}`, as in the run): each of the six breaks one of them. None of the four
is inductive alone; the invariant `Good` (`IInv`), which TLC has checked on the run's
instance first, is one statement about all the stacks:

* `Body`: what a frame has among the traps and the extra arguments is given by sums
  over the frames below it (`T`, `V`), and so is where its registers are (`P`). The
  traps in its share are numbered and lead to it (`TrapsOf`), and each frame was
  called by one that can have called it (`Called`): natives by scripts, the host's
  frames and those natives call marked as roots;
* `At`: the running frame has on the stack at least what its kind needs, which is
  what makes the stack positions that are kept in frames and traps good later;
* `Gens`: a generator is `running` exactly while it has a frame, and one that is
  suspended can be resumed: its traps are turned round and count down (`Resumable`);
* `Link`: there is a placement `at` of the activations, a suspended one first, on the
  frames that are roots or native; the counter of each `Execute` is the traps between
  its frame and that of the next; and the frame on top of a suspended VM is the one
  `sq_wakeupvm` gives back its root flag and arguments (`Sleeps`). That a script
  can only be suspended directly below the host, as `SQVM::Suspend` demands,
  is what `LinkSuspend` and `LinkWake` rest on.

The lemmas follow what happens to the stacks rather than the instructions: a frame
is pushed (`PushGood`), frames are cut off (`CutGood`), the running frame changes
(`TouchGood`), an activation begins (`MarkPush`) or ends (`MarkCut`). Every action is one
or two of these; `ThrowGood`, which shows that an exception finds a trap exactly when
the counter says so, serves the six actions that can fail. The model's sums are
recursive functions over the frames; that they exist, grow and depend on no later
frame is shown once (`SumsAre`, `SumsGrow`, `SumsAgree`).

### Blobs

The refinement to `SqStream` reads the stream's text off the buffer: its first
`_size` bytes. What it needs of the code is that the position is not behind the
text and the text not longer than the buffer (`Ordered`), and that every place of the
buffer holds something (`Sound`). Each of the blob's own operations has one lemma that
says what it does to the text (`ResizeRight`, `GrowRight`, `PutRight`, `WriteRight`,
`ReadRight`, `Swaps`), and each function of the script one that it answers as the
stream's (`CallRight`). The interesting one is `Write` at the end: the buffer grows
to a size computed from the old one, its contents are copied, and the bytes between the
old and the new end of the text are all overwritten (`PutRight`), so no byte that
nobody wrote becomes part of the text. `BlobAssumption` asks of the base of a byte that
it is 2 at least; offsets and numbers are any integers.

### Binders

None of the three invariants is inductive. The invariant `BinderInv`, which TLC has
checked on the run's instance first, has these parts:

* `Refers`, `OneOwner`: an instance refers to nothing, or to an object that is there,
  and has its hook exactly if the host does not own it; an object that is not the
  host's is referred to by an instance, and no two instances with a hook share one;
* `Agrees`: an object is of every bound class its instance is of, also when a script
  has derived the instance's class. This rests on the chains: the constructor makes
  an object of the nearest bound class, which is of all the bound classes further
  along (`BoundNearest`), and an object pushed by a function is at least of the
  class it is pushed as (`IsATransitive`);
* `Counted`: `refs` is the number of wrappers that refer to the instance, as object or
  as environment;
* `Lost(inst) = {}`: nobody stays without a reference;
* `Own(out, native)`: what the last call ran on, and the objects it got, are there.

`SettleSound` shows once that letting go of the instances without a reference keeps
all of it: the hooks that run belong to different objects, none of them is the
host's, and whoever stays refers to none of them. An instance that is added
(`Added`) needs an object nobody else refers to, or one of the host's that it does not
own: this is where `PushInstanceInit` needs that the host has not lent what it hands
over, which the model's head comment names as left to the host. Assignment of a
wrapper (`RewrapSound`) releases before it counts, so counts are integers in between and
natural numbers again at the end; one to itself is among them (`Assigned`), except where the
last reference to an object goes in it. `BinderAssumption` describes what the registration
of classes and functions yields: chains are those of C++ base classes, a function
belongs to a bound class, and its objects are of bound classes.

### ObjectInfo

A method is a composition of API calls, so the argument follows the calls rather than
the actions.

* *The heap* is sound (`HeapSound`) if each object is what its type says, refers to
  objects that are there, and an instance has as many fields as its class, which is
  locked then: a member added to a class with instances would break `InstancesFit`.
  Stores, whether taken or refused, new objects, clones and
  removals keep that. What goes when references go is the
  least set of objects that only each other and themselves hold (`Gone`), so who is
  referred to by somebody who stays, stays.
* *The level* of the machine inside a method, `Level(S, b, n, m, f)`: the heap is sound,
  on the global VM's stack lie `b` values from before, `n` of the method's own, and
  what refusing calls left; `m` values lie on the other stack; `f` is what the variables
  hold, and the counts are exact for `f`. Every function of the API and every method has
  one lemma that says which level it leads from and to. That a count may be
  exact for `f` while a variable has been cleared and not yet set is what makes
  the order of release and count in `getStack` and `callResult` provable.
* *Loops* (`append` of an array, `pushArray`, the filling of an array that is too short)
  are recursive functions over the rounds: that they exist and each round keeps the level
  is shown from the well-foundedness of `<` (`RoundsExist`).
* Between methods (`Inv`), the counts are exact and what stack and variables hold is alive;
  `Settled`, which lets go of the rest, keeps that since the counted references
  are its roots. During a walk (`Walking`) there lie on the stack what was there, the
  container, the position, and the key and value the two parameters hold.
* *What a walk has met* (`Met`): as long as the callbacks have left the container alone,
  the elements met are those that lie before the position on the stack, in order. The
  position is all `sq_next` goes by, so this is the invariant `WalkMeetsAll` needs: a turn that
  finds something takes the next element in order, and one that finds nothing is
  at the end. Calls of other methods between two turns change neither the position (what they push
  lies above it) nor, unless it is their argument, the container (`MethodKeeps`).

* *What is stored is read* (`ReadsBack` follows from `Inv`): the assignment is followed
  through the copy of the reference, the nulls an array is filled with (`NullsTake`: as long
  as needed, and nothing else changes), the stack and the store. For a table
  the argument is about chains of delegates: if some table of a chain has the key, one of them is first
  (`AlongMeets`), so a store that is refused found nobody, and the new slot is the only one;
  a store that is taken changes no delegates, so the same table is found again. A class
  stores a field or a method, by what it knew of the name (`ClassReads`). No
  stored value is a weak reference, since what is pushed is the object behind it.

TLC has checked the properties on the run's instance. `ObjectAssumption` and
`InfoAssumption` say that objects and variables are finite sets and that the
bounds are natural numbers; the proof uses neither the bounds nor how many there are.

### Out of the provers' reach

* liveness: `ReadyRuns`, `TimeEnds`, `PassEnds`, `Ends`, `SortEnds`, `CollectsGarbage`
  and whatever else speaks of fairness stay with TLC;
* induction over data, and modules with recursive operators: `SqHeap` (a release sets
  off others), the compiler with `SqMeaning` and `SqExecute` (syntax trees), `SqRex`
  with `SqRegular` (patterns). What they do is checked on all small inputs of a run.

### Only model-checked so far

All of these lie in modules with recursive operators, and are checked on all small
inputs of a run: `ImplementsList` of arrays (`RemoveEqual` in `SqArray`); `CountsExact`,
`NothingLost` and `HookOnce` of the heap; `SameMeaning` and `TrapsBalanced` of compiled
code; `RegexpsRight` of the regular expressions.

## 6. What is not modelled

* **Compiler:** the lexer; classes, table literals and nested closures; constants and
  enumerations; variable arguments; line information; the limit of literals.
* **VM:** free variables, native closures called by `sq_call`, metamethods, delegation,
  exception classes and error handlers, the debug hook.
* **Objects:** the string table, user data, the collector's marks of closures,
  generators and VMs, attributes of class members; saving and loading of closures.
* **sqobject:** delegates and `callEvent`, the memory stream, `sqplus`; registration of
  functions with the VM.
* **sqrat:** registration, variables and properties, `Table`, `Script`, `ConstTable`.
* **Libraries:** files, `format`, string functions, mathematics and system calls: they
  pass arguments to the C library. Nothing is said of printed text.
* **Interpreter, samples, manuals:** a command line, examples and documentation.

Each module's head comment names what it leaves out of its part, and `PROJECT.json`
("components") how far each part is modelled.
