---------------------------- MODULE SqContinuous ----------------------------
(***************************************************************************)
(* The continuous handlers of sqobject: two lists of functions, called by  *)
(* the host once a round before and after Thread::main.  A handler is a    *)
(* script on the base VM; while it runs it may register and remove         *)
(* handlers, its own list included, which the loop around it does not      *)
(* expect.                                                                 *)
(*                                                                         *)
(* A definition whose comment begins with "Defect" is a variant of the one *)
(* below it with a plausible bug; Next uses none of them.                  *)
(***************************************************************************)
EXTENDS SqListOps, FiniteSets

CONSTANTS Handler,  \* functions scripts register
          Null

ASSUME HandlerAssumption == Null \notin Handler

VARIABLES list,   \* beforeContinuousList and afterContinuousList
          freed,  \* clearContinuousHandler has deleted the two lists
          phase,  \* where the host loop is; "before" and "after": in call()
          i, max, \* the variables of that loop, i counted from 1
          cur,    \* the handler that is running, or Null
          log     \* observer of the pass, see below

vars == <<list, freed, phase, i, max, cur, log>>

Kind == {"before", "after"}
Phase == Kind \cup {"idle", "main", "down", "undefined"}

\* What the observer notes: the handlers registered when the pass began; of
\* these, by their places in start, the ones that have stayed registered since
\* and the ones that went when the loop had come to them; the calls so far, a
\* handler registered since having the place 0; how many of start handlers
\* have removed; and whether during the present call one has gone that the
\* loop had come to.
Log == [start : Seq(Handler), left : Seq(Nat), lost : SUBSET Nat,
        called : Seq(Nat), removed : Nat, moved : BOOLEAN]

NoLog == [start |-> << >>, left |-> << >>, lost |-> {},
          called |-> << >>, removed |-> 0, moved |-> FALSE]

TypeOK ==
    /\ list \in [Kind -> Seq(Handler)]
    /\ freed \in BOOLEAN
    /\ phase \in Phase
    /\ i \in Nat /\ max \in Nat
    /\ cur \in Handler \cup {Null}
    /\ log \in Log

Init ==
    /\ list = [k \in Kind |-> << >>]
    /\ freed = FALSE
    /\ phase = "idle"
    /\ i = 1 /\ max = 0
    /\ cur = Null
    /\ log = NoLog

\* A script can make calls: a handler, or threads and host events.
CanCall == cur # Null \/ phase \in {"idle", "main"}

-----------------------------------------------------------------------------
\* The observer.  It goes by the handlers, not by where they stand.

Place(h) ==
    IF \E p \in ToSet(log.left) : log.start[p] = h
      THEN CHOOSE p \in ToSet(log.left) : log.start[p] = h ELSE 0

\* The list that is walked becomes l.
Noted(l) ==
    LET gone == ToSet(list[phase]) \ ToSet(l)
        come == {list[phase][j] : j \in {m \in DOMAIN list[phase] : m <= i}}
    IN  [log EXCEPT !.left = Without(@, {p \in ToSet(log.left) : log.start[p] \in gone}),
                    !.lost = @ \cup {p \in ToSet(log.left) : log.start[p] \in gone \cap come},
                    !.moved = @ \/ gone \cap come # {}]

-----------------------------------------------------------------------------
\* The host loop.

BeginPass ==
    /\ ~ freed
    /\ \/ phase = "idle" /\ phase' = "before"
       \/ phase = "main" /\ phase' = "after"
    /\ i' = 1
    /\ max' = Len(list[phase'])
    /\ log' = [NoLog EXCEPT !.start = list[phase'],
                            !.left = [p \in 1 .. Len(list[phase']) |-> p]]
    /\ UNCHANGED <<list, freed, cur>>

\* The next call: past the end of a list that shrank get() gives null, the
\* call of which fails, and there is nothing to remove.
CallNext ==
    /\ phase \in Kind /\ cur = Null /\ i <= max /\ ~ freed
    /\ IF i <= Len(list[phase])
         THEN /\ cur' = list[phase][i]
              /\ log' = [log EXCEPT !.called = Append(@, Place(list[phase][i]))]
              /\ UNCHANGED <<i, max>>
         ELSE /\ i' = i + 1 /\ max' = max - 1
              /\ UNCHANGED <<cur, log>>
    /\ UNCHANGED <<list, freed, phase>>

Return ==
    /\ cur # Null
    /\ cur' = Null
    /\ i' = i + 1
    /\ log' = [log EXCEPT !.moved = FALSE]
    /\ UNCHANGED <<list, freed, phase, max>>

\* Defect: the index has moved on before the handler is removed.
FailNext ==
    /\ cur # Null /\ ~ freed
    /\ list' = IF i + 1 <= Len(list[phase]) THEN [list EXCEPT ![phase] = RemoveAt(@, i + 1)]
               ELSE list
    /\ cur' = Null
    /\ i' = i + 1 /\ max' = max - 1
    /\ log' = [Noted(list'[phase]) EXCEPT !.moved = FALSE]
    /\ UNCHANGED <<freed, phase>>

\* A handler that fails is unregistered, by its position.
Fail ==
    /\ cur # Null /\ ~ freed
    /\ list' = IF i <= Len(list[phase]) THEN [list EXCEPT ![phase] = RemoveAt(@, i)]
               ELSE list
    /\ cur' = Null
    /\ i' = i + 1 /\ max' = max - 1
    /\ log' = [Noted(list'[phase]) EXCEPT !.moved = FALSE]
    /\ UNCHANGED <<freed, phase>>

EndPass ==
    /\ phase \in Kind /\ cur = Null /\ i > max
    /\ phase' = IF phase = "before" THEN "main" ELSE "idle"
    /\ log' = NoLog
    /\ UNCHANGED <<list, freed, i, max, cur>>

\* doneContinuous
Done ==
    /\ phase = "idle" /\ ~ freed
    /\ phase' = "down"
    /\ list' = [k \in Kind |-> << >>]
    /\ UNCHANGED <<freed, i, max, cur, log>>

-----------------------------------------------------------------------------
\* What scripts call.

\* Defect: new handlers go to the front.
AddHandlerFirst(h, k) ==
    /\ CanCall /\ ~ freed
    /\ h \notin ToSet(list[k])
    /\ list' = [list EXCEPT ![k] = << h >> \o @]
    /\ UNCHANGED <<freed, phase, i, max, cur, log>>

AddHandler(h, k) ==
    /\ CanCall /\ ~ freed
    /\ h \notin ToSet(list[k])
    /\ list' = [list EXCEPT ![k] = Append(@, h)]
    /\ UNCHANGED <<freed, phase, i, max, cur, log>>

RemoveHandler(h, k) ==
    /\ CanCall /\ ~ freed
    /\ h \in ToSet(list[k])
    /\ list' = [list EXCEPT ![k] = Without(@, {h})]
    /\ log' = IF k # phase THEN log
              ELSE [Noted(list'[k]) EXCEPT !.removed = IF Place(h) = 0 THEN @ ELSE @ + 1]
    /\ UNCHANGED <<freed, phase, i, max, cur>>

\* clearContinuousHandler deletes the lists and leaves the two pointers.
ClearHandlers ==
    /\ CanCall /\ ~ freed
    /\ freed' = TRUE
    /\ list' = [k \in Kind |-> << >>]
    /\ UNCHANGED <<phase, i, max, cur, log>>

\* Whatever follows and uses a deleted list has no defined behaviour: the next
\* pass, the rest of the current one, and every call of this module.
UseFreed ==
    /\ freed
    /\ CanCall \/ (phase \in Kind /\ i <= max)
    /\ phase' = "undefined"
    /\ cur' = Null
    /\ UNCHANGED <<list, freed, i, max, log>>

-----------------------------------------------------------------------------
Next ==
    \/ BeginPass \/ CallNext \/ Return \/ Fail \/ EndPass \/ Done
    \/ \E h \in Handler, k \in Kind : AddHandler(h, k) \/ RemoveHandler(h, k)
    \/ ClearHandlers \/ UseFreed

Spec == Init /\ [][Next]_vars

\* The host's loop goes on, and a handler comes back: it cannot be suspended.
Fairness == WF_vars(CallNext \/ EndPass) /\ WF_vars(Return \/ Fail)

FairSpec == Spec /\ Fairness

-----------------------------------------------------------------------------
\* A handler is in a list once at most, however often it is registered and
\* whatever runs meanwhile: add() ignores what is already there.
RegisteredOnce == \A k \in Kind : IsInjective(list[k])

Increasing(f) == \A m, n \in DOMAIN f : m < n => f[m] < f[n]

\* A pass calls in the order of registration what was registered when it began,
\* nobody twice, whatever its handlers register and remove meanwhile.  Who is
\* registered during the pass comes after them, and at all only in the room
\* that removals have left in it: one newcomer for one removed at most.
CallsInOrder ==
    /\ TypeOK
    /\ RegisteredOnce
    /\ phase \in Kind =>
         /\ \A m, n \in DOMAIN log.called :
               m < n /\ log.called[n] # 0 => log.called[m] \in 1 .. log.called[n] - 1
         /\ Cardinality({n \in DOMAIN log.called : log.called[n] = 0}) <= log.removed

\* A pass leaves out a handler that has been registered all along only because
\* another one, registered earlier, went from the list when the loop had come
\* to it: the index then steps over the next one.  As long as handlers remove
\* none, that is the one registered right before, which failed.
SkipsOnlyAfterLoss ==
    [][EndPass /\ ~ freed =>
         \A p \in ToSet(log.left) :
            \/ p \in ToSet(log.called)
            \/ \E q \in log.lost : IF log.removed = 0 THEN q = p - 1 ELSE q < p]_vars

\* The handlers that a step takes out of a list.
Dropped(k) == ToSet(list[k]) \ ToSet(list'[k])

\* The loop unregisters the handler whose call failed and no other, except when
\* that handler, or one before it, was removed during the call: then whoever
\* has moved to the place goes, one handler at most, and not for its own fault.
DropsOnlyFailed ==
    [][i' # i /\ phase \in Kind /\ ~ freed =>
         \A k \in Kind : \/ Dropped(k) \subseteq {cur}
                         \/ log.moved /\ Cardinality(Dropped(k)) = 1]_vars

\* A pass ends although handlers may register ever more handlers in it.
PassEnds == \A k \in Kind : phase = k ~> phase # k \/ freed

\* What a pass promises to handlers: all of the three.
PassKept == SkipsOnlyAfterLoss /\ DropsOnlyFailed /\ PassEnds
=============================================================================
