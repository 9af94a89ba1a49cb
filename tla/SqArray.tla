------------------------------ MODULE SqArray ------------------------------
(***************************************************************************)
(* An array and its library functions: the values are in a block of cells  *)
(* that grows and shrinks, of which the first "size" are in use.  Sorting  *)
(* is a heap sort that calls a function of the script for every two values *)
(* it compares; one step of it ends with the answer of that call.          *)
(*                                                                         *)
(* Positions below the first one, which slice pads and splice repeats      *)
(* values for, are no arguments here, nor are negative lengths; nor does   *)
(* the comparing function take values out of the array: the sort goes on   *)
(* with the cells it has left.                                             *)
(*                                                                         *)
(* A definition whose comment begins with "Defect" is a variant of the one *)
(* below it with a plausible bug; Next uses none of them.                  *)
(***************************************************************************)
EXTENDS Integers, SequencesExt, FiniteSetsExt

CONSTANTS Elem, Size,
          MaxCalls,  \* bounds: calls of a run, values of an array that
          MaxSort    \* is sorted

VARIABLES arr,       \* the cells and how many are in use
          sort,      \* the sort that is running
          did, out, calls

avars == <<arr, sort, did, out, calls>>

Used(v) == SubSeq(v.cells, 1, v.size)
List == INSTANCE SqList WITH list <- Used(arr)

Null == List!Null
Raw == -1      \* memory without a value

\* sqvector.

Empty == [cells |-> << >>, size |-> 0]
Allocated(v) == Len(v.cells)
ValueAt(v, i) == v.cells[i + 1]

Realloc(v, n) ==
    [v EXCEPT !.cells = [i \in 1 .. (IF n > 0 THEN n ELSE 4) |->
                            IF i \in DOMAIN v.cells THEN v.cells[i] ELSE Raw]]

ResizeTo(v, n, fill) ==
    LET w == IF n > Allocated(v) THEN Realloc(v, n) ELSE v
    IN  [cells |-> [i \in DOMAIN w.cells |-> IF i \in w.size + 1 .. n THEN fill
                                             ELSE IF i \in n + 1 .. w.size THEN Raw
                                             ELSE w.cells[i]],
         size |-> n]

PushBack(v, x) ==
    LET w == IF Allocated(v) <= v.size THEN Realloc(v, v.size * 2) ELSE v
    IN  [cells |-> [w.cells EXCEPT ![v.size + 1] = x], size |-> v.size + 1]

PopBack(v) == [cells |-> [v.cells EXCEPT ![v.size] = Raw], size |-> v.size - 1]

\* Defect: the cell at the end is overwritten before it is moved.
InsertLate(v, i, x) ==
    LET w == ResizeTo(v, v.size, Null)
    IN  [w EXCEPT !.cells = [k \in DOMAIN w.cells |->
            IF k = i + 1 THEN x ELSE IF k \in i + 2 .. w.size THEN w.cells[k - 1] ELSE w.cells[k]]]

InsertCell(v, i, x) ==
    LET w == ResizeTo(v, v.size + 1, Null)
    IN  [w EXCEPT !.cells = [k \in DOMAIN w.cells |->
            IF k = i + 1 THEN x ELSE IF k \in i + 2 .. w.size THEN w.cells[k - 1] ELSE w.cells[k]]]

RemoveCell(v, i) ==
    [cells |-> [k \in DOMAIN v.cells |->
                   IF k \in i + 1 .. v.size - 1 THEN v.cells[k + 1]
                   ELSE IF k = v.size THEN Raw ELSE v.cells[k]],
     size |-> v.size - 1]

\* SQArray.

ShrinkIfNeeded(v) ==
    IF v.size <= Allocated(v) \div 4 /\ v.size > 4 THEN Realloc(v, v.size) ELSE v

Exist(v, i) == i \in 0 .. v.size - 1
ArraySet(v, i, x) == [v EXCEPT !.cells[i + 1] = x]
ArrayResize(v, n, fill) == ShrinkIfNeeded(ResizeTo(v, n, fill))
ArrayRemove(v, i) == ShrinkIfNeeded(RemoveCell(v, i))
ArrayInsert(v, i, x) == IF i \in 0 .. v.size THEN InsertCell(v, i, x) ELSE v
Extend(v, s) == FoldLeft(PushBack, v, s)

-----------------------------------------------------------------------------
\* The functions of the array's default delegate.

Gives(v, r) == arr' = v /\ out' = r
Throws == Gives(arr, List!Error)

array_append(x) == Gives(PushBack(arr, x), List!Nothing)
array_extend(s) == Gives(Extend(arr, s), List!Nothing)

array_pop ==
    IF arr.size > 0 THEN Gives(ShrinkIfNeeded(PopBack(arr)), List!One(ValueAt(arr, arr.size - 1)))
    ELSE Throws

array_top == IF arr.size > 0 THEN Gives(arr, List!One(ValueAt(arr, arr.size - 1))) ELSE Throws

array_insert(i, x) ==
    IF i \in 0 .. arr.size THEN Gives(ArrayInsert(arr, i, x), List!Nothing) ELSE Throws

array_remove(i) ==
    IF Exist(arr, i) THEN Gives(ArrayRemove(arr, i), List!One(ValueAt(arr, i))) ELSE Throws

\* One value after the other; what moves down is looked at next.
RECURSIVE RemoveEqual(_, _, _, _)
RemoveEqual(v, i, x, all) ==
    IF i >= v.size THEN v
    ELSE IF ValueAt(v, i) # x THEN RemoveEqual(v, i + 1, x, all)
    ELSE IF all THEN RemoveEqual(ArrayRemove(v, i), i, x, all) ELSE ArrayRemove(v, i)

array_removeValue(x) == Gives(RemoveEqual(arr, 0, x, TRUE), List!Nothing)

\* The host's ObjectInfo::removeValue: without "all" the first one alone goes.
removeValue(x) == Gives(RemoveEqual(arr, 0, x, FALSE), List!Nothing)

\* A script that gives removeValue a second argument: it is registered with one, and
\* the VM refuses the call before the function sees it.
CallNative == Throws

array_resize(n, x) == Gives(ArrayResize(arr, n, x), List!Nothing)

\* Half of the values change places with the other half.
Swapped(v, i, j) ==
    [v EXCEPT !.cells[i + 1] = ValueAt(v, j), !.cells[j + 1] = ValueAt(v, i)]

array_reverse ==
    Gives(FoldLeftDomain(LAMBDA v, k : Swapped(v, k - 1, v.size - k), arr,
                         [k \in 1 .. arr.size \div 2 |-> k]), List!Nothing)

array_clear == Gives(ResizeTo(arr, 0, Null), List!Nothing)
array_clone == Gives(arr, List!Many(Used(Extend(Empty, Used(arr)))))
array_get(i) == IF Exist(arr, i) THEN Gives(arr, List!One(ValueAt(arr, i))) ELSE Throws
array_set(i, x) == IF Exist(arr, i) THEN Gives(ArraySet(arr, i, x), List!Nothing) ELSE Throws

\* Slice and splice: from the end if negative, then the checks.
FromEnd(i) == IF i < 0 THEN arr.size + i ELSE i

array_slice(i, j) ==
    LET s == FromEnd(i)
        e == FromEnd(j)
    IN  IF e < s \/ e > arr.size THEN Throws
        ELSE Gives(arr, List!Many([k \in 1 .. e - s |-> ValueAt(arr, s + k - 1)]))

array_splice(i, n, s) ==
    LET a == FromEnd(i)
        taken == [k \in 1 .. n |-> ValueAt(arr, a + k - 1)]
        cut == FoldLeftDomain(LAMBDA v, k : ArrayRemove(v, a + n - k), arr, taken)
        put == FoldLeftDomain(LAMBDA v, k : ArrayInsert(v, a + k - 1, s[k]), cut, s)
    IN  IF n <= 0 \/ a + n > arr.size THEN Throws ELSE Gives(put, List!Many(taken))

Perform(c) ==
    LET op == c[1]
    IN  CASE op = "append" -> array_append(c[2])
          [] op = "extend" -> array_extend(c[2])
          [] op = "extend self" -> array_extend(Used(arr))
          [] op = "pop" -> array_pop
          [] op = "top" -> array_top
          [] op = "insert" -> array_insert(c[2], c[3])
          [] op = "remove" -> array_remove(c[2])
          [] op = "remove every" -> array_removeValue(c[2])
          [] op = "remove with all" -> CallNative
          [] op = "host removes first" -> removeValue(c[2])
          [] op = "resize" -> array_resize(c[2], c[3])
          [] op = "reverse" -> array_reverse
          [] op = "clear" -> array_clear
          [] op = "clone" -> array_clone
          [] op = "get" -> array_get(c[2])
          [] op = "set" -> array_set(c[2], c[3])
          [] op = "slice from" -> array_slice(c[2], arr.size)
          [] op = "slice" -> array_slice(c[2], c[3])
          [] op = "splice" -> array_splice(c[2], c[3], c[4])

-----------------------------------------------------------------------------
\* The heap sort.  The heap's root is the first value, whose children are itself
\* and the second one; those of the k-th one are 2k and 2k + 1.

Idle == [on |-> FALSE]

\* What is compared next at a root that has children: they, if there are two, to
\* find the greater one; else the root with its only child.
Sift(s, root, bottom) ==
    [s EXCEPT !.root = root, !.bottom = bottom, !.pick = 2 * root # bottom,
              !.x = IF 2 * root = bottom THEN root ELSE 2 * root,
              !.y = IF 2 * root = bottom THEN bottom ELSE 2 * root + 1]

Begin(order) ==
    LET first == Max({k \in 0 .. arr.size \div 2 : 2 * k <= arr.size - 1})
    IN  Sift([on |-> TRUE, order |-> order, build |-> TRUE, i |-> first, root |-> 0,
              bottom |-> 0, pick |-> FALSE, x |-> 0, y |-> 0], first, arr.size - 1)

\* Building the heap goes on with the root before; then the greatest value goes to
\* the end, again and again.
Sifted(v, s) ==
    IF s.build /\ s.i > 0
      THEN [arr |-> v, sort |-> Sift([s EXCEPT !.i = @ - 1], s.i - 1, s.bottom)]
    ELSE LET last == IF s.build THEN v.size - 1 ELSE s.i - 1
         IN  IF last = 0 THEN [arr |-> v, sort |-> Idle]
             ELSE [arr |-> Swapped(v, 0, last),
                   sort |-> Sift([s EXCEPT !.i = last, !.build = FALSE], 0, last - 1)]

\* Defect: values that are equal change places, too.
AnsweredEqual(v, s, ret) ==
    CASE s.pick -> [arr |-> v, sort |-> [s EXCEPT !.pick = FALSE, !.x = s.root,
                                                  !.y = IF ret > 0 THEN s.x ELSE s.y]]
      [] ~ s.pick /\ ret <= 0 /\ 2 * s.y <= s.bottom ->
           [arr |-> Swapped(v, s.root, s.y), sort |-> Sift(s, s.y, s.bottom)]
      [] ~ s.pick /\ ret <= 0 /\ 2 * s.y > s.bottom -> Sifted(Swapped(v, s.root, s.y), s)
      [] ~ s.pick /\ ret > 0 -> Sifted(v, s)

Answered(v, s, ret) ==
    CASE s.pick -> [arr |-> v, sort |-> [s EXCEPT !.pick = FALSE, !.x = s.root,
                                                  !.y = IF ret > 0 THEN s.x ELSE s.y]]
      [] ~ s.pick /\ ret < 0 /\ 2 * s.y <= s.bottom ->
           [arr |-> Swapped(v, s.root, s.y), sort |-> Sift(s, s.y, s.bottom)]
      [] ~ s.pick /\ ret < 0 /\ 2 * s.y > s.bottom -> Sifted(Swapped(v, s.root, s.y), s)
      [] ~ s.pick /\ ret >= 0 -> Sifted(v, s)

Failure == 2
Answers(s) ==
    LET a == ValueAt(arr, s.x)
        b == ValueAt(arr, s.y)
    IN  CASE s.order = "natural" -> {List!Natural[a, b]}
          [] s.order = "backward" -> {List!Backward[a, b]}
          [] s.order = "unknown" -> {-1, 0, 1, Failure}

-----------------------------------------------------------------------------
Unused == arr = Empty /\ sort = Idle

Init ==
    /\ \E s \in BoundedSeq(Elem, 3) : arr = Extend(Empty, s)
    /\ sort = Idle
    /\ did = <<"new">>
    /\ out = List!Nothing
    /\ calls = 0

CanCall == ~ sort.on /\ calls < MaxCalls

Call ==
    /\ CanCall
    /\ calls' = calls + 1
    /\ \E c \in List!Calls :
          /\ c[1] \in {"slice", "slice from", "splice"} => FromEnd(c[2]) >= 0
          /\ did' = c
          /\ Perform(c)
    /\ UNCHANGED sort

array_sort ==
    /\ CanCall /\ arr.size <= MaxSort
    /\ calls' = calls + 1
    /\ \E o \in {"natural", "backward", "unknown"} :
          /\ did' = <<"sort", o>>
          /\ sort' = IF arr.size > 1 THEN Begin(o) ELSE Idle
    /\ out' = IF arr.size > 1 THEN List!Busy ELSE List!Nothing
    /\ UNCHANGED arr

\* The comparing function answers, or fails.
Compare ==
    /\ sort.on
    /\ \E ret \in Answers(sort) :
          IF ret = Failure THEN Throws /\ sort' = Idle
          ELSE LET r == Answered(arr, sort, ret)
               IN  /\ arr' = r.arr
                   /\ sort' = r.sort
                   /\ out' = IF r.sort.on THEN List!Busy ELSE List!Nothing
    /\ UNCHANGED <<did, calls>>

Next == Call \/ array_sort \/ Compare

Spec == Init /\ [][Next]_avars /\ WF_avars(Compare)

-----------------------------------------------------------------------------
\* Properties.

\* The cells that are in use hold values, and no others do: after any calls, in
\* the middle of a sort too.
CellsUsed ==
    /\ arr.size <= Allocated(arr)
    /\ \A k \in DOMAIN arr.cells : (arr.cells[k] = Raw) = (k > arr.size)

\* An array does what a sequence does, though its block moves, shrinks and grows;
\* a sort neither loses nor doubles values whatever the comparing function
\* answers, and brings them in order if it has one.
ImplementsList == List!Spec

\* A sort by a function that knows an order ends.
SortEnds == sort.on /\ sort.order # "unknown" ~> ~ sort.on
=============================================================================
