------------------------------ MODULE SqTable -------------------------------
(***************************************************************************)
(* SQTable: a chained scatter table with Brent's variation.  A key lives   *)
(* in its main position, or in a node that the chain from there reaches;   *)
(* free nodes are taken from the top (firstfree only moves down), and a    *)
(* removed node keeps its place in its chain.  The table doubles when the  *)
(* free nodes are used up and halves when a removal leaves a quarter.      *)
(*                                                                         *)
(* One script uses the table and may be inside a foreach over it, whose    *)
(* only state is the index of the node to look at next.                    *)
(*                                                                         *)
(* A definition whose comment begins with "Defect" is a variant of the one *)
(* below it with a plausible bug; nothing uses it.                         *)
(***************************************************************************)
EXTENDS Integers, FiniteSets, FiniteSetsExt, Functions

CONSTANTS Key, Value,
          Null,      \* the null object, no key of a slot
          Hash,      \* HashObj, a function of Key
          Initial    \* the sizes tables are created with

MINPOWER2 == 4

ASSUME TableAssumption ==
    /\ IsFiniteSet(Key) /\ Null \notin Key
    /\ Hash \in [Key -> Nat] /\ Initial \subseteq Nat

\* A mark of the refinement mapping below, no object of a script.
ASSUME NoSlotAssumption == "no slot" \notin Value \cup {Null}

VARIABLES t,     \* the table
          loop   \* the foreach over it, with what it has shown

vars == <<t, loop>>

None == -1     \* a null _HashNode pointer

Nodes(n) == 0 .. n - 1

Size(tb) == Cardinality(DOMAIN tb.key)

\* AllocNodes and the constructor: every node free, the last one the first
\* to be taken.
Empty(n) ==
    [key |-> [i \in Nodes(n) |-> Null], val |-> [i \in Nodes(n) |-> Null],
     next |-> [i \in Nodes(n) |-> None], firstfree |-> n - 1, used |-> 0]

\* The smallest power of two that is large enough.
PowerOfTwo(n) ==
    CHOOSE p \in {MINPOWER2 * 2 ^ e : e \in 0 .. n} :
        p >= n /\ (p > MINPOWER2 => p \div 2 < n)

Main(tb, k) == IF k = Null THEN 0 ELSE Hash[k] % Size(tb)

Follow(tb, i) == IF i = None THEN None ELSE tb.next[i]

\* The chain from node i, as a function of the distance, None behind its end.
Chain(tb, i) ==
    LET step[d \in 0 .. Size(tb)] ==
            IF d = 0 THEN i ELSE Follow(tb, step[d - 1])
    IN  step

Reach(tb, i) == {Chain(tb, i)[d] : d \in 0 .. Size(tb)} \ {None}

\* _Get: the first node of the chain that holds the key.
Find(tb, k) ==
    LET walk[i \in DOMAIN tb.key \cup {None}] ==
            IF i = None THEN None
            ELSE IF tb.key[i] = k THEN i ELSE walk[tb.next[i]]
    IN  walk[Main(tb, k)]

Exist(tb, k) == k # Null /\ Find(tb, k) # None

Get(tb, k) == tb.val[Find(tb, k)]

IsFree(tb, i) == tb.key[i] = Null /\ tb.next[i] = None

\* Defect: a node in the main position of another key is pushed aside without
\* being moved.
PlaceKeyOver(tb, k) ==
    LET mp == Main(tb, k) n == tb.firstfree
    IN  IF tb.key[mp] = Null THEN [tb EXCEPT !.key[mp] = k]
        ELSE [tb EXCEPT !.key[n] = k, !.next[mp] = n]

\* The first half of NewSlot for a key that is not there: a node that sits
\* here only because it collided makes room if the free place is below it;
\* otherwise the new key takes the free place, in the chain of this node.
PlaceKey(tb, k) ==
    LET mp == Main(tb, k)
        n == tb.firstfree
        home == Main(tb, tb.key[mp])
        before == CHOOSE i \in Reach(tb, home) : tb.next[i] = mp
    IN  IF tb.key[mp] = Null THEN [tb EXCEPT !.key[mp] = k]
        ELSE IF mp > n /\ home # mp
        THEN [tb EXCEPT !.key = [@ EXCEPT ![n] = tb.key[mp], ![mp] = k],
                        !.val = [@ EXCEPT ![n] = tb.val[mp], ![mp] = Null],
                        !.next = [@ EXCEPT ![before] = n, ![n] = tb.next[mp],
                                           ![mp] = None]]
        ELSE [tb EXCEPT !.key[n] = k,
                        !.next = [@ EXCEPT ![n] = tb.next[mp], ![mp] = n]]

\* The nodes firstfree can come to rest on.
FreeBelow(tb) == {i \in 0 .. tb.firstfree : IsFree(tb, i)}

\* NewSlot as long as a free node remains; the value only counts then.
Insert(tb, k, v) ==
    IF Find(tb, k) # None THEN [tb EXCEPT !.val[Find(tb, k)] = v]
    ELSE LET p == PlaceKey(tb, k)
         IN  IF FreeBelow(p) = {} THEN [p EXCEPT !.firstfree = 0]
             ELSE [p EXCEPT !.firstfree = Max(FreeBelow(p)),
                            !.val[Find(p, k)] = v, !.used = @ + 1]

\* Some insertion of k would use up the free nodes.
Full(tb, k) == Find(tb, k) = None /\ FreeBelow(PlaceKey(tb, k)) = {}

Occupied(tb) == {i \in DOMAIN tb.key : tb.key[i] # Null}

InsertNode(tb, old, i) ==
    IF old.key[i] = Null THEN tb ELSE Insert(tb, old.key[i], old.val[i])

\* Every slot inserted, from the first node to the last, in n new nodes.
Rebuild(tb, n) ==
    LET ins[j \in 0 .. Size(tb)] ==
            IF j = 0 THEN Empty(n) ELSE InsertNode(ins[j - 1], tb, j - 1)
    IN  ins[Size(tb)]

Rehash(tb, force) ==
    LET n == Size(tb)
    IN  IF tb.used >= n - n \div 4 THEN Rebuild(tb, n * 2)
        ELSE IF tb.used <= n \div 4 /\ n > MINPOWER2 THEN Rebuild(tb, n \div 2)
        ELSE IF force THEN Rebuild(tb, n)
        ELSE tb

\* After a rehash the key is there, with no value yet, and gets it.
NewSlot(tb, k, v) ==
    IF Full(tb, k) THEN Insert(Rehash(Insert(tb, k, v), TRUE), k, v)
    ELSE Insert(tb, k, v)

\* Defect: the node is taken out of its chain.
RemoveUnlink(tb, k) ==
    LET n == Find(tb, k)
    IN  IF n = None THEN tb
        ELSE Rehash([tb EXCEPT !.key[n] = Null, !.val[n] = Null,
                               !.next[n] = None, !.used = @ - 1], FALSE)

\* Defect: a removal always rebuilds.
RemoveForced(tb, k) ==
    LET n == Find(tb, k)
    IN  IF n = None THEN tb
        ELSE Rehash([tb EXCEPT !.key[n] = Null, !.val[n] = Null,
                               !.used = @ - 1], TRUE)

Remove(tb, k) ==
    LET n == Find(tb, k)
    IN  IF n = None THEN tb
        ELSE Rehash([tb EXCEPT !.key[n] = Null, !.val[n] = Null,
                               !.used = @ - 1], FALSE)

\* Nobody looks whether the key is null: the value then goes to the first
\* removed or unused node of the first chain.
Set(tb, k, v) ==
    IF Find(tb, k) = None THEN tb ELSE [tb EXCEPT !.val[Find(tb, k)] = v]

\* The chains are cleared with the nodes only because the rehash is forced.
Clear(tb) ==
    Rehash([tb EXCEPT !.key = [i \in DOMAIN @ |-> Null],
                      !.val = [i \in DOMAIN @ |-> Null], !.used = 0], TRUE)

\* Next: the node shown at index i of an iteration, None at the end.
NextNode(tb, i) ==
    LET rest == {j \in Occupied(tb) : j >= i}
    IN  IF rest = {} THEN None ELSE Min(rest)

CloneNode(tb, old, i) ==
    IF old.key[i] = Null THEN tb ELSE NewSlot(tb, old.key[i], old.val[i])

\* The clone has as many nodes and is filled in the order of iteration.
Clone(tb) ==
    LET ins[j \in 0 .. Size(tb)] ==
            IF j = 0 THEN Empty(PowerOfTwo(Size(tb)))
            ELSE CloneNode(ins[j - 1], tb, j - 1)
    IN  ins[Size(tb)]

-----------------------------------------------------------------------------
NoLoop == [on |-> FALSE, at |-> 0, shown |-> << >>]

Init == loop = NoLoop /\ t \in {Empty(PowerOfTwo(n)) : n \in Initial}

Keys(tb) == {k \in Key : Exist(tb, k)}

\* The loop's observer counts how often each key was shown that has been in
\* the table since the loop began, until a key is inserted or the table gets
\* another size; from then on it counts nothing.
Watch(tb) ==
    loop' = IF Keys(tb) \subseteq Keys(t) /\ Size(tb) = Size(t)
            THEN [loop EXCEPT !.shown = Restrict(@, DOMAIN @ \cap Keys(tb))]
            ELSE [loop EXCEPT !.shown = << >>]

Change(tb) == t' = tb /\ Watch(tb)

DoNewSlot(k, v) == Change(NewSlot(t, k, v))

\* _OP_SET; it fails when the key is not there.
DoSet(k, v) == Find(t, k) # None /\ Change(Set(t, k, v))

\* SQVM::DeleteSlot and sq_deleteslot ask Get first, which refuses null.
DoRemove(k) == Exist(t, k) /\ Change(Remove(t, k))

DoClear == Change(Clear(t))

\* The script goes on with a clone instead.
DoClone == ~ loop.on /\ t' = Clone(t) /\ UNCHANGED loop

BeginLoop ==
    /\ ~ loop.on
    /\ loop' = [on |-> TRUE, at |-> 0, shown |-> [k \in Keys(t) |-> 0]]
    /\ UNCHANGED t

Shown(k) ==
    IF k \in DOMAIN loop.shown THEN [loop.shown EXCEPT ![k] = @ + 1]
    ELSE loop.shown

Turn ==
    LET n == NextNode(t, loop.at)
    IN  /\ loop.on
        /\ n # None
        /\ loop' = [loop EXCEPT !.at = n + 1, !.shown = Shown(t.key[n])]
        /\ UNCHANGED t

EndLoop ==
    /\ loop.on
    /\ NextNode(t, loop.at) = None
    /\ loop' = NoLoop
    /\ UNCHANGED t

Next ==
    \/ \E k \in Key, v \in Value : DoNewSlot(k, v)
    \/ \E k \in Key \cup {Null}, v \in Value : DoSet(k, v)
    \/ \E k \in Key : DoRemove(k)
    \/ DoClear \/ DoClone
    \/ BeginLoop \/ Turn \/ EndLoop

Spec == Init /\ [][Next]_vars

-----------------------------------------------------------------------------
TypeOK ==
    /\ \E e \in 0 .. Size(t) : Size(t) = MINPOWER2 * 2 ^ e
    /\ t.key \in [Nodes(Size(t)) -> Key \cup {Null}]
    /\ t.val \in [Nodes(Size(t)) -> Value \cup {Null}]
    /\ t.next \in [Nodes(Size(t)) -> Nodes(Size(t)) \cup {None}]
    /\ t.firstfree \in Nodes(Size(t))
    /\ t.used \in Nat
    /\ loop.on \in BOOLEAN
    /\ DOMAIN loop.shown \subseteq Key

\* The walks along chains end, and find what they walk for: no chain is a
\* circle, and a node that would have to make room is on the chain of its own
\* main position (the assertion in NewSlot; without it the walk leaves the
\* chain).
ChainsSound ==
    \A i \in DOMAIN t.key :
        /\ Chain(t, i)[Size(t)] = None
        /\ t.key[i] # Null => i \in Reach(t, Main(t, t.key[i]))

\* The place the next collision takes is free: no slot is overwritten and no
\* chain cut, whatever was removed and inserted before.
FreePlaceKept == IsFree(t, t.firstfree)

\* The count that decides about growing and shrinking is the number of slots,
\* so a table neither grows for ever nor overflows while it is rebuilt.
CountRight == t.used = Cardinality(Occupied(t))

\* The nodes are in order after every call: all of the above.
WellFormed == TypeOK /\ ChainsSound /\ FreePlaceKept /\ CountRight

\* A loop over a table whose body inserts no key, and whose removals do not
\* make the table shrink, shows every slot that stays exactly once.
EachSlotOnce ==
    [][loop.on =>
         /\ \A k \in DOMAIN loop.shown : loop.shown[k] <= 1
         /\ EndLoop => \A k \in DOMAIN loop.shown : loop.shown[k] = 1]_vars

\* Whatever the nodes do, the table is a function from keys to values.
AsDict(tb) == [k \in Key |-> IF Exist(tb, k) THEN Get(tb, k) ELSE "no slot"]

Dict == INSTANCE SqDict WITH NoSlot <- "no slot", dict <- AsDict(t)

ImplementsDict == Dict!Spec
=============================================================================
