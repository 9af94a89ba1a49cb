----------------------------- MODULE SqObjects -----------------------------
(***************************************************************************)
(* Arrays, tables, classes and instances as the VM's access functions see  *)
(* them.  A heap h maps objects to their contents; a value is a pair of    *)
(* its type and its content, where <<"ref", o>> stands for every type that *)
(* is kept by reference.  Tables are functions here, which run "table"     *)
(* shows their nodes to implement.  Metamethods and the library functions  *)
(* of the default delegates are left out: no key names one.                *)
(***************************************************************************)
EXTENDS Integers, FiniteSets, SequencesExt

CONSTANTS Obj,       \* objects, numbered in the order of their addresses
          KeyOrder   \* the keys, in the order in which a table holds them

Null == <<"null", 0>>
IntV(n) == <<"int", n>>
Ref(o) == <<"ref", o>>
Weak(o) == <<"weak", o>>
Closure == <<"closure", 0>>   \* functions: nothing asks which
Nobody == 0   \* no delegate, no base class

Key == ToSet(KeyOrder)

\* What a variable may hold; keys are plain.
Plain == {"null", "int", "string", "closure", "root"} \X Int
Held == {Ref(o) : o \in Obj} \cup {Weak(o) : o \in Obj}
Value == Held \cup Plain

ASSUME ObjectAssumption ==
    /\ Obj \subseteq Nat \ {Nobody} /\ IsFiniteSet(Obj)
    /\ KeyOrder \in Seq({"int", "string"} \X Int)

Free == [type |-> "free"]
NewArray(s) == [type |-> "array", val |-> s]
NewTable(d) == [type |-> "table", slot |-> << >>, delegate |-> d]

\* A class begins as a copy of its base and is not affected by it later.
\* A member is a field or a method: its kind and its place.
NewClass(h, base) ==
    IF base = Nobody
      THEN [type |-> "class", base |-> base, locked |-> FALSE,
            methods |-> << >>, default |-> << >>, member |-> << >>]
      ELSE [h[base] EXCEPT !.base = base, !.locked = FALSE]

\* The objects from o on, each followed by the one that "next" names.
Along(next, o) ==
    {p \in Obj : \A D \in SUBSET Obj :
                    (o \in D /\ \A q \in D : next[q] \in D \cup {Nobody}) => p \in D}

Bases(h, c) == Along([q \in Obj |-> IF h[q].type = "class" THEN h[q].base ELSE Nobody], c)

Lock(h, c) ==
    [o \in Obj |-> IF o \in Bases(h, c) THEN [h[o] EXCEPT !.locked = TRUE] ELSE h[o]]

\* Creating an instance closes its class and the classes above it.
NewInstance(h, c, o) ==
    [(IF h[c].locked THEN h ELSE Lock(h, c)) EXCEPT
        ![o] = [type |-> "instance", class |-> c, val |-> h[c].default]]

Alive(h, v) == v[1] = "ref" => h[v[2]] # Free
Type(h, v) == IF v[1] = "ref" THEN h[v[2]].type ELSE v[1]

\* What is read is never a weak reference but the object behind it, if it lives.
RealVal(h, v) ==
    IF v[1] # "weak" THEN v ELSE IF h[v[2]] = Free THEN Null ELSE Ref(v[2])

Found(v) == [found |-> TRUE, val |-> v]
Missing == [found |-> FALSE, val |-> Null]
Done(h) == [ok |-> TRUE, heap |-> h]
Refused(h) == [ok |-> FALSE, heap |-> h]

IsIndex(s, key) == key[1] = "int" /\ key[2] \in 0 .. Len(s) - 1

-----------------------------------------------------------------------------
\* Class members.

ClassGet(h, c, key) ==
    IF key \notin DOMAIN h[c].member THEN Missing
    ELSE LET m == h[c].member[key]
         IN  Found(IF m.kind = "field" THEN RealVal(h, h[c].default[m.at]) ELSE h[c].methods[m.at])

InstanceGet(h, o, key) ==
    LET c == h[o].class
    IN  IF key \notin DOMAIN h[c].member THEN Missing
        ELSE LET m == h[c].member[key]
             IN  Found(IF m.kind = "field" THEN RealVal(h, h[o].val[m.at]) ELSE h[c].methods[m.at])

InstanceSet(h, o, key, v) ==
    LET c == h[o].class
    IN  IF key \in DOMAIN h[c].member /\ h[c].member[key].kind = "field"
          THEN Done([h EXCEPT ![o].val[h[c].member[key].at] = v])
          ELSE Refused(h)

Member(kind, at) == [kind |-> kind, at |-> at]
Extended(f, key, v) == [k \in DOMAIN f \cup {key} |-> IF k = key THEN v ELSE f[k]]

\* Functions become methods, unless a field of that name exists: its default is
\* replaced.  A method replaced by a value stays in its place, without a name.
ClassNewSlot(h, c, key, v) ==
    LET known == key \in DOMAIN h[c].member
        m == h[c].member[key]
    IN  CASE h[c].locked -> Refused(h)
          [] ~ h[c].locked /\ known /\ m.kind = "field" ->
               Done([h EXCEPT ![c].default[m.at] = v])
          [] ~ h[c].locked /\ known /\ m.kind = "method" /\ Type(h, v) = "closure" ->
               Done([h EXCEPT ![c].methods[m.at] = v])
          [] ~ h[c].locked /\ ~ known /\ Type(h, v) = "closure" ->
               Done([h EXCEPT ![c].member = Extended(@, key, Member("method", Len(h[c].methods) + 1)),
                              ![c].methods = Append(@, v)])
          [] OTHER ->
               Done([h EXCEPT ![c].member = Extended(@, key, Member("field", Len(h[c].default) + 1)),
                              ![c].default = Append(@, v)])

-----------------------------------------------------------------------------
\* SQVM's access functions.

DelegatesOf(h, o) == Along([q \in Obj |-> IF h[q].type = "table" THEN h[q].delegate ELSE Nobody], o)

\* The table that has the key, the first one of o and its delegates.
Holders(h, o, key) ==
    LET owners == {p \in DelegatesOf(h, o) : key \in DOMAIN h[p].slot}
    IN  {p \in owners : owners \subseteq DelegatesOf(h, p)}
Holder(h, o, key) == CHOOSE p \in Holders(h, o, key) : TRUE

Get(h, self, key) ==
    LET o == self[2]
    IN  CASE Type(h, self) = "array" ->
               IF IsIndex(h[o].val, key) THEN Found(RealVal(h, h[o].val[key[2] + 1])) ELSE Missing
          [] Type(h, self) = "table" ->
               IF Holders(h, o, key) = {} THEN Missing
               ELSE Found(RealVal(h, h[Holder(h, o, key)].slot[key]))
          [] Type(h, self) = "instance" -> InstanceGet(h, o, key)
          [] Type(h, self) = "class" -> ClassGet(h, o, key)
          [] OTHER -> Missing

Set(h, self, key, v) ==
    LET o == self[2]
    IN  CASE Type(h, self) = "array" ->
               IF IsIndex(h[o].val, key) THEN Done([h EXCEPT ![o].val[key[2] + 1] = v]) ELSE Refused(h)
          [] Type(h, self) = "table" ->
               IF Holders(h, o, key) = {} THEN Refused(h)
               ELSE Done([h EXCEPT ![Holder(h, o, key)].slot[key] = v])
          [] Type(h, self) = "instance" -> InstanceSet(h, o, key, v)
          [] OTHER -> Refused(h)

NewSlot(h, self, key, v) ==
    CASE key = Null -> Refused(h)
      [] key # Null /\ Type(h, self) = "table" -> Done([h EXCEPT ![self[2]].slot = Extended(@, key, v)])
      [] key # Null /\ Type(h, self) = "class" -> ClassNewSlot(h, self[2], key, v)
      [] OTHER -> Refused(h)

DeleteSlot(h, self, key) ==
    IF Type(h, self) = "table" /\ key \in DOMAIN h[self[2]].slot
      THEN Done([h EXCEPT ![self[2]].slot = [k \in DOMAIN @ \ {key} |-> @[k]]])
      ELSE Refused(h)

\* Object o becomes a copy of what self is.
Clone(h, self, o) ==
    IF Type(h, self) \in {"array", "table", "instance"}
      THEN Done([h EXCEPT ![o] = h[self[2]]]) ELSE Refused(h)

SetDelegate(h, o, d) ==
    IF o \in DelegatesOf(h, d) THEN Refused(h) ELSE Done([h EXCEPT ![o].delegate = d])

\* The size, or -1 for what has none.
Size(h, self) ==
    CASE Type(h, self) = "array" -> Len(h[self[2]].val)
      [] Type(h, self) = "table" -> Cardinality(DOMAIN h[self[2]].slot)
      [] Type(h, self) \in {"instance", "class"} -> 0
      [] OTHER -> -1

\* Comparing two values gives their order, or fails and gives nothing.
Sign(n) == IF n < 0 THEN -1 ELSE IF n > 0 THEN 1 ELSE 0
NoOrder == 2

ObjCmp(h, v, w) ==
    CASE Type(h, v) = Type(h, w) -> Sign(v[2] - w[2])
      [] Type(h, v) # Type(h, w) /\ v = Null -> -1
      [] Type(h, v) # Type(h, w) /\ v # Null /\ w = Null -> 1
      [] OTHER -> NoOrder

\* One turn of a walk: the next position with its key and value.  A table's
\* positions are those of KeyOrder.
NoTurn == [at |-> -1, key |-> Null, val |-> Null]

NextTurn(h, self, at) ==
    LET o == self[2]
        names == CASE Type(h, self) = "table" -> DOMAIN h[o].slot
                   [] Type(h, self) = "class" -> DOMAIN h[o].member
                   [] OTHER -> {}
        ahead == {n \in at + 1 .. Len(KeyOrder) : KeyOrder[n] \in names}
        first == CHOOSE n \in ahead : \A m \in ahead : n <= m
    IN  CASE Type(h, self) = "array" /\ at < Len(h[o].val) ->
               [at |-> at + 1, key |-> IntV(at), val |-> RealVal(h, h[o].val[at + 1])]
          [] Type(h, self) = "table" /\ ahead # {} ->
               [at |-> first, key |-> KeyOrder[first], val |-> RealVal(h, h[o].slot[KeyOrder[first]])]
          [] Type(h, self) = "class" /\ ahead # {} ->
               [at |-> first, key |-> KeyOrder[first], val |-> ClassGet(h, o, KeyOrder[first]).val]
          [] OTHER -> NoTurn

-----------------------------------------------------------------------------
\* Reference counting: what nothing refers to goes, and what only that referred
\* to goes with it; a cycle stays.
Content(c) ==
    CASE c.type = "array" -> ToSet(c.val)
      [] c.type = "table" -> {c.slot[k] : k \in DOMAIN c.slot} \cup
                             (IF c.delegate = Nobody THEN {} ELSE {Ref(c.delegate)})
      [] c.type = "class" -> ToSet(c.default) \cup ToSet(c.methods) \cup
                             (IF c.base = Nobody THEN {} ELSE {Ref(c.base)})
      [] c.type = "instance" -> ToSet(c.val) \cup {Ref(c.class)}
      [] OTHER -> {}

Contents(h) == UNION {Content(h[o]) : o \in Obj}

\* What nothing refers to but the objects of D.
Unheld(h, roots, D) ==
    {o \in Obj : /\ h[o] # Free /\ Ref(o) \notin roots
                 /\ \A p \in Obj \ D : Ref(o) \notin Content(h[p])}

\* The fewest objects that go with all that only they refer to.
Gone(h, roots) == {o \in Obj : \A D \in SUBSET Obj : Unheld(h, roots, D) \subseteq D => o \in D}

Released(h, roots) == [o \in Obj |-> IF o \in Gone(h, roots) THEN Free ELSE h[o]]
=============================================================================
