------------------------ MODULE SqObjectInfo_proofs ------------------------
(***************************************************************************)
(* What the host holds through its ObjectInfos stays there and is what it  *)
(* is taken for, and every method gives the stack back, for every number   *)
(* of objects, keys and variables; a walk meets every element of a         *)
(* container that is left alone; and what is stored is read back.          *)
(***************************************************************************)
EXTENDS SqObjectInfo, SqListOps_proofs, FiniteSetTheorems

-----------------------------------------------------------------------------
\* The objects.  A heap is sound if every object is what its type says, refers to
\* living objects only, and fits its class.

LiveValue(h) == {v \in Value : Alive(h, v)}

ArraySound(h, c) == c = NewArray(c.val) /\ c.val \in Seq(LiveValue(h))

TableSound(h, c) ==
    /\ c = [type |-> "table", slot |-> c.slot, delegate |-> c.delegate]
    /\ \A k \in DOMAIN c.slot : c.slot[k] \in LiveValue(h)
    /\ c.delegate # Nobody => c.delegate \in Obj /\ h[c.delegate].type = "table"

MemberSound(c, m) ==
    /\ m = Member(m.kind, m.at)
    /\ m.kind \in {"field", "method"}
    /\ m.at \in 1 .. Len(IF m.kind = "field" THEN c.default ELSE c.methods)

ClassSound(h, c) ==
    /\ c = [type |-> "class", base |-> c.base, locked |-> c.locked,
            methods |-> c.methods, default |-> c.default, member |-> c.member]
    /\ c.base # Nobody => c.base \in Obj /\ h[c.base].type = "class"
    /\ c.methods \in Seq(LiveValue(h)) /\ c.default \in Seq(LiveValue(h))
    /\ \A k \in DOMAIN c.member : MemberSound(c, c.member[k])

InstanceSound(h, c) ==
    /\ c = [type |-> "instance", class |-> c.class, val |-> c.val]
    /\ c.class \in Obj /\ h[c.class].type = "class" /\ h[c.class].locked = TRUE
    /\ c.val \in Seq(LiveValue(h)) /\ Len(c.val) = Len(h[c.class].default)

ObjectSound(h, c) ==
    /\ c.type \in {"free", "array", "table", "class", "instance"}
    /\ c.type = "free" => c = Free
    /\ c.type = "array" => ArraySound(h, c)
    /\ c.type = "table" => TableSound(h, c)
    /\ c.type = "class" => ClassSound(h, c)
    /\ c.type = "instance" => InstanceSound(h, c)

HeapSound(h) == h = [o \in Obj |-> h[o]] /\ \A o \in Obj : ObjectSound(h, h[o])

\* What lives in h lives in g.
Grows(h, g) == \A o \in Obj : h[o] # Free => g[o] # Free

LEMMA Values ==
  ASSUME NEW h, HeapSound(h)
  PROVE  /\ \A p \in Plain : p \in LiveValue(h) /\ p \in Value /\ p[1] # "ref" /\ p[1] # "weak"
         /\ \A o \in Obj : Weak(o) \in LiveValue(h) /\ Ref(o) # Null
         /\ \A o \in Obj : h[o] # Free => Ref(o) \in LiveValue(h)
         /\ \A o \in Obj : Ref(o) \in LiveValue(h) => h[o] # Free
         /\ \A v \in Value : v[1] = "ref" => v[2] \in Obj /\ v = Ref(v[2])
         /\ \A v \in Value : v[1] = "weak" => v[2] \in Obj /\ v = Weak(v[2])
         /\ \A v \in Value : v[1] # "ref" /\ v[1] # "weak" => v \in Plain
         /\ \A o \in Obj : h[o] # Free <=> h[o].type # "free"
  <1>1. \A p \in Plain : p \in LiveValue(h) /\ p \in Value /\ p[1] # "ref" /\ p[1] # "weak"
    BY DEF LiveValue, Alive, Value, Plain
  <1>2. \A o \in Obj : Weak(o) \in LiveValue(h) /\ Ref(o) # Null
    BY DEF LiveValue, Alive, Value, Held, Weak, Ref, Null
  <1>3. \A o \in Obj : (h[o] # Free => Ref(o) \in LiveValue(h)) /\ (Ref(o) \in LiveValue(h) => h[o] # Free)
    BY DEF LiveValue, Alive, Value, Held, Ref
  <1>4. \A v \in Value : /\ v[1] = "ref" => v[2] \in Obj /\ v = Ref(v[2])
                         /\ v[1] = "weak" => v[2] \in Obj /\ v = Weak(v[2])
                         /\ v[1] # "ref" /\ v[1] # "weak" => v \in Plain
    BY DEF Value, Held, Plain, Ref, Weak
  <1>5. \A o \in Obj : h[o] # Free <=> h[o].type # "free"
    BY DEF HeapSound, ObjectSound, Free
  <1> QED BY <1>1, <1>2, <1>3, <1>4, <1>5

LEMMA Constants ==
  ASSUME NEW h, HeapSound(h)
  PROVE  /\ {Null, Closure, Root} \subseteq LiveValue(h)
         /\ \A n \in Int : IntV(n) \in LiveValue(h)
         /\ Key \subseteq LiveValue(h)
         /\ \A k \in 1 .. Len(KeyOrder) : KeyOrder[k] \in LiveValue(h)
         /\ Len(KeyOrder) \in Nat
  <1>1. {Null, Closure, Root} \subseteq Plain /\ \A n \in Int : IntV(n) \in Plain
    BY DEF Plain, Null, Closure, Root, IntV
  <1>2. \A k \in 1 .. Len(KeyOrder) : KeyOrder[k] \in Plain
    BY ObjectAssumption DEF ObjectAssumption, Plain
  <1>3. Key \subseteq Plain /\ Len(KeyOrder) \in Nat
    BY <1>2, ObjectAssumption DEF Key, ToSet, ObjectAssumption
  <1> QED BY <1>1, <1>2, <1>3, Values

LEMMA LiveGrows ==
  ASSUME NEW h, NEW g, Grows(h, g)
  PROVE  LiveValue(h) \subseteq LiveValue(g)
  BY DEF Grows, LiveValue, Alive, Value, Held, Plain, Ref, Weak

LEMMA SeqGrows ==
  ASSUME NEW A, NEW B, A \subseteq B
  PROVE  Seq(A) \subseteq Seq(B)
  <1> SUFFICES ASSUME NEW s \in Seq(A) PROVE s \in Seq(B)
    OBVIOUS
  <1>1. Len(s) \in Nat /\ s = [k \in 1 .. Len(s) |-> s[k]] /\ \A k \in 1 .. Len(s) : s[k] \in B
    OBVIOUS
  <1> QED BY <1>1

LEMMA SeqWithin ==
  ASSUME NEW A, NEW B, NEW s \in Seq(A), \A x \in A : x \in ToSet(s) => x \in B
  PROVE  s \in Seq(B)
  <1>1. Len(s) \in Nat /\ s = [k \in 1 .. Len(s) |-> s[k]] /\ DOMAIN s = 1 .. Len(s)
    OBVIOUS
  <1>2. \A k \in 1 .. Len(s) : s[k] \in A /\ s[k] \in ToSet(s)
    BY <1>1 DEF ToSet
  <1> QED BY <1>1, <1>2

\* One object changes, or comes to be.
LEMMA Changed ==
  ASSUME NEW h, HeapSound(h), NEW o \in Obj, NEW c, ObjectSound(h, c),
         c.type = h[o].type \/ h[o] = Free,
         h[o].type = "class" =>
           (h[o].locked = TRUE => c.locked = TRUE /\ Len(c.default) = Len(h[o].default))
  PROVE  HeapSound([h EXCEPT ![o] = c]) /\ Grows(h, [h EXCEPT ![o] = c])
  <1> DEFINE g == [h EXCEPT ![o] = c]
  <1>1. g = [p \in Obj |-> g[p]] /\ g[o] = c /\ \A p \in Obj : p # o => g[p] = h[p]
    BY DEF HeapSound
  <1>2. Grows(h, g)
    BY <1>1, Values DEF Grows, Free
  <1>3. LiveValue(h) \subseteq LiveValue(g)
    BY <1>2, LiveGrows
  <1>4. \A p \in Obj : h[p].type \in {"table", "class"} => g[p].type = h[p].type
    BY <1>1 DEF Free
  <1>5. \A p \in Obj : h[p].type = "class" /\ h[p].locked = TRUE =>
           g[p].type = "class" /\ g[p].locked = TRUE /\ Len(g[p].default) = Len(h[p].default)
    BY <1>1, <1>4
  <1>6. Seq(LiveValue(h)) \subseteq Seq(LiveValue(g))
    BY <1>3, SeqGrows
  <1>7. \A d : ObjectSound(h, d) => ObjectSound(g, d)
    <2> SUFFICES ASSUME NEW d, ObjectSound(h, d) PROVE ObjectSound(g, d)
      OBVIOUS
    <2>1. d.type = "array" => ArraySound(g, d)
      BY <1>6 DEF ObjectSound, ArraySound
    <2>2. d.type = "table" => TableSound(g, d)
      BY <1>3, <1>4 DEF ObjectSound, TableSound
    <2>3. d.type = "class" => ClassSound(g, d)
      BY <1>4, <1>6 DEF ObjectSound, ClassSound
    <2>4. d.type = "instance" => InstanceSound(g, d)
      BY <1>5, <1>6 DEF ObjectSound, InstanceSound
    <2> QED BY <2>1, <2>2, <2>3, <2>4 DEF ObjectSound
  <1> QED BY <1>1, <1>2, <1>7 DEF HeapSound

\* What is read is alive.
LEMMA RealLive ==
  ASSUME NEW h, HeapSound(h), NEW v \in LiveValue(h)
  PROVE  RealVal(h, v) \in LiveValue(h) /\ RealVal(h, v)[1] # "weak"
  <1>1. v \in Value
    BY DEF LiveValue
  <1>2. CASE v[1] # "weak"
    BY <1>2 DEF RealVal
  <1>3. CASE v[1] = "weak"
    <2>1. v[2] \in Obj
      BY <1>1, <1>3, Values
    <2>2. Null \in LiveValue(h) /\ Null[1] # "weak" /\ Ref(v[2])[1] # "weak"
      BY Constants DEF Null, Ref
    <2> QED BY <1>3, <2>1, <2>2, Values DEF RealVal
  <1> QED BY <1>2, <1>3

LEMMA RefType ==
  ASSUME NEW h, HeapSound(h), NEW v \in LiveValue(h),
         Type(h, v) \in {"array", "table", "class", "instance"}
  PROVE  /\ v[1] = "ref" /\ v[2] \in Obj /\ v = Ref(v[2]) /\ v # Null
         /\ h[v[2]].type = Type(h, v) /\ h[v[2]] # Free
  <1>1. v \in Value
    BY DEF LiveValue
  <1>2. v[1] = "ref"
    <2>1. SUFFICES ASSUME v[1] # "ref" PROVE FALSE
      OBVIOUS
    <2>2. v[1] \in {"array", "table", "class", "instance"}
      BY <2>1 DEF Type
    <2> QED BY <1>1, <2>1, <2>2 DEF Value, Held, Plain, Ref, Weak
  <1>3. v[2] \in Obj /\ v = Ref(v[2]) /\ v # Null
    BY <1>1, <1>2, Values
  <1> QED BY <1>2, <1>3 DEF Type, Free

LEMMA ArrayPut ==
  ASSUME NEW h, HeapSound(h), NEW o \in Obj, h[o].type = "array", NEW s \in Seq(LiveValue(h))
  PROVE  /\ HeapSound([h EXCEPT ![o].val = s]) /\ Grows(h, [h EXCEPT ![o].val = s])
         /\ h[o].val \in Seq(LiveValue(h))
  <1> DEFINE c == NewArray(s)
  <1>1. h[o] = NewArray(h[o].val) /\ h[o].val \in Seq(LiveValue(h))
    BY DEF HeapSound, ObjectSound, ArraySound
  <1>2. [h[o] EXCEPT !.val = s] = c
    BY <1>1 DEF NewArray
  <1>3. c.type = "array" /\ c.val = s
    BY DEF NewArray
  <1>4. ObjectSound(h, c)
    BY <1>3 DEF ObjectSound, ArraySound
  <1> QED BY <1>1, <1>2, <1>3, <1>4, Changed

LEMMA TablePut ==
  ASSUME NEW h, HeapSound(h), NEW o \in Obj, h[o].type = "table", NEW s,
         \A k \in DOMAIN s : s[k] \in LiveValue(h)
  PROVE  HeapSound([h EXCEPT ![o].slot = s]) /\ Grows(h, [h EXCEPT ![o].slot = s])
  <1> DEFINE c == [type |-> "table", slot |-> s, delegate |-> h[o].delegate]
  <1>1. TableSound(h, h[o])
    BY DEF HeapSound, ObjectSound
  <1>2. [h[o] EXCEPT !.slot = s] = c
    BY <1>1 DEF TableSound
  <1>3. ObjectSound(h, c)
    BY <1>1 DEF ObjectSound, TableSound
  <1> QED BY <1>2, <1>3, Changed

PutAt(s, k, x) == [s EXCEPT ![k] = x]

\* A sequence keeps its length and its elements' kind when one is replaced.
LEMMA ReplacedSeq ==
  ASSUME NEW X, NEW s \in Seq(X), NEW k, NEW x \in X
  PROVE  PutAt(s, k, x) \in Seq(X) /\ Len(PutAt(s, k, x)) = Len(s)
  <1> DEFINE t == [s EXCEPT ![k] = x]
  <1>1. Len(s) \in Nat /\ s = [i \in 1 .. Len(s) |-> s[i]]
    OBVIOUS
  <1>2. t = [i \in 1 .. Len(s) |-> IF i = k THEN x ELSE s[i]]
    BY <1>1
  <1> HIDE DEF t
  <1>3. t \in [1 .. Len(s) -> X]
    BY <1>2
  <1>4. t \in Seq(X)
    BY <1>1, <1>3
  <1>5. Len(t) = Len(s)
    BY <1>1, <1>2, <1>4
  <1> QED BY <1>4, <1>5 DEF t, PutAt

LEMMA AppendSeq ==
  ASSUME NEW X, NEW s \in Seq(X), NEW x \in X
  PROVE  /\ Append(s, x) \in Seq(X) /\ Len(Append(s, x)) = Len(s) + 1 /\ Len(s) \in Nat
         /\ Append(s, x)[Len(s) + 1] = x
         /\ \A k \in 1 .. Len(s) : Append(s, x)[k] = s[k]
  OBVIOUS

ClassOf(base, locked, d, t, f) ==
    [type |-> "class", base |-> base, locked |-> locked, methods |-> t, default |-> d, member |-> f]

IsClass(c) == c = ClassOf(c.base, c.locked, c.default, c.methods, c.member)

WithMembers(h, o, d, t, f) == [h EXCEPT ![o] = ClassOf(h[o].base, h[o].locked, d, t, f)]

MembersFit(d, t, f) ==
    \A k \in DOMAIN f :
        /\ f[k] = Member(f[k].kind, f[k].at) /\ f[k].kind \in {"field", "method"}
        /\ f[k].at \in 1 .. Len(IF f[k].kind = "field" THEN d ELSE t)

LEMMA ClassPut ==
  ASSUME NEW h, HeapSound(h), NEW o \in Obj, h[o].type = "class", NEW d, NEW t, NEW f,
         d \in Seq(LiveValue(h)), t \in Seq(LiveValue(h)), MembersFit(d, t, f),
         h[o].locked = TRUE => Len(d) = Len(h[o].default)
  PROVE  HeapSound(WithMembers(h, o, d, t, f)) /\ Grows(h, WithMembers(h, o, d, t, f))
  <1> DEFINE c == ClassOf(h[o].base, h[o].locked, d, t, f)
  <1>1. ClassSound(h, h[o])
    BY DEF HeapSound, ObjectSound
  <1>3. ClassSound(h, c)
    BY <1>1 DEF ClassSound, MemberSound, MembersFit, ClassOf
  <1>5. c.type = "class" /\ c.locked = h[o].locked /\ c.default = d
    BY DEF ClassOf
  <1> HIDE DEF c
  <1>4. ObjectSound(h, c)
    BY <1>3, <1>5 DEF ObjectSound
  <1>6. WithMembers(h, o, d, t, f) = [h EXCEPT ![o] = c]
    BY DEF WithMembers, c
  <1>7. HeapSound([h EXCEPT ![o] = c]) /\ Grows(h, [h EXCEPT ![o] = c])
    BY <1>4, <1>5, Changed
  <1> QED BY <1>6, <1>7

LEMMA ClassForm ==
  ASSUME NEW c, IsClass(c), NEW x
  PROVE  /\ [c EXCEPT !.default = x] = ClassOf(c.base, c.locked, x, c.methods, c.member)
         /\ [c EXCEPT !.methods = x] = ClassOf(c.base, c.locked, c.default, x, c.member)
         /\ [c EXCEPT !.member = x] = ClassOf(c.base, c.locked, c.default, c.methods, x)
         /\ [c EXCEPT !.locked = x] = ClassOf(c.base, x, c.default, c.methods, c.member)
         /\ [c EXCEPT !.base = x] = ClassOf(x, c.locked, c.default, c.methods, c.member)
  BY DEF IsClass, ClassOf

LEMMA ClassParts ==
  ASSUME NEW b, NEW l, NEW d, NEW t, NEW f
  PROVE  LET r == ClassOf(b, l, d, t, f)
         IN  /\ IsClass(r) /\ r.type = "class" /\ r.base = b /\ r.locked = l
             /\ r.default = d /\ r.methods = t /\ r.member = f
  BY DEF IsClass, ClassOf

\* The ways a class changes.
DefaultSet(h, c, k, x) == [h EXCEPT ![c].default[k] = x]
MethodSet(h, c, k, x) == [h EXCEPT ![c].methods[k] = x]
MethodAdded(h, c, f, x) == [h EXCEPT ![c].member = f, ![c].methods = Append(@, x)]
FieldAdded(h, c, f, x) == [h EXCEPT ![c].member = f, ![c].default = Append(@, x)]

LEMMA ClassEdits ==
  ASSUME NEW h, HeapSound(h), NEW c \in Obj, IsClass(h[c]), NEW x, NEW f, NEW k
  PROVE  /\ DefaultSet(h, c, k, x) = WithMembers(h, c, PutAt(h[c].default, k, x), h[c].methods, h[c].member)
         /\ MethodSet(h, c, k, x) = WithMembers(h, c, h[c].default, PutAt(h[c].methods, k, x), h[c].member)
         /\ MethodAdded(h, c, f, x) = WithMembers(h, c, h[c].default, Append(h[c].methods, x), f)
         /\ FieldAdded(h, c, f, x) = WithMembers(h, c, Append(h[c].default, x), h[c].methods, f)
  <1> DEFINE q == [h[c] EXCEPT !.member = f]
             g == [h EXCEPT ![c] = q]
  <1>1. [h[c] EXCEPT !.default = PutAt(h[c].default, k, x)]
          = ClassOf(h[c].base, h[c].locked, PutAt(h[c].default, k, x), h[c].methods, h[c].member)
    BY ClassForm
  <1>2. [h[c] EXCEPT !.methods = PutAt(h[c].methods, k, x)]
          = ClassOf(h[c].base, h[c].locked, h[c].default, PutAt(h[c].methods, k, x), h[c].member)
    BY ClassForm
  <1>3. q = ClassOf(h[c].base, h[c].locked, h[c].default, h[c].methods, f)
    BY ClassForm
  <1>4. /\ IsClass(q) /\ q.base = h[c].base /\ q.locked = h[c].locked /\ q.default = h[c].default
        /\ q.methods = h[c].methods /\ q.member = f
    BY <1>3, ClassParts
  <1>5. g[c] = q /\ \A y : [g EXCEPT ![c] = y] = [h EXCEPT ![c] = y]
    BY DEF HeapSound
  <1>6. /\ [q EXCEPT !.methods = Append(q.methods, x)]
             = ClassOf(h[c].base, h[c].locked, h[c].default, Append(h[c].methods, x), f)
        /\ [q EXCEPT !.default = Append(q.default, x)]
             = ClassOf(h[c].base, h[c].locked, Append(h[c].default, x), h[c].methods, f)
    <2> HIDE DEF q
    <2>1. [q EXCEPT !.methods = Append(q.methods, x)]
             = ClassOf(q.base, q.locked, q.default, Append(q.methods, x), q.member)
      BY <1>4, ClassForm
    <2>2. [q EXCEPT !.default = Append(q.default, x)]
             = ClassOf(q.base, q.locked, Append(q.default, x), q.methods, q.member)
      BY <1>4, ClassForm
    <2> QED BY <1>4, <2>1, <2>2
  <1>7. /\ MethodAdded(h, c, f, x) = [g EXCEPT ![c] = [g[c] EXCEPT !.methods = Append(g[c].methods, x)]]
        /\ FieldAdded(h, c, f, x) = [g EXCEPT ![c] = [g[c] EXCEPT !.default = Append(g[c].default, x)]]
    BY DEF MethodAdded, FieldAdded
  <1> HIDE DEF g, q
  <1>8. /\ MethodAdded(h, c, f, x) = [g EXCEPT ![c] = ClassOf(h[c].base, h[c].locked, h[c].default, Append(h[c].methods, x), f)]
        /\ FieldAdded(h, c, f, x) = [g EXCEPT ![c] = ClassOf(h[c].base, h[c].locked, Append(h[c].default, x), h[c].methods, f)]
    BY <1>5, <1>6, <1>7
  <1>9. /\ DefaultSet(h, c, k, x) = [h EXCEPT ![c] = [h[c] EXCEPT !.default = PutAt(h[c].default, k, x)]]
        /\ MethodSet(h, c, k, x) = [h EXCEPT ![c] = [h[c] EXCEPT !.methods = PutAt(h[c].methods, k, x)]]
    BY DEF DefaultSet, MethodSet, PutAt
  <1> QED BY <1>1, <1>2, <1>5, <1>8, <1>9 DEF WithMembers

\* A value becomes a member of a class, or takes a member's place.
LEMMA ClassNewSlotSound ==
  ASSUME NEW h, HeapSound(h), NEW c \in Obj, h[c].type = "class", NEW key, NEW v \in LiveValue(h)
  PROVE  HeapSound(ClassNewSlot(h, c, key, v).heap) /\ Grows(h, ClassNewSlot(h, c, key, v).heap)
  <1> DEFINE m == h[c].member[key]
             known == key \in DOMAIN h[c].member
             g == ClassNewSlot(h, c, key, v).heap
  <1>1. ClassSound(h, h[c]) /\ IsClass(h[c]) /\ Grows(h, h)
    BY DEF HeapSound, ObjectSound, ClassSound, IsClass, ClassOf, Grows
  <1>2. /\ h[c].default \in Seq(LiveValue(h)) /\ h[c].methods \in Seq(LiveValue(h))
        /\ MembersFit(h[c].default, h[c].methods, h[c].member)
    BY <1>1 DEF ClassSound, MemberSound, MembersFit
  <1>4. CASE h[c].locked
    <2>1. g = h
      BY <1>4 DEF ClassNewSlot, Refused
    <2> QED BY <2>1, <1>1
  <1>5. CASE ~ h[c].locked /\ known /\ m.kind = "field"
    <2> DEFINE d == PutAt(h[c].default, m.at, v)
    <2>1. g = WithMembers(h, c, d, h[c].methods, h[c].member)
      <3>1. g = DefaultSet(h, c, m.at, v)
        BY <1>5 DEF ClassNewSlot, Done, DefaultSet
      <3> QED BY <3>1, <1>1, ClassEdits
    <2>2. d \in Seq(LiveValue(h)) /\ Len(d) = Len(h[c].default)
      BY <1>2, ReplacedSeq
    <2> HIDE DEF d, g
    <2>3. MembersFit(d, h[c].methods, h[c].member)
      BY <1>2, <2>2 DEF MembersFit
    <2> QED BY <1>2, <2>1, <2>2, <2>3, ClassPut DEF g
  <1>6. CASE ~ h[c].locked /\ known /\ m.kind = "method" /\ Type(h, v) = "closure"
    <2> DEFINE d == PutAt(h[c].methods, m.at, v)
    <2>1. g = WithMembers(h, c, h[c].default, d, h[c].member)
      <3>1. g = MethodSet(h, c, m.at, v)
        BY <1>6 DEF ClassNewSlot, Done, MethodSet
      <3> QED BY <3>1, <1>1, ClassEdits
    <2>2. d \in Seq(LiveValue(h)) /\ Len(d) = Len(h[c].methods)
      BY <1>2, ReplacedSeq
    <2> HIDE DEF d, g
    <2>3. MembersFit(h[c].default, d, h[c].member)
      BY <1>2, <2>2 DEF MembersFit
    <2> QED BY <1>2, <2>1, <2>2, <2>3, ClassPut DEF g
  <1>7. CASE ~ h[c].locked /\ ~ known /\ Type(h, v) = "closure"
    <2> DEFINE d == Append(h[c].methods, v)
               f == Extended(h[c].member, key, Member("method", Len(h[c].methods) + 1))
    <2>1. g = MethodAdded(h, c, f, v)
      BY <1>7 DEF ClassNewSlot, Done, MethodAdded
    <2> HIDE DEF f
    <2>2. g = WithMembers(h, c, h[c].default, d, f)
      BY <1>1, <2>1, ClassEdits
    <2>3. d \in Seq(LiveValue(h)) /\ Len(d) = Len(h[c].methods) + 1 /\ Len(h[c].methods) \in Nat
      BY <1>2, AppendSeq
    <2> HIDE DEF d, g
    <2>4. MembersFit(h[c].default, d, f)
      <3>1. \A k \in DOMAIN f : f[k] = Member("method", Len(d)) \/ (k \in DOMAIN h[c].member /\ f[k] = h[c].member[k])
        BY <2>3 DEF Extended, f
      <3>2. LET x == Member("method", Len(d)) IN x.kind = "method" /\ x.at = Len(d)
        BY DEF Member
      <3> QED BY <1>2, <2>3, <3>1, <3>2 DEF MembersFit
    <2> QED BY <1>2, <2>2, <2>3, <2>4, ClassPut DEF g
  <1>8. CASE /\ ~ h[c].locked /\ ~ (known /\ m.kind = "field")
             /\ ~ (known /\ m.kind = "method" /\ Type(h, v) = "closure")
             /\ ~ (~ known /\ Type(h, v) = "closure")
    <2> DEFINE d == Append(h[c].default, v)
               f == Extended(h[c].member, key, Member("field", Len(h[c].default) + 1))
    <2>1. g = FieldAdded(h, c, f, v)
      BY <1>8 DEF ClassNewSlot, Done, FieldAdded
    <2> HIDE DEF f
    <2>2. g = WithMembers(h, c, d, h[c].methods, f)
      BY <1>1, <2>1, ClassEdits
    <2>3. d \in Seq(LiveValue(h)) /\ Len(d) = Len(h[c].default) + 1 /\ Len(h[c].default) \in Nat
      BY <1>2, AppendSeq
    <2> HIDE DEF d, g
    <2>4. MembersFit(d, h[c].methods, f)
      <3>1. \A k \in DOMAIN f : f[k] = Member("field", Len(d)) \/ (k \in DOMAIN h[c].member /\ f[k] = h[c].member[k])
        BY <2>3 DEF Extended, f
      <3>2. LET x == Member("field", Len(d)) IN x.kind = "field" /\ x.at = Len(d)
        BY DEF Member
      <3> QED BY <1>2, <2>3, <3>1, <3>2 DEF MembersFit
    <2>5. h[c].locked # TRUE
      BY <1>8
    <2> QED BY <1>2, <2>2, <2>3, <2>4, <2>5, ClassPut DEF g
  <1> QED BY <1>4, <1>5, <1>6, <1>7, <1>8

-----------------------------------------------------------------------------
\* The VM's access functions on a sound heap.

LEMMA SlotRead ==
  ASSUME NEW X, NEW s \in Seq(X), NEW n \in 0 .. Len(s) - 1
  PROVE  s[n + 1] \in X /\ n + 1 \in 1 .. Len(s)
  OBVIOUS

\* The objects along a chain that stays within a set are in the set.
LEMMA AlongWithin ==
  ASSUME NEW next, NEW o, NEW D \in SUBSET Obj, o \in D,
         \A q \in D : next[q] \in D \cup {Nobody}
  PROVE  Along(next, o) \subseteq D
  BY DEF Along

LEMMA AlongStarts ==
  ASSUME NEW next, NEW o \in Obj
  PROVE  o \in Along(next, o) /\ Along(next, o) \subseteq Obj
  BY DEF Along

LEMMA DelegatesTables ==
  ASSUME NEW h, HeapSound(h), NEW o \in Obj, h[o].type = "table"
  PROVE  \A p \in DelegatesOf(h, o) : p \in Obj /\ h[p].type = "table"
  <1> DEFINE D == {q \in Obj : h[q].type = "table"}
             next == [q \in Obj |-> IF h[q].type = "table" THEN h[q].delegate ELSE Nobody]
  <1>1. \A q \in D : next[q] \in D \cup {Nobody}
    BY DEF HeapSound, ObjectSound, TableSound
  <1> HIDE DEF next
  <1>2. Along(next, o) \subseteq D
    BY <1>1, AlongWithin
  <1> QED BY <1>2 DEF DelegatesOf, next

LEMMA HolderTable ==
  ASSUME NEW h, HeapSound(h), NEW o \in Obj, h[o].type = "table", NEW key, Holders(h, o, key) # {}
  PROVE  LET p == Holder(h, o, key)
         IN  p \in Obj /\ h[p].type = "table" /\ key \in DOMAIN h[p].slot
  <1>1. Holder(h, o, key) \in Holders(h, o, key)
    BY DEF Holder
  <1> QED BY <1>1, DelegatesTables DEF Holders

LEMMA MemberRead ==
  ASSUME NEW h, HeapSound(h), NEW c \in Obj, h[c].type = "class", NEW key \in DOMAIN h[c].member
  PROVE  LET m == h[c].member[key]
         IN  /\ m.kind \in {"field", "method"}
             /\ m.kind = "field" => m.at \in 1 .. Len(h[c].default) /\ h[c].default[m.at] \in LiveValue(h)
             /\ m.kind = "method" => m.at \in 1 .. Len(h[c].methods) /\ h[c].methods[m.at] \in LiveValue(h)
  <1>1. ClassSound(h, h[c]) /\ MemberSound(h[c], h[c].member[key])
    BY DEF HeapSound, ObjectSound, ClassSound
  <1> QED BY <1>1 DEF ClassSound, MemberSound

LEMMA ClassGetLive ==
  ASSUME NEW h, HeapSound(h), NEW c \in Obj, h[c].type = "class", NEW key
  PROVE  ClassGet(h, c, key).val \in LiveValue(h)
  <1> DEFINE m == h[c].member[key]
  <1>1. CASE key \notin DOMAIN h[c].member
    BY <1>1, Constants DEF ClassGet, Missing
  <1>2. CASE key \in DOMAIN h[c].member /\ m.kind = "field"
    <2>1. RealVal(h, h[c].default[m.at]) \in LiveValue(h)
      BY <1>2, MemberRead, RealLive
    <2> QED BY <1>2, <2>1 DEF ClassGet, Found
  <1>3. CASE key \in DOMAIN h[c].member /\ m.kind # "field"
    <2>1. h[c].methods[m.at] \in LiveValue(h)
      BY <1>3, MemberRead
    <2> QED BY <1>3, <2>1 DEF ClassGet, Found
  <1> QED BY <1>1, <1>2, <1>3

LEMMA InstanceParts ==
  ASSUME NEW h, HeapSound(h), NEW o \in Obj, h[o].type = "instance"
  PROVE  /\ h[o].class \in Obj /\ h[h[o].class].type = "class" /\ h[h[o].class].locked = TRUE
         /\ h[o].val \in Seq(LiveValue(h)) /\ Len(h[o].val) = Len(h[h[o].class].default)
         /\ h[o] = [type |-> "instance", class |-> h[o].class, val |-> h[o].val]
  BY DEF HeapSound, ObjectSound, InstanceSound

LEMMA InstanceGetLive ==
  ASSUME NEW h, HeapSound(h), NEW o \in Obj, h[o].type = "instance", NEW key
  PROVE  InstanceGet(h, o, key).val \in LiveValue(h)
  <1> DEFINE c == h[o].class
             m == h[c].member[key]
  <1>0. c \in Obj /\ h[c].type = "class" /\ h[o].val \in Seq(LiveValue(h)) /\ Len(h[o].val) = Len(h[c].default)
    BY InstanceParts
  <1>4. InstanceGet(h, o, key) = IF key \notin DOMAIN h[c].member THEN Missing
                                 ELSE Found(IF m.kind = "field" THEN RealVal(h, h[o].val[m.at]) ELSE h[c].methods[m.at])
    BY DEF InstanceGet
  <1> HIDE DEF c
  <1>1. CASE key \notin DOMAIN h[c].member
    BY <1>1, <1>4, Constants DEF Missing
  <1>2. CASE key \in DOMAIN h[c].member /\ m.kind = "field"
    <2>1. m.at \in 1 .. Len(h[o].val) /\ h[o].val \in Seq(LiveValue(h))
      BY <1>0, <1>2, MemberRead
    <2> HIDE DEF m
    <2>2. h[o].val[m.at] \in LiveValue(h)
      BY <2>1
    <2>3. RealVal(h, h[o].val[m.at]) \in LiveValue(h)
      BY <2>2, RealLive
    <2> QED BY <1>2, <1>4, <2>3 DEF Found, m
  <1>3. CASE key \in DOMAIN h[c].member /\ m.kind # "field"
    <2>1. h[c].methods[m.at] \in LiveValue(h)
      BY <1>0, <1>3, MemberRead
    <2> QED BY <1>3, <1>4, <2>1 DEF Found
  <1> QED BY <1>1, <1>2, <1>3

LEMMA GetLive ==
  ASSUME NEW h, HeapSound(h), NEW self \in LiveValue(h), NEW key
  PROVE  Get(h, self, key).val \in LiveValue(h) /\ Get(h, self, key).found \in BOOLEAN
  <1> DEFINE o == self[2]
             t == Type(h, self)
  <1>0. Missing.val \in LiveValue(h) /\ Missing.found = FALSE
    BY Constants DEF Missing
  <1>1. CASE t = "array"
    <2>1. o \in Obj /\ h[o].type = "array"
      BY <1>1, RefType
    <2>2. h[o].val \in Seq(LiveValue(h))
      BY <2>1 DEF HeapSound, ObjectSound, ArraySound
    <2>3. CASE IsIndex(h[o].val, key)
      <3>1. h[o].val[key[2] + 1] \in LiveValue(h)
        BY <2>2, <2>3, SlotRead DEF IsIndex
      <3>2. RealVal(h, h[o].val[key[2] + 1]) \in LiveValue(h)
        BY <3>1, RealLive
      <3>3. Get(h, self, key) = Found(RealVal(h, h[o].val[key[2] + 1]))
        BY <1>1, <2>3 DEF Get
      <3> QED BY <3>2, <3>3 DEF Found
    <2>4. CASE ~ IsIndex(h[o].val, key)
      BY <1>0, <1>1, <2>4 DEF Get
    <2> QED BY <2>3, <2>4
  <1>2. CASE t = "table"
    <2>1. o \in Obj /\ h[o].type = "table"
      BY <1>2, RefType
    <2>2. CASE Holders(h, o, key) = {}
      BY <1>0, <1>2, <2>2 DEF Get
    <2>3. CASE Holders(h, o, key) # {}
      <3> DEFINE p == Holder(h, o, key)
      <3>1. p \in Obj /\ h[p].type = "table" /\ key \in DOMAIN h[p].slot
        BY <2>1, <2>3, HolderTable
      <3>2. h[p].slot[key] \in LiveValue(h)
        BY <3>1 DEF HeapSound, ObjectSound, TableSound
      <3>3. RealVal(h, h[p].slot[key]) \in LiveValue(h)
        BY <3>2, RealLive
      <3>4. Get(h, self, key) = Found(RealVal(h, h[p].slot[key]))
        BY <1>2, <2>3 DEF Get
      <3> QED BY <3>3, <3>4 DEF Found
    <2> QED BY <2>2, <2>3
  <1>3. CASE t = "instance"
    <2>1. o \in Obj /\ h[o].type = "instance"
      BY <1>3, RefType
    <2>2. Get(h, self, key) = InstanceGet(h, o, key)
      BY <1>3 DEF Get
    <2>3. InstanceGet(h, o, key).found \in BOOLEAN
      BY DEF InstanceGet, Found, Missing
    <2> QED BY <2>1, <2>2, <2>3, InstanceGetLive
  <1>4. CASE t = "class"
    <2>1. o \in Obj /\ h[o].type = "class"
      BY <1>4, RefType
    <2>2. Get(h, self, key) = ClassGet(h, o, key)
      BY <1>4 DEF Get
    <2>3. ClassGet(h, o, key).found \in BOOLEAN
      BY DEF ClassGet, Found, Missing
    <2> QED BY <2>1, <2>2, <2>3, ClassGetLive
  <1>5. CASE t \notin {"array", "table", "instance", "class"}
    BY <1>0, <1>5 DEF Get
  <1> QED BY <1>1, <1>2, <1>3, <1>4, <1>5

LEMMA GrowsSame ==
  ASSUME NEW h
  PROVE  Grows(h, h)
  BY DEF Grows

\* A store keeps the heap sound, whether it is taken or refused.
LEMMA SetSound ==
  ASSUME NEW h, HeapSound(h), NEW self \in LiveValue(h), NEW key, NEW v \in LiveValue(h)
  PROVE  /\ HeapSound(Set(h, self, key, v).heap) /\ Grows(h, Set(h, self, key, v).heap)
         /\ Set(h, self, key, v).ok \in BOOLEAN
  <1> DEFINE o == self[2]
             t == Type(h, self)
             r == Set(h, self, key, v)
  <1>0. Refused(h).heap = h /\ Refused(h).ok = FALSE /\ Grows(h, h)
    BY GrowsSame DEF Refused
  <1>1. CASE t = "array"
    <2>1. o \in Obj /\ h[o].type = "array"
      BY <1>1, RefType
    <2>2. CASE IsIndex(h[o].val, key)
      <3> DEFINE s == PutAt(h[o].val, key[2] + 1, v)
      <3>1. h[o].val \in Seq(LiveValue(h))
        BY <2>1, ArrayPut DEF HeapSound, ObjectSound, ArraySound
      <3>2. s \in Seq(LiveValue(h))
        BY <3>1, ReplacedSeq
      <3>3. r = Done([h EXCEPT ![o].val = s])
        BY <1>1, <2>2 DEF Set, PutAt
      <3> HIDE DEF s, r
      <3>4. HeapSound([h EXCEPT ![o].val = s]) /\ Grows(h, [h EXCEPT ![o].val = s])
        BY <2>1, <3>2, ArrayPut
      <3> QED BY <3>3, <3>4 DEF Done, r
    <2>3. CASE ~ IsIndex(h[o].val, key)
      BY <1>0, <1>1, <2>3 DEF Set
    <2> QED BY <2>2, <2>3
  <1>2. CASE t = "table"
    <2>1. o \in Obj /\ h[o].type = "table"
      BY <1>2, RefType
    <2>2. CASE Holders(h, o, key) = {}
      BY <1>0, <1>2, <2>2 DEF Set
    <2>3. CASE Holders(h, o, key) # {}
      <3> DEFINE p == Holder(h, o, key)
                 s == [h[p].slot EXCEPT ![key] = v]
      <3>1. p \in Obj /\ h[p].type = "table" /\ key \in DOMAIN h[p].slot
        BY <2>1, <2>3, HolderTable
      <3>2. \A k \in DOMAIN h[p].slot : h[p].slot[k] \in LiveValue(h)
        BY <3>1 DEF HeapSound, ObjectSound, TableSound
      <3>3. r = Done([h EXCEPT ![p].slot = s])
        BY <1>2, <2>3 DEF Set
      <3> HIDE DEF p, r
      <3>4. \A k \in DOMAIN s : s[k] \in LiveValue(h)
        BY <3>2
      <3> HIDE DEF s
      <3>5. HeapSound([h EXCEPT ![p].slot = s]) /\ Grows(h, [h EXCEPT ![p].slot = s])
        BY <3>1, <3>4, TablePut
      <3> QED BY <3>3, <3>5 DEF Done, r
    <2> QED BY <2>2, <2>3
  <1>3. CASE t = "instance"
    <2> DEFINE c == h[o].class
               m == h[c].member[key]
    <2>1. o \in Obj /\ h[o].type = "instance"
      BY <1>3, RefType
    <2>2. r = InstanceSet(h, o, key, v)
      BY <1>3 DEF Set
    <2>3. CASE ~ (key \in DOMAIN h[c].member /\ m.kind = "field")
      BY <1>0, <2>2, <2>3 DEF InstanceSet
    <2>4. CASE key \in DOMAIN h[c].member /\ m.kind = "field"
      <3> DEFINE s == PutAt(h[o].val, m.at, v)
                 d == [type |-> "instance", class |-> h[o].class, val |-> s]
      <3>1. r = Done([h EXCEPT ![o].val = s])
        BY <2>2, <2>4 DEF InstanceSet, PutAt
      <3>2. /\ h[o].val \in Seq(LiveValue(h))
            /\ h[o] = [type |-> "instance", class |-> h[o].class, val |-> h[o].val]
        BY <2>1, InstanceParts
      <3>3. s \in Seq(LiveValue(h)) /\ Len(s) = Len(h[o].val)
        BY <3>2, ReplacedSeq
      <3> HIDE DEF s, r, m
      <3>4. [h[o] EXCEPT !.val = s] = d
        BY <3>2
      <3>5. [h EXCEPT ![o].val = s] = [h EXCEPT ![o] = d]
        BY <3>4
      <3>6. InstanceSound(h, d) /\ d.type = "instance"
        BY <2>1, <3>3, InstanceParts DEF InstanceSound
      <3> HIDE DEF d
      <3>7. HeapSound([h EXCEPT ![o] = d]) /\ Grows(h, [h EXCEPT ![o] = d])
        <4>1. ObjectSound(h, d)
          BY <3>6 DEF ObjectSound
        <4> QED BY <2>1, <3>6, <4>1, Changed
      <3> QED BY <3>1, <3>5, <3>7 DEF Done, r
    <2> QED BY <2>3, <2>4
  <1>4. CASE t \notin {"array", "table", "instance"}
    BY <1>0, <1>4 DEF Set
  <1> QED BY <1>1, <1>2, <1>3, <1>4

LEMMA NewSlotSound ==
  ASSUME NEW h, HeapSound(h), NEW self \in LiveValue(h), NEW key, NEW v \in LiveValue(h)
  PROVE  /\ HeapSound(NewSlot(h, self, key, v).heap) /\ Grows(h, NewSlot(h, self, key, v).heap)
         /\ NewSlot(h, self, key, v).ok \in BOOLEAN
  <1> DEFINE o == self[2]
             t == Type(h, self)
             r == NewSlot(h, self, key, v)
  <1>0. Refused(h).heap = h /\ Refused(h).ok = FALSE /\ Grows(h, h)
    BY GrowsSame DEF Refused
  <1>1. CASE key # Null /\ t = "table"
    <2> DEFINE s == Extended(h[o].slot, key, v)
    <2>1. o \in Obj /\ h[o].type = "table"
      BY <1>1, RefType
    <2>2. \A k \in DOMAIN h[o].slot : h[o].slot[k] \in LiveValue(h)
      BY <2>1 DEF HeapSound, ObjectSound, TableSound
    <2>3. r = Done([h EXCEPT ![o].slot = s])
      BY <1>1 DEF NewSlot
    <2>4. \A k \in DOMAIN s : s[k] \in LiveValue(h)
      BY <2>2 DEF Extended
    <2> HIDE DEF s, r
    <2>5. HeapSound([h EXCEPT ![o].slot = s]) /\ Grows(h, [h EXCEPT ![o].slot = s])
      BY <2>1, <2>4, TablePut
    <2> QED BY <2>3, <2>5 DEF Done, r
  <1>2. CASE key # Null /\ t = "class"
    <2>1. o \in Obj /\ h[o].type = "class"
      BY <1>2, RefType
    <2>2. r = ClassNewSlot(h, o, key, v)
      BY <1>2 DEF NewSlot
    <2>3. ClassNewSlot(h, o, key, v).ok \in BOOLEAN
      BY DEF ClassNewSlot, Done, Refused
    <2> QED BY <2>1, <2>2, <2>3, ClassNewSlotSound
  <1>3. CASE key = Null \/ t \notin {"table", "class"}
    BY <1>0, <1>3 DEF NewSlot
  <1> QED BY <1>1, <1>2, <1>3

LEMMA DeleteSlotSound ==
  ASSUME NEW h, HeapSound(h), NEW self \in LiveValue(h), NEW key
  PROVE  HeapSound(DeleteSlot(h, self, key).heap) /\ Grows(h, DeleteSlot(h, self, key).heap)
  <1> DEFINE o == self[2]
             r == DeleteSlot(h, self, key)
  <1>1. CASE Type(h, self) = "table" /\ key \in DOMAIN h[o].slot
    <2> DEFINE s == [k \in DOMAIN h[o].slot \ {key} |-> h[o].slot[k]]
    <2>1. o \in Obj /\ h[o].type = "table"
      BY <1>1, RefType
    <2>2. \A k \in DOMAIN h[o].slot : h[o].slot[k] \in LiveValue(h)
      BY <2>1 DEF HeapSound, ObjectSound, TableSound
    <2>3. r = Done([h EXCEPT ![o].slot = s])
      BY <1>1 DEF DeleteSlot
    <2>4. \A k \in DOMAIN s : s[k] \in LiveValue(h)
      BY <2>2
    <2> HIDE DEF s, r
    <2>5. HeapSound([h EXCEPT ![o].slot = s]) /\ Grows(h, [h EXCEPT ![o].slot = s])
      BY <2>1, <2>4, TablePut
    <2> QED BY <2>3, <2>5 DEF Done, r
  <1>2. CASE ~ (Type(h, self) = "table" /\ key \in DOMAIN h[o].slot)
    BY <1>2, GrowsSame DEF DeleteSlot, Refused
  <1> QED BY <1>1, <1>2

LEMMA CloneSound ==
  ASSUME NEW h, HeapSound(h), NEW self \in LiveValue(h), NEW o \in Obj, h[o] = Free,
         Type(h, self) \in {"array", "table", "instance"}
  PROVE  /\ HeapSound(Clone(h, self, o).heap) /\ Grows(h, Clone(h, self, o).heap)
         /\ Ref(o) \in LiveValue(Clone(h, self, o).heap)
  <1> DEFINE p == self[2]
             g == [h EXCEPT ![o] = h[p]]
  <1>1. p \in Obj /\ h[p] # Free
    BY RefType
  <1>2. ObjectSound(h, h[p]) /\ h[o].type # "class"
    BY <1>1 DEF HeapSound, Free
  <1>3. Clone(h, self, o).heap = g
    BY DEF Clone, Done
  <1>4. HeapSound(g) /\ Grows(h, g)
    BY <1>2, Changed
  <1>5. g[o] # Free
    BY <1>1 DEF HeapSound
  <1> HIDE DEF g
  <1> QED BY <1>3, <1>4, <1>5, Values

LEMMA SetDelegateSound ==
  ASSUME NEW h, HeapSound(h), NEW o \in Obj, NEW d \in Obj, h[o].type = "table", h[d].type = "table"
  PROVE  HeapSound(SetDelegate(h, o, d).heap) /\ Grows(h, SetDelegate(h, o, d).heap)
  <1> DEFINE c == [type |-> "table", slot |-> h[o].slot, delegate |-> d]
  <1>1. CASE o \in DelegatesOf(h, d)
    BY <1>1, GrowsSame DEF SetDelegate, Refused
  <1>2. CASE o \notin DelegatesOf(h, d)
    <2>1. TableSound(h, h[o])
      BY DEF HeapSound, ObjectSound
    <2>2. [h[o] EXCEPT !.delegate = d] = c
      BY <2>1 DEF TableSound
    <2>3. SetDelegate(h, o, d).heap = [h EXCEPT ![o] = c]
      BY <1>2, <2>2 DEF SetDelegate, Done
    <2>4. ObjectSound(h, c) /\ c.type = "table"
      BY <2>1 DEF ObjectSound, TableSound
    <2> HIDE DEF c
    <2>5. HeapSound([h EXCEPT ![o] = c]) /\ Grows(h, [h EXCEPT ![o] = c])
      BY <2>4, Changed
    <2> QED BY <2>3, <2>5
  <1> QED BY <1>1, <1>2

\* An object that comes to be.
LEMMA MadeSound ==
  ASSUME NEW h, HeapSound(h), NEW o \in Obj, h[o] = Free, NEW c, ObjectSound(h, c), c # Free
  PROVE  LET g == [h EXCEPT ![o] = c]
         IN  HeapSound(g) /\ Grows(h, g) /\ Ref(o) \in LiveValue(g)
  <1> DEFINE g == [h EXCEPT ![o] = c]
  <1>1. h[o].type # "class"
    BY DEF Free
  <1>2. HeapSound(g) /\ Grows(h, g)
    BY <1>1, Changed
  <1>3. g[o] # Free
    BY DEF HeapSound
  <1> HIDE DEF g
  <1>4. Ref(o) \in LiveValue(g)
    BY <1>2, <1>3, Values
  <1> QED BY <1>2, <1>4 DEF g

LEMMA ArrayMade ==
  ASSUME NEW h, HeapSound(h), NEW n \in Nat
  PROVE  ObjectSound(h, NewArray([i \in 1 .. n |-> Null])) /\ NewArray([i \in 1 .. n |-> Null]) # Free
  <1> DEFINE s == [i \in 1 .. n |-> Null]
             c == NewArray(s)
  <1>1. s \in Seq(LiveValue(h))
    BY Constants
  <1> HIDE DEF s
  <1>2. c.type = "array" /\ c.val = s
    BY DEF NewArray
  <1>3. c # Free
    BY <1>2 DEF Free
  <1> QED BY <1>1, <1>2, <1>3 DEF ObjectSound, ArraySound, s

LEMMA TableMade ==
  ASSUME NEW h
  PROVE  ObjectSound(h, NewTable(Nobody)) /\ NewTable(Nobody) # Free
  <1>1. NewTable(Nobody).type = "table" /\ NewTable(Nobody).slot = << >> /\ NewTable(Nobody).delegate = Nobody
    BY DEF NewTable
  <1>2. TableSound(h, NewTable(Nobody))
    BY <1>1 DEF TableSound, NewTable
  <1> QED BY <1>1, <1>2 DEF ObjectSound, Free

LEMMA ClassMade ==
  ASSUME NEW h, HeapSound(h), NEW base, base = Nobody \/ (base \in Obj /\ h[base].type = "class")
  PROVE  ObjectSound(h, NewClass(h, base)) /\ NewClass(h, base) # Free
  <1> DEFINE c == NewClass(h, base)
  <1>1. CASE base = Nobody
    <2>1. c = ClassOf(Nobody, FALSE, << >>, << >>, << >>)
      BY <1>1 DEF NewClass, ClassOf
    <2> HIDE DEF c
    <2>2. /\ c.type = "class" /\ c.base = Nobody /\ c.default = << >> /\ c.methods = << >> /\ c.member = << >>
          /\ IsClass(c)
      BY <2>1 DEF IsClass, ClassOf
    <2>3. ClassSound(h, c)
      BY <2>2 DEF ClassSound, IsClass, ClassOf
    <2>4. c # Free
      BY <2>2 DEF Free
    <2> QED BY <2>2, <2>3, <2>4 DEF ObjectSound, c
  <1>2. CASE base # Nobody
    <2> DEFINE b == h[base]
               q == [b EXCEPT !.base = base]
    <2>1. base \in Obj /\ h[base].type = "class"
      BY <1>2
    <2>2. ClassSound(h, b) /\ IsClass(b)
      BY <2>1 DEF HeapSound, ObjectSound, ClassSound, IsClass, ClassOf
    <2>3. c = [q EXCEPT !.locked = FALSE]
      BY <1>2 DEF NewClass
    <2>4. q = ClassOf(base, b.locked, b.default, b.methods, b.member)
      BY <2>2, ClassForm
    <2> HIDE DEF q
    <2>5. /\ IsClass(q) /\ q.base = base /\ q.default = b.default /\ q.methods = b.methods /\ q.member = b.member
      BY <2>4, ClassParts
    <2>6. c = ClassOf(base, FALSE, b.default, b.methods, b.member)
      <3>1. [q EXCEPT !.locked = FALSE] = ClassOf(q.base, FALSE, q.default, q.methods, q.member)
        BY <2>5, ClassForm
      <3> QED BY <2>3, <2>5, <3>1
    <2> HIDE DEF c
    <2>7. /\ c.type = "class" /\ c.base = base /\ c.default = b.default /\ c.methods = b.methods
          /\ c.member = b.member /\ IsClass(c)
      BY <2>6 DEF IsClass, ClassOf
    <2>8. ClassSound(h, c)
      BY <2>1, <2>2, <2>7 DEF ClassSound, IsClass, ClassOf, MemberSound
    <2>9. c # Free
      BY <2>7 DEF Free
    <2> QED BY <2>7, <2>8, <2>9 DEF ObjectSound, c
  <1> QED BY <1>1, <1>2

\* Classes are closed together with the classes above them.
LEMMA LockSound ==
  ASSUME NEW h, HeapSound(h), NEW c \in Obj, h[c].type = "class"
  PROVE  LET g == Lock(h, c)
         IN  /\ HeapSound(g) /\ Grows(h, g) /\ g[c].type = "class" /\ g[c].locked = TRUE
             /\ g[c].default = h[c].default /\ \A o \in Obj : h[o] = Free => g[o] = Free
  <1> DEFINE D == {q \in Obj : h[q].type = "class"}
             next == [q \in Obj |-> IF h[q].type = "class" THEN h[q].base ELSE Nobody]
             g == Lock(h, c)
             B == Bases(h, c)
  <1>1. B \subseteq D /\ c \in B
    <2>1. \A q \in D : next[q] \in D \cup {Nobody}
      BY DEF HeapSound, ObjectSound, ClassSound
    <2> HIDE DEF next
    <2> QED BY <2>1, AlongWithin, AlongStarts DEF Bases, next
  <1>2. \A o \in Obj : g[o] = IF o \in B THEN [h[o] EXCEPT !.locked = TRUE] ELSE h[o]
    BY DEF Lock
  <1>3. g = [o \in Obj |-> g[o]]
    BY DEF Lock
  <1> HIDE DEF g, B
  <1>4. \A o \in B : /\ g[o] = ClassOf(h[o].base, TRUE, h[o].default, h[o].methods, h[o].member)
                     /\ ClassSound(h, h[o])
    <2> SUFFICES ASSUME NEW o \in B
                 PROVE  /\ g[o] = ClassOf(h[o].base, TRUE, h[o].default, h[o].methods, h[o].member)
                        /\ ClassSound(h, h[o])
      OBVIOUS
    <2>1. ClassSound(h, h[o]) /\ IsClass(h[o])
      BY <1>1 DEF HeapSound, ObjectSound, ClassSound, IsClass, ClassOf
    <2> QED BY <1>1, <1>2, <2>1, ClassForm
  <1>5. \A o \in B : /\ g[o].type = "class" /\ g[o].base = h[o].base /\ g[o].locked = TRUE /\ IsClass(g[o])
                     /\ g[o].default = h[o].default /\ g[o].methods = h[o].methods /\ g[o].member = h[o].member
    <2> SUFFICES ASSUME NEW o \in B, NEW r, r = g[o]
                 PROVE  /\ r.type = "class" /\ r.base = h[o].base /\ r.locked = TRUE /\ IsClass(r)
                        /\ r.default = h[o].default /\ r.methods = h[o].methods /\ r.member = h[o].member
      OBVIOUS
    <2>1. r = ClassOf(h[o].base, TRUE, h[o].default, h[o].methods, h[o].member)
      BY <1>4
    <2> QED BY <2>1 DEF IsClass, ClassOf
  <1>6. \A o \in Obj : g[o].type = h[o].type /\ (h[o].type # "class" => g[o] = h[o])
    BY <1>1, <1>2, <1>5
  <1>7. \A o \in Obj : h[o].type = "class" /\ h[o].locked = TRUE => g[o].locked = TRUE
    BY <1>2, <1>5
  <1>8. \A o \in Obj : h[o].type = "class" => g[o].default = h[o].default
    BY <1>2, <1>5
  <1>9. \A o \in Obj : h[o] # Free <=> g[o] # Free
    <2>1. \A o \in Obj : h[o].type = "free" => g[o] = h[o]
      BY <1>6
    <2>2. \A o \in Obj : h[o] # Free => h[o].type # "free"
      BY Values
    <2>3. Free.type = "free"
      BY DEF Free
    <2> QED BY <1>6, <2>1, <2>2, <2>3
  <1>10. Grows(h, g) /\ LiveValue(h) \subseteq LiveValue(g) /\ Seq(LiveValue(h)) \subseteq Seq(LiveValue(g))
    BY <1>9, LiveGrows, SeqGrows DEF Grows
  <1>11. \A o \in Obj : ObjectSound(g, g[o])
    <2> SUFFICES ASSUME NEW o \in Obj PROVE ObjectSound(g, g[o])
      OBVIOUS
    <2>1. ObjectSound(h, h[o])
      BY DEF HeapSound
    <2>2. CASE h[o].type = "class"
      <3>1. ClassSound(h, h[o])
        BY <2>1, <2>2 DEF ObjectSound
      <3>2. ClassSound(g, g[o])
        <4>1. CASE o \in B
          BY <1>5, <1>6, <1>10, <3>1, <4>1 DEF ClassSound, MemberSound, IsClass, ClassOf
        <4>2. CASE o \notin B
          BY <1>2, <1>6, <1>10, <3>1, <4>2 DEF ClassSound
        <4> QED BY <4>1, <4>2
      <3> QED BY <1>6, <2>2, <3>2 DEF ObjectSound
    <2>3. CASE h[o].type # "class"
      <3>1. g[o] = h[o]
        BY <1>6, <2>3
      <3>2. h[o].type = "array" => ArraySound(g, h[o])
        BY <1>10, <2>1 DEF ObjectSound, ArraySound
      <3>3. h[o].type = "table" => TableSound(g, h[o])
        BY <1>6, <1>10, <2>1 DEF ObjectSound, TableSound
      <3>4. h[o].type = "instance" => InstanceSound(g, h[o])
        BY <1>6, <1>7, <1>8, <1>10, <2>1 DEF ObjectSound, InstanceSound
      <3> QED BY <2>1, <2>3, <3>1, <3>2, <3>3, <3>4 DEF ObjectSound
    <2> QED BY <2>2, <2>3
  <1> QED BY <1>1, <1>3, <1>5, <1>9, <1>10, <1>11 DEF HeapSound, g

LEMMA NewInstanceSound ==
  ASSUME NEW h, HeapSound(h), NEW c \in Obj, h[c].type = "class", NEW o \in Obj, h[o] = Free
  PROVE  LET g == NewInstance(h, c, o)
         IN  HeapSound(g) /\ Grows(h, g) /\ Ref(o) \in LiveValue(g)
  <1> DEFINE l == IF h[c].locked THEN h ELSE Lock(h, c)
             i == [type |-> "instance", class |-> c, val |-> h[c].default]
  <1>1. /\ HeapSound(l) /\ Grows(h, l) /\ l[c].type = "class" /\ l[c].locked = TRUE
        /\ l[c].default = h[c].default /\ l[o] = Free
    <2>1. CASE h[c].locked = TRUE
      BY <2>1, GrowsSame
    <2>2. CASE ~ h[c].locked
      BY <2>2, LockSound
    <2>3. CASE h[c].locked /\ h[c].locked # TRUE
      BY <2>3
    <2> QED BY <2>1, <2>2, <2>3
  <1>2. NewInstance(h, c, o) = [l EXCEPT ![o] = i]
    BY DEF NewInstance
  <1> HIDE DEF l
  <1>3. ObjectSound(l, i) /\ i # Free
    <2>1. ClassSound(l, l[c])
      BY <1>1 DEF HeapSound, ObjectSound
    <2>2. l[c].default \in Seq(LiveValue(l))
      BY <2>1 DEF ClassSound
    <2> QED BY <1>1, <2>2 DEF ObjectSound, InstanceSound, Free
  <1> HIDE DEF i
  <1>4. LET g == [l EXCEPT ![o] = i] IN HeapSound(g) /\ Grows(l, g) /\ Ref(o) \in LiveValue(g)
    BY <1>1, <1>3, MadeSound
  <1> QED BY <1>1, <1>2, <1>4 DEF Grows

\* A turn of a walk gives a place, a key and a value, all of them alive.
LEMMA NextTurnLive ==
  ASSUME NEW h, HeapSound(h), NEW self \in LiveValue(h), NEW at \in Nat,
         NextTurn(h, self, at) # NoTurn
  PROVE  LET t == NextTurn(h, self, at)
         IN  /\ t.at \in Nat /\ t.key \in LiveValue(h) /\ t.val \in LiveValue(h)
             /\ Type(h, self) \in {"array", "table", "class"}
  <1> DEFINE o == self[2]
             names == CASE Type(h, self) = "table" -> DOMAIN h[o].slot
                        [] Type(h, self) = "class" -> DOMAIN h[o].member
                        [] OTHER -> {}
             ahead == {n \in at + 1 .. Len(KeyOrder) : KeyOrder[n] \in names}
             first == CHOOSE n \in ahead : \A m \in ahead : n <= m
             t == NextTurn(h, self, at)
  <1>1. ahead # {} => first \in ahead /\ first \in Nat /\ KeyOrder[first] \in names /\ KeyOrder[first] \in LiveValue(h)
    <2>1. ahead \in SUBSET Nat /\ \A n \in ahead : n \in 1 .. Len(KeyOrder) /\ KeyOrder[n] \in names
      BY Constants
    <2> HIDE DEF ahead, names
    <2>2. ahead # {} => first \in ahead
      BY <2>1, SmallestExists
    <2> HIDE DEF first
    <2> QED BY <2>1, <2>2, Constants
  <1>2. CASE Type(h, self) = "array" /\ at < Len(h[o].val)
    <2>1. o \in Obj /\ h[o].type = "array"
      BY <1>2, RefType
    <2>2. h[o].val \in Seq(LiveValue(h))
      BY <2>1 DEF HeapSound, ObjectSound, ArraySound
    <2>3. h[o].val[at + 1] \in LiveValue(h)
      BY <1>2, <2>2
    <2>4. RealVal(h, h[o].val[at + 1]) \in LiveValue(h)
      BY <2>3, RealLive
    <2>5. t = [at |-> at + 1, key |-> IntV(at), val |-> RealVal(h, h[o].val[at + 1])]
      BY <1>2 DEF NextTurn
    <2> QED BY <1>2, <2>4, <2>5, Constants
  <1>3. CASE Type(h, self) = "table" /\ ahead # {}
    <2>1. o \in Obj /\ h[o].type = "table"
      BY <1>3, RefType
    <2>2. \A k \in DOMAIN h[o].slot : h[o].slot[k] \in LiveValue(h)
      BY <2>1 DEF HeapSound, ObjectSound, TableSound
    <2>3. h[o].slot[KeyOrder[first]] \in LiveValue(h)
      BY <1>1, <1>3, <2>2
    <2>4. t = [at |-> first, key |-> KeyOrder[first], val |-> RealVal(h, h[o].slot[KeyOrder[first]])]
      BY <1>3 DEF NextTurn
    <2> HIDE DEF first, ahead, t
    <2>5. RealVal(h, h[o].slot[KeyOrder[first]]) \in LiveValue(h)
      BY <2>3, RealLive
    <2> QED BY <1>1, <1>3, <2>4, <2>5 DEF t
  <1>4. CASE Type(h, self) = "class" /\ ahead # {}
    <2>1. o \in Obj /\ h[o].type = "class"
      BY <1>4, RefType
    <2>2. t = [at |-> first, key |-> KeyOrder[first], val |-> ClassGet(h, o, KeyOrder[first]).val]
      BY <1>4 DEF NextTurn
    <2> HIDE DEF first, ahead, t
    <2>3. ClassGet(h, o, KeyOrder[first]).val \in LiveValue(h)
      BY <2>1, ClassGetLive
    <2> QED BY <1>1, <1>4, <2>2, <2>3 DEF t
  <1>5. CASE /\ ~ (Type(h, self) = "array" /\ at < Len(h[o].val))
             /\ ~ (Type(h, self) = "table" /\ ahead # {})
             /\ ~ (Type(h, self) = "class" /\ ahead # {})
    <2>1. t = NoTurn
      BY <1>5 DEF NextTurn
    <2> QED BY <2>1
  <1> QED BY <1>2, <1>3, <1>4, <1>5

-----------------------------------------------------------------------------
\* What goes when references have gone.

LEMMA UnheldGrows ==
  ASSUME NEW h, NEW roots, NEW D, NEW E, D \subseteq E
  PROVE  Unheld(h, roots, D) \subseteq Unheld(h, roots, E)
  BY DEF Unheld

\* What is a root stays, and so does what something that stays refers to.
LEMMA GoneClosed ==
  ASSUME NEW h, NEW roots
  PROVE  /\ \A o \in Obj : Ref(o) \in roots => o \notin Gone(h, roots)
         /\ \A p \in Obj \ Gone(h, roots) : \A q \in Obj : Ref(q) \in Content(h[p]) => q \notin Gone(h, roots)
  <1>1. ASSUME NEW o \in Obj, Ref(o) \in roots PROVE o \notin Gone(h, roots)
    <2> DEFINE D == Obj \ {o}
    <2>1. Unheld(h, roots, D) \subseteq D
      BY <1>1 DEF Unheld
    <2> QED BY <2>1 DEF Gone
  <1>2. ASSUME NEW p \in Obj \ Gone(h, roots), NEW q \in Obj, Ref(q) \in Content(h[p])
        PROVE  q \notin Gone(h, roots)
    <2>1. PICK D \in SUBSET Obj : Unheld(h, roots, D) \subseteq D /\ p \notin D
      BY DEF Gone
    <2> DEFINE E == D \ {q}
    <2>2. Unheld(h, roots, E) \subseteq Unheld(h, roots, D)
      BY UnheldGrows
    <2>3. q \notin Unheld(h, roots, E)
      BY <1>2, <2>1 DEF Unheld
    <2>4. Unheld(h, roots, E) \subseteq E /\ E \in SUBSET Obj
      BY <2>1, <2>2, <2>3
    <2> QED BY <2>4 DEF Gone
  <1> QED BY <1>1, <1>2

LEMMA ReleasedSound ==
  ASSUME NEW h, HeapSound(h), NEW roots
  PROVE  /\ HeapSound(Released(h, roots))
         /\ \A v \in LiveValue(h) : v \in roots \/ v[1] # "ref" => v \in LiveValue(Released(h, roots))
  <1> DEFINE g == Released(h, roots)
             G == Gone(h, roots)
  <1>1. /\ g = [o \in Obj |-> g[o]]
        /\ \A o \in Obj : g[o] = IF o \in G THEN Free ELSE h[o]
    BY DEF Released
  <1>2. /\ \A o \in Obj : Ref(o) \in roots => o \notin G
        /\ \A p \in Obj \ G : \A q \in Obj : Ref(q) \in Content(h[p]) => q \notin G
    BY GoneClosed
  <1> HIDE DEF g, G
  <1>3. \A p \in Obj \ G : \A v \in LiveValue(h) : v \in Content(h[p]) => v \in LiveValue(g)
    <2> SUFFICES ASSUME NEW p \in Obj \ G, NEW v \in LiveValue(h), v \in Content(h[p])
                 PROVE  v \in LiveValue(g)
      OBVIOUS
    <2>1. v \in Value
      BY DEF LiveValue
    <2>2. CASE v[1] = "ref"
      <3>1. v[2] \in Obj /\ v = Ref(v[2])
        BY <2>1, <2>2, Values
      <3>2. v[2] \notin G /\ h[v[2]] # Free
        BY <1>2, <2>2, <3>1 DEF LiveValue, Alive
      <3> QED BY <1>1, <2>1, <3>1, <3>2 DEF LiveValue, Alive
    <2>3. CASE v[1] # "ref"
      BY <2>1, <2>3 DEF LiveValue, Alive
    <2> QED BY <2>2, <2>3
  <1>4. \A p \in Obj \ G : ObjectSound(g, h[p])
    <2> SUFFICES ASSUME NEW p \in Obj \ G PROVE ObjectSound(g, h[p])
      OBVIOUS
    <2> DEFINE c == h[p]
    <2>1. ObjectSound(h, c)
      BY DEF HeapSound
    <2>2. CASE c.type = "array"
      <3>1. ArraySound(h, c) /\ Content(c) = ToSet(c.val)
        BY <2>1, <2>2 DEF ObjectSound, Content
      <3>2. c.val \in Seq(LiveValue(g))
        BY <1>3, <3>1, SeqWithin DEF ArraySound
      <3> QED BY <2>2, <3>1, <3>2 DEF ObjectSound, ArraySound
    <2>3. CASE c.type = "table"
      <3>1. TableSound(h, c)
        BY <2>1, <2>3 DEF ObjectSound
      <3>2. \A k \in DOMAIN c.slot : c.slot[k] \in Content(c)
        BY <2>3 DEF Content
      <3>3. c.delegate # Nobody => Ref(c.delegate) \in Content(c)
        BY <2>3 DEF Content
      <3>4. c.delegate # Nobody => c.delegate \in Obj /\ g[c.delegate].type = "table"
        BY <1>1, <1>2, <3>1, <3>3 DEF TableSound
      <3> HIDE DEF c
      <3>5. \A k \in DOMAIN c.slot : c.slot[k] \in LiveValue(g)
        BY <1>3, <3>1, <3>2 DEF TableSound, c
      <3> QED BY <2>3, <3>1, <3>4, <3>5 DEF ObjectSound, TableSound, c
    <2>4. CASE c.type = "class"
      <3>1. ClassSound(h, c)
        BY <2>1, <2>4 DEF ObjectSound
      <3>2. ToSet(c.default) \subseteq Content(c) /\ ToSet(c.methods) \subseteq Content(c)
        BY <2>4 DEF Content
      <3>3. c.base # Nobody => Ref(c.base) \in Content(c)
        BY <2>4 DEF Content
      <3>4. c.base # Nobody => c.base \in Obj /\ g[c.base].type = "class"
        BY <1>1, <1>2, <3>1, <3>3 DEF ClassSound
      <3>5. c.default \in Seq(LiveValue(g)) /\ c.methods \in Seq(LiveValue(g))
        BY <1>3, <3>1, <3>2, SeqWithin DEF ClassSound
      <3> HIDE DEF c
      <3> QED BY <2>4, <3>1, <3>4, <3>5 DEF ObjectSound, ClassSound, c
    <2>5. CASE c.type = "instance"
      <3>1. InstanceSound(h, c)
        BY <2>1, <2>5 DEF ObjectSound
      <3>2. ToSet(c.val) \subseteq Content(c) /\ Ref(c.class) \in Content(c)
        BY <2>5 DEF Content
      <3>3. c.class \in Obj /\ c.class \notin G /\ g[c.class] = h[c.class]
        BY <1>1, <1>2, <3>1, <3>2 DEF InstanceSound
      <3>4. c.val \in Seq(LiveValue(g))
        BY <1>3, <3>1, <3>2, SeqWithin DEF InstanceSound
      <3> HIDE DEF c
      <3> QED BY <2>5, <3>1, <3>3, <3>4 DEF ObjectSound, InstanceSound, c
    <2>6. CASE c.type = "free"
      BY <2>1, <2>6 DEF ObjectSound
    <2> QED BY <2>1, <2>2, <2>3, <2>4, <2>5, <2>6 DEF ObjectSound
  <1>5. ObjectSound(g, Free)
    BY DEF ObjectSound, Free
  <1>6. HeapSound(g)
    BY <1>1, <1>4, <1>5 DEF HeapSound
  <1>7. \A v \in LiveValue(h) : v \in roots \/ v[1] # "ref" => v \in LiveValue(g)
    <2> SUFFICES ASSUME NEW v \in LiveValue(h), v \in roots \/ v[1] # "ref" PROVE v \in LiveValue(g)
      OBVIOUS
    <2>1. v \in Value
      BY DEF LiveValue
    <2>2. CASE v[1] = "ref"
      <3>1. v[2] \in Obj /\ v = Ref(v[2])
        BY <2>1, <2>2, Values
      <3>2. v[2] \notin G /\ h[v[2]] # Free
        BY <1>2, <2>2, <3>1 DEF LiveValue, Alive
      <3> QED BY <1>1, <2>1, <3>1, <3>2 DEF LiveValue, Alive
    <2>3. CASE v[1] # "ref"
      BY <2>1, <2>3 DEF LiveValue, Alive
    <2> QED BY <2>2, <2>3
  <1> QED BY <1>6, <1>7 DEF g

-----------------------------------------------------------------------------
\* The state the methods work on.  Level says that on the global VM's stack lie b,
\* then n values of the method itself, and what calls that refused have left; that m
\* values lie on the other stack; and that f is what the variables hold.

VM == {"gv", "v"}
Infos == Info \cup Local

Count(f, v) == Cardinality({i \in Infos : f[i] = v})
Assigned(f, i, x) == [f EXCEPT ![i] = x]

RefsExact(r, f) ==
    /\ DOMAIN r = Held
    /\ \A v \in Held : r[v] = Count(f, v)

Machine(h, st, r, f, k, o, l) ==
    [heap |-> h, stack |-> st, refs |-> r, info |-> f, ok |-> k, out |-> o, left |-> l]

IsMachine(S) ==
    /\ S = Machine(S.heap, S.stack, S.refs, S.info, S.ok, S.out, S.left)
    /\ S.stack = [gv |-> S.stack.gv, v |-> S.stack.v]

State(S) ==
    /\ IsMachine(S)
    /\ HeapSound(S.heap)
    /\ S.stack.gv \in Seq(LiveValue(S.heap)) /\ S.stack.v \in Seq(LiveValue(S.heap))
    /\ S.info \in [Infos -> LiveValue(S.heap)]
    /\ RefsExact(S.refs, S.info)
    /\ S.left \in Nat

Level(S, b, n, m, f) ==
    /\ State(S)
    /\ S.info = f
    /\ n \in Nat /\ m \in Nat /\ Len(b) \in Nat
    /\ Len(S.stack.v) = m
    /\ Len(S.stack.gv) = Len(b) + n + S.left
    /\ \A k \in 1 .. Len(b) : S.stack.gv[k] = b[k]

LEMMA InfosFinite == IsFiniteSet(Infos)
  <1>1. Local = {"ret", "key"} \cup {"val"} /\ {"ret", "key"} = {"ret"} \cup {"key"}
    BY DEF Local
  <1>2. IsFiniteSet({"ret"})
    BY FS_Singleton
  <1>3. IsFiniteSet(Local)
    BY <1>1, <1>2, FS_AddElement
  <1> QED BY <1>3, FS_Union, InfoAssumption DEF Infos, InfoAssumption

LEMMA CountNat ==
  ASSUME NEW f, NEW v
  PROVE  Count(f, v) \in Nat
  <1>1. IsFiniteSet({j \in Infos : f[j] = v})
    BY InfosFinite, FS_Subset
  <1> QED BY <1>1, FS_CardinalityType DEF Count

\* One variable more holds x, and one less holds what it held before.
LEMMA CountChange ==
  ASSUME NEW f, NEW i \in Infos, DOMAIN f = Infos, NEW x, f[i] # x
  PROVE  LET g == Assigned(f, i, x)
         IN  /\ Count(g, x) = Count(f, x) + 1
             /\ Count(g, f[i]) = Count(f, f[i]) - 1
             /\ \A w : w # x /\ w # f[i] => Count(g, w) = Count(f, w)
  <1> DEFINE g == Assigned(f, i, x)
             v == f[i]
             A(h, w) == {j \in Infos : h[j] = w}
  <1>1. A(g, x) = A(f, x) \cup {i} /\ i \notin A(f, x) /\ A(g, v) = A(f, v) \ {i} /\ i \in A(f, v)
    BY DEF Assigned
  <1>2. IsFiniteSet(A(f, x)) /\ IsFiniteSet(A(f, v))
    BY InfosFinite, FS_Subset
  <1>3. \A w : w # x /\ w # v => A(g, w) = A(f, w)
    BY DEF Assigned
  <1>4. \A h, w : Count(h, w) = Cardinality(A(h, w))
    BY DEF Count
  <1> HIDE DEF A, g, v
  <1>5. Cardinality(A(g, x)) = Cardinality(A(f, x)) + 1
    BY <1>1, <1>2, FS_AddElement
  <1>6. Cardinality(A(g, v)) = Cardinality(A(f, v)) - 1
    BY <1>1, <1>2, FS_RemoveElement
  <1> QED BY <1>3, <1>4, <1>5, <1>6 DEF g, v

\* What assigning a part of a state leaves alone.
Like(T, h, r, f, l) ==
    IsMachine(T) /\ T.heap = h /\ T.refs = r /\ T.info = f /\ T.left = l

WithOk(S, x) == [S EXCEPT !.ok = x]
WithHeap(S, h) == [S EXCEPT !.heap = h]
WithStack(S, vm, s) == [S EXCEPT !.stack[vm] = s]

LEMMA MachineParts ==
  ASSUME NEW T, NEW h, NEW st, NEW r, NEW f, NEW k, NEW o, NEW l,
         T = Machine(h, st, r, f, k, o, l), st = [gv |-> st.gv, v |-> st.v]
  PROVE  Like(T, h, r, f, l) /\ T.stack = st /\ T.ok = k /\ T.out = o
  BY DEF Machine, IsMachine, Like

LEMMA SetOk ==
  ASSUME NEW S, IsMachine(S), NEW x
  PROVE  LET T == WithOk(S, x)
         IN  Like(T, S.heap, S.refs, S.info, S.left) /\ T.stack = S.stack /\ T.ok = x /\ T.out = S.out
  <1>1. WithOk(S, x) = Machine(S.heap, S.stack, S.refs, S.info, x, S.out, S.left)
    BY DEF IsMachine, Machine, WithOk
  <1> QED BY <1>1, MachineParts DEF IsMachine

LEMMA SetHeap ==
  ASSUME NEW S, IsMachine(S), NEW h
  PROVE  LET T == WithHeap(S, h)
         IN  Like(T, h, S.refs, S.info, S.left) /\ T.stack = S.stack /\ T.ok = S.ok /\ T.out = S.out
  <1>1. WithHeap(S, h) = Machine(h, S.stack, S.refs, S.info, S.ok, S.out, S.left)
    BY DEF IsMachine, Machine, WithHeap
  <1> QED BY <1>1, MachineParts DEF IsMachine

LEMMA SetOut ==
  ASSUME NEW S, IsMachine(S), NEW x
  PROVE  LET T == Give(S, x)
         IN  Like(T, S.heap, S.refs, S.info, S.left) /\ T.stack = S.stack /\ T.ok = S.ok /\ T.out = x
  <1>1. Give(S, x) = Machine(S.heap, S.stack, S.refs, S.info, S.ok, x, S.left)
    BY DEF IsMachine, Machine, Give
  <1> QED BY <1>1, MachineParts DEF IsMachine

LEMMA SetLeft ==
  ASSUME NEW S, IsMachine(S), NEW x
  PROVE  LET T == [S EXCEPT !.left = x]
         IN  Like(T, S.heap, S.refs, S.info, x) /\ T.stack = S.stack /\ T.ok = S.ok
  <1> DEFINE T == [S EXCEPT !.left = x]
  <1>1. T = Machine(S.heap, S.stack, S.refs, S.info, S.ok, S.out, x)
    BY DEF IsMachine, Machine
  <1> HIDE DEF T
  <1>2. Like(T, S.heap, S.refs, S.info, x) /\ T.stack = S.stack /\ T.ok = S.ok
    BY <1>1, MachineParts DEF IsMachine
  <1> QED BY <1>2 DEF T

LEMMA SetStack ==
  ASSUME NEW S, IsMachine(S), NEW s
  PROVE  /\ LET T == WithStack(S, "gv", s)
             IN  /\ Like(T, S.heap, S.refs, S.info, S.left) /\ T.stack.gv = s /\ T.stack.v = S.stack.v
                 /\ T.ok = S.ok /\ T.out = S.out
         /\ LET T == WithStack(S, "v", s)
             IN  /\ Like(T, S.heap, S.refs, S.info, S.left) /\ T.stack.v = s /\ T.stack.gv = S.stack.gv
                 /\ T.ok = S.ok /\ T.out = S.out
  <1>1. /\ [S.stack EXCEPT !["gv"] = s] = [gv |-> s, v |-> S.stack.v]
        /\ [S.stack EXCEPT !["v"] = s] = [gv |-> S.stack.gv, v |-> s]
    BY DEF IsMachine
  <1>2. \A vm \in VM : WithStack(S, vm, s)
          = Machine(S.heap, [S.stack EXCEPT ![vm] = s], S.refs, S.info, S.ok, S.out, S.left)
    BY DEF IsMachine, Machine, WithStack
  <1>3. WithStack(S, "gv", s) = Machine(S.heap, [gv |-> s, v |-> S.stack.v], S.refs, S.info, S.ok, S.out, S.left)
    BY <1>1, <1>2 DEF VM
  <1>4. WithStack(S, "v", s) = Machine(S.heap, [gv |-> S.stack.gv, v |-> s], S.refs, S.info, S.ok, S.out, S.left)
    BY <1>1, <1>2 DEF VM
  <1>5. \A g, w : LET st == [gv |-> g, v |-> w] IN st.gv = g /\ st.v = w /\ st = [gv |-> st.gv, v |-> st.v]
    OBVIOUS
  <1> QED BY <1>3, <1>4, <1>5, MachineParts

\* A reference more or less, and the variable that has it.
Counted(r, v) == IF v \in DOMAIN r THEN [r EXCEPT ![v] = @ + 1] ELSE r
Uncounted(r, v) == IF v \in DOMAIN r THEN [r EXCEPT ![v] = @ - 1] ELSE r
Having(S, v, i, x) == [sq_addref(S, v) EXCEPT !.info[i] = x]
Dropping(S, v, i, x) == [sq_release(S, v) EXCEPT !.info[i] = x]

LEMMA SetInfo ==
  ASSUME NEW S, IsMachine(S), NEW v, NEW i, NEW x
  PROVE  /\ LET T == Having(S, v, i, x)
             IN  /\ Like(T, S.heap, Counted(S.refs, v), Assigned(S.info, i, x), S.left)
                 /\ T.stack = S.stack /\ T.ok = S.ok /\ T.out = S.out
         /\ LET T == Dropping(S, v, i, x)
             IN  /\ Like(T, S.heap, Uncounted(S.refs, v), Assigned(S.info, i, x), S.left)
                 /\ T.stack = S.stack /\ T.ok = S.ok /\ T.out = S.out
  <1> DEFINE up == Counted(S.refs, v)
             down == Uncounted(S.refs, v)
             f == Assigned(S.info, i, x)
             A == Having(S, v, i, x)
             R == Dropping(S, v, i, x)
  <1>1. \A r : [S EXCEPT !.refs = r] = Machine(S.heap, S.stack, r, S.info, S.ok, S.out, S.left)
    BY DEF IsMachine, Machine
  <1>2. /\ sq_addref(S, v) = Machine(S.heap, S.stack, up, S.info, S.ok, S.out, S.left)
        /\ sq_release(S, v) = Machine(S.heap, S.stack, down, S.info, S.ok, S.out, S.left)
    BY <1>1 DEF sq_addref, sq_release, IsMachine, Counted, Uncounted
  <1> HIDE DEF up, down
  <1>3. A = Machine(S.heap, S.stack, up, f, S.ok, S.out, S.left)
    BY <1>2 DEF Machine, Having, Assigned
  <1>4. R = Machine(S.heap, S.stack, down, f, S.ok, S.out, S.left)
    BY <1>2 DEF Machine, Dropping, Assigned
  <1> HIDE DEF A, R, f
  <1>5. /\ Like(A, S.heap, up, f, S.left) /\ A.stack = S.stack /\ A.ok = S.ok /\ A.out = S.out
        /\ Like(R, S.heap, down, f, S.left) /\ R.stack = S.stack /\ R.ok = S.ok /\ R.out = S.out
    BY <1>3, <1>4, MachineParts DEF IsMachine
  <1> QED BY <1>5 DEF A, R, f, up, down

-----------------------------------------------------------------------------
\* What each function of the API does to the level.

LEMMA LevelParts ==
  ASSUME NEW S, NEW b, NEW n, NEW m, NEW f, Level(S, b, n, m, f)
  PROVE  /\ IsMachine(S) /\ HeapSound(S.heap) /\ S.info = f /\ S.left \in Nat /\ RefsExact(S.refs, f)
         /\ f \in [Infos -> LiveValue(S.heap)]
         /\ S.stack.gv \in Seq(LiveValue(S.heap)) /\ S.stack.v \in Seq(LiveValue(S.heap))
         /\ n \in Nat /\ m \in Nat /\ Len(b) \in Nat
         /\ Len(S.stack.v) = m /\ Len(S.stack.gv) = Len(b) + n + S.left
         /\ \A k \in 1 .. Len(b) : S.stack.gv[k] = b[k]
  BY DEF Level, State

LEMMA LevelMoved ==
  ASSUME NEW S, NEW b, NEW n, NEW m, NEW f, Level(S, b, n, m, f),
         NEW T, IsMachine(T), HeapSound(T.heap), Grows(S.heap, T.heap), T.refs = S.refs, T.info = S.info,
         T.left \in Nat, T.stack.gv \in Seq(LiveValue(T.heap)), T.stack.v \in Seq(LiveValue(T.heap)),
         NEW i \in Nat, Len(T.stack.gv) = Len(b) + i + T.left,
         \A k \in 1 .. Len(b) : T.stack.gv[k] = S.stack.gv[k]
  PROVE  Level(T, b, i, Len(T.stack.v), f)
  <1>1. LiveValue(S.heap) \subseteq LiveValue(T.heap)
    BY LiveGrows
  <1>2. T.info \in [Infos -> LiveValue(T.heap)]
    BY <1>1 DEF Level, State
  <1>3. Len(T.stack.v) \in Nat
    OBVIOUS
  <1> QED BY <1>2, <1>3 DEF Level, State

\* What a step leaves alone when it sets a stack or the result.
Apart(T, S) == T.heap = S.heap /\ T.refs = S.refs /\ T.left = S.left /\ T.info = S.info

LEMMA LevelStack ==
  ASSUME NEW S, NEW b, NEW n, NEW m, NEW f, Level(S, b, n, m, f), NEW s \in Seq(LiveValue(S.heap)), NEW i \in Nat,
         Len(s) = Len(b) + i + S.left, \A k \in 1 .. Len(b) : s[k] = S.stack.gv[k]
  PROVE  LET T == WithStack(S, "gv", s)
         IN  /\ Level(T, b, i, m, f) /\ Apart(T, S) /\ T.ok = S.ok /\ T.out = S.out
             /\ T.stack.gv = s /\ T.stack.v = S.stack.v
  <1> DEFINE T == WithStack(S, "gv", s)
  <1>1. IsMachine(S) /\ S.info = f
    BY DEF Level, State
  <1>2. Like(T, S.heap, S.refs, S.info, S.left) /\ T.stack.gv = s /\ T.stack.v = S.stack.v /\ T.ok = S.ok /\ T.out = S.out
    BY <1>1, SetStack
  <1> HIDE DEF T
  <1>3. Level(T, b, i, Len(T.stack.v), f)
    BY <1>2, LevelMoved, GrowsSame DEF Like, Level, State
  <1>4. Len(T.stack.v) = m
    BY <1>2 DEF Level
  <1> QED BY <1>2, <1>3, <1>4 DEF T, Like, Apart

LEMMA LevelOther ==
  ASSUME NEW S, NEW b, NEW n, NEW m, NEW f, Level(S, b, n, m, f), NEW s \in Seq(LiveValue(S.heap))
  PROVE  LET T == WithStack(S, "v", s)
         IN  /\ Level(T, b, n, Len(s), f) /\ Apart(T, S) /\ T.ok = S.ok /\ T.out = S.out
             /\ T.stack.v = s /\ T.stack.gv = S.stack.gv
  <1> DEFINE T == WithStack(S, "v", s)
  <1>1. IsMachine(S) /\ S.info = f
    BY DEF Level, State
  <1>2. Like(T, S.heap, S.refs, S.info, S.left) /\ T.stack.v = s /\ T.stack.gv = S.stack.gv /\ T.ok = S.ok /\ T.out = S.out
    BY <1>1, SetStack
  <1> HIDE DEF T
  <1>3. Level(T, b, n, Len(T.stack.v), f)
    BY <1>2, LevelMoved, GrowsSame DEF Like, Level, State
  <1> QED BY <1>2, <1>3 DEF T, Like, Apart

LEMMA LevelPush ==
  ASSUME NEW S, NEW b, NEW n, NEW m, NEW f, Level(S, b, n, m, f), NEW x \in LiveValue(S.heap)
  PROVE  LET T == Push(S, "gv", x)
         IN  /\ Level(T, b, n + 1, m, f) /\ Apart(T, S) /\ T.ok = S.ok /\ T.out = S.out
             /\ T.stack.gv = Append(S.stack.gv, x) /\ T.stack.v = S.stack.v /\ Up(T, "gv", -1) = x
  <1> DEFINE T == Push(S, "gv", x)
             s == Append(S.stack.gv, x)
  <1>1. T = WithStack(S, "gv", s)
    BY DEF Push, WithStack
  <1>2. S.stack.gv \in Seq(LiveValue(S.heap)) /\ Len(S.stack.gv) = Len(b) + n + S.left
        /\ Len(b) \in Nat /\ n \in Nat /\ S.left \in Nat
    BY DEF Level, State
  <1>3. /\ s \in Seq(LiveValue(S.heap)) /\ Len(s) = Len(b) + (n + 1) + S.left
        /\ \A k \in 1 .. Len(b) : s[k] = S.stack.gv[k]
        /\ s[Len(s)] = x /\ n + 1 \in Nat
    <2>1. /\ s \in Seq(LiveValue(S.heap)) /\ Len(s) = Len(S.stack.gv) + 1 /\ s[Len(S.stack.gv) + 1] = x
          /\ \A k \in 1 .. Len(S.stack.gv) : s[k] = S.stack.gv[k]
      BY <1>2, AppendSeq
    <2> HIDE DEF s
    <2> QED BY <1>2, <2>1
  <1> HIDE DEF T, s
  <1>4. /\ Level(T, b, n + 1, m, f) /\ Apart(T, S) /\ T.ok = S.ok /\ T.out = S.out
        /\ T.stack.gv = s /\ T.stack.v = S.stack.v
    BY <1>1, <1>3, LevelStack
  <1>5. Up(T, "gv", -1) = x
    BY <1>3, <1>4 DEF Up
  <1> QED BY <1>4, <1>5 DEF T, s

LEMMA OtherPush ==
  ASSUME NEW S, NEW b, NEW n, NEW m, NEW f, Level(S, b, n, m, f), NEW x \in LiveValue(S.heap)
  PROVE  LET T == Push(S, "v", x)
         IN  /\ Level(T, b, n, m + 1, f) /\ Apart(T, S) /\ T.ok = S.ok /\ T.out = S.out
             /\ T.stack.v = Append(S.stack.v, x) /\ T.stack.gv = S.stack.gv /\ Up(T, "v", -1) = x
  <1> DEFINE T == Push(S, "v", x)
             s == Append(S.stack.v, x)
  <1>1. T = WithStack(S, "v", s)
    BY DEF Push, WithStack
  <1>2. S.stack.v \in Seq(LiveValue(S.heap)) /\ Len(S.stack.v) = m /\ m \in Nat
    BY DEF Level, State
  <1>3. s \in Seq(LiveValue(S.heap)) /\ Len(s) = m + 1 /\ s[Len(s)] = x
    BY <1>2, AppendSeq
  <1> HIDE DEF T, s
  <1>4. /\ Level(T, b, n, Len(s), f) /\ Apart(T, S) /\ T.ok = S.ok /\ T.out = S.out
        /\ T.stack.v = s /\ T.stack.gv = S.stack.gv
    BY <1>1, <1>3, LevelOther
  <1>5. Up(T, "v", -1) = x
    BY <1>3, <1>4 DEF Up
  <1> QED BY <1>3, <1>4, <1>5 DEF T, s

LEMMA SubSeqSeq ==
  ASSUME NEW X, NEW s \in Seq(X), NEW k \in 0 .. Len(s)
  PROVE  /\ SubSeq(s, 1, k) \in Seq(X) /\ Len(SubSeq(s, 1, k)) = k
         /\ \A i \in 1 .. k : SubSeq(s, 1, k)[i] = s[i]
  OBVIOUS

LEMMA LevelPop ==
  ASSUME NEW S, NEW b, NEW n, NEW m, NEW f, Level(S, b, n, m, f), NEW k \in 0 .. n
  PROVE  LET T == Pop(S, "gv", k)
         IN  /\ Level(T, b, n - k, m, f) /\ Apart(T, S) /\ T.ok = S.ok /\ T.out = S.out
             /\ T.stack.gv = SubSeq(S.stack.gv, 1, Len(S.stack.gv) - k) /\ T.stack.v = S.stack.v
  <1> DEFINE T == Pop(S, "gv", k)
             s == SubSeq(S.stack.gv, 1, Len(S.stack.gv) - k)
  <1>1. T = WithStack(S, "gv", s)
    BY DEF Pop, WithStack
  <1>2. S.stack.gv \in Seq(LiveValue(S.heap)) /\ Len(S.stack.gv) = Len(b) + n + S.left
        /\ Len(b) \in Nat /\ n \in Nat /\ S.left \in Nat
    BY DEF Level, State
  <1>3. Len(S.stack.gv) - k \in 0 .. Len(S.stack.gv) /\ Len(S.stack.gv) - k = Len(b) + (n - k) + S.left /\ n - k \in Nat
    BY <1>2
  <1>4. /\ s \in Seq(LiveValue(S.heap)) /\ Len(s) = Len(b) + (n - k) + S.left
        /\ \A j \in 1 .. Len(b) : s[j] = S.stack.gv[j]
    <2>1. /\ s \in Seq(LiveValue(S.heap)) /\ Len(s) = Len(S.stack.gv) - k
          /\ \A j \in 1 .. Len(S.stack.gv) - k : s[j] = S.stack.gv[j]
      BY <1>2, <1>3, SubSeqSeq
    <2> HIDE DEF s
    <2> QED BY <1>2, <1>3, <2>1
  <1> HIDE DEF T, s
  <1>5. /\ Level(T, b, n - k, m, f) /\ Apart(T, S) /\ T.ok = S.ok /\ T.out = S.out
        /\ T.stack.gv = s /\ T.stack.v = S.stack.v
    BY <1>1, <1>3, <1>4, LevelStack
  <1> QED BY <1>5 DEF T, s

LEMMA OtherPop ==
  ASSUME NEW S, NEW b, NEW n, NEW m, NEW f, Level(S, b, n, m, f), NEW k \in 0 .. m
  PROVE  LET T == Pop(S, "v", k)
         IN  /\ Level(T, b, n, m - k, f) /\ Apart(T, S) /\ T.ok = S.ok /\ T.out = S.out
             /\ T.stack.gv = S.stack.gv
  <1> DEFINE T == Pop(S, "v", k)
             s == SubSeq(S.stack.v, 1, Len(S.stack.v) - k)
  <1>1. T = WithStack(S, "v", s)
    BY DEF Pop, WithStack
  <1>2. S.stack.v \in Seq(LiveValue(S.heap)) /\ Len(S.stack.v) = m /\ m \in Nat
    BY DEF Level, State
  <1>3. Len(S.stack.v) - k \in 0 .. Len(S.stack.v)
    BY <1>2
  <1>4. s \in Seq(LiveValue(S.heap)) /\ Len(s) = m - k
    BY <1>2, <1>3, SubSeqSeq
  <1> HIDE DEF T, s
  <1>5. Level(T, b, n, Len(s), f) /\ Apart(T, S) /\ T.ok = S.ok /\ T.out = S.out /\ T.stack.gv = S.stack.gv
    BY <1>1, <1>4, LevelOther
  <1> QED BY <1>4, <1>5 DEF T

LEMMA LevelUp ==
  ASSUME NEW S, NEW b, NEW n, NEW m, NEW f, Level(S, b, n, m, f), NEW idx \in Int, idx < 0
  PROVE  /\ n + idx >= 0 => Up(S, "gv", idx) \in LiveValue(S.heap)
         /\ m + idx >= 0 => Up(S, "v", idx) \in LiveValue(S.heap)
  <1>1. n + idx >= 0 => Len(S.stack.gv) + 1 + idx \in 1 .. Len(S.stack.gv)
    BY DEF Level, State
  <1>2. m + idx >= 0 => Len(S.stack.v) + 1 + idx \in 1 .. Len(S.stack.v)
    BY DEF Level, State
  <1>3. S.stack.gv \in Seq(LiveValue(S.heap)) /\ S.stack.v \in Seq(LiveValue(S.heap))
    BY DEF Level, State
  <1>4. \A s \in Seq(LiveValue(S.heap)) : \A k \in 1 .. Len(s) : s[k] \in LiveValue(S.heap)
    OBVIOUS
  <1> QED BY <1>1, <1>2, <1>3, <1>4 DEF Up

\* The same objects, stacks and references: only the result differs.
LEMMA LevelLike ==
  ASSUME NEW S, NEW b, NEW n, NEW m, NEW f, Level(S, b, n, m, f),
         NEW T, Like(T, S.heap, S.refs, S.info, S.left), T.stack = S.stack
  PROVE  Level(T, b, n, m, f)
  BY LevelMoved, GrowsSame DEF Like, Level, State

LEMMA LevelResult ==
  ASSUME NEW S, NEW b, NEW n, NEW m, NEW f, Level(S, b, n, m, f)
  PROVE  /\ Level(Succeed(S), b, n, m, f) /\ Succeed(S).ok = TRUE /\ Succeed(S).stack = S.stack /\ Apart(Succeed(S), S)
         /\ Level(Fail(S), b, n, m, f) /\ Fail(S).ok = FALSE /\ Fail(S).stack = S.stack /\ Apart(Fail(S), S)
  <1>0. IsMachine(S) /\ S.info = f
    BY DEF Level, State
  <1>2. Succeed(S) = WithOk(S, TRUE) /\ Fail(S) = WithOk(S, FALSE)
    BY DEF Succeed, Fail, WithOk
  <1>3. \A y : Like(WithOk(S, y), S.heap, S.refs, S.info, S.left) /\ WithOk(S, y).stack = S.stack /\ WithOk(S, y).ok = y
    BY <1>0, SetOk
  <1>5. Like(Succeed(S), S.heap, S.refs, S.info, S.left) /\ Succeed(S).stack = S.stack /\ Succeed(S).ok = TRUE
    BY <1>2, <1>3, Zenon
  <1>6. Like(Fail(S), S.heap, S.refs, S.info, S.left) /\ Fail(S).stack = S.stack /\ Fail(S).ok = FALSE
    BY <1>2, <1>3, Zenon
  <1>7. Level(Succeed(S), b, n, m, f) /\ Level(Fail(S), b, n, m, f)
    BY <1>5, <1>6, LevelLike
  <1> QED BY <1>5, <1>6, <1>7 DEF Like, Apart

LEMMA LevelGive ==
  ASSUME NEW S, NEW b, NEW n, NEW m, NEW f, Level(S, b, n, m, f), NEW x
  PROVE  /\ Level(Give(S, x), b, n, m, f) /\ Give(S, x).ok = S.ok /\ Give(S, x).out = x
         /\ Give(S, x).stack = S.stack /\ Apart(Give(S, x), S)
  <1>1. IsMachine(S) /\ S.info = f
    BY DEF Level, State
  <1>2. Like(Give(S, x), S.heap, S.refs, S.info, S.left) /\ Give(S, x).stack = S.stack /\ Give(S, x).ok = S.ok /\ Give(S, x).out = x
    BY <1>1, SetOut
  <1>3. Level(Give(S, x), b, n, m, f)
    BY <1>2, LevelLike
  <1> QED BY <1>2, <1>3 DEF Like, Apart

LEMMA LevelLeft ==
  ASSUME NEW S, NEW b, NEW n, NEW m, NEW f, Level(S, b, n, m, f), n > 0
  PROVE  /\ Level(FailLeaving(S), b, n - 1, m, f) /\ FailLeaving(S).ok = FALSE /\ FailLeaving(S).heap = S.heap
         /\ FailLeaving(S).stack = S.stack
  <1> DEFINE F == Fail(S)
             T == [F EXCEPT !.left = S.left + 1]
  <1>1. FailLeaving(S) = T
    BY DEF FailLeaving, Fail, Level, State, IsMachine, Machine
  <1>2. Level(F, b, n, m, f) /\ F.ok = FALSE /\ F.stack = S.stack /\ Apart(F, S)
    BY LevelResult
  <1> HIDE DEF F
  <1>0. IsMachine(F) /\ F.info = f /\ F.stack.gv \in Seq(LiveValue(S.heap)) /\ F.stack.v \in Seq(LiveValue(S.heap))
        /\ HeapSound(S.heap) /\ S.left \in Nat /\ Len(S.stack.gv) = Len(b) + n + S.left /\ n \in Nat /\ Len(b) \in Nat
        /\ Len(S.stack.v) = m
    BY <1>2 DEF Level, State, Apart
  <1>3. Like(T, F.heap, F.refs, F.info, S.left + 1) /\ T.stack = F.stack /\ T.ok = F.ok
    BY <1>0, SetLeft
  <1> HIDE DEF T
  <1>4. n - 1 \in Nat /\ Len(T.stack.gv) = Len(b) + (n - 1) + T.left /\ T.left \in Nat /\ Len(T.stack.v) = m
    BY <1>0, <1>2, <1>3 DEF Like
  <1>5. Level(T, b, n - 1, Len(T.stack.v), f)
    BY <1>0, <1>2, <1>3, <1>4, LevelMoved, GrowsSame DEF Like, Apart
  <1> QED BY <1>1, <1>2, <1>3, <1>4, <1>5 DEF Like, Apart

\* The objects change, and nothing else does.
Changes(T, S) == T.refs = S.refs /\ T.left = S.left /\ T.info = S.info

LEMMA LevelHeap ==
  ASSUME NEW S, NEW b, NEW n, NEW m, NEW f, Level(S, b, n, m, f), NEW h, HeapSound(h), Grows(S.heap, h)
  PROVE  LET T == WithHeap(S, h)
         IN  /\ Level(T, b, n, m, f) /\ T.heap = h /\ T.ok = S.ok /\ T.stack = S.stack /\ Changes(T, S)
  <1> DEFINE T == WithHeap(S, h)
  <1>0. IsMachine(S) /\ S.info = f /\ S.stack.gv \in Seq(LiveValue(S.heap)) /\ S.stack.v \in Seq(LiveValue(S.heap))
        /\ S.left \in Nat /\ Len(S.stack.gv) = Len(b) + n + S.left /\ n \in Nat
        /\ Len(S.stack.v) = m
    BY DEF Level, State
  <1>1. Like(T, h, S.refs, S.info, S.left) /\ T.stack = S.stack /\ T.ok = S.ok
    BY <1>0, SetHeap
  <1>2. Seq(LiveValue(S.heap)) \subseteq Seq(LiveValue(h))
    BY LiveGrows, SeqGrows
  <1> HIDE DEF T
  <1>3. T.stack.gv \in Seq(LiveValue(T.heap)) /\ T.stack.v \in Seq(LiveValue(T.heap)) /\ T.heap = h
    BY <1>0, <1>1, <1>2 DEF Like
  <1>4. Level(T, b, n, Len(T.stack.v), f)
    BY <1>0, <1>1, <1>3, LevelMoved DEF Like
  <1> QED BY <1>0, <1>1, <1>4 DEF Like, T, Changes

\* Sequences with two values on top.
LEMMA SameSeq ==
  ASSUME NEW X, NEW s \in Seq(X), NEW t \in Seq(X), Len(s) = Len(t), \A k \in 1 .. Len(s) : s[k] = t[k]
  PROVE  s = t
  OBVIOUS

LEMMA RemoveNext ==
  ASSUME NEW X, NEW s \in Seq(X), Len(s) >= 2
  PROVE  LET t == RemoveAt(s, Len(s) - 1)
         IN  /\ t \in Seq(X) /\ Len(t) = Len(s) - 1 /\ t[Len(s) - 1] = s[Len(s)]
             /\ \A k \in 1 .. Len(s) - 2 : t[k] = s[k]
  <1> DEFINE t == RemoveAt(s, Len(s) - 1)
  <1>1. Len(s) \in Nat /\ Len(s) - 1 \in 1 .. Len(s) /\ DOMAIN s = 1 .. Len(s)
    OBVIOUS
  <1>2. t \in Seq(X) /\ Len(t) = Len(s) - 1
        /\ \A i \in 1 .. (Len(s) - 1) : t[i] = IF i < Len(s) - 1 THEN s[i] ELSE s[i + 1]
    <2> DEFINE j == Len(s) - 1
    <2>1. j \in DOMAIN s
      BY <1>1
    <2> HIDE DEF j
    <2>2. RemoveAt(s, j) \in Seq(X) /\ Len(RemoveAt(s, j)) = Len(s) - 1
          /\ \A i \in 1 .. (Len(s) - 1) : RemoveAt(s, j)[i] = IF i < j THEN s[i] ELSE s[i + 1]
      BY <2>1, RemoveAtElements
    <2> QED BY <2>2 DEF j
  <1> HIDE DEF t
  <1>3. t[Len(s) - 1] = s[Len(s) - 1 + 1]
    BY <1>1, <1>2
  <1>4. Len(s) - 1 + 1 = Len(s)
    BY <1>1
  <1>5. \A k \in 1 .. Len(s) - 2 : k \in 1 .. Len(s) - 1 /\ k < Len(s) - 1
    BY <1>1
  <1> QED BY <1>2, <1>3, <1>4, <1>5 DEF t

LEMMA RemoveSecond ==
  ASSUME NEW X, NEW s \in Seq(X), NEW x \in X, NEW y \in X
  PROVE  RemoveAt(Append(Append(s, x), y), Len(s) + 1) = Append(s, y)
  <1> DEFINE a == Append(s, x)
             t == Append(a, y)
             u == Append(s, y)
             r == RemoveAt(t, Len(t) - 1)
  <1>1. a \in Seq(X) /\ Len(a) = Len(s) + 1 /\ Len(s) \in Nat /\ \A k \in 1 .. Len(s) : a[k] = s[k]
    BY AppendSeq
  <1>2. u \in Seq(X) /\ Len(u) = Len(s) + 1 /\ u[Len(s) + 1] = y /\ \A k \in 1 .. Len(s) : u[k] = s[k]
    BY AppendSeq
  <1> HIDE DEF a, u
  <1>3. t \in Seq(X) /\ Len(t) = Len(a) + 1 /\ t[Len(a) + 1] = y /\ \A k \in 1 .. Len(a) : t[k] = a[k]
    BY <1>1, AppendSeq
  <1> HIDE DEF t
  <1>4. Len(t) >= 2 /\ Len(t) - 2 = Len(s) /\ Len(t) - 1 = Len(s) + 1 /\ Len(t) = Len(a) + 1
    BY <1>1, <1>3
  <1>5. r \in Seq(X) /\ Len(r) = Len(t) - 1 /\ r[Len(t) - 1] = t[Len(t)] /\ \A k \in 1 .. Len(t) - 2 : r[k] = t[k]
    BY <1>3, <1>4, RemoveNext
  <1> HIDE DEF r
  <1>6. r = u
    <2>1. ASSUME NEW k \in 1 .. Len(r) PROVE r[k] = u[k]
      <3>1. CASE k \in 1 .. Len(s)
        BY <1>1, <1>2, <1>3, <1>4, <1>5, <3>1
      <3>2. CASE k = Len(s) + 1
        BY <1>2, <1>3, <1>4, <1>5, <3>2
      <3> QED BY <1>1, <1>4, <1>5, <3>1, <3>2
    <2> QED BY <1>2, <1>4, <1>5, <2>1, SameSeq
  <1> QED BY <1>4, <1>6 DEF a, t, u, r

\* sq_remove of the value below the top.
LEMMA LevelRemove ==
  ASSUME NEW S, NEW b, NEW n, NEW m, NEW f, Level(S, b, n, m, f), n >= 2
  PROVE  LET T == sq_remove(S, "gv", -2)
         IN  /\ Level(T, b, n - 1, m, f) /\ Apart(T, S) /\ T.ok = S.ok /\ T.out = S.out
             /\ T.stack.gv = RemoveAt(S.stack.gv, Len(S.stack.gv) - 1) /\ T.stack.v = S.stack.v
  <1> DEFINE T == sq_remove(S, "gv", -2)
             s == RemoveAt(S.stack.gv, Len(S.stack.gv) - 1)
  <1>1. S.stack.gv \in Seq(LiveValue(S.heap)) /\ Len(S.stack.gv) = Len(b) + n + S.left
        /\ Len(b) \in Nat /\ n \in Nat /\ S.left \in Nat
    BY DEF Level, State
  <1>2. T = WithStack(S, "gv", s)
    <2>1. Len(S.stack.gv) \in Nat
      BY <1>1
    <2>2. Len(S.stack.gv) + 1 + (-2) = Len(S.stack.gv) - 1
      BY <2>1
    <2> QED BY <2>2 DEF sq_remove, WithStack
  <1>3. s \in Seq(LiveValue(S.heap)) /\ Len(s) = Len(S.stack.gv) - 1
        /\ \A k \in 1 .. Len(S.stack.gv) - 2 : s[k] = S.stack.gv[k]
    <2>1. Len(S.stack.gv) >= 2
      BY <1>1
    <2> QED BY <1>1, <2>1, RemoveNext
  <1> HIDE DEF T, s
  <1>4. Len(s) = Len(b) + (n - 1) + S.left /\ n - 1 \in Nat /\ \A k \in 1 .. Len(b) : s[k] = S.stack.gv[k]
    BY <1>1, <1>3
  <1>5. /\ Level(T, b, n - 1, m, f) /\ Apart(T, S) /\ T.ok = S.ok /\ T.out = S.out
        /\ T.stack.gv = s /\ T.stack.v = S.stack.v
    BY <1>2, <1>3, <1>4, LevelStack
  <1> QED BY <1>5 DEF T, s

LEMMA OtherRemove ==
  ASSUME NEW S, NEW b, NEW n, NEW m, NEW f, Level(S, b, n, m, f), m >= 2
  PROVE  LET T == sq_remove(S, "v", -2)
         IN  /\ Level(T, b, n, m - 1, f) /\ Apart(T, S) /\ T.ok = S.ok /\ T.out = S.out
             /\ T.stack.v = RemoveAt(S.stack.v, Len(S.stack.v) - 1) /\ T.stack.gv = S.stack.gv
  <1> DEFINE T == sq_remove(S, "v", -2)
             s == RemoveAt(S.stack.v, Len(S.stack.v) - 1)
  <1>1. S.stack.v \in Seq(LiveValue(S.heap)) /\ Len(S.stack.v) = m /\ m \in Nat
    BY DEF Level, State
  <1>2. T = WithStack(S, "v", s)
    <2>1. Len(S.stack.v) \in Nat
      BY <1>1
    <2>2. Len(S.stack.v) + 1 + (-2) = Len(S.stack.v) - 1
      BY <2>1
    <2> QED BY <2>2 DEF sq_remove, WithStack
  <1>3. s \in Seq(LiveValue(S.heap)) /\ Len(s) = m - 1
    BY <1>1, RemoveNext
  <1> HIDE DEF T, s
  <1>5. /\ Level(T, b, n, Len(s), f) /\ Apart(T, S) /\ T.ok = S.ok /\ T.out = S.out
        /\ T.stack.v = s /\ T.stack.gv = S.stack.gv
    BY <1>2, <1>3, LevelOther
  <1> QED BY <1>3, <1>5 DEF T, s

LEMMA ApartTrans ==
  ASSUME NEW S, NEW T, NEW U, Apart(T, S), Apart(U, T)
  PROVE  Apart(U, S)
  BY DEF Apart

\* ObjectInfo::push: what the reference stands for comes onto the stack.
LEMMA LevelObject ==
  ASSUME NEW S, NEW b, NEW n, NEW m, NEW f, Level(S, b, n, m, f), NEW v \in LiveValue(S.heap)
  PROVE  LET T == push(S, "gv", v)
         IN  /\ Level(T, b, n + 1, m, f) /\ Apart(T, S)
             /\ T.stack.gv = Append(S.stack.gv, RealVal(S.heap, v)) /\ T.stack.v = S.stack.v
             /\ RealVal(S.heap, v) \in LiveValue(S.heap)
  <1> DEFINE T == push(S, "gv", v)
             x == RealVal(S.heap, v)
             p == Push(S, "gv", v)
             q == Push(p, "gv", x)
             r == Succeed(q)
  <1>0. HeapSound(S.heap) /\ n \in Nat /\ S.stack.gv \in Seq(LiveValue(S.heap))
    BY DEF Level, State
  <1>1. x \in LiveValue(S.heap)
    BY <1>0, RealLive
  <1>2. CASE v[1] # "weak"
    <2>1. T = p /\ x = v
      BY <1>2 DEF push, sq_pushobject, RealVal
    <2> HIDE DEF T, p, x
    <2>2. Level(p, b, n + 1, m, f) /\ Apart(p, S) /\ p.stack.gv = Append(S.stack.gv, v) /\ p.stack.v = S.stack.v
      BY LevelPush DEF p
    <2> QED BY <1>1, <2>1, <2>2 DEF T, x
  <1>3. CASE v[1] = "weak"
    <2> DEFINE d == n + 1 + 1
    <2>1. Level(p, b, n + 1, m, f) /\ Apart(p, S) /\ p.stack.gv = Append(S.stack.gv, v) /\ p.stack.v = S.stack.v
          /\ Up(p, "gv", -1) = v
      BY LevelPush
    <2>2. T = sq_remove(r, "gv", -2)
      <3> HIDE DEF p, q
      <3>1. p.heap = S.heap
        BY <2>1 DEF Apart
      <3>2. sq_getweakrefval(p, "gv", -1) = Succeed(Push(p, "gv", RealVal(p.heap, v)))
        BY <1>3, <2>1 DEF sq_getweakrefval
      <3>3. sq_getweakrefval(p, "gv", -1) = r
        BY <3>1, <3>2 DEF q
      <3>4. push(S, "gv", v) = sq_remove(sq_getweakrefval(p, "gv", -1), "gv", -2)
        BY <1>3 DEF push, sq_pushobject, p
      <3> QED BY <3>3, <3>4
    <2> HIDE DEF p, x, T
    <2>3. x \in LiveValue(p.heap)
      BY <1>1, <2>1 DEF Apart
    <2>4. Level(q, b, d, m, f) /\ Apart(q, p) /\ q.stack.gv = Append(p.stack.gv, x) /\ q.stack.v = p.stack.v
      BY <2>1, <2>3, LevelPush
    <2> HIDE DEF q
    <2>5. Level(r, b, d, m, f) /\ Apart(r, q) /\ r.stack = q.stack
      BY <2>4, LevelResult
    <2> HIDE DEF r
    <2>6. d >= 2 /\ d - 1 = n + 1
      BY <1>0
    <2> HIDE DEF d
    <2>7. /\ Level(sq_remove(r, "gv", -2), b, d - 1, m, f) /\ Apart(sq_remove(r, "gv", -2), r)
          /\ sq_remove(r, "gv", -2).stack.gv = RemoveAt(r.stack.gv, Len(r.stack.gv) - 1)
          /\ sq_remove(r, "gv", -2).stack.v = r.stack.v
      BY <2>5, <2>6, LevelRemove
    <2>8. Level(T, b, n + 1, m, f) /\ Apart(T, r)
          /\ T.stack.gv = RemoveAt(r.stack.gv, Len(r.stack.gv) - 1) /\ T.stack.v = r.stack.v
      BY <2>2, <2>6, <2>7
    <2>9. Apart(T, S)
      BY <2>1, <2>4, <2>5, <2>8 DEF Apart
    <2>10. RemoveAt(r.stack.gv, Len(r.stack.gv) - 1) = Append(S.stack.gv, x)
      <3>1. r.stack.gv = Append(Append(S.stack.gv, v), x)
        BY <2>1, <2>4, <2>5
      <3>2. Len(r.stack.gv) - 1 = Len(S.stack.gv) + 1
        BY <1>0, <1>1, <3>1, AppendSeq
      <3> QED BY <1>0, <1>1, <3>1, <3>2, RemoveSecond
    <2> QED BY <1>1, <2>1, <2>4, <2>5, <2>8, <2>9, <2>10 DEF T, x
  <1> QED BY <1>2, <1>3

LEMMA OtherObject ==
  ASSUME NEW S, NEW b, NEW n, NEW m, NEW f, Level(S, b, n, m, f), NEW v \in LiveValue(S.heap)
  PROVE  LET T == push(S, "v", v)
         IN  /\ Level(T, b, n, m + 1, f) /\ Apart(T, S)
             /\ T.stack.v = Append(S.stack.v, RealVal(S.heap, v)) /\ T.stack.gv = S.stack.gv
             /\ RealVal(S.heap, v) \in LiveValue(S.heap)
  <1> DEFINE T == push(S, "v", v)
             x == RealVal(S.heap, v)
             p == Push(S, "v", v)
             q == Push(p, "v", x)
             r == Succeed(q)
  <1>0. HeapSound(S.heap) /\ m \in Nat /\ S.stack.v \in Seq(LiveValue(S.heap))
    BY DEF Level, State
  <1>1. x \in LiveValue(S.heap)
    BY <1>0, RealLive
  <1>2. CASE v[1] # "weak"
    <2>1. T = p /\ x = v
      BY <1>2 DEF push, sq_pushobject, RealVal
    <2> HIDE DEF T, p, x
    <2>2. Level(p, b, n, m + 1, f) /\ Apart(p, S) /\ p.stack.v = Append(S.stack.v, v) /\ p.stack.gv = S.stack.gv
      BY OtherPush DEF p
    <2> QED BY <1>1, <2>1, <2>2 DEF T, x
  <1>3. CASE v[1] = "weak"
    <2> DEFINE d == m + 1 + 1
    <2>1. Level(p, b, n, m + 1, f) /\ Apart(p, S) /\ p.stack.v = Append(S.stack.v, v) /\ p.stack.gv = S.stack.gv
          /\ Up(p, "v", -1) = v
      BY OtherPush
    <2>2. T = sq_remove(r, "v", -2)
      <3> HIDE DEF p, q
      <3>1. p.heap = S.heap
        BY <2>1 DEF Apart
      <3>2. sq_getweakrefval(p, "v", -1) = Succeed(Push(p, "v", RealVal(p.heap, v)))
        BY <1>3, <2>1 DEF sq_getweakrefval
      <3>3. sq_getweakrefval(p, "v", -1) = r
        BY <3>1, <3>2 DEF q
      <3>4. push(S, "v", v) = sq_remove(sq_getweakrefval(p, "v", -1), "v", -2)
        BY <1>3 DEF push, sq_pushobject, p
      <3> QED BY <3>3, <3>4
    <2> HIDE DEF p, x, T
    <2>3. x \in LiveValue(p.heap)
      BY <1>1, <2>1 DEF Apart
    <2>4. Level(q, b, n, d, f) /\ Apart(q, p) /\ q.stack.v = Append(p.stack.v, x) /\ q.stack.gv = p.stack.gv
      BY <2>1, <2>3, OtherPush
    <2> HIDE DEF q
    <2>5. Level(r, b, n, d, f) /\ Apart(r, q) /\ r.stack = q.stack
      BY <2>4, LevelResult
    <2> HIDE DEF r
    <2>6. d >= 2 /\ d - 1 = m + 1
      BY <1>0
    <2> HIDE DEF d
    <2>7. /\ Level(sq_remove(r, "v", -2), b, n, d - 1, f) /\ Apart(sq_remove(r, "v", -2), r)
          /\ sq_remove(r, "v", -2).stack.v = RemoveAt(r.stack.v, Len(r.stack.v) - 1)
          /\ sq_remove(r, "v", -2).stack.gv = r.stack.gv
      BY <2>5, <2>6, OtherRemove
    <2>8. Level(T, b, n, m + 1, f) /\ Apart(T, r)
          /\ T.stack.v = RemoveAt(r.stack.v, Len(r.stack.v) - 1) /\ T.stack.gv = r.stack.gv
      BY <2>2, <2>6, <2>7
    <2>9. Apart(T, S)
      BY <2>1, <2>4, <2>5, <2>8 DEF Apart
    <2>10. RemoveAt(r.stack.v, Len(r.stack.v) - 1) = Append(S.stack.v, x)
      <3>1. r.stack.v = Append(Append(S.stack.v, v), x)
        BY <2>1, <2>4, <2>5
      <3>2. Len(r.stack.v) - 1 = Len(S.stack.v) + 1
        BY <1>0, <1>1, <3>1, AppendSeq
      <3> QED BY <1>0, <1>1, <3>1, <3>2, RemoveSecond
    <2> QED BY <1>1, <2>1, <2>4, <2>5, <2>8, <2>9, <2>10 DEF T, x
  <1> QED BY <1>2, <1>3

LEMMA NullNotHeld == Null \notin Held
  BY DEF Null, Held, Ref, Weak

\* The state a change of one variable and its count leads to.
LEMMA LevelCounted ==
  ASSUME NEW S, NEW b, NEW n, NEW m, NEW f, Level(S, b, n, m, f),
         NEW T, NEW r, NEW g, Like(T, S.heap, r, g, S.left), T.stack = S.stack,
         g \in [Infos -> LiveValue(S.heap)], RefsExact(r, g)
  PROVE  Level(T, b, n, m, g)
  BY DEF Like, Level, State

\* clear: the variable holds nothing any more, and is not counted.
LEMMA LevelClear ==
  ASSUME NEW S, NEW b, NEW n, NEW m, NEW f, Level(S, b, n, m, f), NEW i \in Infos
  PROVE  LET T == clear(S, i)
         IN  /\ Level(T, b, n, m, Assigned(f, i, Null))
             /\ T.heap = S.heap /\ T.stack = S.stack /\ T.left = S.left /\ T.ok = S.ok
             /\ \A r \in Held : T.refs[r] > 0 => S.refs[r] > 0
  <1> DEFINE T == clear(S, i)
             v == f[i]
             g == Assigned(f, i, Null)
             r == Uncounted(S.refs, v)
  <1>1. /\ IsMachine(S) /\ S.info = f /\ f \in [Infos -> LiveValue(S.heap)] /\ RefsExact(S.refs, f)
        /\ HeapSound(S.heap) /\ DOMAIN f = Infos
    BY DEF Level, State
  <1>2. Like(T, S.heap, r, g, S.left) /\ T.stack = S.stack /\ T.ok = S.ok
    <2>1. T = Dropping(S, S.info[i], i, Null) /\ v = S.info[i]
      BY <1>1 DEF clear, Dropping
    <2> HIDE DEF T, v
    <2> QED BY <1>1, <2>1, SetInfo
  <1>3. g \in [Infos -> LiveValue(S.heap)]
    BY <1>1, Constants DEF Assigned
  <1>4. DOMAIN S.refs = Held
    BY <1>1 DEF RefsExact
  <1>5. RefsExact(r, g) /\ \A w \in Held : r[w] > 0 => S.refs[w] > 0
    <2>1. CASE v = Null
      <3>1. g = f
        BY <1>1, <2>1 DEF Assigned
      <3>2. r = S.refs
        BY <1>4, <2>1, NullNotHeld DEF Uncounted
      <3> QED BY <1>1, <3>1, <3>2
    <2>2. CASE v # Null
      <3>1. /\ Count(g, v) = Count(f, v) - 1
            /\ \A w : w # Null /\ w # v =>
                    Count(g, w) = Count(f, w)
        BY <1>1, <2>2, CountChange
      <3>2. \A w \in Held : r[w] = IF w = v THEN S.refs[w] - 1 ELSE S.refs[w]
        BY <1>4 DEF Uncounted
      <3>3. DOMAIN r = Held
        BY <1>4 DEF Uncounted
      <3>4. \A w \in Held : S.refs[w] = Count(f, w) /\ S.refs[w] \in Nat
        BY <1>1, CountNat DEF RefsExact
      <3> HIDE DEF r, g
      <3>5. \A w \in Held : r[w] = Count(g, w)
        BY <3>1, <3>2, <3>4, NullNotHeld
      <3>6. \A w \in Held : r[w] > 0 => S.refs[w] > 0
        BY <3>2, <3>4
      <3> QED BY <3>3, <3>5, <3>6 DEF RefsExact
    <2> QED BY <2>1, <2>2
  <1> HIDE DEF T, r, g
  <1>6. Level(T, b, n, m, g)
    BY <1>2, <1>3, <1>5, LevelCounted
  <1>7. T.heap = S.heap /\ T.left = S.left /\ T.refs = r
    BY <1>2 DEF Like
  <1> QED BY <1>2, <1>5, <1>6, <1>7 DEF T, g

\* An empty variable takes a value and counts it.
LEMMA LevelHold ==
  ASSUME NEW S, NEW b, NEW n, NEW m, NEW f, Level(S, b, n, m, f), NEW i \in Infos, f[i] = Null,
         NEW v \in LiveValue(S.heap)
  PROVE  LET T == Having(S, v, i, v)
         IN  /\ Level(T, b, n, m, Assigned(f, i, v))
             /\ T.heap = S.heap /\ T.stack = S.stack /\ T.left = S.left /\ T.ok = S.ok
  <1> DEFINE T == Having(S, v, i, v)
             g == Assigned(f, i, v)
             r == Counted(S.refs, v)
  <1>1. /\ IsMachine(S) /\ S.info = f /\ f \in [Infos -> LiveValue(S.heap)] /\ RefsExact(S.refs, f)
        /\ HeapSound(S.heap) /\ DOMAIN f = Infos
    BY DEF Level, State
  <1>2. Like(T, S.heap, r, g, S.left) /\ T.stack = S.stack /\ T.ok = S.ok
    BY <1>1, SetInfo
  <1>3. g \in [Infos -> LiveValue(S.heap)]
    BY <1>1 DEF Assigned
  <1>4. DOMAIN S.refs = Held
    BY <1>1 DEF RefsExact
  <1>5. RefsExact(r, g)
    <2>1. CASE v = Null
      <3>1. g = f
        BY <1>1, <2>1 DEF Assigned
      <3>2. r = S.refs
        BY <1>4, <2>1, NullNotHeld DEF Counted
      <3> QED BY <1>1, <3>1, <3>2
    <2>2. CASE v # Null
      <3>1. /\ Count(g, v) = Count(f, v) + 1
            /\ \A w : w # v /\ w # Null =>
                    Count(g, w) = Count(f, w)
        BY <1>1, <2>2, CountChange
      <3>2. \A w \in Held : r[w] = IF w = v THEN S.refs[w] + 1 ELSE S.refs[w]
        BY <1>4 DEF Counted
      <3>3. DOMAIN r = Held
        BY <1>4 DEF Counted
      <3>4. \A w \in Held : S.refs[w] = Count(f, w)
        BY <1>1 DEF RefsExact
      <3> HIDE DEF r, g
      <3>5. \A w \in Held : r[w] = Count(g, w)
        BY <3>1, <3>2, <3>4, NullNotHeld
      <3> QED BY <3>3, <3>5 DEF RefsExact
    <2> QED BY <2>1, <2>2
  <1> HIDE DEF T, r, g
  <1>6. Level(T, b, n, m, g)
    BY <1>2, <1>3, <1>5, LevelCounted
  <1>7. T.heap = S.heap /\ T.left = S.left
    BY <1>2 DEF Like
  <1> QED BY <1>2, <1>6, <1>7 DEF T, g

LEMMA LevelTake ==
  ASSUME NEW S, NEW b, NEW n, NEW m, NEW f, Level(S, b, n, m, f), NEW i \in Infos, f[i] = Null, n > 0
  PROVE  LET T == TakeTop(S, i)
         IN  /\ Level(T, b, n, m, Assigned(f, i, Up(S, "gv", -1)))
             /\ T.heap = S.heap /\ T.stack = S.stack /\ T.left = S.left /\ T.ok = S.ok
             /\ Up(S, "gv", -1) \in LiveValue(S.heap)
  <1>1. n \in Nat
    BY DEF Level
  <1>2. Up(S, "gv", -1) \in LiveValue(S.heap)
    BY <1>1, LevelUp
  <1> QED BY <1>2, LevelHold DEF TakeTop, Having

\* A variable is assigned another one: the same of itself is null.
LEMMA LevelAssign ==
  ASSUME NEW S, NEW b, NEW n, NEW m, NEW f, Level(S, b, n, m, f), NEW i \in Infos, NEW j \in Infos
  PROVE  LET T == assign(S, i, j)
         IN  /\ Level(T, b, n, m, Assigned(f, i, IF i = j THEN Null ELSE f[j]))
             /\ T.heap = S.heap /\ T.stack = S.stack /\ T.left = S.left /\ T.ok = S.ok
  <1> DEFINE c == clear(S, i)
             g == Assigned(f, i, Null)
             T == assign(S, i, j)
  <1>0. f \in [Infos -> LiveValue(S.heap)] /\ HeapSound(S.heap)
    BY DEF Level, State
  <1>1. Level(c, b, n, m, g) /\ c.heap = S.heap /\ c.stack = S.stack /\ c.left = S.left /\ c.ok = S.ok
    BY LevelClear
  <1>2. T = Having(c, c.info[j], i, c.info[j])
    BY DEF assign, Having
  <1> HIDE DEF c, T
  <1>3. c.info = g
    BY <1>1 DEF Level
  <1>4. g[i] = Null /\ g[j] = (IF i = j THEN Null ELSE f[j]) /\ g[j] \in LiveValue(c.heap)
    BY <1>0, <1>1, Constants DEF Assigned
  <1>5. Assigned(g, i, g[j]) = Assigned(f, i, IF i = j THEN Null ELSE f[j])
    BY <1>0 DEF Assigned
  <1> HIDE DEF g
  <1>6. Level(T, b, n, m, Assigned(g, i, g[j])) /\ T.heap = c.heap /\ T.stack = c.stack /\ T.left = c.left /\ T.ok = c.ok
    BY <1>1, <1>2, <1>3, <1>4, LevelHold
  <1> QED BY <1>1, <1>5, <1>6 DEF T

\* ObjectInfo(vm, idx): an empty variable takes what is on a stack, which stays.
LEMMA LevelObjectInfo ==
  ASSUME NEW S, NEW b, NEW n, NEW m, NEW f, Level(S, b, n, m, f), NEW i \in Infos, f[i] = Null,
         NEW vm \in VM, NEW idx \in Int, Up(S, vm, idx) \in LiveValue(S.heap)
  PROVE  LET T == ObjectInfo(S, i, vm, idx)
         IN  /\ Level(T, b, n, m, Assigned(f, i, Up(S, vm, idx)))
             /\ T.heap = S.heap /\ T.left = S.left /\ T.ok = S.ok
             /\ T.stack.gv = S.stack.gv
  <1> DEFINE x == Up(S, vm, idx)
             p == Push(S, "gv", x)
             q == TakeTop(p, i)
             k == n + 1
             T == ObjectInfo(S, i, vm, idx)
  <1>0. n \in Nat /\ S.stack.gv \in Seq(LiveValue(S.heap))
    BY DEF Level, State
  <1>1. T = Pop(q, "gv", 1)
    BY DEF ObjectInfo, sq_pop, sq_move
  <1> HIDE DEF x, T
  <1>2. Level(p, b, n + 1, m, f) /\ Apart(p, S) /\ Up(p, "gv", -1) = x /\ p.stack.gv = Append(S.stack.gv, x) /\ p.ok = S.ok
    BY LevelPush DEF x
  <1> HIDE DEF p
  <1>3. /\ Level(q, b, k, m, Assigned(f, i, x)) /\ q.heap = p.heap /\ q.stack = p.stack /\ q.left = p.left /\ q.ok = p.ok
    <2>1. n + 1 > 0
      BY <1>0
    <2> QED BY <1>2, <2>1, LevelTake
  <1> HIDE DEF q
  <1>4. k - 1 = n /\ 1 \in 0 .. k
    BY <1>0
  <1> HIDE DEF k
  <1>5. Level(T, b, k - 1, m, Assigned(f, i, x)) /\ Apart(T, q) /\ T.ok = q.ok
        /\ T.stack.gv = SubSeq(q.stack.gv, 1, Len(q.stack.gv) - 1)
    BY <1>1, <1>3, <1>4, LevelPop
  <1>6. T.stack.gv = S.stack.gv
    <2>1. T.stack.gv = SubSeq(Append(S.stack.gv, x), 1, Len(Append(S.stack.gv, x)) - 1)
      BY <1>2, <1>3, <1>5
    <2> QED BY <1>0, <2>1
  <1>7. Level(T, b, n, m, Assigned(f, i, x))
    BY <1>4, <1>5
  <1> QED BY <1>2, <1>3, <1>5, <1>6, <1>7 DEF T, x, Apart

\* The values a call finds on the stack.
LEMMA LevelValues ==
  ASSUME NEW S, NEW b, NEW n, NEW m, NEW f, Level(S, b, n, m, f)
  PROVE  /\ n > 0 => Up(S, "gv", -1) \in LiveValue(S.heap)
         /\ n > 1 => Up(S, "gv", -2) \in LiveValue(S.heap)
         /\ n > 2 => Up(S, "gv", -3) \in LiveValue(S.heap)
         /\ m > 0 => Up(S, "v", -1) \in LiveValue(S.heap)
         /\ m > 1 => Up(S, "v", -2) \in LiveValue(S.heap)
         /\ n \in Nat /\ m \in Nat /\ HeapSound(S.heap)
  <1>1. n \in Nat /\ m \in Nat /\ HeapSound(S.heap)
    BY DEF Level, State
  <1>2. /\ n - 1 >= 0 => Up(S, "gv", -1) \in LiveValue(S.heap)
        /\ n - 2 >= 0 => Up(S, "gv", -2) \in LiveValue(S.heap)
        /\ n - 3 >= 0 => Up(S, "gv", -3) \in LiveValue(S.heap)
        /\ m - 1 >= 0 => Up(S, "v", -1) \in LiveValue(S.heap)
        /\ m - 2 >= 0 => Up(S, "v", -2) \in LiveValue(S.heap)
    <2>1. \A i \in Int : i < 0 =>
            /\ n + i >= 0 => Up(S, "gv", i) \in LiveValue(S.heap)
            /\ m + i >= 0 => Up(S, "v", i) \in LiveValue(S.heap)
      BY LevelUp
    <2>2. -1 \in Int /\ -2 \in Int /\ -3 \in Int /\ -1 < 0 /\ -2 < 0 /\ -3 < 0
          /\ n + (-1) = n - 1 /\ n + (-2) = n - 2 /\ n + (-3) = n - 3 /\ m + (-1) = m - 1 /\ m + (-2) = m - 2
      BY <1>1
    <2>3. (n + (-1) >= 0 => Up(S, "gv", -1) \in LiveValue(S.heap)) /\ (m + (-1) >= 0 => Up(S, "v", -1) \in LiveValue(S.heap))
      BY <2>1, <2>2
    <2>4. (n + (-2) >= 0 => Up(S, "gv", -2) \in LiveValue(S.heap)) /\ (m + (-2) >= 0 => Up(S, "v", -2) \in LiveValue(S.heap))
      BY <2>1, <2>2
    <2>5. n + (-3) >= 0 => Up(S, "gv", -3) \in LiveValue(S.heap)
      BY <2>1, <2>2
    <2> QED BY <2>2, <2>3, <2>4, <2>5
  <1> QED BY <1>1, <1>2

\* A call that changes the objects and takes k arguments from the stack.
LEMMA LevelStored ==
  ASSUME NEW S, NEW b, NEW n, NEW m, NEW f, Level(S, b, n, m, f),
         NEW h, HeapSound(h), Grows(S.heap, h), NEW k \in 0 .. n
  PROVE  LET T == Pop(WithHeap(S, h), "gv", k)
         IN  Level(T, b, n - k, m, f) /\ T.ok = S.ok /\ T.heap = h /\ Changes(T, S) /\ T.stack.v = S.stack.v
  <1> DEFINE p == WithHeap(S, h)
  <1>1. Level(p, b, n, m, f) /\ p.heap = h /\ p.ok = S.ok /\ Changes(p, S) /\ p.stack = S.stack
    BY LevelHeap
  <1> HIDE DEF p
  <1>2. Level(Pop(p, "gv", k), b, n - k, m, f) /\ Apart(Pop(p, "gv", k), p) /\ Pop(p, "gv", k).ok = p.ok
        /\ Pop(p, "gv", k).stack.v = p.stack.v
    BY <1>1, LevelPop
  <1> QED BY <1>1, <1>2 DEF p, Apart, Changes

\* A store, which may be refused.
LEMMA LevelAfter ==
  ASSUME NEW S, NEW b, NEW n, NEW m, NEW f, Level(S, b, n, m, f),
         NEW r, HeapSound(r.heap), Grows(S.heap, r.heap), NEW k \in 0 .. n
  PROVE  LET T == Pop(After(S, r), "gv", k) IN Level(T, b, n - k, m, f)
  <1> DEFINE p == WithHeap(S, r.heap)
             q == WithOk(p, r.ok)
  <1>1. Level(p, b, n, m, f)
    BY LevelHeap
  <1>2. After(S, r) = q
    BY DEF After, WithOk, WithHeap
  <1> HIDE DEF p
  <1>3. Level(q, b, n, m, f)
    <2>1. IsMachine(p) /\ p.info = f
      BY <1>1 DEF Level, State
    <2>2. Like(q, p.heap, p.refs, p.info, p.left) /\ q.stack = p.stack
      BY <2>1, SetOk
    <2> HIDE DEF q
    <2>3. p.info \in [Infos -> LiveValue(p.heap)] /\ RefsExact(p.refs, p.info)
      BY <1>1, <2>1 DEF Level, State
    <2> QED BY <1>1, <2>1, <2>2, <2>3, LevelCounted
  <1> HIDE DEF q
  <1>4. Level(Pop(q, "gv", k), b, n - k, m, f)
    BY <1>3, LevelPop
  <1> QED BY <1>2, <1>4

\* The array at idx gets other elements.
LEMMA LevelArray ==
  ASSUME NEW S, NEW b, NEW n, NEW m, NEW f, Level(S, b, n, m, f), NEW idx,
         Up(S, "gv", idx) \in LiveValue(S.heap), IsArray(S, "gv", idx)
  PROVE  /\ Array(S, "gv", idx) \in Seq(LiveValue(S.heap))
         /\ \A s \in Seq(LiveValue(S.heap)), k \in 0 .. n :
              Level(Succeed(Pop(WithArray(S, "gv", idx, s), "gv", k)), b, n - k, m, f)
         /\ \A s \in Seq(LiveValue(S.heap)) : Level(Succeed(WithArray(S, "gv", idx, s)), b, n, m, f)
  <1> DEFINE o == Up(S, "gv", idx)[2]
             g(s) == [S.heap EXCEPT ![o].val = s]
  <1>1. HeapSound(S.heap)
    BY DEF Level, State
  <1>2. o \in Obj /\ S.heap[o].type = "array"
    BY <1>1, RefType DEF IsArray
  <1>3. Array(S, "gv", idx) \in Seq(LiveValue(S.heap))
    <2>1. Array(S, "gv", idx) = S.heap[o].val
      BY DEF Array
    <2>2. << >> \in Seq(LiveValue(S.heap))
      OBVIOUS
    <2> HIDE DEF o
    <2> QED BY <1>1, <1>2, <2>1, <2>2, ArrayPut
  <1>4. ASSUME NEW s \in Seq(LiveValue(S.heap))
        PROVE  /\ \A k \in 0 .. n : Level(Succeed(Pop(WithArray(S, "gv", idx, s), "gv", k)), b, n - k, m, f)
               /\ Level(Succeed(WithArray(S, "gv", idx, s)), b, n, m, f)
    <2>1. WithArray(S, "gv", idx, s) = WithHeap(S, g(s))
      BY DEF WithArray, WithHeap
    <2> HIDE DEF o
    <2>2. HeapSound(g(s)) /\ Grows(S.heap, g(s))
      BY <1>1, <1>2, ArrayPut
    <2> HIDE DEF g
    <2>3. \A k \in 0 .. n : Level(Pop(WithHeap(S, g(s)), "gv", k), b, n - k, m, f)
      BY <2>2, LevelStored
    <2>4. Level(WithHeap(S, g(s)), b, n, m, f)
      BY <2>2, LevelHeap
    <2> QED BY <2>1, <2>3, <2>4, LevelResult
  <1> QED BY <1>3, <1>4

LEMMA LevelAppend ==
  ASSUME NEW S, NEW b, NEW n, NEW m, NEW f, Level(S, b, n, m, f), n > 1
  PROVE  Level(sq_arrayappend(S, "gv", -2), b, n - 1, m, f)
  <1>0. n \in Nat
    BY LevelValues
  <1>1. Up(S, "gv", -1) \in LiveValue(S.heap) /\ Up(S, "gv", -2) \in LiveValue(S.heap) /\ n \in Nat /\ 1 \in 0 .. n /\ n > 0
    BY <1>0, LevelValues
  <1>2. CASE ~ IsArray(S, "gv", -2)
    BY <1>1, <1>2, LevelLeft DEF sq_arrayappend
  <1>3. CASE IsArray(S, "gv", -2)
    <2> DEFINE s == Append(Array(S, "gv", -2), Up(S, "gv", -1))
    <2>1. s \in Seq(LiveValue(S.heap))
      BY <1>1, <1>3, LevelArray, AppendSeq
    <2>2. sq_arrayappend(S, "gv", -2) = Succeed(Pop(WithArray(S, "gv", -2, s), "gv", 1))
      BY <1>3 DEF sq_arrayappend
    <2> HIDE DEF s
    <2> QED BY <1>1, <1>3, <2>1, <2>2, LevelArray
  <1> QED BY <1>2, <1>3

LEMMA InsertSeq ==
  ASSUME NEW X, NEW s \in Seq(X), NEW x \in X, NEW k \in 1 .. Len(s) + 1
  PROVE  InsertAt(s, k, x) \in Seq(X)
  <1>1. SubSeq(s, 1, k - 1) \in Seq(X) /\ SubSeq(s, k, Len(s)) \in Seq(X) /\ <<x>> \in Seq(X)
    OBVIOUS
  <1> QED BY <1>1 DEF InsertAt

LEMMA LevelInsert ==
  ASSUME NEW S, NEW b, NEW n, NEW m, NEW f, Level(S, b, n, m, f), n > 1, NEW k
  PROVE  Level(sq_arrayinsert(S, "gv", -2, k), b, n - 1, m, f)
  <1>0. n \in Nat
    BY LevelValues
  <1>1. Up(S, "gv", -1) \in LiveValue(S.heap) /\ Up(S, "gv", -2) \in LiveValue(S.heap) /\ n \in Nat /\ 1 \in 0 .. n /\ n > 0
    BY <1>0, LevelValues
  <1> DEFINE a == Array(S, "gv", -2)
             s == InsertAt(a, k + 1, Up(S, "gv", -1))
  <1>2. CASE ~ IsArray(S, "gv", -2)
    BY <1>1, <1>2, LevelLeft DEF sq_arrayinsert
  <1>3. CASE IsArray(S, "gv", -2) /\ k \in 0 .. Len(a)
    <2>1. a \in Seq(LiveValue(S.heap))
      BY <1>1, <1>3, LevelArray
    <2>2. sq_arrayinsert(S, "gv", -2, k) = Succeed(Pop(WithArray(S, "gv", -2, s), "gv", 1))
      BY <1>3 DEF sq_arrayinsert
    <2>3. s \in Seq(LiveValue(S.heap))
      <3> HIDE DEF a
      <3>1. k + 1 \in 1 .. Len(a) + 1
        BY <1>3, <2>1
      <3> QED BY <1>1, <2>1, <3>1, InsertSeq
    <2> HIDE DEF s
    <2> QED BY <1>1, <1>3, <2>2, <2>3, LevelArray
  <1>4. CASE IsArray(S, "gv", -2) /\ ~ (k \in 0 .. Len(a))
    <2> DEFINE p == Pop(S, "gv", 1)
    <2>1. sq_arrayinsert(S, "gv", -2, k) = Fail(p)
      BY <1>4 DEF sq_arrayinsert
    <2>2. Level(p, b, n - 1, m, f)
      BY <1>1, LevelPop
    <2> HIDE DEF p
    <2>3. Level(Fail(p), b, n - 1, m, f)
      BY <2>2, LevelResult
    <2> QED BY <2>1, <2>3
  <1> QED BY <1>2, <1>3, <1>4

LEMMA LevelArrayRemove ==
  ASSUME NEW S, NEW b, NEW n, NEW m, NEW f, Level(S, b, n, m, f), n > 0, NEW k
  PROVE  Level(sq_arrayremove(S, "gv", -1, k), b, n, m, f)
  <1>1. Up(S, "gv", -1) \in LiveValue(S.heap) /\ n \in Nat
    BY LevelValues
  <1> DEFINE a == Array(S, "gv", -1)
             s == RemoveAt(a, k + 1)
  <1>2. CASE ~ (IsArray(S, "gv", -1) /\ k \in 0 .. Len(a) - 1)
    BY <1>2, LevelResult DEF sq_arrayremove
  <1>3. CASE IsArray(S, "gv", -1) /\ k \in 0 .. Len(a) - 1
    <2>1. a \in Seq(LiveValue(S.heap))
      BY <1>1, <1>3, LevelArray
    <2>2. sq_arrayremove(S, "gv", -1, k) = Succeed(WithArray(S, "gv", -1, s))
      BY <1>3 DEF sq_arrayremove
    <2>3. s \in Seq(LiveValue(S.heap))
      <3> HIDE DEF a
      <3>1. k + 1 \in DOMAIN a
        BY <1>3, <2>1
      <3> QED BY <2>1, <3>1, RemoveAtElements
    <2> HIDE DEF s
    <2> QED BY <1>1, <1>3, <2>2, <2>3, LevelArray
  <1> QED BY <1>2, <1>3

LEMMA SparedSeq ==
  ASSUME NEW X, NEW s \in Seq(X), NEW I
  PROVE  Spared(s, I) \in Seq(X)
  <1> DEFINE places == [i \in DOMAIN s |-> i]
             kept == Without(places, I)
  <1>1. Len(s) \in Nat /\ DOMAIN s = 1 .. Len(s)
    OBVIOUS
  <1>2. places \in Seq(DOMAIN s)
    BY <1>1
  <1> HIDE DEF places
  <1>3. kept \in Seq(DOMAIN s)
    BY <1>2, WithoutElements
  <1>4. Spared(s, I) = [k \in DOMAIN kept |-> s[kept[k]]]
    BY DEF Spared, places
  <1> HIDE DEF kept
  <1>5. Len(kept) \in Nat /\ DOMAIN kept = 1 .. Len(kept) /\ \A k \in DOMAIN kept : s[kept[k]] \in X
    BY <1>3
  <1> QED BY <1>4, <1>5

LEMMA LevelRemoveValue ==
  ASSUME NEW S, NEW b, NEW n, NEW m, NEW f, Level(S, b, n, m, f), n > 1, NEW all,
         NEW T \in sq_arrayremovevalue(S, "gv", -2, all)
  PROVE  Level(T, b, n - 1, m, f)
  <1>0. n \in Nat
    BY LevelValues
  <1>1. Up(S, "gv", -1) \in LiveValue(S.heap) /\ Up(S, "gv", -2) \in LiveValue(S.heap) /\ n \in Nat /\ 1 \in 0 .. n /\ n > 0
    BY <1>0, LevelValues
  <1>2. CASE ~ IsArray(S, "gv", -2)
    <2>1. T = FailLeaving(S)
      BY <1>2 DEF sq_arrayremovevalue
    <2> QED BY <1>1, <2>1, LevelLeft
  <1>3. CASE IsArray(S, "gv", -2)
    <2>1. PICK I : T = Succeed(Pop(WithArray(S, "gv", -2, Spared(Array(S, "gv", -2), I)), "gv", 1))
      BY <1>3, Zenon DEF sq_arrayremovevalue
    <2>2. Spared(Array(S, "gv", -2), I) \in Seq(LiveValue(S.heap))
      BY <1>1, <1>3, LevelArray, SparedSeq
    <2> QED BY <1>1, <1>3, <2>1, <2>2, LevelArray
  <1> QED BY <1>2, <1>3

LEMMA LevelClearAll ==
  ASSUME NEW S, NEW b, NEW n, NEW m, NEW f, Level(S, b, n, m, f), n > 0
  PROVE  Level(sq_clear(S, "gv", -1), b, n, m, f)
  <1> DEFINE v == Up(S, "gv", -1)
             T == sq_clear(S, "gv", -1)
  <1>1. v \in LiveValue(S.heap) /\ HeapSound(S.heap)
    BY LevelValues
  <1> HIDE DEF T
  <1>2. ASSUME NEW h, HeapSound(h), Grows(S.heap, h), T = Succeed(WithHeap(S, h))
        PROVE  Level(T, b, n, m, f)
    <2> DEFINE p == WithHeap(S, h)
    <2>1. Level(p, b, n, m, f)
      BY <1>2, LevelHeap
    <2> HIDE DEF p
    <2>2. Level(Succeed(p), b, n, m, f)
      BY <2>1, LevelResult
    <2> QED BY <1>2, <2>2 DEF p
  <1>3. CASE Type(S.heap, v) = "table"
    <2> DEFINE h == [S.heap EXCEPT ![v[2]].slot = << >>]
    <2>1. v[2] \in Obj /\ S.heap[v[2]].type = "table"
      BY <1>1, <1>3, RefType
    <2>2. T = Succeed(WithHeap(S, h))
      BY <1>3 DEF sq_clear, WithHeap, T
    <2>3. HeapSound(h) /\ Grows(S.heap, h)
      <3>1. \A k \in DOMAIN << >> : << >>[k] \in LiveValue(S.heap)
        OBVIOUS
      <3> QED BY <1>1, <2>1, <3>1, TablePut
    <2> HIDE DEF h
    <2> QED BY <1>2, <2>2, <2>3 DEF T
  <1>4. CASE Type(S.heap, v) = "array"
    <2> DEFINE h == [S.heap EXCEPT ![v[2]].val = << >>]
    <2>1. v[2] \in Obj /\ S.heap[v[2]].type = "array"
      BY <1>1, <1>4, RefType
    <2>2. T = Succeed(WithHeap(S, h))
      BY <1>4 DEF sq_clear, WithHeap, T
    <2>3. HeapSound(h) /\ Grows(S.heap, h)
      <3>1. << >> \in Seq(LiveValue(S.heap))
        OBVIOUS
      <3> QED BY <1>1, <2>1, <3>1, ArrayPut
    <2> HIDE DEF h
    <2> QED BY <1>2, <2>2, <2>3 DEF T
  <1>5. CASE Type(S.heap, v) # "array" /\ Type(S.heap, v) # "table"
    <2>1. T = Fail(S)
      BY <1>5 DEF sq_clear, T
    <2> QED BY <2>1, LevelResult DEF T
  <1> QED BY <1>3, <1>4, <1>5 DEF T

\* sq_get: the value for the key, or nothing.
LEMMA LevelGet ==
  ASSUME NEW S, NEW b, NEW n, NEW m, NEW f, Level(S, b, n, m, f), n > 1
  PROVE  LET T == sq_get(S, "gv", -2)
         IN  /\ T.ok => Level(T, b, n, m, f)
             /\ ~ T.ok => Level(T, b, n - 1, m, f)
             /\ T.ok \in BOOLEAN /\ Apart(T, S)
  <1> DEFINE r == Get(S.heap, Up(S, "gv", -2), Up(S, "gv", -1))
             p == Pop(S, "gv", 1)
             q == Push(p, "gv", r.val)
             k == n - 1
             T == sq_get(S, "gv", -2)
  <1>0. n \in Nat
    BY LevelValues
  <1>1. Up(S, "gv", -1) \in LiveValue(S.heap) /\ Up(S, "gv", -2) \in LiveValue(S.heap) /\ HeapSound(S.heap)
        /\ 1 \in 0 .. n /\ k + 1 = n /\ n > 0
    BY <1>0, LevelValues
  <1>2. T = IF r.found THEN Succeed(q) ELSE Fail(p)
    BY DEF sq_get
  <1>3. r.val \in LiveValue(S.heap) /\ r.found \in BOOLEAN
    BY <1>1, GetLive
  <1>4. Level(p, b, k, m, f) /\ Apart(p, S)
    BY <1>1, LevelPop
  <1> HIDE DEF r, p, k, T
  <1>5. Level(q, b, k + 1, m, f) /\ Apart(q, p)
    <2>1. r.val \in LiveValue(p.heap)
      BY <1>3, <1>4 DEF Apart
    <2> QED BY <1>4, <2>1, LevelPush
  <1> HIDE DEF q
  <1>6. CASE r.found
    <2>1. T = Succeed(q)
      BY <1>2, <1>6
    <2>2. Level(Succeed(q), b, k + 1, m, f) /\ Succeed(q).ok = TRUE /\ Apart(Succeed(q), q)
      BY <1>5, LevelResult
    <2>3. Apart(T, S)
      BY <1>4, <1>5, <2>1, <2>2 DEF Apart
    <2>4. Level(T, b, n, m, f) /\ T.ok = TRUE
      BY <1>1, <2>1, <2>2
    <2> QED BY <2>3, <2>4 DEF T
  <1>7. CASE ~ r.found
    <2>1. T = Fail(p)
      BY <1>2, <1>7
    <2>2. Level(Fail(p), b, k, m, f) /\ Fail(p).ok = FALSE /\ Apart(Fail(p), p)
      BY <1>4, LevelResult
    <2>3. Apart(T, S)
      BY <1>4, <2>1, <2>2 DEF Apart
    <2>4. Level(T, b, n - 1, m, f) /\ T.ok = FALSE
      BY <2>1, <2>2 DEF k
    <2> QED BY <2>3, <2>4 DEF T
  <1> QED BY <1>6, <1>7

LEMMA LevelExists ==
  ASSUME NEW S, NEW b, NEW n, NEW m, NEW f, Level(S, b, n, m, f), n > 1
  PROVE  Level(sq_exists(S, "gv", -2), b, n - 1, m, f)
  <1> DEFINE x == IF Get(S.heap, Up(S, "gv", -2), Up(S, "gv", -1)).found THEN IntV(1) ELSE IntV(0)
             p == Pop(S, "gv", 1)
  <1>0. n \in Nat
    BY LevelValues
  <1>1. 1 \in 0 .. n
    BY <1>0
  <1>2. Level(p, b, n - 1, m, f)
    BY <1>1, LevelPop
  <1>3. sq_exists(S, "gv", -2) = Give(p, x)
    BY DEF sq_exists
  <1> HIDE DEF p, x
  <1>4. Level(Give(p, x), b, n - 1, m, f)
    BY <1>2, LevelGive
  <1> QED BY <1>3, <1>4

LEMMA LevelSet ==
  ASSUME NEW S, NEW b, NEW n, NEW m, NEW f, Level(S, b, n, m, f), n > 2
  PROVE  Level(sq_set(S, "gv", -3), b, n - 2, m, f)
  <1> DEFINE r == Set(S.heap, Up(S, "gv", -3), Up(S, "gv", -2), Up(S, "gv", -1))
  <1>0. n \in Nat
    BY LevelValues
  <1>1. Up(S, "gv", -1) \in LiveValue(S.heap) /\ Up(S, "gv", -3) \in LiveValue(S.heap) /\ HeapSound(S.heap)
        /\ 2 \in 0 .. n
    BY <1>0, LevelValues
  <1>2. HeapSound(r.heap) /\ Grows(S.heap, r.heap)
    BY <1>1, SetSound
  <1>3. sq_set(S, "gv", -3) = Pop(After(S, r), "gv", 2)
    BY DEF sq_set
  <1> HIDE DEF r
  <1> QED BY <1>1, <1>2, <1>3, LevelAfter

LEMMA LevelNewSlot ==
  ASSUME NEW S, NEW b, NEW n, NEW m, NEW f, Level(S, b, n, m, f), n > 2
  PROVE  Level(sq_newslot(S, "gv", -3), b, n - 2, m, f)
  <1> DEFINE r == NewSlot(S.heap, Up(S, "gv", -3), Up(S, "gv", -2), Up(S, "gv", -1))
             p == Pop(S, "gv", 2)
             q == Pop(After(S, r), "gv", 2)
  <1>0. n \in Nat
    BY LevelValues
  <1>1. Up(S, "gv", -1) \in LiveValue(S.heap) /\ Up(S, "gv", -3) \in LiveValue(S.heap) /\ HeapSound(S.heap)
        /\ 2 \in 0 .. n
    BY <1>0, LevelValues
  <1>2. HeapSound(r.heap) /\ Grows(S.heap, r.heap)
    BY <1>1, NewSlotSound
  <1>3. sq_newslot(S, "gv", -3) \in {Fail(p), Succeed(q), Succeed(p)}
    BY DEF sq_newslot
  <1>4. Level(p, b, n - 2, m, f)
    BY <1>1, LevelPop
  <1> HIDE DEF r
  <1>5. Level(q, b, n - 2, m, f)
    BY <1>1, <1>2, LevelAfter
  <1> HIDE DEF p, q
  <1>6. Level(Fail(p), b, n - 2, m, f) /\ Level(Succeed(p), b, n - 2, m, f) /\ Level(Succeed(q), b, n - 2, m, f)
    BY <1>4, <1>5, LevelResult
  <1> QED BY <1>3, <1>6

LEMMA LevelDeleteSlot ==
  ASSUME NEW S, NEW b, NEW n, NEW m, NEW f, Level(S, b, n, m, f), n > 1
  PROVE  Level(sq_deleteslot(S, "gv", -2), b, n - 1, m, f)
  <1> DEFINE r == DeleteSlot(S.heap, Up(S, "gv", -2), Up(S, "gv", -1))
             q == Pop(After(S, r), "gv", 1)
  <1>0. n \in Nat
    BY LevelValues
  <1>1. Up(S, "gv", -2) \in LiveValue(S.heap) /\ HeapSound(S.heap) /\ 1 \in 0 .. n /\ n > 0
    BY <1>0, LevelValues
  <1>2. HeapSound(r.heap) /\ Grows(S.heap, r.heap)
    BY <1>1, DeleteSlotSound
  <1>3. sq_deleteslot(S, "gv", -2) \in {q, FailLeaving(S)}
    BY DEF sq_deleteslot
  <1> HIDE DEF r
  <1>4. Level(q, b, n - 1, m, f)
    BY <1>1, <1>2, LevelAfter
  <1>5. Level(FailLeaving(S), b, n - 1, m, f)
    BY <1>1, LevelLeft
  <1> QED BY <1>3, <1>4, <1>5

LEMMA LevelInteger ==
  ASSUME NEW S, NEW b, NEW n, NEW m, NEW f, Level(S, b, n, m, f), NEW idx
  PROVE  Level(sq_getinteger(S, "gv", idx), b, n, m, f) /\ sq_getinteger(S, "gv", idx).ok \in BOOLEAN
  <1> DEFINE p == Give(S, Up(S, "gv", idx))
  <1>1. Level(p, b, n, m, f)
    BY LevelGive
  <1>2. sq_getinteger(S, "gv", idx) = (IF Up(S, "gv", idx)[1] = "int" THEN Succeed(p) ELSE Fail(S))
    BY DEF sq_getinteger
  <1> HIDE DEF p
  <1>3. Level(Succeed(p), b, n, m, f) /\ Succeed(p).ok = TRUE /\ Level(Fail(S), b, n, m, f) /\ Fail(S).ok = FALSE
    BY <1>1, LevelResult
  <1> QED BY <1>2, <1>3

\* sq_weakref: what is no object stays what it is.
LEMMA LevelWeakRef ==
  ASSUME NEW S, NEW b, NEW n, NEW m, NEW f, Level(S, b, n, m, f)
  PROVE  /\ n > 0 => Level(sq_weakref(S, "gv", -1), b, n + 1, m, f)
         /\ m > 0 => Level(sq_weakref(S, "v", -1), b, n, m + 1, f)
  <1> DEFINE W(v) == IF v[1] = "ref" THEN Weak(v[2]) ELSE v
  <1>1. \A v \in LiveValue(S.heap) : W(v) \in LiveValue(S.heap)
    <2>1. HeapSound(S.heap)
      BY LevelValues
    <2>2. \A v \in LiveValue(S.heap) : v \in Value
      BY DEF LiveValue
    <2> QED BY <2>1, <2>2, Values
  <1>2. \A vm \in VM : sq_weakref(S, vm, -1) = Push(S, vm, W(Up(S, vm, -1)))
    BY DEF sq_weakref
  <1> HIDE DEF W
  <1>3. n > 0 => Level(Push(S, "gv", W(Up(S, "gv", -1))), b, n + 1, m, f)
    BY <1>1, LevelValues, LevelPush
  <1>4. m > 0 => Level(Push(S, "v", W(Up(S, "v", -1))), b, n, m + 1, f)
    BY <1>1, LevelValues, OtherPush
  <1> QED BY <1>2, <1>3, <1>4 DEF VM

\* New objects: one that is free is there as long as no weak reference to it appears.
LEMMA FreshObject ==
  ASSUME NEW S, Fresh(S) # {}
  PROVE  New(S) \in Obj /\ S.heap[New(S)] = Free
  <1>1. Fresh(S) \subseteq Obj /\ \A o \in Fresh(S) : S.heap[o] = Free
    BY DEF Fresh
  <1>2. Fresh(S) \subseteq Nat
    BY <1>1, ObjectAssumption DEF ObjectAssumption
  <1>3. \E o \in Fresh(S) : \A p \in Fresh(S) : o <= p
    BY <1>2, SmallestExists
  <1>4. New(S) \in Fresh(S)
    BY <1>3 DEF New
  <1> QED BY <1>1, <1>4

LEMMA FreshKept ==
  ASSUME NEW S, NEW T, IsMachine(S), IsMachine(T), T.heap = S.heap,
         DOMAIN S.refs = Held, DOMAIN T.refs = Held, \A r \in Held : T.refs[r] > 0 => S.refs[r] > 0,
         \A v \in ToSet(T.stack.gv) : v[1] = "weak" => v \in ToSet(S.stack.gv),
         \A v \in ToSet(T.stack.v) : v[1] = "weak" => v \in ToSet(S.stack.v)
  PROVE  Fresh(S) \subseteq Fresh(T)
  <1> DEFINE U(X) == Contents(X.heap) \cup (UNION {ToSet(X.stack[vm]) : vm \in DOMAIN X.stack})
                        \cup {r \in DOMAIN X.refs : X.refs[r] > 0}
             W(X) == {v[2] : v \in {u \in U(X) : u[1] = "weak"}}
  <1>1. Fresh(S) = {o \in Obj : S.heap[o] = Free /\ o \notin W(S)} /\ Fresh(T) = {o \in Obj : T.heap[o] = Free /\ o \notin W(T)}
    BY DEF Fresh
  <1>2. DOMAIN S.stack = VM /\ DOMAIN T.stack = VM
    BY DEF IsMachine, VM
  <1>3. ASSUME NEW v \in U(T), v[1] = "weak" PROVE v \in U(S)
    <2>1. CASE v \in Contents(T.heap)
      BY <2>1
    <2>2. CASE \E vm \in VM : v \in ToSet(T.stack[vm])
      <3>1. v \in ToSet(S.stack.gv) \/ v \in ToSet(S.stack.v)
        BY <1>3, <2>2 DEF VM
      <3> QED BY <1>2, <3>1 DEF VM
    <2>3. CASE v \in Held /\ T.refs[v] > 0
      <3>1. v \in {r \in DOMAIN S.refs : S.refs[r] > 0}
        BY <2>3
      <3> QED BY <3>1
    <2> QED BY <1>2, <1>3, <2>1, <2>2, <2>3
  <1> HIDE DEF U
  <1>4. W(T) \subseteq W(S)
    BY <1>3
  <1> QED BY <1>1, <1>4

\* The steps before an object is made.
LEMMA FreshApart ==
  ASSUME NEW S, NEW b, NEW n, NEW m, NEW f, Level(S, b, n, m, f),
         NEW T, NEW c, NEW k, NEW l, NEW g, Level(T, c, k, l, g), Apart(T, S),
         \/ T.stack.v = S.stack.v /\ \E x : x[1] # "weak" /\ T.stack.gv = Append(S.stack.gv, x)
         \/ T.stack.gv = S.stack.gv /\ \E x : x[1] # "weak" /\ T.stack.v = Append(S.stack.v, x)
         \/ T.stack = S.stack
  PROVE  Fresh(S) \subseteq Fresh(T)
  <1>1. IsMachine(S) /\ IsMachine(T) /\ DOMAIN S.refs = Held
        /\ S.stack.gv \in Seq(LiveValue(S.heap)) /\ S.stack.v \in Seq(LiveValue(S.heap))
        /\ T.stack.gv \in Seq(LiveValue(T.heap)) /\ T.stack.v \in Seq(LiveValue(T.heap))
    BY DEF Level, State, RefsExact
  <1>2. ASSUME NEW X, NEW s \in Seq(X), NEW x, Append(s, x) \in Seq(X), x[1] # "weak"
        PROVE  \A v \in ToSet(Append(s, x)) : v[1] = "weak" => v \in ToSet(s)
    <2>1. ToSet(Append(s, x)) \subseteq ToSet(s) \cup {x}
      <3>1. Len(Append(s, x)) = Len(s) + 1 /\ Append(s, x)[Len(s) + 1] = x /\ Len(s) \in Nat
            /\ \A k_1 \in 1 .. Len(s) : Append(s, x)[k_1] = s[k_1]
            /\ DOMAIN Append(s, x) = 1 .. Len(s) + 1 /\ DOMAIN s = 1 .. Len(s)
        OBVIOUS
      <3> QED BY <3>1 DEF ToSet
    <2> QED BY <1>2, <2>1
  <1>3. /\ \A v \in ToSet(T.stack.gv) : v[1] = "weak" => v \in ToSet(S.stack.gv)
        /\ \A v \in ToSet(T.stack.v) : v[1] = "weak" => v \in ToSet(S.stack.v)
    <2>0. T.heap = S.heap
      BY DEF Apart
    <2>1. CASE T.stack = S.stack
      BY <2>1
    <2>2. CASE T.stack.v = S.stack.v /\ \E x : x[1] # "weak" /\ T.stack.gv = Append(S.stack.gv, x)
      <3>1. PICK x : x[1] # "weak" /\ T.stack.gv = Append(S.stack.gv, x)
        BY <2>2
      <3>2. \A v \in ToSet(T.stack.gv) : v[1] = "weak" => v \in ToSet(S.stack.gv)
        BY <1>1, <1>2, <2>0, <3>1
      <3> QED BY <2>2, <3>2
    <2>3. CASE T.stack.gv = S.stack.gv /\ \E x : x[1] # "weak" /\ T.stack.v = Append(S.stack.v, x)
      <3>1. PICK x : x[1] # "weak" /\ T.stack.v = Append(S.stack.v, x)
        BY <2>3
      <3>2. \A v \in ToSet(T.stack.v) : v[1] = "weak" => v \in ToSet(S.stack.v)
        BY <1>1, <1>2, <2>0, <3>1
      <3> QED BY <2>3, <3>2
    <2> QED BY <2>1, <2>2, <2>3
  <1>4. T.heap = S.heap /\ T.refs = S.refs
    BY DEF Apart
  <1> QED BY <1>1, <1>3, <1>4, FreshKept

LEMMA FreshClear ==
  ASSUME NEW S, NEW b, NEW n, NEW m, NEW f, Level(S, b, n, m, f), NEW i \in Infos
  PROVE  Fresh(S) \subseteq Fresh(clear(S, i))
  <1> DEFINE T == clear(S, i)
             g == Assigned(f, i, Null)
  <1>1. Level(T, b, n, m, g) /\ T.heap = S.heap /\ T.stack = S.stack /\ \A r \in Held : T.refs[r] > 0 => S.refs[r] > 0
    BY LevelClear
  <1> HIDE DEF T, g
  <1>2. IsMachine(S) /\ IsMachine(T) /\ DOMAIN S.refs = Held /\ DOMAIN T.refs = Held
    BY <1>1 DEF Level, State, RefsExact
  <1>3. Fresh(S) \subseteq Fresh(T)
    BY <1>1, <1>2, FreshKept
  <1> QED BY <1>3 DEF T

\* Make: the new object is on the stack.
LEMMA LevelMake ==
  ASSUME NEW S, NEW b, NEW n, NEW m, NEW f, Level(S, b, n, m, f), Fresh(S) # {},
         NEW c, ObjectSound(S.heap, c), c # Free
  PROVE  Level(Make(S, "gv", c), b, n + 1, m, f)
  <1> DEFINE o == New(S)
             h == [S.heap EXCEPT ![o] = c]
             p == WithHeap(S, h)
  <1>1. HeapSound(S.heap)
    BY LevelValues
  <1>2. o \in Obj /\ S.heap[o] = Free
    BY FreshObject
  <1>3. HeapSound(h) /\ Grows(S.heap, h) /\ Ref(o) \in LiveValue(h)
    BY <1>1, <1>2, MadeSound
  <1>4. Make(S, "gv", c) = Push(p, "gv", Ref(o))
    BY DEF Make, WithHeap
  <1> HIDE DEF o, h
  <1>5. Level(p, b, n, m, f) /\ p.heap = h
    BY <1>3, LevelHeap
  <1> HIDE DEF p
  <1>6. Level(Push(p, "gv", Ref(o)), b, n + 1, m, f)
    BY <1>3, <1>5, LevelPush
  <1> QED BY <1>4, <1>6

LEMMA LevelNewClass ==
  ASSUME NEW S, NEW b, NEW n, NEW m, NEW f, Level(S, b, n, m, f), Fresh(S) # {}
  PROVE  Level(sq_newclass(S, "gv", FALSE), b, n + 1, m, f)
  <1> DEFINE p == Make(S, "gv", NewClass(S.heap, Nobody))
  <1>1. HeapSound(S.heap)
    BY LevelValues
  <1>2. Level(p, b, n + 1, m, f)
    BY <1>1, ClassMade, LevelMake
  <1>3. sq_newclass(S, "gv", FALSE) = Succeed(p)
    BY DEF sq_newclass
  <1> HIDE DEF p
  <1> QED BY <1>2, <1>3, LevelResult

\* The base class is taken from the stack; what is none stays there.
LEMMA LevelSubclass ==
  ASSUME NEW S, NEW b, NEW n, NEW m, NEW f, Level(S, b, n, m, f), n > 0,
         Type(S.heap, Up(S, "gv", -1)) = "class" => Fresh(Pop(S, "gv", 1)) # {}
  PROVE  Level(sq_newclass(S, "gv", TRUE), b, n, m, f)
  <1> DEFINE base == Up(S, "gv", -1)[2]
             q == Pop(S, "gv", 1)
             p == Make(q, "gv", NewClass(S.heap, base))
             k == n - 1
  <1>0. n \in Nat
    BY LevelValues
  <1>1. HeapSound(S.heap) /\ Up(S, "gv", -1) \in LiveValue(S.heap) /\ 1 \in 0 .. n /\ k + 1 = n
    BY <1>0, LevelValues
  <1>2. CASE Type(S.heap, Up(S, "gv", -1)) # "class"
    <2>1. sq_newclass(S, "gv", TRUE) = Fail(S)
      BY <1>2 DEF sq_newclass
    <2> QED BY <2>1, LevelResult
  <1>3. CASE Type(S.heap, Up(S, "gv", -1)) = "class"
    <2>1. sq_newclass(S, "gv", TRUE) = Succeed(p)
      BY <1>3 DEF sq_newclass
    <2>2. base \in Obj /\ S.heap[base].type = "class"
      BY <1>1, <1>3, RefType
    <2> HIDE DEF base
    <2>3. ObjectSound(S.heap, NewClass(S.heap, base)) /\ NewClass(S.heap, base) # Free
      BY <1>1, <2>2, ClassMade
    <2>4. Level(q, b, k, m, f) /\ q.heap = S.heap
      BY <1>1, LevelPop DEF Apart
    <2>5. Fresh(q) # {}
      BY <1>3
    <2> HIDE DEF q, k
    <2>6. Level(p, b, k + 1, m, f)
      BY <2>3, <2>4, <2>5, LevelMake
    <2> HIDE DEF p
    <2>7. Level(Succeed(p), b, k + 1, m, f)
      BY <2>6, LevelResult
    <2> QED BY <1>1, <2>1, <2>7
  <1> QED BY <1>2, <1>3

LEMMA LevelClone ==
  ASSUME NEW S, NEW b, NEW n, NEW m, NEW f, Level(S, b, n, m, f), Fresh(S) # {}
  PROVE  /\ n > 0 => LET T == sq_clone(S, "gv", -1)
                     IN  T.ok \in BOOLEAN /\ Level(T, b, IF T.ok THEN n + 1 ELSE n, m, f)
         /\ m > 0 => LET T == sq_clone(S, "v", -1)
                     IN  T.ok \in BOOLEAN /\ Level(T, b, n, IF T.ok THEN m + 1 ELSE m, f)
  <1> DEFINE o == New(S)
             h(v) == Clone(S.heap, v, o).heap
  <1>1. o \in Obj /\ S.heap[o] = Free
    BY FreshObject
  <1>2. \A vm \in VM : LET v == Up(S, vm, -1) IN
          sq_clone(S, vm, -1) = IF Type(S.heap, v) \in {"array", "table", "instance"}
                                  THEN Succeed(Push(WithHeap(S, h(v)), vm, Ref(o))) ELSE Fail(S)
    BY DEF sq_clone, WithHeap
  <1> HIDE DEF o
  <1>3. ASSUME NEW v \in LiveValue(S.heap), Type(S.heap, v) \in {"array", "table", "instance"}
        PROVE  /\ Level(Succeed(Push(WithHeap(S, h(v)), "gv", Ref(o))), b, n + 1, m, f)
               /\ Succeed(Push(WithHeap(S, h(v)), "gv", Ref(o))).ok = TRUE
               /\ Level(Succeed(Push(WithHeap(S, h(v)), "v", Ref(o))), b, n, m + 1, f)
               /\ Succeed(Push(WithHeap(S, h(v)), "v", Ref(o))).ok = TRUE
    <2> DEFINE p == WithHeap(S, h(v))
    <2>1. HeapSound(h(v)) /\ Grows(S.heap, h(v)) /\ Ref(o) \in LiveValue(h(v))
      BY <1>1, <1>3, LevelValues, CloneSound
    <2> HIDE DEF h
    <2>2. Level(p, b, n, m, f) /\ p.heap = h(v)
      BY <2>1, LevelHeap
    <2> HIDE DEF p
    <2>3. Level(Push(p, "gv", Ref(o)), b, n + 1, m, f) /\ Level(Push(p, "v", Ref(o)), b, n, m + 1, f)
      BY <2>1, <2>2, LevelPush, OtherPush
    <2>4. Level(Succeed(Push(p, "gv", Ref(o))), b, n + 1, m, f) /\ Succeed(Push(p, "gv", Ref(o))).ok = TRUE
      BY <2>3, LevelResult
    <2>5. Level(Succeed(Push(p, "v", Ref(o))), b, n, m + 1, f) /\ Succeed(Push(p, "v", Ref(o))).ok = TRUE
      BY <2>3, LevelResult
    <2> QED BY <2>4, <2>5 DEF p
  <1>4. Level(Fail(S), b, n, m, f) /\ Fail(S).ok = FALSE
    BY LevelResult
  <1> HIDE DEF h
  <1>5. ASSUME n > 0
        PROVE  LET T == sq_clone(S, "gv", -1)
               IN  T.ok \in BOOLEAN /\ Level(T, b, IF T.ok THEN n + 1 ELSE n, m, f)
    <2>1. Up(S, "gv", -1) \in LiveValue(S.heap)
      BY <1>5, LevelValues
    <2>2. CASE Type(S.heap, Up(S, "gv", -1)) \in {"array", "table", "instance"}
      BY <1>2, <1>3, <2>1, <2>2 DEF VM
    <2>3. CASE Type(S.heap, Up(S, "gv", -1)) \notin {"array", "table", "instance"}
      BY <1>2, <1>4, <2>3 DEF VM
    <2> QED BY <2>2, <2>3
  <1>6. ASSUME m > 0
        PROVE  LET T == sq_clone(S, "v", -1)
               IN  T.ok \in BOOLEAN /\ Level(T, b, n, IF T.ok THEN m + 1 ELSE m, f)
    <2>1. Up(S, "v", -1) \in LiveValue(S.heap)
      BY <1>6, LevelValues
    <2>2. CASE Type(S.heap, Up(S, "v", -1)) \in {"array", "table", "instance"}
      BY <1>2, <1>3, <2>1, <2>2 DEF VM
    <2>3. CASE Type(S.heap, Up(S, "v", -1)) \notin {"array", "table", "instance"}
      BY <1>2, <1>4, <2>3 DEF VM
    <2> QED BY <2>2, <2>3
  <1> QED BY <1>5, <1>6

\* What stands for a variable or an argument on the stack.
LEMMA LevelVariable ==
  ASSUME NEW S, NEW b, NEW n, NEW m, NEW f, Level(S, b, n, m, f), NEW i \in Infos
  PROVE  LET T == push(S, "gv", S.info[i])
         IN  /\ Level(T, b, n + 1, m, f) /\ Apart(T, S)
             /\ T.stack.gv = Append(S.stack.gv, RealVal(S.heap, f[i])) /\ T.stack.v = S.stack.v
             /\ Up(T, "gv", -1) = RealVal(S.heap, f[i])
             /\ RealVal(S.heap, f[i]) \in LiveValue(S.heap) /\ RealVal(S.heap, f[i])[1] # "weak"
  <1> DEFINE x == RealVal(S.heap, f[i])
             T == push(S, "gv", S.info[i])
  <1>1. S.info = f /\ f[i] \in LiveValue(S.heap) /\ S.stack.gv \in Seq(LiveValue(S.heap)) /\ HeapSound(S.heap)
    BY DEF Level, State
  <1>2. x[1] # "weak"
    BY <1>1, RealLive
  <1>3. /\ Level(T, b, n + 1, m, f) /\ Apart(T, S) /\ T.stack.gv = Append(S.stack.gv, x) /\ T.stack.v = S.stack.v
        /\ x \in LiveValue(S.heap)
    BY <1>1, LevelObject
  <1> HIDE DEF x, T
  <1>4. Up(T, "gv", -1) = x
    BY <1>1, <1>3, AppendSeq DEF Up
  <1> QED BY <1>2, <1>3, <1>4 DEF x, T

IsArgument(x) == x \in Plain \/ \E j \in Infos : x = Var(j)
Meant(S, x) == IF x[1] = "var" THEN RealVal(S.heap, S.info[x[2]]) ELSE x

LEMMA LevelArgument ==
  ASSUME NEW S, NEW b, NEW n, NEW m, NEW f, Level(S, b, n, m, f), NEW x, IsArgument(x)
  PROVE  LET T == pushValue(S, "gv", x)
         IN  /\ Level(T, b, n + 1, m, f) /\ Apart(T, S)
             /\ T.stack.gv = Append(S.stack.gv, Meant(S, x)) /\ T.stack.v = S.stack.v
             /\ Meant(S, x) \in LiveValue(S.heap) /\ Meant(S, x)[1] # "weak"
  <1> DEFINE T == pushValue(S, "gv", x)
  <1>1. CASE x \in Plain
    <2>1. x[1] # "var"
      BY <1>1 DEF Plain
    <2>2. T = Push(S, "gv", x)
      BY <2>1 DEF pushValue, sq_newclosure
    <2>3. Meant(S, x) = x
      BY <2>1 DEF Meant
    <2>4. x \in LiveValue(S.heap) /\ x[1] # "weak"
      BY <1>1, LevelValues, Values
    <2> HIDE DEF T
    <2>5. Level(T, b, n + 1, m, f) /\ Apart(T, S) /\ T.stack.gv = Append(S.stack.gv, x) /\ T.stack.v = S.stack.v
      BY <2>2, <2>4, LevelPush
    <2> QED BY <2>3, <2>4, <2>5 DEF T
  <1>2. CASE \E j \in Infos : x = Var(j)
    <2>1. PICK j \in Infos : x = Var(j)
      BY <1>2
    <2>2. T = push(S, "gv", S.info[j])
      BY <2>1 DEF pushValue, Var, Closure
    <2>3. Meant(S, x) = RealVal(S.heap, f[j])
      BY <2>1 DEF Meant, Var, Level
    <2> HIDE DEF T
    <2>4. /\ Level(T, b, n + 1, m, f) /\ Apart(T, S)
          /\ T.stack.gv = Append(S.stack.gv, RealVal(S.heap, f[j])) /\ T.stack.v = S.stack.v
          /\ RealVal(S.heap, f[j]) \in LiveValue(S.heap) /\ RealVal(S.heap, f[j])[1] # "weak"
      BY <2>2, LevelVariable
    <2> QED BY <2>3, <2>4 DEF T
  <1> QED BY <1>1, <1>2 DEF IsArgument

Keys == Key \cup {IntV(k) : k \in Int}

LEMMA LevelKey ==
  ASSUME NEW S, NEW b, NEW n, NEW m, NEW f, Level(S, b, n, m, f)
  PROVE  /\ \A key \in Keys : Level(Push(S, "gv", key), b, n + 1, m, f) /\ Apart(Push(S, "gv", key), S)
         /\ Level(sq_pushnull(S, "gv"), b, n + 1, m, f) /\ Apart(sq_pushnull(S, "gv"), S)
         /\ sq_pushnull(S, "gv").stack.gv = Append(S.stack.gv, Null)
         /\ sq_pushnull(S, "gv").stack.v = S.stack.v
  <1>1. HeapSound(S.heap)
    BY LevelValues
  <1>2. Keys \subseteq LiveValue(S.heap) /\ Null \in LiveValue(S.heap)
    BY <1>1, Constants DEF Keys
  <1>3. \A x \in LiveValue(S.heap) :
          /\ Level(Push(S, "gv", x), b, n + 1, m, f) /\ Apart(Push(S, "gv", x), S)
          /\ Push(S, "gv", x).stack.gv = Append(S.stack.gv, x) /\ Push(S, "gv", x).stack.v = S.stack.v
    BY LevelPush
  <1> QED BY <1>2, <1>3 DEF sq_pushnull

\* sq_call with two arguments.
LEMMA LevelCall ==
  ASSUME NEW S, NEW b, NEW n, NEW m, NEW f, Level(S, b, n, m, f), n > 2, NEW retval \in BOOLEAN,
         NEW result \in Outcome, Type(S.heap, Up(S, "gv", -3)) = "class" => Fresh(S) # {}
  PROVE  LET T == sq_call(S, "gv", 2, retval, result)
         IN  T.ok \in BOOLEAN /\ Level(T, b, IF T.ok /\ retval THEN n - 1 ELSE n - 2, m, f)
  <1> DEFINE c == Up(S, "gv", -3)
             o == New(S)
             g == NewInstance(S.heap, c[2], o)
             p == Pop(S, "gv", 2)
             k == n - 2
             q == WithHeap(p, g)
             T == sq_call(S, "gv", 2, retval, result)
  <1>0. n \in Nat
    BY LevelValues
  <1>1. c \in LiveValue(S.heap) /\ HeapSound(S.heap) /\ 2 \in 0 .. n /\ k + 1 = n - 1 /\ -(2 + 1) = -3
    BY <1>0, LevelValues
  <1>2. Level(p, b, k, m, f) /\ Apart(p, S)
    BY <1>1, LevelPop
  <1>3. ASSUME NEW r, Level(r, b, k, m, f), NEW x \in LiveValue(r.heap),
               T = Succeed(IF retval THEN Push(r, "gv", x) ELSE r)
        PROVE  T.ok \in BOOLEAN /\ Level(T, b, IF T.ok /\ retval THEN n - 1 ELSE n - 2, m, f)
    <2> HIDE DEF T, k
    <2>1. Level(Succeed(r), b, k, m, f) /\ Succeed(r).ok = TRUE
      BY <1>3, LevelResult
    <2>2. Level(Push(r, "gv", x), b, k + 1, m, f)
      BY <1>3, LevelPush
    <2>3. Level(Succeed(Push(r, "gv", x)), b, k + 1, m, f) /\ Succeed(Push(r, "gv", x)).ok = TRUE
      BY <2>2, LevelResult
    <2>4. CASE retval
      <3>1. T = Succeed(Push(r, "gv", x))
        BY <1>3, <2>4
      <3> QED BY <1>1, <2>3, <2>4, <3>1
    <2>5. CASE ~ retval
      <3>1. T = Succeed(r)
        BY <1>3, <2>5
      <3> QED BY <2>1, <2>5, <3>1 DEF k
    <2> QED BY <2>4, <2>5
  <1>4. CASE Type(S.heap, c) = "class"
    <2>1. c[2] \in Obj /\ S.heap[c[2]].type = "class"
      BY <1>1, <1>4, RefType
    <2>2. o \in Obj /\ S.heap[o] = Free
      BY <1>4, FreshObject
    <2>3. HeapSound(g) /\ Grows(S.heap, g) /\ Ref(o) \in LiveValue(g)
      BY <1>1, <2>1, <2>2, NewInstanceSound
    <2>4. Ref(o) # Failure
      BY DEF Ref, Failure
    <2>5. T = Succeed(IF retval THEN Push(q, "gv", Ref(o)) ELSE q)
      <3>1. q = [p EXCEPT !.heap = NewInstance(@, c[2], o)]
        BY <1>2 DEF WithHeap, Apart
      <3> QED BY <1>1, <1>4, <2>4, <3>1 DEF sq_call
    <2> HIDE DEF p, g, o, c, k
    <2>6. Level(q, b, k, m, f) /\ q.heap = g
      BY <1>2, <2>3, LevelHeap DEF Apart
    <2> HIDE DEF q
    <2> QED BY <1>3, <2>3, <2>5, <2>6
  <1>5. CASE Type(S.heap, c) = "closure" /\ result # Failure
    <2>1. T = Succeed(IF retval THEN Push(p, "gv", result) ELSE p)
      BY <1>1, <1>5 DEF sq_call
    <2>2. result \in LiveValue(p.heap)
      <3>1. result = Null
        BY <1>5 DEF Outcome
      <3>2. HeapSound(p.heap)
        BY <1>1, <1>2 DEF Apart
      <3> QED BY <3>1, <3>2, Constants
    <2> HIDE DEF p, k
    <2> QED BY <1>2, <1>3, <2>1, <2>2
  <1>6. CASE Type(S.heap, c) # "class" /\ ~ (Type(S.heap, c) = "closure" /\ result # Failure)
    <2>1. T = Fail(p)
      BY <1>1, <1>6 DEF sq_call
    <2> HIDE DEF p, k, T
    <2>2. Level(Fail(p), b, k, m, f) /\ Fail(p).ok = FALSE
      BY <1>2, LevelResult
    <2>3. T.ok = FALSE /\ Level(T, b, n - 2, m, f)
      BY <2>1, <2>2 DEF k
    <2> QED BY <2>3 DEF T
  <1> QED BY <1>4, <1>5, <1>6

\* sq_next: the position below the key and the value is a number.
LEMMA LevelNext ==
  ASSUME NEW S, NEW b, NEW n, NEW m, NEW f, Level(S, b, n, m, f), n > 0,
         Up(S, "gv", -1)[2] \in Nat, Up(S, "gv", -2) \in LiveValue(S.heap)
  PROVE  LET T == sq_next(S, "gv", -2)
             t == NextTurn(S.heap, Up(S, "gv", -2), Up(S, "gv", -1)[2])
         IN  /\ T.ok \in BOOLEAN /\ T.left = S.left /\ T.heap = S.heap /\ T.stack.v = S.stack.v
             /\ ~ T.ok => Level(T, b, n, m, f) /\ t = NoTurn
             /\ T.ok => /\ Level(T, b, n + 2, m, f) /\ t # NoTurn
                        /\ \E at \in Nat : T.stack.gv[Len(S.stack.gv)] = IntV(at)
                        /\ T.stack.gv[Len(S.stack.gv)] = IntV(t.at) /\ Up(T, "gv", -2) = t.key
  <1> DEFINE at == Up(S, "gv", -1)[2]
             t == NextTurn(S.heap, Up(S, "gv", -2), at)
             s == PutAt(S.stack.gv, Len(S.stack.gv), IntV(t.at))
             p == WithStack(S, "gv", s)
             q == Push(p, "gv", t.key)
             r == Push(q, "gv", t.val)
             T == sq_next(S, "gv", -2)
  <1>1. HeapSound(S.heap) /\ S.stack.gv \in Seq(LiveValue(S.heap)) /\ n \in Nat /\ S.left \in Nat /\ Len(b) \in Nat
        /\ Len(S.stack.gv) = Len(b) + n + S.left
    BY DEF Level, State
  <1>2. CASE t = NoTurn
    <2>1. T = Fail(S)
      BY <1>2 DEF sq_next
    <2>2. Level(Fail(S), b, n, m, f) /\ Fail(S).ok = FALSE /\ Fail(S).stack = S.stack /\ Apart(Fail(S), S)
      BY LevelResult
    <2> HIDE DEF T
    <2>3. Level(T, b, n, m, f) /\ T.ok = FALSE /\ T.left = S.left /\ T.heap = S.heap /\ T.stack.v = S.stack.v
      BY <2>1, <2>2 DEF Apart
    <2> QED BY <1>2, <2>3 DEF T, t, at
  <1>3. CASE t # NoTurn
    <2>1. T = Succeed(r)
      BY <1>3 DEF sq_next, WithStack, PutAt
    <2>2. t.at \in Nat /\ t.key \in LiveValue(S.heap) /\ t.val \in LiveValue(S.heap)
      BY <1>1, <1>3, NextTurnLive
    <2>3. IntV(t.at) \in LiveValue(S.heap)
      BY <1>1, <2>2, Constants
    <2> HIDE DEF t, at
    <2>4. s \in Seq(LiveValue(S.heap)) /\ Len(s) = Len(S.stack.gv)
      BY <1>1, <2>3, ReplacedSeq
    <2>5. s[Len(S.stack.gv)] = IntV(t.at) /\ \A k \in 1 .. Len(b) : s[k] = S.stack.gv[k]
      BY <1>1 DEF PutAt
    <2> HIDE DEF s
    <2>6. Level(p, b, n, m, f) /\ Apart(p, S) /\ p.stack.gv = s /\ p.stack.v = S.stack.v
      BY <1>1, <2>4, <2>5, LevelStack
    <2> HIDE DEF p
    <2>7. Level(q, b, n + 1, m, f) /\ Apart(q, p) /\ q.stack.gv = Append(s, t.key) /\ q.stack.v = S.stack.v
      BY <2>2, <2>6, LevelPush DEF Apart
    <2> HIDE DEF q
    <2>8. t.val \in LiveValue(q.heap)
      BY <2>2, <2>6, <2>7 DEF Apart
    <2>9. Level(r, b, n + 1 + 1, m, f) /\ Apart(r, q) /\ r.stack.gv = Append(q.stack.gv, t.val) /\ r.stack.v = S.stack.v
      BY <2>7, <2>8, LevelPush
    <2> HIDE DEF r
    <2>10. Level(Succeed(r), b, n + 1 + 1, m, f) /\ Succeed(r).ok = TRUE /\ Succeed(r).stack = r.stack /\ Apart(Succeed(r), r)
      BY <2>9, LevelResult
    <2>11. Append(Append(s, t.key), t.val)[Len(s)] = s[Len(s)]
      <3>1. Append(s, t.key) \in Seq(LiveValue(S.heap)) /\ Len(Append(s, t.key)) = Len(s) + 1
            /\ Append(s, t.key)[Len(s)] = s[Len(s)] /\ Len(s) \in Nat \ {0}
        <4>1. Len(s) \in 1 .. Len(s)
          BY <1>1, <2>4
        <4> QED BY <2>2, <2>4, <4>1, AppendSeq
      <3> QED BY <2>2, <3>1, AppendSeq
    <2>12. n + 1 + 1 = n + 2
      BY <1>1
    <2>16. Up(Succeed(r), "gv", -2) = t.key
      <3>1. Append(s, t.key) \in Seq(LiveValue(S.heap)) /\ Len(Append(s, t.key)) = Len(s) + 1
            /\ Append(s, t.key)[Len(s) + 1] = t.key /\ Len(s) \in Nat
        BY <2>2, <2>4, AppendSeq
      <3>2. Len(Append(Append(s, t.key), t.val)) = Len(s) + 2
            /\ Append(Append(s, t.key), t.val)[Len(s) + 1] = t.key
        <4>1. Len(s) + 1 \in 1 .. Len(Append(s, t.key))
          BY <3>1
        <4> QED BY <2>2, <3>1, <4>1, AppendSeq
      <3>3. Succeed(r).stack.gv = Append(Append(s, t.key), t.val)
        BY <2>7, <2>9, <2>10
      <3>4. Len(s) + 2 + 1 + (-2) = Len(s) + 1
        BY <3>1
      <3> QED BY <3>2, <3>3, <3>4 DEF Up
    <2> HIDE DEF T
    <2>13. Level(T, b, n + 2, m, f)
      BY <2>1, <2>10, <2>12
    <2>14. T.ok = TRUE /\ T.stack.gv[Len(S.stack.gv)] = IntV(t.at) /\ T.stack.v = S.stack.v
      BY <2>1, <2>4, <2>5, <2>7, <2>9, <2>10, <2>11
    <2>15. T.left = S.left /\ T.heap = S.heap
      BY <2>1, <2>6, <2>7, <2>9, <2>10 DEF Apart
    <2>17. Up(T, "gv", -2) = t.key
      BY <2>1, <2>16
    <2> QED BY <1>3, <2>2, <2>13, <2>14, <2>15, <2>17 DEF T, t, at
  <1> QED BY <1>2, <1>3

-----------------------------------------------------------------------------
\* What each method does to the level.  A method that keeps to its variables leaves
\* no local one behind.

Neat(T, b, f) == \E m, g : Level(T, b, 0, m, g) /\ \A l \in Local : g[l] = f[l]

LEMMA NeatSame ==
  ASSUME NEW T, NEW b, NEW m, NEW f, Level(T, b, 0, m, f)
  PROVE  Neat(T, b, f)
  BY DEF Neat

LEMMA NeatAssigned ==
  ASSUME NEW T, NEW b, NEW m, NEW f, NEW i \in Info, NEW x, Level(T, b, 0, m, Assigned(f, i, x))
  PROVE  Neat(T, b, f)
  <1>1. \A l \in Local : Assigned(f, i, x)[l] = f[l]
    <2>1. i \notin Local
      BY InfoAssumption DEF InfoAssumption
    <2>2. DOMAIN Assigned(f, i, x) = DOMAIN f
      BY DEF Assigned
    <2> QED BY <2>1 DEF Assigned
  <1> QED BY <1>1 DEF Neat

\* Popping from a known level.
LEMMA LevelPopped ==
  ASSUME NEW S, NEW b, NEW n, NEW m, NEW f, Level(S, b, n, m, f)
  PROVE  /\ n > 0 => Level(sq_pop(S, "gv", 1), b, n - 1, m, f) /\ Apart(sq_pop(S, "gv", 1), S) /\ sq_pop(S, "gv", 1).ok = S.ok
         /\ n > 1 => Level(sq_pop(S, "gv", 2), b, n - 2, m, f) /\ Apart(sq_pop(S, "gv", 2), S) /\ sq_pop(S, "gv", 2).ok = S.ok
  <1>1. n \in Nat
    BY LevelValues
  <1>2. (n > 0 => 1 \in 0 .. n) /\ (n > 1 => 2 \in 0 .. n)
    BY <1>1
  <1> QED BY <1>2, LevelPop DEF sq_pop

LEMMA AssignedTwice ==
  ASSUME NEW f, NEW i, NEW x, NEW y
  PROVE  Assigned(Assigned(f, i, x), i, y) = Assigned(f, i, y)
  BY DEF Assigned

LEMMA Cleared ==
  ASSUME NEW S, NEW b, NEW n, NEW m, NEW f, Level(S, b, n, m, f), NEW i \in Infos, NEW x
  PROVE  Assigned(f, i, x)[i] = x /\ \A j \in Infos : j # i => Assigned(f, i, x)[j] = f[j]
  BY DEF Level, State, Assigned

LEMMA LevelGetStack ==
  ASSUME NEW S, NEW b, NEW n, NEW m, NEW f, Level(S, b, n, m, f), NEW i \in Infos,
         NEW vm \in VM, NEW idx \in Int, Up(S, vm, idx) \in LiveValue(S.heap)
  PROVE  LET T == getStack(S, i, vm, idx)
         IN  Level(T, b, n, m, Assigned(f, i, Up(S, vm, idx))) /\ T.heap = S.heap /\ T.ok = S.ok
             /\ T.stack.gv = S.stack.gv
  <1> DEFINE c == clear(S, i)
             g == Assigned(f, i, Null)
             T == getStack(S, i, vm, idx)
  <1>1. Level(c, b, n, m, g) /\ c.heap = S.heap /\ c.stack = S.stack /\ c.ok = S.ok
    BY LevelClear
  <1>2. g[i] = Null
    BY Cleared
  <1>3. T = ObjectInfo(c, i, vm, idx)
    BY DEF getStack
  <1> HIDE DEF c, T
  <1>4. Up(c, vm, idx) = Up(S, vm, idx)
    BY <1>1 DEF Up
  <1>5. Assigned(g, i, Up(S, vm, idx)) = Assigned(f, i, Up(S, vm, idx))
    BY AssignedTwice
  <1> HIDE DEF g
  <1>6. Level(T, b, n, m, Assigned(g, i, Up(c, vm, idx))) /\ T.heap = c.heap /\ T.ok = c.ok /\ T.stack.gv = c.stack.gv
    BY <1>1, <1>2, <1>3, <1>4, LevelObjectInfo
  <1> QED BY <1>1, <1>4, <1>5, <1>6 DEF T

\* getStackWeak, of the argument of a native function.
LEMMA NeatGetStackWeak ==
  ASSUME NEW S, NEW b, NEW m, NEW f, Level(S, b, 0, m, f), m > 0, NEW i \in Info
  PROVE  Neat(getStackWeak(S, i, "v", -1), b, f)
  <1> DEFINE c == clear(S, i)
             g == Assigned(f, i, Null)
             w == sq_weakref(c, "v", -1)
             x == Up(w, "v", -1)
             p == Push(w, "gv", x)
             q == Pop(p, "v", 1)
             t == TakeTop(q, i)
             k == m + 1
  <1>0. i \in Infos /\ m \in Nat
    BY LevelValues DEF Infos
  <1>1. Level(c, b, 0, m, g) /\ g[i] = Null
    BY <1>0, LevelClear, Cleared
  <1>2. getStackWeak(S, i, "v", -1) = sq_pop(t, "gv", 1)
    BY DEF getStackWeak, sq_move, sq_pop
  <1> HIDE DEF c
  <1>3. Level(w, b, 0, m + 1, g)
    BY <1>1, LevelWeakRef
  <1> HIDE DEF w
  <1>4. x \in LiveValue(w.heap)
    <2>1. m + 1 > 0
      BY <1>0
    <2> QED BY <1>3, <2>1, LevelValues
  <1> HIDE DEF x
  <1>5. Level(p, b, 1, k, g)
    <2>1. 0 + 1 = 1
      OBVIOUS
    <2> QED BY <1>3, <1>4, <2>1, LevelPush
  <1> HIDE DEF p
  <1>6. Level(q, b, 1, k - 1, g)
    <2>1. 1 \in 0 .. k
      BY <1>0
    <2> HIDE DEF k
    <2> QED BY <1>5, <2>1, OtherPop
  <1> HIDE DEF q
  <1>7. Level(t, b, 1, k - 1, Assigned(g, i, Up(q, "gv", -1)))
    BY <1>0, <1>1, <1>6, LevelTake
  <1> HIDE DEF t
  <1>8. Level(sq_pop(t, "gv", 1), b, 0, k - 1, Assigned(g, i, Up(q, "gv", -1)))
    <2>1. 1 - 1 = 0 /\ 1 > 0
      OBVIOUS
    <2> QED BY <1>7, <2>1, LevelPopped
  <1> QED BY <1>2, <1>8, AssignedTwice, NeatAssigned

LEMMA NeatGetWeak ==
  ASSUME NEW S, NEW b, NEW m, NEW f, Level(S, b, 0, m, f), NEW i \in Info, NEW j \in Infos
  PROVE  Neat(getWeak(S, i, j), b, f) /\ Neat(getStrong(S, i, j), b, f)
  <1> DEFINE c == clear(S, i)
             g == Assigned(f, i, Null)
             p == push(c, "gv", c.info[j])
             w == sq_weakref(p, "gv", -1)
             t == TakeTop(w, i)
             u == TakeTop(p, i)
  <1>0. i \in Infos
    BY DEF Infos
  <1>1. Level(c, b, 0, m, g) /\ g[i] = Null
    BY <1>0, LevelClear, Cleared
  <1>2. getWeak(S, i, j) = sq_pop(t, "gv", 2) /\ getStrong(S, i, j) = sq_pop(u, "gv", 1)
    BY DEF getWeak, getStrong
  <1> HIDE DEF c
  <1>3. Level(p, b, 1, m, g)
    <2>1. 0 + 1 = 1
      OBVIOUS
    <2> QED BY <1>1, <2>1, LevelVariable
  <1> HIDE DEF p
  <1>4. Level(w, b, 2, m, g)
    <2>1. 1 + 1 = 2 /\ 1 > 0
      OBVIOUS
    <2> QED BY <1>3, <2>1, LevelWeakRef
  <1> HIDE DEF w
  <1>5. Level(t, b, 2, m, Assigned(g, i, Up(w, "gv", -1)))
    BY <1>0, <1>1, <1>4, LevelTake
  <1>6. Level(u, b, 1, m, Assigned(g, i, Up(p, "gv", -1)))
    BY <1>0, <1>1, <1>3, LevelTake
  <1> HIDE DEF t, u
  <1>7. Level(sq_pop(t, "gv", 2), b, 0, m, Assigned(g, i, Up(w, "gv", -1)))
    <2>1. 2 - 2 = 0 /\ 2 > 1
      OBVIOUS
    <2> QED BY <1>5, <2>1, LevelPopped
  <1>8. Level(sq_pop(u, "gv", 1), b, 0, m, Assigned(g, i, Up(p, "gv", -1)))
    <2>1. 1 - 1 = 0 /\ 1 > 0
      OBVIOUS
    <2> QED BY <1>6, <2>1, LevelPopped
  <1> QED BY <1>2, <1>7, <1>8, AssignedTwice, NeatAssigned

\* A result in "ret" is returned.
LEMMA LevelReturn ==
  ASSUME NEW S, NEW b, NEW n, NEW m, NEW f, Level(S, b, n, m, f), NEW i \in Info
  PROVE  Level(Return(S, i), b, n, m, Assigned(Assigned(f, i, f["ret"]), "ret", Null))
  <1>1. i \in Infos /\ "ret" \in Infos /\ i # "ret"
    BY InfoAssumption DEF Infos, Local, InfoAssumption
  <1>2. Level(assign(S, i, "ret"), b, n, m, Assigned(f, i, f["ret"]))
    BY <1>1, LevelAssign
  <1> QED BY <1>1, <1>2, LevelClear DEF Return

\* A result that "ret" had while it was empty before.
LEMMA NeatReturn ==
  ASSUME NEW S, NEW b, NEW m, NEW f, NEW x, f["ret"] = Null, DOMAIN f = Infos,
         Level(S, b, 0, m, Assigned(f, "ret", x)), NEW i \in Info
  PROVE  Neat(Return(S, i), b, f)
  <1> DEFINE h == Assigned(f, "ret", x)
             g == Assigned(Assigned(h, i, h["ret"]), "ret", Null)
  <1>1. Level(Return(S, i), b, 0, m, g)
    BY LevelReturn
  <1>2. i \notin Local /\ "ret" \in Infos /\ Local \subseteq Infos /\ i \in Infos
    BY InfoAssumption DEF InfoAssumption, Infos, Local
  <1>3. \A l \in Local : g[l] = f[l]
    BY <1>2 DEF Assigned
  <1> HIDE DEF g
  <1> QED BY <1>1, <1>3 DEF Neat

\* The value on top becomes what variable i holds.
LEMMA NeatTaken ==
  ASSUME NEW S, NEW b, NEW m, NEW f, Level(S, b, 1, m, f), NEW i \in Infos, f[i] = Null
  PROVE  \E x : Level(sq_pop(TakeTop(S, i), "gv", 1), b, 0, m, Assigned(f, i, x))
  <1> DEFINE x == Up(S, "gv", -1)
             t == TakeTop(S, i)
  <1>1. Level(t, b, 1, m, Assigned(f, i, x))
    BY LevelTake
  <1> HIDE DEF t, x
  <1>2. Level(sq_pop(t, "gv", 1), b, 1 - 1, m, Assigned(f, i, x))
    BY <1>1, LevelPopped
  <1> QED BY <1>2 DEF t

LEMMA NeatInitArray ==
  ASSUME NEW S, NEW b, NEW m, NEW f, Level(S, b, 0, m, f), Fresh(S) # {}, NEW i \in Info, NEW n \in Nat
  PROVE  Neat(initArray(S, i, n), b, f) /\ Neat(initTable(S, i), b, f)
  <1> DEFINE c == clear(S, i)
             g == Assigned(f, i, Null)
             p == Make(c, "gv", NewArray([j \in 1 .. n |-> Null]))
             q == Make(c, "gv", NewTable(Nobody))
  <1>0. i \in Infos
    BY DEF Infos
  <1>1. Level(c, b, 0, m, g) /\ g[i] = Null /\ Fresh(c) # {}
    BY <1>0, LevelClear, Cleared, FreshClear
  <1>2. initArray(S, i, n) = sq_pop(TakeTop(p, i), "gv", 1) /\ initTable(S, i) = sq_pop(TakeTop(q, i), "gv", 1)
    BY DEF initArray, initTable, sq_newarray, sq_newtable
  <1> HIDE DEF c, g
  <1>3. HeapSound(c.heap)
    BY <1>1, LevelValues
  <1>4. Level(p, b, 0 + 1, m, g)
    BY <1>1, <1>3, ArrayMade, LevelMake
  <1>5. Level(q, b, 0 + 1, m, g)
    BY <1>1, <1>3, TableMade, LevelMake
  <1> HIDE DEF p, q
  <1>6. \E x : Level(sq_pop(TakeTop(p, i), "gv", 1), b, 0, m, Assigned(g, i, x))
    BY <1>0, <1>1, <1>4, NeatTaken
  <1>7. \E x : Level(sq_pop(TakeTop(q, i), "gv", 1), b, 0, m, Assigned(g, i, x))
    BY <1>0, <1>1, <1>5, NeatTaken
  <1> QED BY <1>2, <1>6, <1>7, AssignedTwice, NeatAssigned DEF g

LEMMA PopOne ==
  ASSUME NEW S, NEW b, NEW n, NEW m, NEW f, Level(S, b, n, m, f), n > 0
  PROVE  /\ Level(Pop(S, "gv", 1), b, n - 1, m, f) /\ Apart(Pop(S, "gv", 1), S)
         /\ Pop(S, "gv", 1).stack.gv = SubSeq(S.stack.gv, 1, Len(S.stack.gv) - 1)
         /\ Pop(S, "gv", 1).stack.v = S.stack.v
  <1>1. n \in Nat
    BY LevelValues
  <1>2. 1 \in 0 .. n
    BY <1>1
  <1> QED BY <1>2, LevelPop

LEMMA PopPush ==
  ASSUME NEW S, NEW b, NEW n, NEW m, NEW f, Level(S, b, n, m, f), NEW x \in LiveValue(S.heap)
  PROVE  Fresh(S) \subseteq Fresh(Pop(Push(S, "gv", x), "gv", 1))
  <1> DEFINE p == Push(S, "gv", x)
             k == n + 1
             T == Pop(p, "gv", 1)
  <1>1. n \in Nat /\ S.stack.gv \in Seq(LiveValue(S.heap))
    BY DEF Level, State
  <1>2. k > 0
    BY <1>1
  <1>3. Level(p, b, k, m, f) /\ Apart(p, S) /\ p.stack.gv = Append(S.stack.gv, x) /\ p.stack.v = S.stack.v
    BY LevelPush
  <1>9. T = Pop(p, "gv", 1)
    OBVIOUS
  <1> HIDE DEF p, k, T
  <1>4. /\ Level(Pop(p, "gv", 1), b, k - 1, m, f) /\ Apart(Pop(p, "gv", 1), p)
        /\ Pop(p, "gv", 1).stack.gv = SubSeq(p.stack.gv, 1, Len(p.stack.gv) - 1)
        /\ Pop(p, "gv", 1).stack.v = p.stack.v
    BY <1>2, <1>3, PopOne
  <1>5. SubSeq(p.stack.gv, 1, Len(p.stack.gv) - 1) = S.stack.gv
    BY <1>1, <1>3
  <1>6. T.heap = S.heap /\ T.refs = S.refs /\ T.stack.gv = S.stack.gv /\ T.stack.v = S.stack.v
    BY <1>3, <1>4, <1>5, <1>9 DEF Apart
  <1>7. IsMachine(S) /\ IsMachine(T) /\ DOMAIN S.refs = Held
    BY <1>4, <1>9 DEF Level, State, RefsExact
  <1>8. Fresh(S) \subseteq Fresh(T)
    BY <1>6, <1>7, FreshKept
  <1> QED BY <1>8 DEF T, p

LEMMA NeatTemplate ==
  ASSUME NEW S, NEW b, NEW m, NEW f, Level(S, b, 0, m, f), Fresh(S) # {}, NEW i \in Info, NEW j \in Infos
  PROVE  Neat(SQTemplate(S, i, j), b, f)
  <1> DEFINE v == S.info[j]
             o == Push(S, "gv", v)
             p == IF v = Null THEN sq_newclass(S, "gv", FALSE) ELSE sq_newclass(o, "gv", TRUE)
             c == clear(p, i)
             g == Assigned(f, i, Null)
  <1>0. i \in Infos
    BY DEF Infos
  <1>1. SQTemplate(S, i, j) = sq_pop(TakeTop(c, i), "gv", 1)
    BY DEF SQTemplate, sq_pushobject
  <1>2. v \in LiveValue(S.heap)
    BY DEF Level, State
  <1>3. Level(p, b, 1, m, f)
    <2> HIDE DEF v
    <2>1. Level(sq_newclass(S, "gv", FALSE), b, 0 + 1, m, f)
      BY LevelNewClass
    <2>2. Level(o, b, 0 + 1, m, f)
      BY <1>2, LevelPush
    <2>3. Fresh(Pop(o, "gv", 1)) # {}
      BY <1>2, PopPush
    <2>4. p = IF v = Null THEN sq_newclass(S, "gv", FALSE) ELSE sq_newclass(o, "gv", TRUE)
      OBVIOUS
    <2> HIDE DEF o, p
    <2>8. 0 + 1 = 1 /\ 1 > 0
      OBVIOUS
    <2>5. Level(o, b, 1, m, f) /\ Level(sq_newclass(S, "gv", FALSE), b, 1, m, f)
      BY <2>1, <2>2, <2>8
    <2>7. Type(o.heap, Up(o, "gv", -1)) = "class" => Fresh(Pop(o, "gv", 1)) # {}
      BY <2>3
    <2>6. Level(sq_newclass(o, "gv", TRUE), b, 1, m, f)
      BY <2>5, <2>7, <2>8, LevelSubclass
    <2> QED BY <2>4, <2>5, <2>6
  <1> HIDE DEF p
  <1>4. Level(c, b, 1, m, g) /\ g[i] = Null
    BY <1>0, <1>3, LevelClear, Cleared
  <1> HIDE DEF c, g
  <1>5. \E x : Level(sq_pop(TakeTop(c, i), "gv", 1), b, 0, m, Assigned(g, i, x))
    BY <1>0, <1>4, NeatTaken
  <1> QED BY <1>1, <1>5, AssignedTwice, NeatAssigned DEF g

\* clone: one more value on the stack, or null in its place.
LEMMA NeatClone ==
  ASSUME NEW S, NEW b, NEW m, NEW f, Level(S, b, 0, m, f), f["ret"] = Null, Fresh(S) # {},
         NEW i \in Info, NEW j \in Infos
  PROVE  Neat(clone(S, i, j), b, f)
  <1> DEFINE o == push(S, "gv", S.info[j])
             c == sq_clone(o, "gv", -1)
             p == IF c.ok THEN c ELSE sq_pushnull(c, "gv")
             r == ObjectInfo(p, "ret", "gv", -1)
             x == Up(p, "gv", -1)
             q == sq_pop(r, "gv", 2)
  <1>0. "ret" \in Infos /\ DOMAIN f = Infos
    BY DEF Infos, Local, Level, State
  <1>1. clone(S, i, j) = Return(q, i)
    BY DEF clone
  <1>2. Level(o, b, 1, m, f) /\ Fresh(o) # {}
    <2>1. /\ Level(o, b, 0 + 1, m, f) /\ Apart(o, S) /\ o.stack.gv = Append(S.stack.gv, RealVal(S.heap, f[j]))
          /\ o.stack.v = S.stack.v /\ RealVal(S.heap, f[j])[1] # "weak"
      BY LevelVariable
    <2> HIDE DEF o
    <2>2. Fresh(S) \subseteq Fresh(o)
      BY <2>1, FreshApart
    <2> QED BY <2>1, <2>2
  <1> HIDE DEF o
  <1>3. c.ok \in BOOLEAN /\ Level(c, b, IF c.ok THEN 1 + 1 ELSE 1, m, f)
    BY <1>2, LevelClone
  <1> HIDE DEF c
  <1>4. Level(p, b, 2, m, f)
    <2>1. CASE c.ok
      BY <1>3, <2>1
    <2>2. CASE ~ c.ok
      <3>1. Level(c, b, 1, m, f)
        BY <1>3, <2>2
      <3>2. Level(sq_pushnull(c, "gv"), b, 1 + 1, m, f)
        BY <3>1, LevelKey
      <3> QED BY <2>2, <3>2
    <2> QED BY <1>3, <2>1, <2>2
  <1> HIDE DEF p
  <1>5. x \in LiveValue(p.heap)
    BY <1>4, LevelValues
  <1>6. Level(r, b, 2, m, Assigned(f, "ret", x))
    BY <1>0, <1>4, <1>5, LevelObjectInfo DEF VM
  <1> HIDE DEF r, x
  <1>7. Level(q, b, 2 - 2, m, Assigned(f, "ret", x))
    BY <1>6, LevelPopped
  <1> HIDE DEF q
  <1> QED BY <1>0, <1>1, <1>7, NeatReturn

LEMMA NeatPushClone ==
  ASSUME NEW S, NEW b, NEW m, NEW f, Level(S, b, 0, m, f), Fresh(S) # {}, NEW j \in Infos
  PROVE  Neat(pushClone(S, "v", j), b, f)
  <1> DEFINE o == push(S, "v", S.info[j])
             c == sq_clone(o, "v", -1)
             p == IF c.ok THEN c ELSE sq_pushnull(c, "v")
             y == RealVal(S.heap, S.info[j])
  <1>0. S.info[j] \in LiveValue(S.heap) /\ HeapSound(S.heap) /\ m \in Nat
    BY DEF Level, State
  <1>1. pushClone(S, "v", j) = sq_remove(p, "v", -2)
    BY DEF pushClone
  <1>2. Level(o, b, 0, m + 1, f) /\ Fresh(o) # {}
    <2>1. /\ Level(o, b, 0, m + 1, f) /\ Apart(o, S) /\ o.stack.v = Append(S.stack.v, y)
          /\ o.stack.gv = S.stack.gv
      BY <1>0, OtherObject
    <2>2. y[1] # "weak"
      BY <1>0, RealLive
    <2> HIDE DEF o, y
    <2>3. Fresh(S) \subseteq Fresh(o)
      BY <2>1, <2>2, FreshApart
    <2> QED BY <2>1, <2>3
  <1> HIDE DEF o, y
  <1>3. c.ok \in BOOLEAN /\ Level(c, b, 0, IF c.ok THEN m + 1 + 1 ELSE m + 1, f)
    <2>1. m + 1 > 0
      BY <1>0
    <2> QED BY <1>2, <2>1, LevelClone
  <1> HIDE DEF c
  <1>4. Level(p, b, 0, m + 1 + 1, f)
    <2>1. CASE c.ok
      BY <1>3, <2>1
    <2>2. CASE ~ c.ok
      <3>1. Level(c, b, 0, m + 1, f)
        BY <1>3, <2>2
      <3>2. Null \in LiveValue(c.heap)
        BY <3>1, LevelValues, Constants
      <3>3. Level(sq_pushnull(c, "v"), b, 0, m + 1 + 1, f)
        BY <3>1, <3>2, OtherPush DEF sq_pushnull
      <3> QED BY <2>2, <3>3
    <2> QED BY <1>3, <2>1, <2>2
  <1> HIDE DEF p
  <1>5. Level(sq_remove(p, "v", -2), b, 0, m + 1 + 1 - 1, f)
    <2> DEFINE k == m + 1 + 1
    <2>1. k >= 2
      BY <1>0
    <2> HIDE DEF k
    <2>2. Level(p, b, 0, k, f)
      BY <1>4 DEF k
    <2>3. Level(sq_remove(p, "v", -2), b, 0, k - 1, f)
      BY <2>1, <2>2, OtherRemove
    <2>4. k - 1 = m + 1 + 1 - 1
      BY <1>0 DEF k
    <2> QED BY <2>3, <2>4
  <1> QED BY <1>1, <1>5, NeatSame

\* The stack a few values above b, and what the calls leave of it.
LEMMA Depths ==
  /\ 0 + 1 = 1 /\ 1 + 1 = 2 /\ 2 + 1 = 3 /\ 1 > 0 /\ 2 > 0 /\ 2 > 1 /\ 3 > 2
  /\ 1 - 1 = 0 /\ 2 - 1 = 1 /\ 2 - 2 = 0 /\ 3 - 2 = 1 /\ 3 - 1 = 2
  OBVIOUS

LEMMA PopLast ==
  ASSUME NEW S, NEW b, NEW m, NEW f
  PROVE  /\ Level(S, b, 1, m, f) => Level(sq_pop(S, "gv", 1), b, 0, m, f)
         /\ Level(S, b, 2, m, f) => Level(sq_pop(S, "gv", 1), b, 1, m, f) /\ Level(sq_pop(S, "gv", 2), b, 0, m, f)
  <1>1. ASSUME Level(S, b, 1, m, f)
        PROVE  Level(sq_pop(S, "gv", 1), b, 0, m, f)
    <2>1. Level(sq_pop(S, "gv", 1), b, 1 - 1, m, f)
      BY <1>1, LevelPopped, Depths
    <2> QED BY <2>1, Depths
  <1>2. ASSUME Level(S, b, 2, m, f)
        PROVE  Level(sq_pop(S, "gv", 1), b, 1, m, f) /\ Level(sq_pop(S, "gv", 2), b, 0, m, f)
    <2>1. Level(sq_pop(S, "gv", 1), b, 2 - 1, m, f) /\ Level(sq_pop(S, "gv", 2), b, 2 - 2, m, f)
      BY <1>2, LevelPopped, Depths
    <2> QED BY <2>1, Depths
  <1> QED BY <1>1, <1>2

LEMMA AboveOne ==
  ASSUME NEW S, NEW b, NEW m, NEW f, Level(S, b, 0, m, f), NEW i \in Infos
  PROVE  LET p == push(S, "gv", S.info[i])
         IN  Level(p, b, 1, m, f) /\ p.heap = S.heap /\ p.info = f
  <1>1. LET p == push(S, "gv", S.info[i]) IN Level(p, b, 0 + 1, m, f) /\ Apart(p, S)
    BY LevelVariable
  <1>2. S.info = f
    BY DEF Level
  <1> QED BY <1>1, <1>2, Depths DEF Apart

LEMMA AboveTwo ==
  ASSUME NEW S, NEW b, NEW m, NEW f, Level(S, b, 0, m, f), NEW i \in Infos
  PROVE  /\ \A x : IsArgument(x) => Level(pushValue(push(S, "gv", S.info[i]), "gv", x), b, 2, m, f)
         /\ \A key \in Keys : Level(Push(push(S, "gv", S.info[i]), "gv", key), b, 2, m, f)
  <1> DEFINE p == push(S, "gv", S.info[i])
  <1>1. Level(p, b, 1, m, f)
    BY AboveOne
  <1> HIDE DEF p
  <1>2. \A x : IsArgument(x) => Level(pushValue(p, "gv", x), b, 1 + 1, m, f)
    BY <1>1, LevelArgument
  <1>3. \A key \in Keys : Level(Push(p, "gv", key), b, 1 + 1, m, f)
    BY <1>1, LevelKey
  <1> QED BY <1>2, <1>3, Depths DEF p

LEMMA AboveThree ==
  ASSUME NEW S, NEW b, NEW m, NEW f, Level(S, b, 0, m, f), NEW i \in Infos, NEW key \in Keys, NEW x, IsArgument(x)
  PROVE  Level(pushValue(Push(push(S, "gv", S.info[i]), "gv", key), "gv", x), b, 3, m, f)
  <1> DEFINE p == Push(push(S, "gv", S.info[i]), "gv", key)
  <1>1. Level(p, b, 2, m, f)
    BY AboveTwo
  <1> HIDE DEF p
  <1>2. Level(pushValue(p, "gv", x), b, 2 + 1, m, f)
    BY <1>1, LevelArgument
  <1> QED BY <1>2, Depths DEF p

LEMMA CallsAtTwo ==
  ASSUME NEW S, NEW b, NEW m, NEW f, Level(S, b, 2, m, f)
  PROVE  /\ Level(sq_arrayappend(S, "gv", -2), b, 1, m, f)
         /\ \A k : Level(sq_arrayinsert(S, "gv", -2, k), b, 1, m, f)
         /\ \A all : \A T \in sq_arrayremovevalue(S, "gv", -2, all) : Level(T, b, 1, m, f)
         /\ Level(sq_deleteslot(S, "gv", -2), b, 1, m, f)
         /\ Level(sq_exists(S, "gv", -2), b, 1, m, f)
  <1>1. Level(sq_arrayappend(S, "gv", -2), b, 2 - 1, m, f)
    BY LevelAppend, Depths
  <1>2. \A k : Level(sq_arrayinsert(S, "gv", -2, k), b, 2 - 1, m, f)
    BY LevelInsert, Depths
  <1>3. \A all : \A T \in sq_arrayremovevalue(S, "gv", -2, all) : Level(T, b, 2 - 1, m, f)
    BY LevelRemoveValue, Depths
  <1>4. Level(sq_deleteslot(S, "gv", -2), b, 2 - 1, m, f)
    BY LevelDeleteSlot, Depths
  <1>5. Level(sq_exists(S, "gv", -2), b, 2 - 1, m, f)
    BY LevelExists, Depths
  <1> QED BY <1>1, <1>2, <1>3, <1>4, <1>5, Depths

LEMMA CallsAtThree ==
  ASSUME NEW S, NEW b, NEW m, NEW f, Level(S, b, 3, m, f)
  PROVE  /\ Level(sq_set(S, "gv", -3), b, 1, m, f)
         /\ Level(sq_newslot(S, "gv", -3), b, 1, m, f)
  <1>1. Level(sq_set(S, "gv", -3), b, 3 - 2, m, f)
    BY LevelSet, Depths
  <1>2. Level(sq_newslot(S, "gv", -3), b, 3 - 2, m, f)
    BY LevelNewSlot, Depths
  <1> QED BY <1>1, <1>2, Depths

\* The methods on arrays that are one call of the API.
LEMMA LevelChangeArray ==
  ASSUME NEW S, NEW b, NEW m, NEW f, Level(S, b, 0, m, f), NEW i \in Infos, NEW x, IsArgument(x)
  PROVE  /\ Level(append(S, i, x), b, 0, m, f)
         /\ \A n : Level(insert(S, i, n, x), b, 0, m, f)
         /\ \A all : \A T \in removeValue(S, i, x, all) : Level(T, b, 0, m, f)
  <1> DEFINE p == pushValue(push(S, "gv", S.info[i]), "gv", x)
  <1>1. Level(p, b, 2, m, f)
    BY AboveTwo
  <1>2. /\ append(S, i, x) = sq_pop(sq_arrayappend(p, "gv", -2), "gv", 1)
        /\ \A n : insert(S, i, n, x) = sq_pop(sq_arrayinsert(p, "gv", -2, n), "gv", 1)
        /\ \A all : removeValue(S, i, x, all) = {sq_pop(T, "gv", 1) : T \in sq_arrayremovevalue(p, "gv", -2, all)}
    BY DEF append, insert, removeValue
  <1> HIDE DEF p
  <1>3. Level(append(S, i, x), b, 0, m, f)
    BY <1>1, <1>2, CallsAtTwo, PopLast
  <1>4. \A n : Level(insert(S, i, n, x), b, 0, m, f)
    BY <1>1, <1>2, CallsAtTwo, PopLast
  <1>5. ASSUME NEW all, NEW T \in removeValue(S, i, x, all)
        PROVE  Level(T, b, 0, m, f)
    <2>1. PICK U \in sq_arrayremovevalue(p, "gv", -2, all) : T = sq_pop(U, "gv", 1)
      BY <1>2, <1>5
    <2>2. Level(U, b, 1, m, f)
      BY <1>1, CallsAtTwo
    <2> QED BY <2>1, <2>2, PopLast
  <1> QED BY <1>3, <1>4, <1>5

LEMMA LevelRemoveElement ==
  ASSUME NEW S, NEW b, NEW m, NEW f, Level(S, b, 0, m, f), NEW i \in Infos
  PROVE  /\ \A n : Level(remove(S, i, n), b, 0, m, f)
         /\ Level(clearData(S, i), b, 0, m, f)
         /\ Level(len(S, i), b, 0, m, f)
         /\ Level(cast(S, i), b, 0, m, f)
  <1> DEFINE p == push(S, "gv", S.info[i])
             g == sq_getinteger(p, "gv", -1)
             q == IF g.ok THEN g ELSE Give(g, IntV(0))
  <1>1. Level(p, b, 1, m, f)
    BY AboveOne
  <1>2. /\ \A n : remove(S, i, n) = sq_pop(sq_arrayremove(p, "gv", -1, n), "gv", 1)
        /\ clearData(S, i) = sq_pop(sq_clear(p, "gv", -1), "gv", 1)
        /\ len(S, i) = Give(sq_pop(p, "gv", 1), IntV(Size(p.heap, Up(p, "gv", -1))))
        /\ cast(S, i) = sq_pop(q, "gv", 1)
    BY DEF remove, clearData, len, cast
  <1> HIDE DEF p
  <1>3. \A n : Level(remove(S, i, n), b, 0, m, f)
    BY <1>1, <1>2, LevelArrayRemove, PopLast, Depths
  <1>4. Level(clearData(S, i), b, 0, m, f)
    BY <1>1, <1>2, LevelClearAll, PopLast, Depths
  <1>5. Level(len(S, i), b, 0, m, f)
    BY <1>1, <1>2, LevelGive, PopLast
  <1>6. Level(g, b, 1, m, f)
    BY <1>1, LevelInteger
  <1> HIDE DEF g
  <1>7. Level(Give(g, IntV(0)), b, 1, m, f)
    BY <1>6, LevelGive
  <1>8. Level(cast(S, i), b, 0, m, f)
    BY <1>2, <1>6, <1>7, PopLast
  <1> QED BY <1>3, <1>4, <1>5, <1>8

LEMMA LevelChangeSlot ==
  ASSUME NEW S, NEW b, NEW m, NEW f, Level(S, b, 0, m, f), NEW i \in Infos, NEW key \in Keys
  PROVE  /\ \A x : IsArgument(x) => Level(set(S, i, key, x), b, 0, m, f) /\ Level(create(S, i, key, x), b, 0, m, f)
         /\ Level(deleteslot(S, i, key), b, 0, m, f)
         /\ Level(has(S, i, key), b, 0, m, f)
  <1>1. ASSUME NEW x, IsArgument(x)
        PROVE  Level(set(S, i, key, x), b, 0, m, f) /\ Level(create(S, i, key, x), b, 0, m, f)
    <2> DEFINE p == pushValue(Push(push(S, "gv", S.info[i]), "gv", key), "gv", x)
    <2>1. Level(p, b, 3, m, f)
      BY <1>1, AboveThree
    <2>2. /\ set(S, i, key, x) = sq_pop(sq_set(p, "gv", -3), "gv", 1)
          /\ create(S, i, key, x) = sq_pop(sq_newslot(p, "gv", -3), "gv", 1)
      BY DEF set, create
    <2> HIDE DEF p
    <2> QED BY <2>1, <2>2, CallsAtThree, PopLast
  <1> DEFINE p == Push(push(S, "gv", S.info[i]), "gv", key)
  <1>2. Level(p, b, 2, m, f)
    BY AboveTwo
  <1>3. /\ deleteslot(S, i, key) = sq_pop(sq_deleteslot(p, "gv", -2), "gv", 1)
        /\ has(S, i, key) = sq_pop(sq_exists(p, "gv", -2), "gv", 1)
    BY DEF deleteslot, has
  <1> HIDE DEF p
  <1>4. Level(deleteslot(S, i, key), b, 0, m, f) /\ Level(has(S, i, key), b, 0, m, f)
    BY <1>2, <1>3, CallsAtTwo, PopLast
  <1> QED BY <1>1, <1>4

LEMMA LevelAppendStack ==
  ASSUME NEW S, NEW b, NEW m, NEW f, Level(S, b, 0, m, f), m > 0, NEW i \in Infos
  PROVE  Level(appendStack(S, i, "v", -1), b, 0, m, f)
  <1> DEFINE p == push(S, "gv", S.info[i])
             x == Up(p, "v", -1)
             q == Push(p, "gv", x)
  <1>1. Level(p, b, 1, m, f)
    BY AboveOne
  <1>2. appendStack(S, i, "v", -1) = sq_pop(sq_arrayappend(q, "gv", -2), "gv", 1)
    BY DEF appendStack, sq_move
  <1> HIDE DEF p
  <1>3. x \in LiveValue(p.heap)
    BY <1>1, LevelValues
  <1> HIDE DEF x
  <1>4. Level(q, b, 1 + 1, m, f)
    BY <1>1, <1>3, LevelPush
  <1> HIDE DEF q
  <1>5. Level(q, b, 2, m, f)
    BY <1>4, Depths
  <1> QED BY <1>2, <1>5, CallsAtTwo, PopLast

LEMMA NeatSetValue ==
  ASSUME NEW S, NEW b, NEW m, NEW f, Level(S, b, 0, m, f), NEW i \in Info, NEW x, IsArgument(x)
  PROVE  Neat(setValue(S, i, x), b, f)
  <1> DEFINE p == pushValue(S, "gv", x)
             y == Up(p, "gv", -1)
             q == getStack(p, i, "gv", -1)
  <1>1. Level(p, b, 0 + 1, m, f)
    BY LevelArgument
  <1>2. setValue(S, i, x) = sq_pop(q, "gv", 1) /\ "gv" \in VM /\ i \in Infos /\ -1 \in Int
    BY DEF setValue, VM, Infos
  <1> HIDE DEF p
  <1>3. Level(p, b, 1, m, f)
    BY <1>1, Depths
  <1>4. y \in LiveValue(p.heap)
    BY <1>3, LevelValues, Depths
  <1>5. Level(q, b, 1, m, Assigned(f, i, y))
    BY <1>2, <1>3, <1>4, LevelGetStack
  <1> HIDE DEF q, y
  <1>6. Level(sq_pop(q, "gv", 1), b, 0, m, Assigned(f, i, y))
    BY <1>5, PopLast
  <1> QED BY <1>2, <1>6, NeatAssigned

LEMMA LevelCompare ==
  ASSUME NEW S, NEW b, NEW m, NEW f, Level(S, b, 0, m, f), NEW i \in Infos, NEW x, IsArgument(x),
         NEW T \in compare(S, i, x)
  PROVE  Level(T, b, 0, m, f)
  <1> DEFINE p == pushValue(push(S, "gv", S.info[i]), "gv", x)
  <1>1. Level(p, b, 2, m, f)
    BY AboveTwo
  <1>2. \E r : T = Give(sq_pop(p, "gv", 2), IntV(r))
    BY DEF compare
  <1> HIDE DEF p
  <1> QED BY <1>1, <1>2, PopLast, LevelGive

\* Slots that are read: the container gives way to the value, or to null.
LEMMA LevelPushData ==
  ASSUME NEW S, NEW b, NEW n, NEW m, NEW f, Level(S, b, n, m, f), NEW i \in Infos, NEW key \in Keys
  PROVE  LET T == pushData(S, "gv", i, key)
         IN  Level(T, b, n + 1, m, f) /\ T.heap = S.heap
  <1> DEFINE o == push(S, "gv", S.info[i])
             q == Push(o, "gv", key)
             g == sq_get(q, "gv", -2)
             p == IF g.ok THEN g ELSE sq_pushnull(g, "gv")
             k == n + 1
             l == k + 1
  <1>0. n \in Nat
    BY LevelValues
  <1>1. l > 1 /\ l >= 2 /\ l - 1 = k /\ k \in Nat /\ l \in Nat
    BY <1>0
  <1>2. pushData(S, "gv", i, key) = sq_remove(p, "gv", -2)
    BY DEF pushData
  <1>3. Level(o, b, k, m, f) /\ Apart(o, S)
    BY LevelVariable
  <1> HIDE DEF o, k
  <1>4. Level(q, b, l, m, f) /\ Apart(q, o)
    BY <1>3, LevelKey
  <1> HIDE DEF q, l
  <1>5. /\ g.ok => Level(g, b, l, m, f)
        /\ ~ g.ok => Level(g, b, l - 1, m, f)
        /\ g.ok \in BOOLEAN /\ Apart(g, q)
    BY <1>1, <1>4, LevelGet
  <1> HIDE DEF g
  <1>6. Level(p, b, l, m, f) /\ p.heap = g.heap
    <2>1. CASE g.ok
      BY <1>5, <2>1 DEF p
    <2>2. CASE ~ g.ok
      <3>1. Level(g, b, k, m, f)
        BY <1>1, <1>5, <2>2
      <3>2. Level(sq_pushnull(g, "gv"), b, k + 1, m, f) /\ Apart(sq_pushnull(g, "gv"), g)
        BY <3>1, LevelKey
      <3> QED BY <2>2, <3>2 DEF l, p, Apart
    <2> QED BY <1>5, <2>1, <2>2
  <1> HIDE DEF p
  <1>7. LET T == sq_remove(p, "gv", -2) IN Level(T, b, l - 1, m, f) /\ Apart(T, p)
    BY <1>1, <1>6, LevelRemove
  <1>8. LET T == sq_remove(p, "gv", -2) IN Level(T, b, k, m, f) /\ T.heap = p.heap
    BY <1>1, <1>7 DEF Apart
  <1>9. p.heap = S.heap
    BY <1>3, <1>4, <1>5, <1>6 DEF Apart
  <1> QED BY <1>2, <1>8, <1>9 DEF k

LEMMA DataAtOne ==
  ASSUME NEW S, NEW b, NEW m, NEW f, Level(S, b, 0, m, f), NEW i \in Infos, NEW key \in Keys
  PROVE  LET T == pushData(S, "gv", i, key)
         IN  Level(T, b, 1, m, f) /\ T.heap = S.heap /\ Up(T, "gv", -1) \in LiveValue(S.heap)
  <1> DEFINE T == pushData(S, "gv", i, key)
  <1>1. Level(T, b, 0 + 1, m, f) /\ T.heap = S.heap
    BY LevelPushData
  <1> HIDE DEF T
  <1>2. Level(T, b, 1, m, f)
    BY <1>1, Depths
  <1>3. Up(T, "gv", -1) \in LiveValue(T.heap)
    BY <1>2, LevelValues, Depths
  <1> QED BY <1>1, <1>2, <1>3 DEF T

LEMMA LevelFetch ==
  ASSUME NEW S, NEW b, NEW m, NEW f, Level(S, b, 0, m, f), f["ret"] = Null, NEW i \in Infos, NEW key \in Keys
  PROVE  \E x : Level(Fetch(S, i, key), b, 0, m, Assigned(f, "ret", x)) /\ Fetch(S, i, key).heap = S.heap
  <1> DEFINE p == pushData(S, "gv", i, key)
             x == Up(p, "gv", -1)
             q == ObjectInfo(p, "ret", "gv", -1)
  <1>0. "ret" \in Infos /\ "gv" \in VM /\ -1 \in Int
    BY DEF Infos, Local, VM
  <1>1. Level(p, b, 1, m, f) /\ p.heap = S.heap /\ x \in LiveValue(S.heap)
    BY DataAtOne
  <1>2. Fetch(S, i, key) = sq_pop(q, "gv", 1)
    BY DEF Fetch
  <1> HIDE DEF p
  <1>3. Level(q, b, 1, m, Assigned(f, "ret", x)) /\ q.heap = p.heap
    BY <1>0, <1>1, LevelObjectInfo
  <1> HIDE DEF q, x
  <1>4. Level(sq_pop(q, "gv", 1), b, 0, m, Assigned(f, "ret", x)) /\ Apart(sq_pop(q, "gv", 1), q)
    BY <1>3, PopLast, LevelPopped, Depths
  <1> QED BY <1>1, <1>2, <1>3, <1>4 DEF Apart

LEMMA NeatGet ==
  ASSUME NEW S, NEW b, NEW m, NEW f, Level(S, b, 0, m, f), f["ret"] = Null, NEW i \in Info, NEW j \in Infos,
         NEW key \in Keys
  PROVE  Neat(get(S, i, j, key), b, f)
  <1>1. DOMAIN f = Infos
    BY DEF Level, State
  <1>2. PICK x : Level(Fetch(S, j, key), b, 0, m, Assigned(f, "ret", x))
    BY LevelFetch
  <1> QED BY <1>1, <1>2, NeatReturn DEF get

LEMMA LevelGetNumber ==
  ASSUME NEW S, NEW b, NEW m, NEW f, Level(S, b, 0, m, f), NEW i \in Infos, NEW key \in Keys
  PROVE  Level(getNumber(S, i, key), b, 0, m, f)
  <1> DEFINE p == Push(push(S, "gv", S.info[i]), "gv", key)
             g == sq_get(p, "gv", -2)
  <1>1. Level(p, b, 2, m, f)
    BY AboveTwo
  <1>2. getNumber(S, i, key) = IF g.ok THEN sq_pop(sq_getinteger(g, "gv", -1), "gv", 2) ELSE sq_pop(g, "gv", 1)
    BY DEF getNumber
  <1> HIDE DEF p
  <1>3. (g.ok => Level(g, b, 2, m, f)) /\ (~ g.ok => Level(g, b, 2 - 1, m, f))
    BY <1>1, LevelGet, Depths
  <1> HIDE DEF g
  <1>4. CASE g.ok
    BY <1>2, <1>3, <1>4, LevelInteger, PopLast
  <1>5. CASE ~ g.ok
    BY <1>2, <1>3, <1>5, PopLast, Depths
  <1> QED BY <1>4, <1>5

\* A local copy that is gone again.
LEMMA Restored ==
  ASSUME NEW f, DOMAIN f = Infos, f = [i \in Infos |-> f[i]], f["ret"] = Null, NEW x
  PROVE  Assigned(Assigned(f, "ret", x), "ret", Null) = f
  BY DEF Assigned

LEMMA Copied ==
  ASSUME NEW S, NEW b, NEW n, NEW m, NEW f, Level(S, b, n, m, f), f["ret"] = Null, NEW j \in Infos
  PROVE  \E x : Level(assign(S, "ret", j), b, n, m, Assigned(f, "ret", x))
  <1>1. "ret" \in Infos
    BY DEF Infos, Local
  <1> QED BY <1>1, LevelAssign

LEMMA CopyDropped ==
  ASSUME NEW S, NEW b, NEW n, NEW m, NEW f, f \in [Infos -> LiveValue(S.heap)], f["ret"] = Null, NEW x,
         Level(S, b, n, m, Assigned(f, "ret", x))
  PROVE  Level(clear(S, "ret"), b, n, m, f)
  <1>1. "ret" \in Infos
    BY DEF Infos, Local
  <1>2. Level(clear(S, "ret"), b, n, m, Assigned(Assigned(f, "ret", x), "ret", Null))
    BY <1>1, LevelClear
  <1> QED BY <1>2, Restored

-----------------------------------------------------------------------------
\* The methods that repeat a call.  Each of their rounds, and that the rounds exist:
\* a recursive function is only what its equation says if something satisfies it.

NullRound(S) == sq_arrayappend(sq_pushnull(S, "gv"), "gv", -2)
AppendRound(S, j, k) ==
    IF ~ S.ok THEN S ELSE sq_arrayappend(pushData(S, "gv", j, IntV(k - 1)), "gv", -2)
PushRound(S, vm, k) ==
    sq_pop(sq_move(sq_get(Push(S, "gv", IntV(k - 1)), "gv", -2), vm, "gv", -1), "gv", 1)

Round(how, S, j, k) ==
    IF how = "null" THEN NullRound(S) ELSE IF how = "append" THEN AppendRound(S, j, k) ELSE PushRound(S, j, k)

Rounds(how, p, j, n, a) ==
    a = [k \in 0 .. n |-> IF k = 0 THEN p ELSE Round(how, a[k - 1], j, k)]

LEMMA RoundsExist ==
  ASSUME NEW how, NEW p, NEW j, NEW n \in Nat
  PROVE  \E a : Rounds(how, p, j, n, a)
  <1> DEFINE A == {l \in Nat : \E a : Rounds(how, p, j, l, a)}
  <1>1. 0 \in A
    <2> DEFINE a == [k \in 0 .. 0 |-> p]
    <2>1. a = [k \in 0 .. 0 |-> IF k = 0 THEN p ELSE Round(how, a[k - 1], j, k)]
      OBVIOUS
    <2> HIDE DEF a
    <2>2. Rounds(how, p, j, 0, a)
      BY <2>1 DEF Rounds
    <2> QED BY <2>2
  <1>2. ASSUME NEW l \in Nat, l \in A PROVE l + 1 \in A
    <2>1. PICK a : Rounds(how, p, j, l, a)
      BY <1>2
    <2> DEFINE last == Round(how, a[l], j, l + 1)
               g == [k \in 0 .. (l + 1) |-> IF k = l + 1 THEN last ELSE a[k]]
    <2>2. \A k \in 0 .. l : a[k] = IF k = 0 THEN p ELSE Round(how, a[k - 1], j, k)
      BY <2>1 DEF Rounds
    <2>3. (\A k \in 0 .. l : g[k] = a[k]) /\ g[l + 1] = last
      OBVIOUS
    <2>4. g = [k \in 0 .. (l + 1) |-> g[k]]
      OBVIOUS
    <2> HIDE DEF g
    <2>5. ASSUME NEW k \in 0 .. (l + 1)
          PROVE g[k] = IF k = 0 THEN p ELSE Round(how, g[k - 1], j, k)
      <3>1. CASE k = l + 1
        <4>1. k - 1 = l /\ k # 0 /\ l \in 0 .. l
          BY <3>1
        <4>2. g[k - 1] = a[l]
          BY <2>3, <4>1
        <4> QED BY <2>3, <3>1, <4>1, <4>2
      <3>2. CASE k \in 0 .. l
        <4>1. k = 0 \/ k - 1 \in 0 .. l
          BY <3>2
        <4> QED BY <2>2, <2>3, <3>2, <4>1
      <3> QED BY <3>1, <3>2
    <2>6. Rounds(how, p, j, l + 1, g)
      BY <2>4, <2>5 DEF Rounds
    <2> QED BY <2>6
  <1>3. Nat \subseteq A
    <2> HIDE DEF A
    <2> QED BY <1>1, <1>2, SetInduction
  <1> QED BY <1>3

LEMMA RoundsRead ==
  ASSUME NEW how, NEW p, NEW j, NEW n \in Nat, NEW a, Rounds(how, p, j, n, a)
  PROVE  a[0] = p /\ \A k \in Nat : k < n => a[k + 1] = Round(how, a[k], j, k + 1)
  <1>1. \A k \in 0 .. n : a[k] = IF k = 0 THEN p ELSE Round(how, a[k - 1], j, k)
    BY DEF Rounds
  <1>2. 0 \in 0 .. n
    OBVIOUS
  <1>3. ASSUME NEW k \in Nat, k < n
        PROVE  a[k + 1] = Round(how, a[k], j, k + 1)
    <2>1. k + 1 \in 0 .. n /\ k + 1 # 0 /\ (k + 1) - 1 = k
      BY <1>3
    <2> QED BY <1>1, <2>1
  <1> QED BY <1>1, <1>2, <1>3

\* Null after null, or element after element, for an array with n turns.
LEMMA LevelRounds ==
  ASSUME NEW S, NEW b, NEW m, NEW f, Level(S, b, 1, m, f), NEW how \in {"null", "append"}, NEW j \in Infos,
         NEW n \in Nat, NEW a, Rounds(how, S, j, n, a)
  PROVE  Level(a[n], b, 1, m, f)
  <1> DEFINE A == {k \in Nat : k <= n => Level(a[k], b, 1, m, f)}
  <1>1. 0 \in A
    BY RoundsRead
  <1>2. ASSUME NEW k \in Nat, k \in A PROVE k + 1 \in A
    <2>1. SUFFICES ASSUME k + 1 <= n PROVE Level(a[k + 1], b, 1, m, f)
      OBVIOUS
    <2>2. Level(a[k], b, 1, m, f) /\ a[k + 1] = Round(how, a[k], j, k + 1)
      BY <1>2, <2>1, RoundsRead
    <2> DEFINE T == a[k]
    <2>3. Level(T, b, 1, m, f) /\ a[k + 1] = Round(how, T, j, k + 1)
      BY <2>2
    <2> HIDE DEF T
    <2>4. Level(NullRound(T), b, 1, m, f)
      <3>1. Level(sq_pushnull(T, "gv"), b, 1 + 1, m, f)
        BY <2>3, LevelKey
      <3>2. Level(sq_pushnull(T, "gv"), b, 2, m, f)
        BY <3>1, Depths
      <3> QED BY <3>2, CallsAtTwo DEF NullRound
    <2>5. Level(AppendRound(T, j, k + 1), b, 1, m, f)
      <3> DEFINE key == IntV(k + 1 - 1)
                 q == pushData(T, "gv", j, key)
      <3>1. key \in Keys
        BY DEF Keys
      <3>2. AppendRound(T, j, k + 1) = IF ~ T.ok THEN T ELSE sq_arrayappend(q, "gv", -2)
        BY DEF AppendRound
      <3> HIDE DEF key
      <3>3. Level(q, b, 1 + 1, m, f)
        BY <2>3, <3>1, LevelPushData
      <3> HIDE DEF q
      <3>4. Level(q, b, 2, m, f)
        BY <3>3, Depths
      <3> QED BY <2>3, <3>2, <3>4, CallsAtTwo
    <2> QED BY <2>3, <2>4, <2>5 DEF Round
  <1>3. Nat \subseteq A
    <2> HIDE DEF A
    <2> QED BY <1>1, <1>2, SetInduction
  <1> QED BY <1>3

LEMMA TurnsNat ==
  ASSUME NEW n
  PROVE  Turns(n) \in Nat
  BY DEF Turns

LEMMA LevelWithNulls ==
  ASSUME NEW S, NEW b, NEW m, NEW f, Level(S, b, 0, m, f), NEW i \in Infos, NEW n \in Nat
  PROVE  Level(WithNulls(S, i, n), b, 0, m, f)
  <1> DEFINE p == push(S, "gv", S.info[i])
             a == CHOOSE a : a = [k \in 0 .. n |->
                    IF k = 0 THEN p ELSE sq_arrayappend(sq_pushnull(a[k - 1], "gv"), "gv", -2)]
  <1>1. WithNulls(S, i, n) = sq_pop(a[n], "gv", 1)
    BY DEF WithNulls
  <1>2. Level(p, b, 1, m, f)
    BY AboveOne
  <1> HIDE DEF p
  <1>3. \A c : Rounds("null", p, i, n, c) <=>
          c = [k \in 0 .. n |-> IF k = 0 THEN p ELSE sq_arrayappend(sq_pushnull(c[k - 1], "gv"), "gv", -2)]
    BY DEF Rounds, Round, NullRound
  <1>4. Rounds("null", p, i, n, a)
    BY <1>3, RoundsExist
  <1> HIDE DEF a
  <1>5. Level(a[n], b, 1, m, f)
    BY <1>2, <1>4, LevelRounds
  <1> QED BY <1>1, <1>5, PopLast

LEMMA LevelAppendArray ==
  ASSUME NEW S, NEW b, NEW m, NEW f, Level(S, b, 0, m, f), NEW i \in Infos, NEW j \in Infos
  PROVE  Level(appendArray(S, i, j), b, 0, m, f)
  <1> DEFINE p == push(S, "gv", S.info[i])
             n == Turns(len(p, j).out[2])
             a == CHOOSE a : a = [k \in 0 .. n |->
                    IF k = 0 THEN p
                    ELSE IF ~ a[k - 1].ok THEN a[k - 1]
                    ELSE sq_arrayappend(pushData(a[k - 1], "gv", j, IntV(k - 1)), "gv", -2)]
  <1>1. appendArray(S, i, j) = sq_pop(a[n], "gv", 1)
    BY DEF appendArray
  <1>2. Level(p, b, 1, m, f) /\ n \in Nat
    BY AboveOne, TurnsNat
  <1> HIDE DEF p, n
  <1>3. \A c : Rounds("append", p, j, n, c) <=>
          c = [k \in 0 .. n |-> IF k = 0 THEN p
                                ELSE IF ~ c[k - 1].ok THEN c[k - 1]
                                ELSE sq_arrayappend(pushData(c[k - 1], "gv", j, IntV(k - 1)), "gv", -2)]
    BY DEF Rounds, Round, AppendRound
  <1>4. Rounds("append", p, j, n, a)
    BY <1>2, <1>3, RoundsExist
  <1> HIDE DEF a
  <1>5. Level(a[n], b, 1, m, f)
    BY <1>2, <1>4, LevelRounds
  <1> QED BY <1>1, <1>5, PopLast

LEMMA DropLast ==
  ASSUME NEW X, NEW s \in Seq(X), NEW x \in X
  PROVE  SubSeq(Append(s, x), 1, Len(Append(s, x)) - 1) = s
  OBVIOUS

\* A round of pushArray leaves the array alone on the global stack.
LEMMA ElementPushed ==
  ASSUME NEW S, NEW b, NEW m, NEW f, Level(S, b, 1, m, f), IsArray(S, "gv", -1),
         NEW k \in Nat, k < Len(Array(S, "gv", -1))
  PROVE  LET T == PushRound(S, "v", k + 1)
         IN  Level(T, b, 1, m + 1, f) /\ T.heap = S.heap /\ T.stack.gv = S.stack.gv
  <1> DEFINE s == S.stack.gv
             v == Up(S, "gv", -1)
             key == IntV(k + 1 - 1)
             q == Push(S, "gv", key)
             r == Get(S.heap, v, key)
             o == Pop(q, "gv", 1)
             p == Push(o, "gv", r.val)
             g == Succeed(p)
             x == Up(g, "gv", -1)
             d == Push(g, "v", x)
             t == Pop(d, "gv", 1)
  <1>0. s \in Seq(LiveValue(S.heap)) /\ Len(s) \in Nat /\ Len(s) > 0 /\ S.info = f /\ HeapSound(S.heap)
    <2>1. s \in Seq(LiveValue(S.heap)) /\ Len(s) = Len(b) + 1 + S.left /\ Len(b) \in Nat /\ S.left \in Nat
      BY DEF Level, State
    <2> QED BY <2>1 DEF Level, State
  <1>1. v \in LiveValue(S.heap) /\ v = s[Len(s)] /\ Type(S.heap, v) = "array"
    <2>1. v \in LiveValue(S.heap)
      BY LevelValues, Depths
    <2>2. Len(s) + 1 + (-1) = Len(s)
      BY <1>0
    <2> QED BY <2>1, <2>2 DEF Up, IsArray
  <1>2. key = IntV(k) /\ key[1] = "int" /\ key[2] = k /\ key \in LiveValue(S.heap)
    BY <1>0, Constants DEF IntV
  <1>3. r.found = TRUE /\ r.val \in LiveValue(S.heap)
    <2>1. S.heap[v[2]].val \in Seq(LiveValue(S.heap)) /\ k < Len(S.heap[v[2]].val)
      BY LevelArray, <1>1 DEF Array
    <2>2. IsIndex(S.heap[v[2]].val, key)
      BY <1>2, <2>1 DEF IsIndex
    <2>3. r = Found(RealVal(S.heap, S.heap[v[2]].val[key[2] + 1]))
      BY <1>1, <2>2 DEF Get
    <2> HIDE DEF r, key
    <2>4. S.heap[v[2]].val[k + 1] \in LiveValue(S.heap)
      BY <2>1
    <2>5. RealVal(S.heap, S.heap[v[2]].val[k + 1]) \in LiveValue(S.heap)
      BY <1>0, <2>4, RealLive
    <2> QED BY <1>2, <2>3, <2>5 DEF Found
  <1>4. PushRound(S, "v", k + 1) = sq_pop(sq_move(sq_get(q, "gv", -2), "v", "gv", -1), "gv", 1)
    BY DEF PushRound
  <1> HIDE DEF v, key, r, s
  <1>5. Level(q, b, 1 + 1, m, f) /\ Apart(q, S) /\ q.stack.gv = Append(s, key) /\ q.stack.v = S.stack.v /\ Up(q, "gv", -1) = key
    BY <1>2, LevelPush DEF s
  <1> HIDE DEF q
  <1>6. Up(q, "gv", -2) = v
    <2>1. Len(q.stack.gv) + 1 + (-2) = Len(s) /\ Append(s, key)[Len(s)] = s[Len(s)]
      BY <1>0, <1>2, <1>5
    <2> QED BY <1>1, <1>5, <2>1 DEF Up
  <1>7. Level(o, b, 1, m, f) /\ Apart(o, q) /\ o.stack.gv = s /\ o.stack.v = q.stack.v
    <2>1. Level(q, b, 2, m, f)
      BY <1>5, Depths
    <2>2. Level(o, b, 2 - 1, m, f) /\ Apart(o, q) /\ o.stack.v = q.stack.v
          /\ o.stack.gv = SubSeq(q.stack.gv, 1, Len(q.stack.gv) - 1)
      BY <2>1, PopOne, Depths
    <2> HIDE DEF o
    <2> QED BY <1>0, <1>2, <1>5, <2>2, DropLast, Depths
  <1>8. sq_get(q, "gv", -2) = g
    <2>1. q.heap = S.heap
      BY <1>5 DEF Apart
    <2> QED BY <1>3, <1>5, <1>6, <2>1 DEF sq_get, r
  <1> HIDE DEF o
  <1>9. o.heap = S.heap
    BY <1>5, <1>7 DEF Apart
  <1>10. Level(p, b, 1 + 1, m, f) /\ Apart(p, o) /\ p.stack.gv = Append(s, r.val)
    BY <1>3, <1>7, <1>9, LevelPush
  <1> HIDE DEF p
  <1>11. Level(g, b, 2, m, f) /\ Apart(g, p) /\ g.stack.gv = Append(s, r.val)
    BY <1>10, LevelResult, Depths
  <1> HIDE DEF g
  <1>12. x \in LiveValue(g.heap)
    BY <1>11, LevelValues, Depths
  <1>13. sq_move(g, "v", "gv", -1) = d
    BY DEF sq_move
  <1> HIDE DEF x
  <1>14. Level(d, b, 2, m + 1, f) /\ Apart(d, g) /\ d.stack.gv = Append(s, r.val)
    BY <1>11, <1>12, OtherPush
  <1> HIDE DEF d
  <1>15. Level(t, b, 2 - 1, m + 1, f) /\ Apart(t, d) /\ t.stack.gv = SubSeq(d.stack.gv, 1, Len(d.stack.gv) - 1)
    BY <1>14, PopOne, Depths
  <1>16. PushRound(S, "v", k + 1) = t
    BY <1>4, <1>8, <1>13 DEF sq_pop
  <1> HIDE DEF t
  <1>17. t.stack.gv = s
    BY <1>0, <1>3, <1>14, <1>15, DropLast
  <1>18. t.heap = S.heap
    BY <1>9, <1>10, <1>11, <1>14, <1>15 DEF Apart
  <1> QED BY <1>15, <1>16, <1>17, <1>18, Depths DEF s

LEMMA NeatPushArray ==
  ASSUME NEW S, NEW b, NEW m, NEW f, Level(S, b, 0, m, f), NEW i \in Infos
  PROVE  Neat(pushArray(S, "v", i), b, f)
  <1> DEFINE p == push(S, "gv", S.info[i])
             n == Turns(len(p, i).out[2])
             a == CHOOSE a : a = [k \in 0 .. n |->
                    IF k = 0 THEN p
                    ELSE sq_pop(sq_move(sq_get(Push(a[k - 1], "gv", IntV(k - 1)), "gv", -2), "v", "gv", -1), "gv", 1)]
             v == RealVal(S.heap, f[i])
  <1>1. CASE type(S, i) # "array"
    BY <1>1, NeatSame DEF pushArray
  <1>2. CASE type(S, i) = "array"
    <2>1. pushArray(S, "v", i) = sq_pop(a[n], "gv", 1)
      BY <1>2 DEF pushArray
    <2>2. Level(p, b, 1, m, f) /\ Apart(p, S) /\ Up(p, "gv", -1) = v /\ v \in LiveValue(S.heap)
      <3>1. Level(p, b, 0 + 1, m, f) /\ Apart(p, S) /\ Up(p, "gv", -1) = v /\ v \in LiveValue(S.heap)
        BY LevelVariable
      <3> HIDE DEF p, v
      <3> QED BY <3>1, Depths
    <2>3. Type(S.heap, v) = "array" /\ S.info = f
      BY <1>2 DEF type, Level
    <2>4. n = Turns(len(p, i).out[2])
      OBVIOUS
    <2> HIDE DEF p, n, v
    <2>5. IsArray(p, "gv", -1) /\ p.heap = S.heap /\ p.info = f /\ S.heap[v[2]].val \in Seq(LiveValue(S.heap))
      <3>1. IsArray(p, "gv", -1) /\ p.heap = S.heap /\ p.info = f
        BY <2>2, <2>3 DEF IsArray, Apart
      <3>2. Array(p, "gv", -1) \in Seq(LiveValue(p.heap))
        BY <2>2, <3>1, LevelArray
      <3> QED BY <2>2, <3>1, <3>2 DEF Array
    <2>6. n = Len(Array(p, "gv", -1)) /\ n \in Nat
      <3> DEFINE q == push(p, "gv", p.info[i])
      <3>1. LET T == push(p, "gv", p.info[i]) IN Apart(T, p) /\ Up(T, "gv", -1) = RealVal(p.heap, f[i])
        BY <2>2, LevelVariable
      <3>2. len(p, i) = Give(sq_pop(q, "gv", 1), IntV(Size(q.heap, Up(q, "gv", -1))))
        BY DEF len
      <3>3. Level(q, b, 1 + 1, m, f)
        BY <2>2, LevelVariable
      <3>4. q.heap = S.heap /\ Up(q, "gv", -1) = v
        BY <2>5, <3>1 DEF Apart, v
      <3> HIDE DEF q
      <3>5. Level(q, b, 2, m, f)
        BY <3>3, Depths
      <3>6. Level(sq_pop(q, "gv", 1), b, 1, m, f)
        BY <3>5, PopLast
      <3>7. len(p, i).out = IntV(Size(q.heap, Up(q, "gv", -1)))
        BY <3>2, <3>6, LevelGive
      <3>8. Size(S.heap, v) = Len(S.heap[v[2]].val) /\ Len(S.heap[v[2]].val) \in Nat
        BY <2>3, <2>5 DEF Size
      <3>9. n = Len(S.heap[v[2]].val)
        BY <2>4, <3>4, <3>7, <3>8 DEF Turns, IntV
      <3> QED BY <2>2, <2>5, <3>8, <3>9 DEF Array
    <2>7. \A c : Rounds("push", p, "v", n, c) <=>
            c = [k \in 0 .. n |-> IF k = 0 THEN p
                  ELSE sq_pop(sq_move(sq_get(Push(c[k - 1], "gv", IntV(k - 1)), "gv", -2), "v", "gv", -1), "gv", 1)]
      BY DEF Rounds, Round, PushRound
    <2>8. Rounds("push", p, "v", n, a)
      BY <2>6, <2>7, RoundsExist
    <2> HIDE DEF a
    <2> DEFINE Good(T) == (\E l : Level(T, b, 1, l, f)) /\ T.heap = p.heap /\ T.stack.gv = p.stack.gv
               A == {k \in Nat : k <= n => Good(a[k])}
    <2>9. 0 \in A
      <3>1. a[0] = p
        BY <2>6, <2>8, RoundsRead
      <3> QED BY <2>2, <3>1
    <2>10. ASSUME NEW k \in Nat, k \in A PROVE k + 1 \in A
      <3>1. SUFFICES ASSUME k + 1 <= n PROVE Good(a[k + 1])
        OBVIOUS
      <3> DEFINE T == a[k]
      <3>2. k < n /\ Good(T)
        BY <2>6, <2>10, <3>1
      <3>3. a[k + 1] = PushRound(T, "v", k + 1)
        <4>1. a[k + 1] = Round("push", a[k], "v", k + 1)
          BY <2>6, <2>8, <3>2, RoundsRead
        <4> QED BY <4>1 DEF Round
      <3> HIDE DEF T
      <3>4. PICK l : Level(T, b, 1, l, f)
        BY <3>2
      <3>5. Up(T, "gv", -1) = Up(p, "gv", -1)
        BY <3>2 DEF Up
      <3>6. IsArray(T, "gv", -1) /\ Array(T, "gv", -1) = Array(p, "gv", -1)
        BY <2>5, <3>2, <3>5 DEF IsArray, Array
      <3>7. k < Len(Array(T, "gv", -1))
        BY <2>6, <3>2, <3>6
      <3>8. LET U == PushRound(T, "v", k + 1)
            IN  Level(U, b, 1, l + 1, f) /\ U.heap = T.heap /\ U.stack.gv = T.stack.gv
        BY <3>4, <3>6, <3>7, ElementPushed
      <3> QED BY <3>2, <3>3, <3>8
    <2>11. Nat \subseteq A
      <3> HIDE DEF A
      <3> QED BY <2>9, <2>10, SetInduction
    <2>12. \E l : Level(a[n], b, 1, l, f)
      BY <2>6, <2>11
    <2> QED BY <2>1, <2>12, PopLast, NeatSame
  <1> QED BY <1>1, <1>2

\* References to elements.
LEMMA LevelAssignElement ==
  ASSUME NEW S, NEW b, NEW m, NEW f, Level(S, b, 0, m, f), NEW key \in Keys, NEW x, IsArgument(x)
  PROVE  Level(AssignElement(S, key, x), b, 0, m, f)
  <1> DEFINE s == set(S, "ret", key, x)
             n == Turns(key[2] + 1 - len(S, "ret").out[2])
             w == WithNulls(S, "ret", n)
  <1>1. "ret" \in Infos /\ n \in Nat
    BY TurnsNat DEF Infos, Local
  <1>2. \/ AssignElement(S, key, x) = set(w, "ret", key, x)
        \/ AssignElement(S, key, x) = S
        \/ AssignElement(S, key, x) = s
        \/ AssignElement(S, key, x) = create(s, "ret", key, x)
    <2>1. Filled(S, "ret", key[2]) = w
      BY DEF Filled
    <2> HIDE DEF w, s
    <2>2. AssignElement(S, key, x) =
            CASE type(S, "ret") = "array" /\ key[1] = "int" -> set(w, "ret", key, x)
              [] type(S, "ret") = "array" /\ key[1] # "int" -> S
              [] type(S, "ret") \in {"table", "class"} -> IF s.ok THEN s ELSE create(s, "ret", key, x)
              [] OTHER -> s
      BY <2>1 DEF AssignElement, s
    <2>3. CASE type(S, "ret") = "array"
      BY <2>2, <2>3
    <2>4. CASE type(S, "ret") # "array" /\ type(S, "ret") \in {"table", "class"}
      BY <2>2, <2>4
    <2>5. CASE type(S, "ret") # "array" /\ type(S, "ret") \notin {"table", "class"}
      BY <2>2, <2>5
    <2> QED BY <2>3, <2>4, <2>5
  <1> HIDE DEF n
  <1>3. Level(s, b, 0, m, f)
    BY <1>1, LevelChangeSlot
  <1>4. Level(w, b, 0, m, f)
    BY <1>1, LevelWithNulls
  <1> HIDE DEF s, w
  <1>5. Level(set(w, "ret", key, x), b, 0, m, f)
    BY <1>1, <1>4, LevelChangeSlot
  <1>6. Level(create(s, "ret", key, x), b, 0, m, f)
    BY <1>1, <1>3, LevelChangeSlot
  <1> QED BY <1>2, <1>3, <1>5, <1>6

LEMMA HeldNow ==
  ASSUME NEW S, NEW b, NEW n, NEW m, NEW f, Level(S, b, n, m, f)
  PROVE  f \in [Infos -> LiveValue(S.heap)] /\ f = [i \in Infos |-> f[i]] /\ DOMAIN f = Infos
  <1>1. f \in [Infos -> LiveValue(S.heap)]
    BY DEF Level, State
  <1> QED BY <1>1

\* A local copy that is gone again, once something has been done with it.
LEMMA CopyGone ==
  ASSUME NEW S, NEW b, NEW n, NEW m, NEW f, f = [i \in Infos |-> f[i]], f["ret"] = Null, NEW x,
         Level(S, b, n, m, Assigned(f, "ret", x))
  PROVE  Level(clear(S, "ret"), b, n, m, f)
  <1>1. "ret" \in Infos /\ DOMAIN f = Infos
    BY DEF Infos, Local
  <1>2. Level(clear(S, "ret"), b, n, m, Assigned(Assigned(f, "ret", x), "ret", Null))
    BY <1>1, LevelClear
  <1> QED BY <1>1, <1>2, Restored

LEMMA LevelSetElement ==
  ASSUME NEW S, NEW b, NEW m, NEW f, Level(S, b, 0, m, f), f["ret"] = Null, NEW i \in Infos,
         NEW key \in Keys, NEW x, IsArgument(x)
  PROVE  Level(setElement(S, i, key, x), b, 0, m, f)
  <1> DEFINE p == assign(S, "ret", i)
             q == AssignElement(p, key, x)
  <1>1. f = [j \in Infos |-> f[j]]
    BY HeldNow
  <1>2. setElement(S, i, key, x) = clear(q, "ret")
    BY DEF setElement
  <1>3. PICK y : Level(p, b, 0, m, Assigned(f, "ret", y))
    BY Copied
  <1> HIDE DEF p
  <1>4. Level(q, b, 0, m, Assigned(f, "ret", y))
    BY <1>3, LevelAssignElement
  <1> HIDE DEF q
  <1> QED BY <1>1, <1>2, <1>4, CopyGone

LEMMA LevelSetElementOf ==
  ASSUME NEW S, NEW b, NEW m, NEW f, Level(S, b, 0, m, f), f["ret"] = Null, NEW i \in Infos,
         NEW key \in Keys, NEW second \in Keys, NEW x, IsArgument(x)
  PROVE  Level(setElementOf(S, i, key, second, x), b, 0, m, f)
  <1> DEFINE p == pushData(S, "gv", i, key)
             target == Up(p, "gv", -1)
             q == sq_pop(p, "gv", 1)
             o == Having(q, target, "ret", target)
             r == AssignElement(o, second, x)
  <1>1. f = [j \in Infos |-> f[j]] /\ "ret" \in Infos
    BY HeldNow DEF Infos, Local
  <1>2. setElementOf(S, i, key, second, x) = clear(r, "ret")
    BY DEF setElementOf, Having
  <1>3. Level(p, b, 1, m, f) /\ p.heap = S.heap /\ target \in LiveValue(S.heap)
    BY DataAtOne
  <1> HIDE DEF p
  <1>4. Level(q, b, 0, m, f) /\ q.heap = p.heap
    BY <1>3, PopLast, LevelPopped, Depths DEF Apart
  <1> HIDE DEF q, target
  <1>5. Level(o, b, 0, m, Assigned(f, "ret", target))
    BY <1>1, <1>3, <1>4, LevelHold
  <1> HIDE DEF o
  <1>6. Level(r, b, 0, m, Assigned(f, "ret", target))
    BY <1>5, LevelAssignElement
  <1> HIDE DEF r
  <1> QED BY <1>1, <1>2, <1>6, CopyGone

LEMMA LevelCastElement ==
  ASSUME NEW S, NEW b, NEW m, NEW f, Level(S, b, 0, m, f), f["ret"] = Null, NEW i \in Infos, NEW key \in Keys
  PROVE  Level(castElement(S, i, key), b, 0, m, f)
  <1> DEFINE p == assign(S, "ret", i)
             g == getNumber(p, "ret", key)
             q == IF g.ok THEN g ELSE Give(g, IntV(0))
  <1>1. f = [j \in Infos |-> f[j]] /\ "ret" \in Infos
    BY HeldNow DEF Infos, Local
  <1>2. castElement(S, i, key) = clear(q, "ret")
    BY DEF castElement
  <1>3. PICK y : Level(p, b, 0, m, Assigned(f, "ret", y))
    BY Copied
  <1> HIDE DEF p
  <1>4. Level(g, b, 0, m, Assigned(f, "ret", y))
    BY <1>1, <1>3, LevelGetNumber
  <1> HIDE DEF g
  <1>5. Level(Give(g, IntV(0)), b, 0, m, Assigned(f, "ret", y))
    BY <1>4, LevelGive
  <1>6. Level(q, b, 0, m, Assigned(f, "ret", y))
    BY <1>4, <1>5
  <1> HIDE DEF q
  <1> QED BY <1>1, <1>2, <1>6, CopyGone

LEMMA NeatSetValueElement ==
  ASSUME NEW S, NEW b, NEW m, NEW f, Level(S, b, 0, m, f), f["ret"] = Null, NEW i \in Info, NEW j \in Infos,
         NEW key \in Keys
  PROVE  Neat(setValueElement(S, i, j, key), b, f)
  <1> DEFINE p == assign(S, "ret", j)
             q == pushData(p, "gv", "ret", key)
             c == clear(q, "ret")
             y == Up(c, "gv", -1)
             g == getStack(c, i, "gv", -1)
  <1>1. f = [l \in Infos |-> f[l]] /\ "ret" \in Infos /\ i \in Infos /\ "gv" \in VM /\ -1 \in Int
    BY HeldNow DEF Infos, Local, VM
  <1>2. setValueElement(S, i, j, key) = sq_pop(g, "gv", 1)
    BY DEF setValueElement
  <1>3. PICK x : Level(p, b, 0, m, Assigned(f, "ret", x))
    BY Copied
  <1> HIDE DEF p
  <1>4. Level(q, b, 1, m, Assigned(f, "ret", x))
    BY <1>1, <1>3, DataAtOne
  <1> HIDE DEF q
  <1>5. Level(c, b, 1, m, f)
    BY <1>1, <1>4, CopyGone
  <1> HIDE DEF c
  <1>6. y \in LiveValue(c.heap)
    BY <1>5, LevelValues, Depths
  <1>7. Level(g, b, 1, m, Assigned(f, i, y))
    BY <1>1, <1>5, <1>6, LevelGetStack
  <1> HIDE DEF g, y
  <1>8. Level(sq_pop(g, "gv", 1), b, 0, m, Assigned(f, i, y))
    BY <1>7, PopLast
  <1> QED BY <1>2, <1>8, NeatAssigned

\* Calls.  A class can only be called where there is room for an instance.
LEMMA LevelCalled ==
  ASSUME NEW S, NEW b, NEW m, NEW f, Level(S, b, 0, m, f), NEW i \in Infos, NEW self \in LiveValue(S.heap),
         NEW x, IsArgument(x), NEW retval \in BOOLEAN, NEW result \in Outcome,
         type(S, i) = "class" => Fresh(S) # {}
  PROVE  LET T == Called(S, i, self, x, retval, result)
         IN  /\ T.ok /\ retval => Level(T, b, 2, m, f)
             /\ ~ (T.ok /\ retval) => Level(T, b, 1, m, f)
             /\ T.ok \in BOOLEAN
  <1> DEFINE s == S.stack.gv
             v == RealVal(S.heap, f[i])
             u == RealVal(S.heap, self)
             o == push(S, "gv", S.info[i])
             q == push(o, "gv", self)
             w == Meant(q, x)
             p == pushValue(q, "gv", x)
             T == sq_call(p, "gv", 2, retval, result)
  <1>0. s \in Seq(LiveValue(S.heap)) /\ Len(s) \in Nat /\ S.info = f /\ HeapSound(S.heap)
    BY DEF Level, State
  <1>1. Called(S, i, self, x, retval, result) = T /\ Type(S.heap, v) = type(S, i)
    BY <1>0 DEF Called, type
  <1>2. Level(o, b, 0 + 1, m, f) /\ Apart(o, S) /\ o.stack.gv = Append(s, v) /\ o.stack.v = S.stack.v
        /\ v \in LiveValue(S.heap) /\ v[1] # "weak"
    BY LevelVariable
  <1>3. u[1] # "weak"
    BY <1>0, RealLive
  <1> HIDE DEF o, v, s
  <1>4. Level(o, b, 1, m, f) /\ o.heap = S.heap
    BY <1>2, Depths DEF Apart
  <1>5. Level(q, b, 1 + 1, m, f) /\ Apart(q, o) /\ q.stack.gv = Append(o.stack.gv, u) /\ q.stack.v = o.stack.v
        /\ u \in LiveValue(S.heap)
    BY <1>4, LevelObject
  <1> HIDE DEF q, u
  <1>6. Level(q, b, 2, m, f) /\ q.heap = S.heap
    BY <1>4, <1>5, Depths DEF Apart
  <1>7. Level(p, b, 2 + 1, m, f) /\ Apart(p, q) /\ p.stack.gv = Append(q.stack.gv, w) /\ p.stack.v = q.stack.v
        /\ w \in LiveValue(S.heap) /\ w[1] # "weak"
    BY <1>6, LevelArgument
  <1> HIDE DEF p, w
  <1>8. Level(p, b, 3, m, f) /\ p.heap = S.heap
    BY <1>6, <1>7, Depths DEF Apart
  <1>9. Up(p, "gv", -3) = v
    <2>1. p.stack.gv = Append(Append(Append(s, v), u), w)
      BY <1>2, <1>5, <1>7
    <2>2. Len(p.stack.gv) + 1 + (-3) = Len(s) + 1 /\ p.stack.gv[Len(s) + 1] = v
      BY <1>0, <1>2, <1>5, <1>7, <2>1
    <2> QED BY <2>2 DEF Up
  <1>10. Fresh(S) \subseteq Fresh(p)
    <2>1. Fresh(S) \subseteq Fresh(o)
      <3>1. o.stack.v = S.stack.v /\ v[1] # "weak" /\ o.stack.gv = Append(S.stack.gv, v)
        BY <1>2 DEF s
      <3>2. Level(o, b, 1, m, f) /\ Apart(o, S)
        BY <1>2, <1>4
      <3> QED BY <3>1, <3>2, FreshApart
    <2>2. Fresh(o) \subseteq Fresh(q)
      BY <1>3, <1>4, <1>5, FreshApart
    <2>3. Fresh(q) \subseteq Fresh(p)
      BY <1>6, <1>7, FreshApart
    <2> QED BY <2>1, <2>2, <2>3
  <1>11. Type(p.heap, Up(p, "gv", -3)) = "class" => Fresh(p) # {}
    BY <1>1, <1>8, <1>9, <1>10
  <1>12. T.ok \in BOOLEAN /\ Level(T, b, IF T.ok /\ retval THEN 3 - 1 ELSE 3 - 2, m, f)
    BY <1>8, <1>11, LevelCall, Depths
  <1> HIDE DEF T
  <1>13. T.ok /\ retval => Level(T, b, 2, m, f)
    BY <1>12, Depths
  <1>14. ~ (T.ok /\ retval) => Level(T, b, 1, m, f)
    BY <1>12, Depths
  <1> QED BY <1>1, <1>12, <1>13, <1>14

LEMMA LevelOfCall ==
  ASSUME NEW S, NEW b, NEW m, NEW f, Level(S, b, 0, m, f), NEW i \in Infos, NEW self \in LiveValue(S.heap),
         NEW x, IsArgument(x), NEW result \in Outcome, type(S, i) = "class" => Fresh(S) # {}
  PROVE  Level(call(S, i, self, x, result), b, 0, m, f)
  <1> DEFINE c == Called(S, i, self, x, FALSE, result)
  <1>1. ~ (c.ok /\ FALSE) => Level(c, b, 1, m, f)
    BY LevelCalled
  <1>2. call(S, i, self, x, result) = sq_pop(c, "gv", 1)
    BY DEF call
  <1> HIDE DEF c
  <1>3. Level(c, b, 1, m, f)
    BY <1>1
  <1> QED BY <1>2, <1>3, PopLast

LEMMA NeatCallResult ==
  ASSUME NEW S, NEW b, NEW m, NEW f, Level(S, b, 0, m, f), NEW i \in Infos, NEW j \in Info,
         NEW self \in LiveValue(S.heap),
         NEW x, IsArgument(x), NEW result \in Outcome, type(S, i) = "class" => Fresh(S) # {}
  PROVE  Neat(callResult(S, j, i, self, x, result), b, f)
  <1> DEFINE c == Called(S, i, self, x, TRUE, result)
             y == Up(c, "gv", -1)
             g == getStack(c, j, "gv", -1)
  <1>0. j \in Infos /\ "gv" \in VM /\ -1 \in Int
    BY DEF Infos, VM
  <1>1. (c.ok /\ TRUE => Level(c, b, 2, m, f)) /\ (~ (c.ok /\ TRUE) => Level(c, b, 1, m, f)) /\ c.ok \in BOOLEAN
    BY LevelCalled
  <1>2. callResult(S, j, i, self, x, result) = IF c.ok THEN sq_pop(g, "gv", 2) ELSE sq_pop(c, "gv", 1)
    BY DEF callResult
  <1> HIDE DEF c
  <1>3. CASE c.ok
    <2>1. Level(c, b, 2, m, f)
      BY <1>1, <1>3
    <2>2. y \in LiveValue(c.heap)
      BY <2>1, LevelValues, Depths
    <2>3. Level(g, b, 2, m, Assigned(f, j, y))
      BY <1>0, <2>1, <2>2, LevelGetStack
    <2> HIDE DEF g, y
    <2>4. Level(sq_pop(g, "gv", 2), b, 0, m, Assigned(f, j, y))
      BY <2>3, PopLast
    <2> QED BY <1>2, <1>3, <2>4, NeatAssigned
  <1>4. CASE ~ c.ok
    <2>1. Level(c, b, 1, m, f)
      BY <1>1, <1>4
    <2> QED BY <1>2, <1>4, <2>1, PopLast, NeatSame
  <1> QED BY <1>1, <1>3, <1>4

LEMMA LevelCallMethod ==
  ASSUME NEW S, NEW b, NEW m, NEW f, Level(S, b, 0, m, f), f["ret"] = Null, NEW i \in Info, NEW key \in Keys,
         NEW x, IsArgument(x), NEW result \in Outcome
  PROVE  Level(callMethod(S, i, key, x, result), b, 0, m, f)
  <1> DEFINE p == Fetch(S, i, key)
             c == call(p, "ret", S.info[i], x, result)
  <1>0. i \in Infos /\ "ret" \in Infos /\ i # "ret"
    BY InfoAssumption DEF Infos, InfoAssumption, Local
  <1>1. f = [j \in Infos |-> f[j]] /\ f[i] \in LiveValue(S.heap) /\ S.info[i] = f[i]
    <2>1. f = [j \in Infos |-> f[j]] /\ f \in [Infos -> LiveValue(S.heap)]
      BY HeldNow
    <2>2. S.info = f
      BY DEF Level
    <2> QED BY <1>0, <2>1, <2>2
  <1>2. PICK y : Level(p, b, 0, m, Assigned(f, "ret", y)) /\ p.heap = S.heap
    BY <1>0, LevelFetch
  <1>3. \/ type(p, "ret") = "closure" /\ callMethod(S, i, key, x, result) = clear(c, "ret")
        \/ callMethod(S, i, key, x, result) = Fail(clear(p, "ret"))
        \/ callMethod(S, i, key, x, result) = Fail(S)
    <2> HIDE DEF c
    <2>1. callMethod(S, i, key, x, result) =
            CASE type(S, i) # "null" /\ type(p, "ret") = "closure" -> clear(c, "ret")
              [] type(S, i) # "null" /\ type(p, "ret") # "closure" -> Fail(clear(p, "ret"))
              [] OTHER -> Fail(S)
      BY DEF callMethod, c
    <2> HIDE DEF p
    <2>2. CASE type(S, i) # "null" /\ type(p, "ret") = "closure"
      BY <2>1, <2>2
    <2>3. CASE type(S, i) # "null" /\ type(p, "ret") # "closure"
      BY <2>1, <2>3
    <2>4. CASE type(S, i) = "null"
      BY <2>1, <2>4
    <2> QED BY <2>2, <2>3, <2>4
  <1> HIDE DEF p
  <1>4. type(p, "ret") = "closure" => Level(clear(c, "ret"), b, 0, m, f)
    <2>1. ASSUME type(p, "ret") = "closure"
          PROVE  Level(clear(c, "ret"), b, 0, m, f)
      <3>1. S.info[i] \in LiveValue(p.heap)
        BY <1>1, <1>2
      <3>2. type(p, "ret") = "class" => Fresh(p) # {}
        BY <2>1
      <3>3. Level(c, b, 0, m, Assigned(f, "ret", y))
        BY <1>0, <1>2, <3>1, <3>2, LevelOfCall
      <3> HIDE DEF c
      <3> QED BY <1>1, <3>3, CopyGone
    <2> QED BY <2>1
  <1>5. Level(Fail(clear(p, "ret")), b, 0, m, f)
    <2>1. Level(clear(p, "ret"), b, 0, m, f)
      BY <1>1, <1>2, CopyGone
    <2> QED BY <2>1, LevelResult
  <1>6. Level(Fail(S), b, 0, m, f)
    BY LevelResult
  <1> HIDE DEF c
  <1> QED BY <1>3, <1>4, <1>5, <1>6

-----------------------------------------------------------------------------
\* The invariant: what the machine's levels say of the variables, and where a walk is.

Walking ==
    /\ loop = [self |-> loop.self, depth |-> loop.depth, whole |-> loop.whole, seen |-> loop.seen,
               changes |-> loop.changes]
    /\ loop.self[1] = "ref" /\ loop.self # Null /\ loop.depth \in Nat
    /\ left = 0
    /\ Len(stack) = loop.depth + 4
    /\ stack[loop.depth + 1] = loop.self
    /\ \E at \in Nat : stack[loop.depth + 2] = IntV(at)

Inv ==
    /\ HeapSound(heap)
    /\ stack \in Seq(LiveValue(heap))
    /\ info \in [Infos -> LiveValue(heap)]
    /\ RefsExact(refs, info)
    /\ left \in Nat
    /\ info["ret"] = Null
    /\ loop = NoLoop => info["key"] = Null /\ info["val"] = Null
    /\ loop # NoLoop => Walking

LEMMA CountHeld ==
  ASSUME NEW f, NEW i \in Infos
  PROVE  Count(f, f[i]) > 0
  <1> DEFINE X == {j \in Infos : f[j] = f[i]}
  <1>1. IsFiniteSet(X)
    BY InfosFinite, FS_Subset
  <1>2. X # {}
    OBVIOUS
  <1>3. Cardinality(X) \in Nat /\ Cardinality(X) # 0
    BY <1>1, <1>2, FS_CardinalityType, FS_EmptySet
  <1> QED BY <1>3 DEF Count

\* The state a method of the host starts from.
LEMMA LevelNow ==
  ASSUME Inv, NEW args \in Seq(LiveValue(heap))
  PROVE  /\ Level(Now(args), stack, 0, Len(args), info) /\ Now(args).heap = heap /\ Now(args).info = info
         /\ Now(args).left = 0 /\ Now(args).stack.gv = stack
  <1> DEFINE S == Now(args)
  <1>1. /\ IsMachine(S) /\ S.heap = heap /\ S.refs = refs /\ S.info = info /\ S.left = 0
        /\ S.stack.gv = stack /\ S.stack.v = args
    BY DEF Now, IsMachine, Machine
  <1>2. Len(stack) \in Nat /\ Len(args) \in Nat
    BY DEF Inv
  <1> HIDE DEF S
  <1>3. State(S)
    BY <1>1 DEF State, Inv
  <1>4. Len(S.stack.gv) = Len(stack) + 0 + S.left
    BY <1>1, <1>2
  <1>5. Level(S, stack, 0, Len(args), info)
    BY <1>1, <1>2, <1>3, <1>4 DEF Level
  <1> QED BY <1>1, <1>5 DEF S

\* What a method leaves is what the host finds, but for the objects nothing holds.
LEMMA LevelSettled ==
  ASSUME NEW T, NEW b, NEW n, NEW m, NEW f, Level(T, b, n, m, f), Become(T)
  PROVE  /\ HeapSound(heap') /\ stack' \in Seq(LiveValue(heap')) /\ info' \in [Infos -> LiveValue(heap')]
         /\ RefsExact(refs', info') /\ left' \in Nat
         /\ info' = f /\ stack' = T.stack.gv /\ left' = T.left /\ left = 0
         /\ Len(stack') = Len(b) + n + left' /\ \A k \in 1 .. Len(b) : stack'[k] = b[k]
         /\ \A o \in Obj : \A k \in 1 .. Len(stack') : stack'[k] = Ref(o) => heap'[o] = T.heap[o]
  <1> DEFINE roots == ToSet(T.stack.gv) \cup {r \in Held : T.refs[r] > 0}
             h == Released(T.heap, roots)
  <1>1. /\ IsMachine(T) /\ HeapSound(T.heap) /\ T.stack.gv \in Seq(LiveValue(T.heap))
        /\ T.info \in [Infos -> LiveValue(T.heap)] /\ RefsExact(T.refs, T.info) /\ T.left \in Nat
        /\ T.info = f /\ Len(T.stack.gv) = Len(b) + n + T.left /\ \A k \in 1 .. Len(b) : T.stack.gv[k] = b[k]
    BY DEF Level, State
  <1>2. heap' = h /\ stack' = T.stack.gv /\ refs' = T.refs /\ info' = T.info /\ left' = T.left /\ left = 0
    <2>2. Settled(T) = WithHeap(T, h)
      BY DEF Settled, WithHeap
    <2> HIDE DEF h
    <2>3. Settled(T).heap = h
      BY <1>1, <2>2, SetHeap DEF Like
    <2> QED BY <2>3 DEF Become
  <1>3. HeapSound(h) /\ \A v \in LiveValue(T.heap) : v \in roots \/ v[1] # "ref" => v \in LiveValue(h)
    BY <1>1, ReleasedSound
  <1>7. ASSUME NEW o \in Obj, NEW k \in 1 .. Len(T.stack.gv), T.stack.gv[k] = Ref(o)
        PROVE  h[o] = T.heap[o]
    <2>1. Ref(o) \in roots
      BY <1>7 DEF ToSet
    <2>2. o \notin Gone(T.heap, roots)
      BY <2>1, GoneClosed
    <2> HIDE DEF roots
    <2> QED BY <2>2 DEF Released
  <1> HIDE DEF h
  <1>4. T.stack.gv \in Seq(LiveValue(h))
    BY <1>1, <1>3, SeqWithin
  <1>5. ASSUME NEW i \in Infos
        PROVE  T.info[i] \in LiveValue(h)
    <2>1. T.info[i] \in LiveValue(T.heap) /\ T.info[i] \in Value
      BY <1>1 DEF LiveValue
    <2>2. CASE T.info[i][1] # "ref"
      BY <1>3, <2>1, <2>2
    <2>3. CASE T.info[i][1] = "ref"
      <3>1. T.info[i] \in Held
        <4>1. T.info[i][2] \in Obj /\ T.info[i] = Ref(T.info[i][2])
          BY <1>1, <2>1, <2>3, Values
        <4> QED BY <4>1 DEF Held
      <3>2. T.refs[T.info[i]] > 0
        BY <1>1, <3>1, CountHeld DEF RefsExact
      <3> QED BY <1>3, <2>1, <3>1, <3>2
    <2> QED BY <2>2, <2>3
  <1>6. T.info \in [Infos -> LiveValue(h)]
    BY <1>1, <1>5
  <1> QED BY <1>1, <1>2, <1>3, <1>4, <1>6, <1>7

\* A method that is neat keeps the invariant, and the stack but for what it left.
MethodKeeps ==
    /\ Inv'
    /\ (loop = NoLoop <=> loop' = NoLoop) /\ loop'.depth = loop.depth
    /\ Len(stack') = Len(stack) + left' - left /\ Len(stack') >= Len(stack)
    /\ \A k \in 1 .. Len(stack) : stack'[k] = stack[k]
    /\ loop # NoLoop /\ loop'.whole =>
         /\ loop.whole /\ loop'.seen = loop.seen /\ loop'.self = loop.self
         /\ heap'[loop.self[2]] = heap[loop.self[2]]

LEMMA NeatMethod ==
  ASSUME Inv, NEW T, Neat(T, stack, info), Method(T)
  PROVE  MethodKeeps
  <1>1. PICK m, g : Level(T, stack, 0, m, g) /\ \A l \in Local : g[l] = info[l]
    BY DEF Neat
  <1>2. /\ HeapSound(heap') /\ stack' \in Seq(LiveValue(heap')) /\ info' \in [Infos -> LiveValue(heap')]
        /\ RefsExact(refs', info') /\ left' \in Nat /\ info' = g /\ left = 0 /\ left' = T.left
        /\ Len(stack') = Len(stack) + 0 + left' /\ \A k \in 1 .. Len(stack) : stack'[k] = stack[k]
        /\ \A o \in Obj : \A k \in 1 .. Len(stack') : stack'[k] = Ref(o) => heap'[o] = T.heap[o]
    BY <1>1, LevelSettled DEF Method
  <1>3. info'["ret"] = Null /\ (loop = NoLoop => info'["key"] = Null /\ info'["val"] = Null)
    BY <1>1, <1>2 DEF Inv, Local
  <1>4. Len(stack) \in Nat
    BY DEF Inv
  <1>5. Len(stack') = Len(stack) + left' - left /\ Len(stack') >= Len(stack)
    BY <1>2, <1>4
  <1>6. CASE loop = NoLoop
    <2>1. loop' = NoLoop
      BY <1>6 DEF Method
    <2>2. Inv'
      BY <1>2, <1>3, <1>6, <2>1 DEF Inv
    <2> QED BY <1>2, <1>5, <1>6, <2>1, <2>2 DEF MethodKeeps
  <1>7. CASE loop # NoLoop
    <2>1. Walking
      BY <1>7 DEF Inv
    <2>2. T.left = 0 /\ \E w, s, c : /\ loop' = [loop EXCEPT !.whole = w, !.seen = s, !.changes = c]
                                     /\ w => loop.whole /\ T.heap[loop.self[2]] = heap[loop.self[2]]
                                     /\ w => s = loop.seen
      <3> DEFINE w == loop.whole /\ T.heap[loop.self[2]] = heap[loop.self[2]]
                 c == IF heap' # heap \/ info' # info THEN loop.changes + 1 ELSE loop.changes
                 s == IF w THEN loop.seen ELSE << >>
      <3>1. T.left = 0 /\ loop' = [loop EXCEPT !.whole = w, !.seen = s, !.changes = c]
        BY <1>7 DEF Method
      <3> QED BY <3>1
    <2>3. PICK w, s, c : /\ loop' = [loop EXCEPT !.whole = w, !.seen = s, !.changes = c]
                         /\ w => loop.whole /\ T.heap[loop.self[2]] = heap[loop.self[2]]
                         /\ w => s = loop.seen
      BY <2>2
    <2>4. loop' = [self |-> loop.self, depth |-> loop.depth, whole |-> w, seen |-> s, changes |-> c]
      <3>1. loop = [self |-> loop.self, depth |-> loop.depth, whole |-> loop.whole, seen |-> loop.seen,
                    changes |-> loop.changes]
        BY <2>1 DEF Walking
      <3> QED BY <2>3, <3>1
    <2>5. loop'.self = loop.self /\ loop'.depth = loop.depth /\ loop'.whole = w /\ loop'.seen = s /\ loop'.changes = c
      BY <2>4
    <2>6. loop' # NoLoop
      BY <2>1, <2>5 DEF Walking, NoLoop
    <2>7. left' = 0 /\ Len(stack') = loop.depth + 4 /\ stack'[loop.depth + 2] = stack[loop.depth + 2]
          /\ stack'[loop.depth + 1] = stack[loop.depth + 1]
      <3>1. left' = 0 /\ Len(stack) = loop.depth + 4 /\ loop.depth \in Nat
        BY <1>2, <2>1, <2>2 DEF Walking
      <3>2. loop.depth + 2 \in 1 .. Len(stack) /\ loop.depth + 1 \in 1 .. Len(stack)
        BY <3>1
      <3> QED BY <1>2, <1>4, <3>1, <3>2
    <2>8. Walking'
      BY <2>1, <2>4, <2>5, <2>7 DEF Walking
    <2>9. Inv'
      BY <1>2, <1>3, <2>6, <2>8 DEF Inv
    <2>10. heap'[loop.self[2]] = T.heap[loop.self[2]]
      <3>1. loop.depth + 1 \in 1 .. Len(stack) /\ loop.depth + 1 \in 1 .. Len(stack')
        BY <2>1, <2>7 DEF Walking
      <3>2. loop.self \in LiveValue(heap) /\ loop.self[1] = "ref" /\ stack'[loop.depth + 1] = loop.self
        BY <2>1, <2>7, <3>1 DEF Walking, Inv
      <3>3. loop.self[2] \in Obj /\ loop.self = Ref(loop.self[2])
        BY <3>2, Values DEF Inv, LiveValue
      <3> QED BY <1>2, <3>1, <3>2, <3>3
    <2> QED BY <1>2, <1>5, <1>7, <2>3, <2>5, <2>6, <2>9, <2>10 DEF MethodKeeps
  <1> QED BY <1>6, <1>7

LEMMA LevelMethod ==
  ASSUME Inv, NEW T, NEW m, Level(T, stack, 0, m, info), Method(T)
  PROVE  MethodKeeps
  BY NeatSame, NeatMethod

LEMMA Arguments ==
  ASSUME Inv
  PROVE  /\ Variable \subseteq Infos /\ Info \subseteq Infos
         /\ \A x \in Argument : IsArgument(x)
         /\ \A x \in Element : IsArgument(x)
         /\ IsArgument(Null) /\ IsArgument(Closure) /\ \A j \in Infos : IsArgument(Var(j))
         /\ Key \subseteq Keys
         /\ Root \in LiveValue(heap) /\ Null \in LiveValue(heap)
         /\ \A v \in Passed : v \in LiveValue(heap)
  <1>1. Variable \subseteq Infos /\ Info \subseteq Infos
    BY DEF Variable, Infos, Local
  <1>2. Null \in Plain /\ Closure \in Plain
    BY DEF Null, Closure, Plain
  <1>3. \A x \in Element : IsArgument(x)
    BY <1>1 DEF Element, IsArgument
  <1>4. \A x \in Argument : IsArgument(x)
    BY <1>2, <1>3 DEF Argument, IsArgument
  <1>5. HeapSound(heap)
    BY DEF Inv
  <1>6. \A v \in Passed : v \in LiveValue(heap)
    BY <1>5, Values DEF Passed
  <1>7. IsArgument(Null) /\ IsArgument(Closure) /\ \A j \in Infos : IsArgument(Var(j))
    BY <1>2 DEF IsArgument
  <1> QED BY <1>1, <1>3, <1>4, <1>5, <1>6, <1>7, Constants DEF Keys

LEMMA NowEmpty ==
  ASSUME Inv
  PROVE  /\ Level(Now(<< >>), stack, 0, 0, info)
         /\ \A v \in LiveValue(heap) : Level(Now(<< v >>), stack, 0, 1, info)
         /\ Now(<< >>).heap = heap /\ Now(<< >>).info = info /\ info["ret"] = Null
         /\ (Room => Fresh(Now(<< >>)) # {})
  <1>1. << >> \in Seq(LiveValue(heap)) /\ Len(<< >>) = 0
    OBVIOUS
  <1>2. Level(Now(<< >>), stack, 0, 0, info) /\ Now(<< >>).heap = heap /\ Now(<< >>).info = info
    BY <1>1, LevelNow
  <1>3. ASSUME NEW v \in LiveValue(heap)
        PROVE  Level(Now(<< v >>), stack, 0, 1, info)
    <2>1. << v >> \in Seq(LiveValue(heap)) /\ Len(<< v >>) = 1
      OBVIOUS
    <2> QED BY <2>1, LevelNow
  <1> QED BY <1>2, <1>3 DEF Room, Inv

\* The actions of the host, one by one.

LEMMA HoldKeeps ==
  ASSUME Inv, NEW i \in Info, Hold(i)
  PROVE  MethodKeeps
  <1> DEFINE S == Now(<< >>)
  <1>1. Level(S, stack, 0, 0, info) /\ i \in Infos
    BY NowEmpty, Arguments
  <1> HIDE DEF S
  <1>2. CASE Method(clear(S, i))
    <2>1. Level(clear(S, i), stack, 0, 0, Assigned(info, i, Null))
      BY <1>1, LevelClear
    <2> QED BY <1>2, <2>1, NeatAssigned, NeatMethod
  <1>3. ASSUME NEW v \in Passed, Method(getStack(Now(<< v >>), i, "v", -1))
        PROVE  MethodKeeps
    <2> DEFINE p == Now(<< v >>)
               x == Up(p, "v", -1)
    <2>1. Level(p, stack, 0, 1, info) /\ "v" \in VM /\ -1 \in Int
      BY NowEmpty, Arguments DEF VM
    <2> HIDE DEF p
    <2>2. x \in LiveValue(p.heap)
      BY <2>1, LevelValues, Depths
    <2>3. Level(getStack(p, i, "v", -1), stack, 0, 1, Assigned(info, i, x))
      BY <1>1, <2>1, <2>2, LevelGetStack
    <2> HIDE DEF x
    <2> QED BY <1>3, <2>3, NeatAssigned, NeatMethod DEF p
  <1>4. ASSUME NEW v \in Passed, Method(getStackWeak(Now(<< v >>), i, "v", -1))
        PROVE  MethodKeeps
    <2>1. Level(Now(<< v >>), stack, 0, 1, info)
      BY NowEmpty, Arguments
    <2> QED BY <1>4, <2>1, NeatGetStackWeak, NeatMethod, Depths
  <1>5. ASSUME NEW j \in Info, Method(getWeak(S, i, j)) \/ Method(getStrong(S, i, j))
        PROVE  MethodKeeps
    <2>1. j \in Infos
      BY Arguments
    <2> QED BY <1>1, <1>5, <2>1, NeatGetWeak, NeatMethod
  <1>6. ASSUME NEW x \in Argument, Method(setValue(S, i, x))
        PROVE  MethodKeeps
    BY <1>1, <1>6, Arguments, NeatSetValue, NeatMethod
  <1>7. ASSUME NEW j \in Variable, Method(assign(S, i, j))
        PROVE  MethodKeeps
    <2>1. \E x : Level(assign(S, i, j), stack, 0, 0, Assigned(info, i, x))
      BY <1>1, Arguments, LevelAssign
    <2> QED BY <1>7, <2>1, NeatAssigned, NeatMethod
  <1> QED BY <1>2, <1>3, <1>4, <1>5, <1>6, <1>7 DEF Hold, S

LEMMA CreateKeeps ==
  ASSUME Inv, NEW i \in Info, Create(i)
  PROVE  MethodKeeps
  <1> DEFINE S == Now(<< >>)
  <1>1. Level(S, stack, 0, 0, info) /\ i \in Infos /\ Fresh(S) # {} /\ info["ret"] = Null
    BY NowEmpty, Arguments DEF Create
  <1> HIDE DEF S
  <1>2. ASSUME NEW n \in 0 .. 1, Method(initArray(S, i, n))
        PROVE  MethodKeeps
    <2>1. n \in Nat
      OBVIOUS
    <2> QED BY <1>1, <1>2, <2>1, NeatInitArray, NeatMethod
  <1>3. CASE Method(initTable(S, i))
    <2>1. 0 \in Nat
      OBVIOUS
    <2> QED BY <1>1, <1>3, <2>1, NeatInitArray, NeatMethod
  <1>4. ASSUME NEW j \in Info, Method(SQTemplate(S, i, j))
        PROVE  MethodKeeps
    BY <1>1, <1>4, Arguments, NeatTemplate, NeatMethod
  <1>5. ASSUME NEW j \in Info, Method(clone(S, i, j))
        PROVE  MethodKeeps
    BY <1>1, <1>5, Arguments, NeatClone, NeatMethod
  <1>6. CASE Method(pushClone(S, "v", i))
    BY <1>1, <1>6, NeatPushClone, NeatMethod
  <1> QED BY <1>2, <1>3, <1>4, <1>5, <1>6 DEF Create, S

LEMMA ChangeArrayKeeps ==
  ASSUME Inv, NEW i \in Info, ChangeArray(i)
  PROVE  MethodKeeps
  <1> DEFINE S == Now(<< >>)
  <1>1. Level(S, stack, 0, 0, info) /\ i \in Infos
    BY NowEmpty, Arguments
  <1> HIDE DEF S
  <1>2. ASSUME NEW x \in Element,
               \/ Method(append(S, i, x))
               \/ \E n \in 0 .. 2 : Method(insert(S, i, n, x))
               \/ \E all \in BOOLEAN : \E T \in removeValue(S, i, x, all) : Method(T)
        PROVE  MethodKeeps
    <2>1. IsArgument(x)
      BY Arguments
    <2>2. Level(append(S, i, x), stack, 0, 0, info)
      BY <1>1, <2>1, LevelChangeArray
    <2>3. \A n : Level(insert(S, i, n, x), stack, 0, 0, info)
      BY <1>1, <2>1, LevelChangeArray
    <2>4. \A all : \A T \in removeValue(S, i, x, all) : Level(T, stack, 0, 0, info)
      BY <1>1, <2>1, LevelChangeArray
    <2> QED BY <1>2, <2>2, <2>3, <2>4, LevelMethod
  <1>3. ASSUME NEW v \in Passed, Method(appendStack(Now(<< v >>), i, "v", -1))
        PROVE  MethodKeeps
    <2>1. Level(Now(<< v >>), stack, 0, 1, info)
      BY NowEmpty, Arguments
    <2>2. Level(appendStack(Now(<< v >>), i, "v", -1), stack, 0, 1, info)
      BY <1>1, <2>1, LevelAppendStack, Depths
    <2> QED BY <1>3, <2>2, LevelMethod
  <1>4. (\A n : Level(remove(S, i, n), stack, 0, 0, info)) /\ Level(clearData(S, i), stack, 0, 0, info)
    BY <1>1, LevelRemoveElement
  <1>5. ASSUME NEW j \in Info, Method(appendArray(S, i, j))
        PROVE  MethodKeeps
    <2>1. Level(appendArray(S, i, j), stack, 0, 0, info)
      BY <1>1, Arguments, LevelAppendArray
    <2> QED BY <1>5, <2>1, LevelMethod
  <1>6. ASSUME NEW n \in 0 .. 2, Method(remove(S, i, n))
        PROVE  MethodKeeps
    BY <1>4, <1>6, LevelMethod
  <1>7. CASE Method(clearData(S, i))
    BY <1>4, <1>7, LevelMethod
  <1> QED BY <1>2, <1>3, <1>5, <1>6, <1>7 DEF ChangeArray, S

LEMMA ChangeSlotKeeps ==
  ASSUME Inv, NEW i \in Info, ChangeSlot(i)
  PROVE  MethodKeeps
  <1> DEFINE S == Now(<< >>)
  <1>1. Level(S, stack, 0, 0, info) /\ i \in Infos
    BY NowEmpty, Arguments
  <1> HIDE DEF S
  <1>2. PICK key \in Key : \/ \E x \in Argument : Method(set(S, i, key, x)) \/ Method(create(S, i, key, x))
                           \/ Method(deleteslot(S, i, key))
    BY DEF ChangeSlot, S
  <1>3. key \in Keys
    BY Arguments
  <1>4. Level(deleteslot(S, i, key), stack, 0, 0, info)
    BY <1>1, <1>3, LevelChangeSlot
  <1>5. ASSUME NEW x \in Argument
        PROVE  Level(set(S, i, key, x), stack, 0, 0, info) /\ Level(create(S, i, key, x), stack, 0, 0, info)
    BY <1>1, <1>3, Arguments, LevelChangeSlot
  <1> QED BY <1>2, <1>4, <1>5, LevelMethod

LEMMA ElementKeeps ==
  ASSUME Inv, NEW i \in Info
  PROVE  /\ \A key \in Key, x \in Argument : SetElement(i, key, x) => MethodKeeps
         /\ SetElementOf(i) => MethodKeeps
  <1> DEFINE S == Now(<< >>)
  <1>1. Level(S, stack, 0, 0, info) /\ i \in Infos /\ info["ret"] = Null
    BY NowEmpty, Arguments
  <1> HIDE DEF S
  <1>2. ASSUME NEW key \in Key, NEW x \in Argument, SetElement(i, key, x)
        PROVE  MethodKeeps
    <2>1. Level(setElement(S, i, key, x), stack, 0, 0, info)
      BY <1>1, Arguments, LevelSetElement
    <2>2. Method(setElement(S, i, key, x))
      BY <1>2 DEF SetElement, S
    <2> QED BY <2>1, <2>2, LevelMethod
  <1>3. ASSUME SetElementOf(i)
        PROVE  MethodKeeps
    <2>1. PICK key \in Key, second \in Key, x \in {Closure, Var(i)} : Method(setElementOf(S, i, key, second, x))
      BY <1>3 DEF SetElementOf, S
    <2>2. IsArgument(x) /\ key \in Keys /\ second \in Keys
      BY <1>1, Arguments
    <2>3. Level(setElementOf(S, i, key, second, x), stack, 0, 0, info)
      BY <1>1, <2>2, LevelSetElementOf
    <2> QED BY <2>1, <2>3, LevelMethod
  <1> QED BY <1>2, <1>3

LEMMA ReadKeeps ==
  ASSUME Inv, NEW i \in Info, Read(i)
  PROVE  MethodKeeps
  <1> DEFINE S == Now(<< >>)
  <1>1. Level(S, stack, 0, 0, info) /\ i \in Infos /\ info["ret"] = Null
    BY NowEmpty, Arguments
  <1> HIDE DEF S
  <1>2. ASSUME NEW key \in Key,
               \/ \E j \in Info : Method(get(S, i, j, key)) \/ Method(setValueElement(S, i, j, key))
               \/ Method(getNumber(S, i, key))
               \/ Method(castElement(S, i, key))
               \/ Method(has(S, i, key))
        PROVE  MethodKeeps
    <2>1. key \in Keys /\ Info \subseteq Infos
      BY Arguments
    <2>2. \A j \in Info : Neat(get(S, i, j, key), stack, info)
      BY <1>1, <2>1, NeatGet
    <2>3. \A j \in Info : Neat(setValueElement(S, i, j, key), stack, info)
      BY <1>1, <2>1, NeatSetValueElement
    <2>4. Level(getNumber(S, i, key), stack, 0, 0, info)
      BY <1>1, <2>1, LevelGetNumber
    <2>5. Level(castElement(S, i, key), stack, 0, 0, info)
      BY <1>1, <2>1, LevelCastElement
    <2>6. Level(has(S, i, key), stack, 0, 0, info)
      BY <1>1, <2>1, LevelChangeSlot
    <2>7. ASSUME NEW j \in Info, Method(get(S, i, j, key)) \/ Method(setValueElement(S, i, j, key))
          PROVE  MethodKeeps
      BY <2>2, <2>3, <2>7, NeatMethod
    <2> QED BY <1>2, <2>4, <2>5, <2>6, <2>7, LevelMethod
  <1>3. Level(cast(S, i), stack, 0, 0, info) /\ Level(len(S, i), stack, 0, 0, info)
    BY <1>1, LevelRemoveElement
  <1>4. CASE Method(cast(S, i)) \/ Method(len(S, i))
    BY <1>3, <1>4, LevelMethod
  <1>5. CASE Method(pushArray(S, "v", i))
    BY <1>1, <1>5, NeatPushArray, NeatMethod
  <1>6. ASSUME NEW x \in Argument, NEW T \in compare(S, i, x), Method(T)
        PROVE  MethodKeeps
    <2>1. Level(T, stack, 0, 0, info)
      BY <1>1, Arguments, LevelCompare
    <2> QED BY <1>6, <2>1, LevelMethod
  <1> QED BY <1>2, <1>4, <1>5, <1>6 DEF Read, S

LEMMA CallKeeps ==
  ASSUME Inv, NEW i \in Info, Call(i)
  PROVE  MethodKeeps
  <1> DEFINE S == Now(<< >>)
  <1>1. /\ Level(S, stack, 0, 0, info) /\ i \in Infos /\ info["ret"] = Null /\ S.heap = heap
        /\ Root \in LiveValue(S.heap)
    BY NowEmpty, Arguments
  <1>2. Room => Fresh(S) # {}
    BY NowEmpty
  <1> HIDE DEF S
  <1>3. PICK x \in {Null, Var(i)}, result \in Outcome :
          \/ \E j \in Info : /\ type(S, i) = "class" => Room
                             /\ \/ Method(call(S, i, Root, x, result))
                                \/ Method(callResult(S, j, i, Root, x, result))
          \/ \E key \in Key : Method(callMethod(S, i, key, x, result))
    BY DEF Call, S
  <1>4. IsArgument(x)
    BY <1>1, Arguments
  <1>5. ASSUME NEW j \in Info, type(S, i) = "class" => Room,
               Method(call(S, i, Root, x, result)) \/ Method(callResult(S, j, i, Root, x, result))
        PROVE  MethodKeeps
    <2>1. type(S, i) = "class" => Fresh(S) # {}
      BY <1>2, <1>5
    <2>2. Level(call(S, i, Root, x, result), stack, 0, 0, info)
      BY <1>1, <1>4, <2>1, LevelOfCall
    <2>3. Neat(callResult(S, j, i, Root, x, result), stack, info)
      BY <1>1, <1>4, <2>1, NeatCallResult
    <2> QED BY <1>5, <2>2, <2>3, LevelMethod, NeatMethod
  <1>6. ASSUME NEW key \in Key, Method(callMethod(S, i, key, x, result))
        PROVE  MethodKeeps
    <2>1. Level(callMethod(S, i, key, x, result), stack, 0, 0, info)
      BY <1>1, <1>4, Arguments, LevelCallMethod
    <2> QED BY <1>6, <2>1, LevelMethod
  <1> QED BY <1>3, <1>5, <1>6

LEMMA DelegateKeeps ==
  ASSUME Inv, NEW i \in Info, NEW j \in Info, Delegate(i, j)
  PROVE  MethodKeeps
  <1> DEFINE S == Now(<< >>)
             v == RealVal(heap, info[i])
             w == RealVal(heap, info[j])
             r == SetDelegate(heap, v[2], w[2])
  <1>1. Level(S, stack, 0, 0, info) /\ S.heap = heap /\ S.info = info /\ HeapSound(heap)
    BY NowEmpty DEF Inv
  <1>2. Type(heap, v) = "table" /\ Type(heap, w) = "table" /\ Method(WithHeap(S, r.heap))
    BY <1>1 DEF Delegate, type, WithHeap
  <1>3. info[i] \in LiveValue(heap) /\ info[j] \in LiveValue(heap)
    BY Arguments DEF Inv
  <1> HIDE DEF S
  <1>4. v \in LiveValue(heap) /\ w \in LiveValue(heap)
    BY <1>1, <1>3, RealLive
  <1> HIDE DEF v, w
  <1>5. v[2] \in Obj /\ heap[v[2]].type = "table" /\ w[2] \in Obj /\ heap[w[2]].type = "table"
    BY <1>1, <1>2, <1>4, RefType
  <1>6. HeapSound(r.heap) /\ Grows(heap, r.heap)
    BY <1>1, <1>5, SetDelegateSound
  <1> HIDE DEF r
  <1>7. Level(WithHeap(S, r.heap), stack, 0, 0, info)
    BY <1>1, <1>6, LevelHeap
  <1> QED BY <1>2, <1>7, LevelMethod

-----------------------------------------------------------------------------
\* Walks.  The parameters of the callback are taken from the two values on top.

LEMMA LevelTurn ==
  ASSUME NEW S, NEW b, NEW n, NEW m, NEW f, Level(S, b, n, m, f), n > 1, f["key"] = Null, f["val"] = Null
  PROVE  LET T == Turn(S)
         IN  /\ \E x, y : Level(T, b, n, m, Assigned(Assigned(f, "key", x), "val", y))
             /\ T.left = S.left /\ T.stack.gv = S.stack.gv /\ T.heap = S.heap
  <1> DEFINE x == Up(S, "gv", -2)
             p == ObjectInfo(S, "key", "gv", -2)
             g == Assigned(f, "key", x)
             y == Up(p, "gv", -1)
             T == ObjectInfo(p, "val", "gv", -1)
  <1>0. "key" \in Infos /\ "val" \in Infos /\ "gv" \in VM /\ -1 \in Int /\ -2 \in Int /\ n > 0
    <2>1. n \in Nat
      BY LevelValues
    <2> QED BY <2>1 DEF Infos, Local, VM
  <1>1. Turn(S) = T
    BY DEF Turn
  <1>2. x \in LiveValue(S.heap)
    BY LevelValues
  <1>3. Level(p, b, n, m, g) /\ p.left = S.left /\ p.stack.gv = S.stack.gv /\ p.heap = S.heap
    BY <1>0, <1>2, LevelObjectInfo
  <1>4. g["val"] = Null
    BY <1>0, Cleared
  <1> HIDE DEF p, g
  <1>5. y \in LiveValue(p.heap)
    BY <1>0, <1>3, LevelValues
  <1>6. Level(T, b, n, m, Assigned(g, "val", y)) /\ T.left = p.left /\ T.stack.gv = p.stack.gv /\ T.heap = p.heap
    BY <1>0, <1>3, <1>4, <1>5, LevelObjectInfo
  <1> HIDE DEF T, x, y
  <1> QED BY <1>1, <1>3, <1>6 DEF g

LEMMA TurnTaken ==
  ASSUME NEW S, NEW b, NEW n, NEW m, NEW f, Level(S, b, n, m, f), n > 0,
         Up(S, "gv", -1)[2] \in Nat, Up(S, "gv", -2) \in LiveValue(S.heap), sq_next(S, "gv", -2).ok
  PROVE  Up(S, "gv", -2) # Null
  <1>1. HeapSound(S.heap) /\ IsMachine(S)
    BY DEF Level, State
  <1>2. NextTurn(S.heap, Up(S, "gv", -2), Up(S, "gv", -1)[2]) # NoTurn
    <2>1. CASE NextTurn(S.heap, Up(S, "gv", -2), Up(S, "gv", -1)[2]) = NoTurn
      <3>1. sq_next(S, "gv", -2) = Fail(S)
        BY <2>1 DEF sq_next
      <3>2. Fail(S).ok = FALSE
        BY LevelResult
      <3> QED BY <3>1, <3>2
    <2> QED BY <2>1
  <1>3. Type(S.heap, Up(S, "gv", -2)) \in {"array", "table", "class", "instance"}
    BY <1>1, <1>2, NextTurnLive
  <1> QED BY <1>1, <1>3, RefType

\* A walk of self has taken its turn from place at.
Turned(self, at) ==
    LET t == NextTurn(heap, self, at)
    IN  /\ self \in LiveValue(heap) /\ at \in Nat /\ t # NoTurn
        /\ stack'[loop'.depth + 2] = IntV(t.at)
        /\ heap'[self[2]] = heap[self[2]]

\* The stack under a walk: what was there, the container and the position, and after
\* them the key and the value.
LEMMA BeginKeeps ==
  ASSUME Inv, NEW i \in Info, Begin(i)
  PROVE  /\ Inv'
         /\ loop = NoLoop
         /\ \A k \in 1 .. Len(stack) : stack'[k] = stack[k]
         /\ loop' = NoLoop => Len(stack') = Len(stack) + left' - left
         /\ Len(stack') >= Len(stack)
         /\ loop' # NoLoop => Turned(loop'.self, 0) /\ loop'.seen = << NextTurn(heap, loop'.self, 0).key >>
  <1> DEFINE S == Now(<< >>)
             v == RealVal(S.heap, info[i])
             o == push(S, "gv", info[i])
             p == sq_pushnull(o, "gv")
             n == sq_next(p, "gv", -2)
             T == Turn(n)
             U == sq_pop(n, "gv", 2)
  <1>0. /\ Level(S, stack, 0, 0, info) /\ S.left = 0 /\ i \in Infos /\ Len(stack) \in Nat
        /\ stack \in Seq(LiveValue(S.heap)) /\ S.info = info /\ S.stack.gv = stack /\ S.heap = heap
    <2>1. Level(S, stack, 0, 0, info) /\ S.heap = heap /\ S.info = info /\ i \in Infos
      BY NowEmpty, Arguments
    <2>2. S.left = 0 /\ S.stack.gv = stack
      BY DEF Now
    <2> HIDE DEF S
    <2>3. stack \in Seq(LiveValue(S.heap)) /\ Len(stack) \in Nat
      BY <2>1 DEF Inv
    <2> QED BY <2>1, <2>2, <2>3
  <1>1. /\ loop = NoLoop /\ info["key"] = Null /\ info["val"] = Null /\ info["ret"] = Null
        /\ IF n.ok
             THEN /\ Become(T)
                  /\ loop' = [self |-> Up(p, "gv", -2), depth |-> Len(stack), whole |-> TRUE, changes |-> 0,
                              seen |-> << Up(n, "gv", -2) >>]
             ELSE Become(U) /\ loop' = NoLoop
    BY DEF Begin, Inv
  <1> HIDE DEF S
  <1>2. Level(o, stack, 0 + 1, 0, info) /\ Apart(o, S) /\ o.stack.gv = Append(stack, v) /\ v \in LiveValue(S.heap)
    <2>1. o = push(S, "gv", S.info[i])
      BY <1>0
    <2> DEFINE f == info
    <2>3. Level(S, stack, 0, 0, f)
      BY <1>0
    <2>5. i \in Infos
      BY <1>0
    <2> HIDE DEF f
    <2>2. /\ Level(push(S, "gv", S.info[i]), stack, 0 + 1, 0, f) /\ Apart(push(S, "gv", S.info[i]), S)
          /\ push(S, "gv", S.info[i]).stack.gv = Append(S.stack.gv, RealVal(S.heap, f[i]))
          /\ RealVal(S.heap, f[i]) \in LiveValue(S.heap)
      BY <2>3, <2>5, LevelVariable
    <2> HIDE DEF o
    <2>4. f = info
      BY DEF f
    <2> QED BY <1>0, <2>1, <2>2, <2>4
  <1> HIDE DEF o, v
  <1>3. Level(o, stack, 1, 0, info) /\ o.left = 0 /\ o.heap = S.heap
    BY <1>0, <1>2, Depths DEF Apart
  <1>4. Level(p, stack, 1 + 1, 0, info) /\ Apart(p, o) /\ p.stack.gv = Append(o.stack.gv, Null)
    BY <1>3, LevelKey
  <1> HIDE DEF p
  <1>5. Level(p, stack, 2, 0, info) /\ p.left = 0 /\ Len(p.stack.gv) = Len(stack) + 2 /\ p.heap = heap
    <2>1. Level(p, stack, 2, 0, info) /\ p.left = 0 /\ p.heap = heap
      BY <1>0, <1>3, <1>4, Depths DEF Apart
    <2>2. Len(p.stack.gv) = Len(stack) + 2 + p.left
      BY <2>1 DEF Level
    <2> QED BY <1>0, <2>1, <2>2
  <1>6. /\ Up(p, "gv", -1) = Null /\ Null[2] \in Nat /\ Null[2] = 0 /\ Up(p, "gv", -2) \in LiveValue(p.heap)
        /\ Up(p, "gv", -2) = v /\ p.stack.gv = Append(Append(stack, v), Null)
    <2>1. Up(p, "gv", -2) \in LiveValue(p.heap)
      BY <1>5, LevelValues, Depths
    <2>2. Len(p.stack.gv) + 1 + (-1) = Len(stack) + 2
      BY <1>0, <1>5
    <2>3. p.stack.gv = Append(Append(stack, v), Null)
      BY <1>2, <1>4
    <2>4. Append(Append(stack, v), Null)[Len(stack) + 2] = Null /\ Append(Append(stack, v), Null)[Len(stack) + 1] = v
      BY <1>0, <1>2
    <2>5. Len(p.stack.gv) + 1 + (-2) = Len(stack) + 1
      BY <1>0, <1>5
    <2>6. Up(p, "gv", -1) = Null /\ Up(p, "gv", -2) = v
      BY <2>2, <2>3, <2>4, <2>5 DEF Up
    <2> QED BY <2>1, <2>3, <2>6 DEF Null
  <1> DEFINE b == Append(stack, v)
             t == NextTurn(p.heap, v, 0)
  <1>10. Level(p, b, 1, 0, info) /\ Len(b) = Len(stack) + 1 /\ b[Len(stack) + 1] = v /\ \A k \in 1 .. Len(stack) : b[k] = stack[k]
    <2>1. Len(b) = Len(stack) + 1 /\ b[Len(stack) + 1] = v /\ \A k \in 1 .. Len(stack) : b[k] = stack[k]
      BY <1>0, <1>2
    <2>2. b \in Seq(LiveValue(S.heap)) /\ Len(b) \in Nat
      BY <1>0, <1>2
    <2>3. Append(b, Null)[Len(b) + 1] = Null /\ \A k \in 1 .. Len(b) : Append(b, Null)[k] = b[k]
      BY <2>2
    <2>4. p.stack.gv = Append(b, Null)
      BY <1>6
    <2>5. State(p) /\ p.info = info /\ Len(p.stack.v) = 0
      BY <1>5 DEF Level
    <2>6. Len(p.stack.gv) = Len(b) + 1 + p.left
      BY <1>0, <1>5, <2>1
    <2> HIDE DEF b
    <2> QED BY <2>1, <2>2, <2>3, <2>4, <2>5, <2>6 DEF Level
  <1>11. v \in LiveValue(p.heap) /\ NextTurn(p.heap, Up(p, "gv", -2), Up(p, "gv", -1)[2]) = t
    BY <1>6
  <1> HIDE DEF b
  <1>7. /\ n.ok \in BOOLEAN /\ n.left = p.left
        /\ ~ n.ok => Level(n, stack, 2, 0, info)
        /\ n.ok => /\ Level(n, stack, 2 + 2, 0, info)
                   /\ \E at \in Nat : n.stack.gv[Len(p.stack.gv)] = IntV(at)
                   /\ n.heap = p.heap /\ t # NoTurn
                   /\ n.stack.gv[Len(p.stack.gv)] = IntV(t.at) /\ Up(n, "gv", -2) = t.key
        /\ n.ok => Up(p, "gv", -2) # Null
    <2> DEFINE self == Up(p, "gv", -2)
               u == NextTurn(p.heap, self, Up(p, "gv", -1)[2])
    <2>1. /\ n.ok \in BOOLEAN /\ n.left = p.left
          /\ ~ n.ok => Level(n, stack, 2, 0, info)
          /\ n.ok => /\ Level(n, stack, 2 + 2, 0, info)
                     /\ \E at \in Nat : n.stack.gv[Len(p.stack.gv)] = IntV(at)
                     /\ u # NoTurn
                     /\ n.stack.gv[Len(p.stack.gv)] = IntV(u.at) /\ Up(n, "gv", -2) = u.key
          /\ n.heap = p.heap
      BY <1>5, <1>6, LevelNext, Depths
    <2>2. n.ok => self # Null
      BY <1>5, <1>6, TurnTaken, Depths
    <2>3. u = t
      BY <1>11
    <2> HIDE DEF n, u, t
    <2> QED BY <2>1, <2>2, <2>3
  <1>12. n.ok => Level(n, b, 1 + 2, 0, info)
    BY <1>6, <1>10, LevelNext, Depths
  <1> HIDE DEF n, t
  <1>8. CASE n.ok
    <2>1. Level(n, stack, 4, 0, info) /\ 4 > 1
      BY <1>7, <1>8
    <2>2. PICK x, y : Level(T, stack, 4, 0, Assigned(Assigned(info, "key", x), "val", y))
                      /\ T.left = n.left /\ T.stack.gv = n.stack.gv /\ T.heap = n.heap
      BY <1>1, <2>1, LevelTurn
    <2> DEFINE g == Assigned(Assigned(info, "key", x), "val", y)
    <2>3. g["ret"] = Null
      <3>1. "ret" \in Infos /\ DOMAIN info = Infos
        BY DEF Infos, Local, Inv
      <3> QED BY <1>1, <3>1 DEF Assigned
    <2> HIDE DEF g
    <2>4. Become(T) /\ Level(T, stack, 4, 0, g)
      BY <1>1, <1>8, <2>2 DEF g
    <2> HIDE DEF T
    <2>5. /\ HeapSound(heap') /\ stack' \in Seq(LiveValue(heap')) /\ info' \in [Infos -> LiveValue(heap')]
          /\ RefsExact(refs', info') /\ left' \in Nat
          /\ info' = g /\ stack' = T.stack.gv /\ left' = T.left /\ left = 0
          /\ Len(stack') = Len(stack) + 4 + left' /\ \A k \in 1 .. Len(stack) : stack'[k] = stack[k]
          /\ \A r \in Obj : \A k \in 1 .. Len(stack') : stack'[k] = Ref(r) => heap'[r] = T.heap[r]
      BY <2>4, LevelSettled
    <2>6. left' = 0 /\ Len(stack') = Len(stack) + 4 /\ (\E at \in Nat : stack'[Len(stack) + 2] = IntV(at))
          /\ stack'[Len(stack) + 2] = IntV(t.at)
      BY <1>0, <1>5, <1>7, <1>8, <2>2, <2>5
    <2>7. /\ loop' = [self |-> Up(p, "gv", -2), depth |-> Len(stack), whole |-> TRUE, changes |-> 0,
                      seen |-> << Up(n, "gv", -2) >>]
          /\ Up(p, "gv", -2) # Null
      BY <1>1, <1>7, <1>8
    <2>12. stack'[Len(stack) + 1] = v
      <3>1. Len(stack) + 1 \in 1 .. Len(b) /\ stack' = n.stack.gv
        BY <1>0, <1>10, <2>2, <2>5
      <3>2. \A k \in 1 .. Len(b) : n.stack.gv[k] = b[k]
        BY <1>8, <1>12 DEF Level
      <3> QED BY <1>10, <3>1, <3>2
    <2>13. v[1] = "ref" /\ v[2] \in Obj /\ v = Ref(v[2])
      <3>1. Type(p.heap, v) \in {"array", "table", "class"} /\ HeapSound(p.heap)
        BY <1>5, <1>7, <1>8, <1>11, LevelValues, NextTurnLive DEF t
      <3> QED BY <1>11, <3>1, RefType
    <2>8. loop'.self # Null /\ loop'.depth = Len(stack) /\ loop' # NoLoop
      BY <2>7 DEF NoLoop
    <2>9. loop' = [self |-> loop'.self, depth |-> loop'.depth, whole |-> loop'.whole, seen |-> loop'.seen,
                   changes |-> loop'.changes]
      BY <2>7
    <2>14. loop'.self = v /\ loop'.seen = << t.key >>
      BY <1>6, <1>7, <1>8, <2>7
    <2>10. Walking'
      BY <1>0, <2>6, <2>8, <2>9, <2>12, <2>13, <2>14 DEF Walking
    <2>11. Inv'
      BY <2>3, <2>5, <2>8, <2>10 DEF Inv
    <2>15. Turned(loop'.self, 0) /\ loop'.seen = << NextTurn(heap, loop'.self, 0).key >>
      <3>1. t = NextTurn(heap, v, 0)
        BY <1>5 DEF t
      <3>2. Len(stack) + 1 \in 1 .. Len(stack')
        BY <1>0, <2>6
      <3>3. heap'[v[2]] = T.heap[v[2]]
        BY <2>5, <2>12, <2>13, <3>2
      <3>4. T.heap = heap
        BY <1>5, <1>7, <1>8, <2>2
      <3>5. v \in LiveValue(heap)
        BY <1>5, <1>11
      <3> QED BY <1>7, <1>8, <2>6, <2>8, <2>14, <3>1, <3>3, <3>4, <3>5 DEF Turned
    <2> QED BY <1>0, <1>1, <2>5, <2>6, <2>8, <2>11, <2>15
  <1>9. CASE ~ n.ok
    <2>1. Level(U, stack, 0, 0, info)
      BY <1>7, <1>9, PopLast
    <2>2. Become(U) /\ loop' = NoLoop
      BY <1>1, <1>9
    <2> HIDE DEF U
    <2>3. /\ HeapSound(heap') /\ stack' \in Seq(LiveValue(heap')) /\ info' \in [Infos -> LiveValue(heap')]
          /\ RefsExact(refs', info') /\ left' \in Nat /\ info' = info /\ left = 0
          /\ Len(stack') = Len(stack) + 0 + left' /\ \A k \in 1 .. Len(stack) : stack'[k] = stack[k]
      BY <2>1, <2>2, LevelSettled
    <2>4. Inv'
      BY <1>1, <2>2, <2>3 DEF Inv
    <2> QED BY <1>0, <1>1, <2>2, <2>3, <2>4
  <1> QED BY <1>7, <1>8, <1>9

\* Between two turns of a walk, above any part of the stack that was there before:
\* the container, the position on top, and no parameter held.
Between == sq_pop(clear(clear(Now(<< >>), "val"), "key"), "gv", 2)

LEMMA LevelBetween ==
  ASSUME Inv, loop # NoLoop, NEW d \in 0 .. loop.depth + 1
  PROVE  /\ \E g : Level(Between, SubSeq(stack, 1, d), loop.depth + 2 - d, 0, g) /\ \A l \in Local : g[l] = Null
         /\ Len(SubSeq(stack, 1, d)) = d
         /\ Between.left = 0 /\ Len(Between.stack.gv) = loop.depth + 2
         /\ Up(Between, "gv", -1)[2] \in Nat /\ Up(Between, "gv", -2) \in LiveValue(Between.heap)
         /\ Between.heap = heap
         /\ Up(Between, "gv", -1) = stack[loop.depth + 2] /\ Up(Between, "gv", -2) = loop.self
  <1> DEFINE S == Now(<< >>)
             b == SubSeq(stack, 1, d)
             k == loop.depth + 4 - d
             a == clear(S, "val")
             c == clear(a, "key")
             p == sq_pop(c, "gv", 2)
             f == info
             e == Assigned(f, "val", Null)
             g == Assigned(e, "key", Null)
  <1>1. /\ loop.depth \in Nat /\ Len(stack) = loop.depth + 4 /\ stack \in Seq(LiveValue(heap)) /\ left = 0
        /\ \E at \in Nat : stack[loop.depth + 2] = IntV(at)
        /\ stack[loop.depth + 1] = loop.self
    BY DEF Inv, Walking
  <1>2. d \in 0 .. Len(stack) /\ k \in Nat /\ k > 1 /\ k - 2 = loop.depth + 2 - d /\ Len(stack) = d + k + 0 /\ d \in Nat
    BY <1>1
  <1>3. Len(b) = d /\ \A i \in 1 .. d : b[i] = stack[i]
    BY <1>1, <1>2, SubSeqSeq
  <1>4. Level(S, b, k, 0, f)
    <2>1. Level(S, stack, 0, 0, info)
      BY NowEmpty
    <2>2. S.left = 0 /\ S.stack.gv = stack
      BY DEF Now
    <2>3. State(S) /\ S.info = info /\ Len(S.stack.v) = 0
      BY <2>1 DEF Level
    <2> HIDE DEF S, b, k
    <2> QED BY <1>2, <1>3, <2>2, <2>3 DEF Level
  <1>5. S.stack.gv = stack /\ S.left = 0 /\ S.heap = heap
    BY DEF Now
  <1>6. "val" \in Infos /\ "key" \in Infos /\ DOMAIN f = Infos /\ f["ret"] = Null /\ Local \subseteq Infos
    BY DEF Infos, Local, Inv
  <1> HIDE DEF S, b, k, f
  <1>7. Level(a, b, k, 0, e) /\ a.heap = S.heap /\ a.stack = S.stack /\ a.left = S.left
    BY <1>4, <1>6, LevelClear
  <1> HIDE DEF a
  <1>8. \A l \in Local : g[l] = Null
    BY <1>6 DEF Local, Assigned
  <1> HIDE DEF e
  <1>9. Level(c, b, k, 0, g) /\ c.heap = a.heap /\ c.stack = a.stack /\ c.left = a.left
    BY <1>6, <1>7, LevelClear
  <1> HIDE DEF c, g
  <1>10. /\ Level(p, b, k - 2, 0, g) /\ Apart(p, c)
         /\ p.stack.gv = SubSeq(c.stack.gv, 1, Len(c.stack.gv) - 2)
    <2>1. 2 \in 0 .. k
      BY <1>2
    <2>2. /\ Level(Pop(c, "gv", 2), b, k - 2, 0, g) /\ Apart(Pop(c, "gv", 2), c)
          /\ Pop(c, "gv", 2).stack.gv = SubSeq(c.stack.gv, 1, Len(c.stack.gv) - 2)
      BY <1>9, <2>1, LevelPop
    <2> QED BY <2>2 DEF sq_pop
  <1>11. Between = p
    BY DEF Between, S, a, c
  <1> HIDE DEF p
  <1>12. /\ Len(p.stack.gv) = loop.depth + 2
         /\ p.stack.gv[loop.depth + 2] = stack[loop.depth + 2] /\ p.stack.gv[loop.depth + 1] = stack[loop.depth + 1]
    <2>1. p.stack.gv = SubSeq(stack, 1, loop.depth + 2)
      <3>1. c.stack.gv = stack /\ Len(stack) - 2 = loop.depth + 2
        BY <1>1, <1>5, <1>7, <1>9
      <3> QED BY <1>10, <3>1
    <2>2. loop.depth + 2 \in 0 .. Len(stack) /\ loop.depth + 2 \in 1 .. loop.depth + 2 /\ loop.depth + 1 \in 1 .. loop.depth + 2
      BY <1>1
    <2> QED BY <1>1, <2>1, <2>2, SubSeqSeq
  <1>13. p.left = 0 /\ p.heap = heap
    BY <1>5, <1>7, <1>9, <1>10 DEF Apart
  <1>14. Up(p, "gv", -1) = stack[loop.depth + 2] /\ Up(p, "gv", -2) = stack[loop.depth + 1]
    <2>1. Len(p.stack.gv) + 1 + (-1) = loop.depth + 2 /\ Len(p.stack.gv) + 1 + (-2) = loop.depth + 1
      BY <1>1, <1>12
    <2> QED BY <1>12, <2>1 DEF Up
  <1>15. stack[loop.depth + 1] \in LiveValue(heap)
    BY <1>1
  <1>16. Up(p, "gv", -1)[2] \in Nat /\ Up(p, "gv", -2) \in LiveValue(p.heap)
    BY <1>1, <1>13, <1>14, <1>15 DEF IntV
  <1>17. Level(p, b, loop.depth + 2 - d, 0, g)
    BY <1>2, <1>10
  <1> QED BY <1>1, <1>3, <1>8, <1>11, <1>12, <1>13, <1>14, <1>16, <1>17 DEF b

LEMMA ContinueKeeps ==
  ASSUME Inv, Continue
  PROVE  /\ Inv'
         /\ loop # NoLoop /\ loop' # NoLoop
         /\ Len(stack') = Len(stack) + left' - left
         /\ \A k \in 1 .. loop.depth + 1 : stack'[k] = stack[k]
         /\ Turned(loop.self, stack[loop.depth + 2][2])
         /\ loop'.self = loop.self /\ loop'.whole = loop.whole
         /\ loop.whole => loop'.seen = Append(loop.seen, NextTurn(heap, loop.self, stack[loop.depth + 2][2]).key)
  <1> DEFINE d == loop.depth + 1
             b == SubSeq(stack, 1, d)
             p == Between
             n == sq_next(p, "gv", -2)
             T == Turn(n)
  <1>1. /\ loop # NoLoop /\ n.ok /\ Become(T)
        /\ \E s : /\ loop' = [loop EXCEPT !.seen = s]
                  /\ loop.whole => s = Append(loop.seen, Up(n, "gv", -2))
    BY DEF Continue, Between
  <1>2. Walking /\ loop.depth \in Nat /\ left = 0 /\ Len(stack) = loop.depth + 4 /\ stack \in Seq(LiveValue(heap))
    BY <1>1 DEF Inv, Walking
  <1>3. d \in 0 .. loop.depth + 1 /\ loop.depth + 2 - d = 1 /\ d \in 0 .. Len(stack)
    BY <1>2
  <1>4. Len(b) = d /\ \A k \in 1 .. d : b[k] = stack[k]
    BY <1>2, <1>3, SubSeqSeq
  <1>5. PICK g : Level(p, b, loop.depth + 2 - d, 0, g) /\ \A l \in Local : g[l] = Null
    BY <1>1, <1>3, LevelBetween
  <1>6. /\ p.left = 0 /\ Len(p.stack.gv) = loop.depth + 2
        /\ Up(p, "gv", -1)[2] \in Nat /\ Up(p, "gv", -2) \in LiveValue(p.heap)
        /\ p.heap = heap /\ Up(p, "gv", -1) = stack[loop.depth + 2] /\ Up(p, "gv", -2) = loop.self
    BY <1>1, <1>3, LevelBetween
  <1> HIDE DEF p, b
  <1>7. Level(p, b, 1, 0, g)
    BY <1>3, <1>5
  <1> DEFINE t == NextTurn(p.heap, Up(p, "gv", -2), Up(p, "gv", -1)[2])
  <1>8. Level(n, b, 1 + 2, 0, g) /\ n.left = p.left /\ (\E at \in Nat : n.stack.gv[Len(p.stack.gv)] = IntV(at))
        /\ n.heap = p.heap /\ t # NoTurn /\ n.stack.gv[Len(p.stack.gv)] = IntV(t.at) /\ Up(n, "gv", -2) = t.key
    BY <1>1, <1>6, <1>7, LevelNext, Depths
  <1>23. t = NextTurn(heap, loop.self, stack[loop.depth + 2][2])
    BY <1>6
  <1> HIDE DEF t
  <1> HIDE DEF n, d
  <1>9. Level(n, b, 3, 0, g) /\ 3 > 1 /\ g["key"] = Null /\ g["val"] = Null /\ g["ret"] = Null
    BY <1>5, <1>8 DEF Local
  <1>10. PICK x, y : Level(T, b, 3, 0, Assigned(Assigned(g, "key", x), "val", y))
                     /\ T.left = n.left /\ T.stack.gv = n.stack.gv /\ T.heap = n.heap
    BY <1>9, LevelTurn
  <1> DEFINE e == Assigned(Assigned(g, "key", x), "val", y)
  <1>11. e["ret"] = Null
    <2>1. "ret" \in Infos /\ DOMAIN g = Infos
      BY <1>9, HeldNow DEF Infos, Local
    <2> QED BY <1>9, <2>1 DEF Assigned
  <1> HIDE DEF e
  <1>12. Become(T) /\ Level(T, b, 3, 0, e)
    BY <1>1, <1>10 DEF e
  <1> HIDE DEF T
  <1>13. /\ HeapSound(heap') /\ stack' \in Seq(LiveValue(heap')) /\ info' \in [Infos -> LiveValue(heap')]
         /\ RefsExact(refs', info') /\ left' \in Nat
         /\ info' = e /\ stack' = T.stack.gv /\ left' = T.left
         /\ Len(stack') = Len(b) + 3 + left' /\ \A k \in 1 .. Len(b) : stack'[k] = b[k]
         /\ \A o \in Obj : \A k \in 1 .. Len(stack') : stack'[k] = Ref(o) => heap'[o] = T.heap[o]
    BY <1>12, LevelSettled
  <1>14. left' = 0 /\ Len(stack') = loop.depth + 4 /\ (\E at \in Nat : stack'[loop.depth + 2] = IntV(at))
         /\ stack'[loop.depth + 2] = IntV(t.at)
    <2>1. left' = 0
      BY <1>6, <1>8, <1>10, <1>13
    <2>3. stack' = n.stack.gv /\ Len(p.stack.gv) = loop.depth + 2
      BY <1>6, <1>10, <1>13
    <2>2. (\E at \in Nat : stack'[loop.depth + 2] = IntV(at)) /\ stack'[loop.depth + 2] = IntV(t.at)
      BY <1>8, <2>3
    <2>4. Len(stack') = loop.depth + 4
      BY <1>2, <1>4, <1>13, <2>1 DEF d
    <2> HIDE DEF t
    <2> QED BY <2>1, <2>2, <2>4
  <1>15. PICK s : /\ loop' = [loop EXCEPT !.seen = s]
                  /\ loop.whole => s = Append(loop.seen, Up(n, "gv", -2))
    BY <1>1
  <1>16. loop' = [self |-> loop.self, depth |-> loop.depth, whole |-> loop.whole, seen |-> s, changes |-> loop.changes]
    <2>1. loop = [self |-> loop.self, depth |-> loop.depth, whole |-> loop.whole, seen |-> loop.seen,
                  changes |-> loop.changes]
      BY <1>2 DEF Walking
    <2> QED BY <1>15, <2>1
  <1>17. loop'.self = loop.self /\ loop'.depth = loop.depth /\ loop'.whole = loop.whole /\ loop'.seen = s
         /\ loop'.changes = loop.changes
    BY <1>16
  <1>18. loop' # NoLoop
    BY <1>2, <1>17 DEF Walking, NoLoop
  <1>24. stack'[loop.depth + 1] = stack[loop.depth + 1] /\ stack[loop.depth + 1] = loop.self
    <2>1. loop.depth + 1 \in 1 .. Len(b)
      BY <1>2, <1>4 DEF d
    <2> QED BY <1>2, <1>4, <1>13, <2>1 DEF Walking, d
  <1>19. Walking'
    BY <1>2, <1>14, <1>16, <1>17, <1>24 DEF Walking
  <1>20. Inv'
    BY <1>11, <1>13, <1>18, <1>19 DEF Inv
  <1>21. Len(stack') = Len(stack) + left' - left
    BY <1>2, <1>14
  <1>22. \A k \in 1 .. loop.depth + 1 : stack'[k] = stack[k]
    BY <1>4, <1>13 DEF d
  <1>25. heap'[loop.self[2]] = heap[loop.self[2]]
    <2>1. loop.depth + 1 \in 1 .. Len(stack')
      BY <1>2, <1>14
    <2>2. stack'[loop.depth + 1] = Ref(loop.self[2]) /\ loop.self[2] \in Obj
      <3>1. loop.self \in LiveValue(heap) /\ loop.self[1] = "ref"
        BY <1>2, <1>6 DEF Walking
      <3> QED BY <1>24, <3>1, Values DEF Inv, LiveValue
    <2>3. T.heap = heap
      BY <1>6, <1>8, <1>10
    <2> QED BY <1>13, <2>1, <2>2, <2>3
  <1>26. Turned(loop.self, stack[loop.depth + 2][2])
    <2>1. loop'.depth = loop.depth /\ loop'.self = loop.self
      BY <1>17
    <2>2. loop.self \in LiveValue(heap) /\ stack[loop.depth + 2][2] \in Nat
      BY <1>6
    <2> QED BY <1>8, <1>14, <1>23, <1>25, <2>1, <2>2 DEF Turned
  <1>27. loop.whole => loop'.seen = Append(loop.seen, NextTurn(heap, loop.self, stack[loop.depth + 2][2]).key)
    BY <1>8, <1>15, <1>17, <1>23
  <1> QED BY <1>1, <1>17, <1>18, <1>20, <1>21, <1>22, <1>26, <1>27

LEMMA EndKeeps ==
  ASSUME Inv, End
  PROVE  /\ Inv'
         /\ loop # NoLoop /\ loop' = NoLoop
         /\ stack' = SubSeq(stack, 1, loop.depth)
         /\ NextTurn(heap, loop.self, stack[loop.depth + 2][2]) = NoTurn
         /\ loop.self \in LiveValue(heap) /\ stack[loop.depth + 2][2] \in Nat
  <1> DEFINE d == loop.depth
             b == SubSeq(stack, 1, d)
             p == Between
             n == sq_next(p, "gv", -2)
             U == sq_pop(n, "gv", 2)
  <1>1. loop # NoLoop /\ ~ n.ok /\ Become(U) /\ loop' = NoLoop
    BY DEF End, Between
  <1>2. loop.depth \in Nat /\ Len(stack) = loop.depth + 4 /\ stack \in Seq(LiveValue(heap))
    BY <1>1 DEF Inv, Walking
  <1>3. d \in 0 .. loop.depth + 1 /\ loop.depth + 2 - d = 2 /\ d \in 0 .. Len(stack)
    BY <1>2
  <1>4. Len(b) = d /\ b \in Seq(LiveValue(heap))
    BY <1>2, <1>3, SubSeqSeq
  <1>5. PICK g : Level(p, b, loop.depth + 2 - d, 0, g) /\ \A l \in Local : g[l] = Null
    BY <1>1, <1>3, LevelBetween
  <1>6. /\ p.left = 0
        /\ Up(p, "gv", -1)[2] \in Nat /\ Up(p, "gv", -2) \in LiveValue(p.heap)
        /\ p.heap = heap /\ Up(p, "gv", -1) = stack[loop.depth + 2] /\ Up(p, "gv", -2) = loop.self
    BY <1>1, <1>3, LevelBetween
  <1>0. b = SubSeq(stack, 1, loop.depth)
    OBVIOUS
  <1> HIDE DEF p, b
  <1>7. Level(p, b, 2, 0, g)
    BY <1>3, <1>5
  <1>8. Level(n, b, 2, 0, g) /\ n.left = p.left
        /\ NextTurn(p.heap, Up(p, "gv", -2), Up(p, "gv", -1)[2]) = NoTurn
    BY <1>1, <1>6, <1>7, LevelNext, Depths
  <1> HIDE DEF n, d
  <1>9. Level(U, b, 0, 0, g) /\ U.left = n.left
    BY <1>8, PopLast, LevelPopped, Depths DEF Apart
  <1> HIDE DEF U
  <1>10. /\ HeapSound(heap') /\ stack' \in Seq(LiveValue(heap')) /\ info' \in [Infos -> LiveValue(heap')]
         /\ RefsExact(refs', info') /\ left' \in Nat
         /\ info' = g /\ left' = U.left
         /\ Len(stack') = Len(b) + 0 + left' /\ \A k \in 1 .. Len(b) : stack'[k] = b[k]
    BY <1>1, <1>9, LevelSettled
  <1>11. left' = 0
    BY <1>6, <1>8, <1>9, <1>10
  <1>12. stack' = b
    <2>1. Len(stack') = Len(b) /\ Len(b) \in Nat
      BY <1>2, <1>4, <1>10, <1>11 DEF d
    <2> DEFINE X == LiveValue(heap) \cup LiveValue(heap')
    <2>2. stack' \in Seq(X) /\ b \in Seq(X)
      BY <1>4, <1>10, SeqGrows
    <2> HIDE DEF X
    <2> QED BY <1>10, <2>1, <2>2, SameSeq
  <1>13. info'["ret"] = Null /\ info'["key"] = Null /\ info'["val"] = Null
    BY <1>5, <1>10 DEF Local
  <1>14. Inv'
    BY <1>1, <1>10, <1>13 DEF Inv
  <1> QED BY <1>0, <1>1, <1>6, <1>8, <1>12, <1>14

-----------------------------------------------------------------------------
\* The theorems.

LEMMA InvInit ==
  ASSUME Init
  PROVE  Inv
  <1>1. HeapSound(heap)
    BY DEF Init, HeapSound, ObjectSound, Free
  <1>2. Null \in LiveValue(heap)
    BY <1>1, Constants
  <1>3. stack \in Seq(LiveValue(heap)) /\ info \in [Infos -> LiveValue(heap)]
    BY <1>2 DEF Init, Infos
  <1>4. RefsExact(refs, info)
    <2>1. DOMAIN refs = Held /\ \A v \in Held : refs[v] = 0
      BY DEF Init
    <2>2. ASSUME NEW v \in Held
          PROVE  Count(info, v) = 0
      <3>1. v # Null
        BY NullNotHeld
      <3>2. {i \in Infos : info[i] = v} = {}
        BY <3>1 DEF Init, Infos
      <3> QED BY <3>2, FS_EmptySet DEF Count
    <2> QED BY <2>1, <2>2 DEF RefsExact
  <1>5. info["ret"] = Null /\ info["key"] = Null /\ info["val"] = Null
    BY DEF Init, Local
  <1> QED BY <1>1, <1>3, <1>4, <1>5 DEF Init, Inv

\* The steps but for the walk's own.
LEMMA HostKeeps ==
  ASSUME Inv, NEW i \in Info,
         \/ Hold(i) \/ Create(i) \/ ChangeArray(i) \/ ChangeSlot(i) \/ SetElementOf(i) \/ Read(i) \/ Call(i)
         \/ \E key \in Key, x \in Argument : SetElement(i, key, x)
         \/ \E j \in Info : Delegate(i, j)
  PROVE  MethodKeeps
  BY HoldKeeps, CreateKeeps, ChangeArrayKeeps, ChangeSlotKeeps, ElementKeeps, ReadKeeps, CallKeeps, DelegateKeeps

LEMMA InvStutters ==
  ASSUME Inv, UNCHANGED vars
  PROVE  Inv'
  BY DEF Inv, vars, Walking

LEMMA InvNext ==
  ASSUME Inv, [Next]_vars
  PROVE  Inv'
  <1>1. ASSUME NEW i \in Info, Begin(i)
        PROVE  Inv'
    BY <1>1, BeginKeeps
  <1>2. CASE Continue \/ End
    BY <1>2, ContinueKeeps, EndKeeps
  <1>3. CASE UNCHANGED vars
    BY <1>3, InvStutters
  <1> QED BY <1>1, <1>2, <1>3, HostKeeps DEF Next, MethodKeeps

LEMMA InvAlways == Spec => []Inv
  BY InvInit, InvNext, PTL DEF Spec

LEMMA InvHeldSound ==
  ASSUME Inv
  PROVE  HeldSound
  <1>1. RefsHeld
    <2>1. DOMAIN info = Infos /\ \A i \in Infos : info[i] \in LiveValue(heap)
      BY DEF Inv
    <2>2. \A r \in Held : refs[r] = Cardinality({i \in DOMAIN info : info[i] = r})
      BY <2>1 DEF Inv, RefsExact, Count
    <2> QED BY <2>1, <2>2 DEF RefsHeld, LiveValue
  <1>2. ASSUME NEW o \in Obj, heap[o].type = "instance"
        PROVE  Len(heap[o].val) = Len(heap[heap[o].class].default)
    BY <1>2, InstanceParts DEF Inv
  <1>3. ASSUME NEW c \in Obj, heap[c].type = "class", NEW key \in DOMAIN heap[c].member
        PROVE  LET m == heap[c].member[key]
               IN  m.at <= Len(IF m.kind = "field" THEN heap[c].default ELSE heap[c].methods)
    <2>1. ClassSound(heap, heap[c])
      BY <1>3 DEF Inv, HeapSound, ObjectSound
    <2>2. MemberSound(heap[c], heap[c].member[key])
      BY <1>3, <2>1 DEF ClassSound
    <2> QED BY <2>2 DEF MemberSound
  <1>4. InstancesFit
    BY <1>2, <1>3 DEF InstancesFit
  <1> QED BY <1>1, <1>4 DEF HeldSound

\* The host's reference table counts exactly the variables that hold each object, no
\* variable holds an object that is gone, and no instance is smaller than its class
\* says, whatever the host does with its variables, within walks and outside them.
THEOREM HeldSoundAlways == Spec => []HeldSound
  BY InvAlways, InvHeldSound, PTL

KeepsStack ==
    LET kept == IF loop = NoLoop THEN Len(stack) ELSE loop.depth + 1
    IN  IF loop # NoLoop /\ loop' = NoLoop
          THEN stack' = SubSeq(stack, 1, loop.depth)
          ELSE /\ SubSeq(stack', 1, kept) = SubSeq(stack, 1, kept)
               /\ (loop # NoLoop \/ loop' = NoLoop) => Len(stack') - Len(stack) = left' - left

\* The same from the length of what stays.
LEMMA StackSame ==
  ASSUME Inv, Inv', NEW k \in Nat, k <= Len(stack), k <= Len(stack'), \A n \in 1 .. k : stack'[n] = stack[n]
  PROVE  SubSeq(stack', 1, k) = SubSeq(stack, 1, k)
  <1> DEFINE X == LiveValue(heap) \cup LiveValue(heap')
             s == SubSeq(stack', 1, k)
             t == SubSeq(stack, 1, k)
  <1>1. stack \in Seq(X) /\ stack' \in Seq(X)
    BY SeqGrows DEF Inv
  <1> HIDE DEF X
  <1>2. k \in 0 .. Len(stack) /\ k \in 0 .. Len(stack')
    BY <1>1
  <1>3. s \in Seq(X) /\ Len(s) = k /\ \A n \in 1 .. k : s[n] = stack'[n]
    BY <1>1, <1>2, SubSeqSeq
  <1>4. t \in Seq(X) /\ Len(t) = k /\ \A n \in 1 .. k : t[n] = stack[n]
    BY <1>1, <1>2, SubSeqSeq
  <1> HIDE DEF s, t
  <1>5. s = t
    BY <1>3, <1>4, SameSeq
  <1> QED BY <1>5 DEF s, t

LEMMA StackNext ==
  ASSUME Inv, [Next]_vars
  PROVE  KeepsStack \/ UNCHANGED vars
  <1>0. /\ Len(stack) \in Nat /\ left \in Nat /\ Inv' /\ Len(stack') \in Nat /\ left' \in Nat
        /\ loop # NoLoop => loop.depth \in Nat /\ Len(stack) = loop.depth + 4 /\ left = 0
    BY InvNext DEF Inv, Walking
  <1>1. CASE MethodKeeps
    <2> DEFINE kept == IF loop = NoLoop THEN Len(stack) ELSE loop.depth + 1
    <2>1. ~ (loop # NoLoop /\ loop' = NoLoop) /\ Len(stack') - Len(stack) = left' - left
      BY <1>0, <1>1 DEF MethodKeeps
    <2>2. kept \in Nat /\ kept <= Len(stack) /\ kept <= Len(stack') /\ \A n \in 1 .. kept : stack'[n] = stack[n]
      <3>1. CASE loop = NoLoop
        BY <1>0, <1>1, <3>1 DEF MethodKeeps
      <3>2. CASE loop # NoLoop
        BY <1>0, <1>1, <3>2 DEF MethodKeeps
      <3> QED BY <3>1, <3>2
    <2> HIDE DEF kept
    <2>3. SubSeq(stack', 1, kept) = SubSeq(stack, 1, kept)
      BY <1>0, <2>2, StackSame
    <2> QED BY <2>1, <2>3 DEF KeepsStack, kept
  <1>2. ASSUME NEW i \in Info, Begin(i)
        PROVE  KeepsStack
    <2>1. /\ loop = NoLoop /\ \A k \in 1 .. Len(stack) : stack'[k] = stack[k]
          /\ loop' = NoLoop => Len(stack') = Len(stack) + left' - left
          /\ Len(stack') >= Len(stack)
      BY <1>2, BeginKeeps
    <2>2. SubSeq(stack', 1, Len(stack)) = SubSeq(stack, 1, Len(stack))
      BY <1>0, <2>1, StackSame
    <2>3. ASSUME loop' = NoLoop
          PROVE  Len(stack') - Len(stack) = left' - left
      <3>1. Len(stack') = Len(stack) + left' - left
        BY <2>1, <2>3
      <3> QED BY <1>0, <3>1
    <2> QED BY <2>1, <2>2, <2>3 DEF KeepsStack
  <1>3. CASE Continue
    <2>1. /\ loop # NoLoop /\ loop' # NoLoop /\ Len(stack') = Len(stack) + left' - left
          /\ \A k \in 1 .. loop.depth + 1 : stack'[k] = stack[k]
      BY <1>3, ContinueKeeps
    <2>2. loop.depth + 1 \in Nat /\ loop.depth + 1 <= Len(stack) /\ loop.depth + 1 <= Len(stack')
      BY <1>0, <2>1
    <2>3. SubSeq(stack', 1, loop.depth + 1) = SubSeq(stack, 1, loop.depth + 1)
      BY <1>0, <2>1, <2>2, StackSame
    <2> QED BY <1>0, <2>1, <2>3 DEF KeepsStack
  <1>4. CASE End
    BY <1>4, EndKeeps DEF KeepsStack
  <1> QED BY <1>1, <1>2, <1>3, <1>4, HostKeeps DEF Next

\* No method moves the global VM's stack, except by the arguments that refusing calls
\* leave on it, and a walk with all its callbacks ends where it began.
THEOREM StackKeptAlways == Spec => StackKept
  <1>1. Inv /\ [Next]_vars => [KeepsStack]_vars
    BY StackNext
  <1>2. [][KeepsStack]_vars => StackKept
    BY PTL DEF StackKept, KeepsStack
  <1> QED BY <1>1, <1>2, InvAlways, PTL DEF Spec

-----------------------------------------------------------------------------
\* What a walk has met.  The keys of KeyOrder up to n that are in names, for each n;
\* Without is the last of them.
Listed(names) == CHOOSE f : KeptSpec(KeyOrder, Key \ names, Len(KeyOrder), f)
                            /\ Without(KeyOrder, Key \ names) = f[Len(KeyOrder)]

Names(c) == DOMAIN (IF c.type = "table" THEN c.slot ELSE c.member)

Walked(c, at) ==
    IF c.type = "array" THEN [k \in 1 .. at |-> IntV(k - 1)] ELSE Listed(Names(c))[at]

Places(c) == IF c.type = "array" THEN Len(c.val) ELSE Len(KeyOrder)

LEMMA ListedRight ==
  ASSUME NEW names
  PROVE  /\ KeptSpec(KeyOrder, Key \ names, Len(KeyOrder), Listed(names))
         /\ Without(KeyOrder, Key \ names) = Listed(names)[Len(KeyOrder)]
  <1>1. KeyOrder \in Seq({"int", "string"} \X Int)
    BY ObjectAssumption DEF ObjectAssumption
  <1>2. \E f : KeptSpec(KeyOrder, Key \ names, Len(KeyOrder), f)
                /\ Without(KeyOrder, Key \ names) = f[Len(KeyOrder)]
    BY <1>1, WithoutKept
  <1> QED BY <1>2 DEF Listed

LEMMA ListedStep ==
  ASSUME NEW names
  PROVE  /\ Len(KeyOrder) \in Nat /\ Listed(names)[0] = << >>
         /\ \A i \in 1 .. Len(KeyOrder) :
              Listed(names)[i] = IF KeyOrder[i] \in names THEN Append(Listed(names)[i - 1], KeyOrder[i])
                                 ELSE Listed(names)[i - 1]
  <1> DEFINE f == Listed(names)
             F(g) == [i \in 0 .. Len(KeyOrder) |-> IF i = 0 THEN << >>
                                             ELSE IF KeyOrder[i] \in Key \ names THEN g[i - 1]
                                             ELSE Append(g[i - 1], KeyOrder[i])]
  <1>5. Len(KeyOrder) \in Nat
    BY ObjectAssumption DEF ObjectAssumption
  <1>2. \A i \in 1 .. Len(KeyOrder) : KeyOrder[i] \in Key
    BY DEF Key, ToSet
  <1>6. KeptSpec(KeyOrder, Key \ names, Len(KeyOrder), f)
    BY ListedRight
  <1> HIDE DEF f
  <1>1. f = F(f) /\ Len(KeyOrder) \in Nat
    BY <1>5, <1>6 DEF KeptSpec
  <1>3. f[0] = F(f)[0] /\ F(f)[0] = << >>
    BY <1>1
  <1>4. ASSUME NEW i \in 1 .. Len(KeyOrder)
        PROVE  f[i] = IF KeyOrder[i] \in names THEN Append(f[i - 1], KeyOrder[i]) ELSE f[i - 1]
    <2>1. f[i] = F(f)[i]
      BY <1>1
    <2>2. i \in 0 .. Len(KeyOrder) /\ i # 0
      BY <1>1
    <2>3. F(f)[i] = IF KeyOrder[i] \in Key \ names THEN f[i - 1] ELSE Append(f[i - 1], KeyOrder[i])
      BY <2>2
    <2> QED BY <1>2, <2>1, <2>3
  <1> QED BY <1>1, <1>3, <1>4 DEF f

\* Places whose keys are not there do not change what was met; the next one that is
\* there is met next.
LEMMA ListedAhead ==
  ASSUME NEW names, NEW a \in Nat, NEW e \in Nat, a <= e, e <= Len(KeyOrder),
         \A n \in a + 1 .. e : KeyOrder[n] \notin names
  PROVE  Listed(names)[e] = Listed(names)[a]
  <1> DEFINE f == Listed(names)
             A == {n \in Nat : a + n <= e => f[a + n] = f[a]}
  <1>1. /\ \A i \in 1 .. Len(KeyOrder) : KeyOrder[i] \notin names => f[i] = f[i - 1]
        /\ Len(KeyOrder) \in Nat
    BY ListedStep
  <1> HIDE DEF f
  <1>3. 0 \in A
    OBVIOUS
  <1>4. ASSUME NEW n \in Nat, n \in A
        PROVE  n + 1 \in A
    <2> SUFFICES ASSUME a + n + 1 <= e PROVE f[a + n + 1] = f[a]
      OBVIOUS
    <2>1. f[a + n] = f[a]
      BY <1>4
    <2>2. a + n + 1 \in 1 .. Len(KeyOrder) /\ a + n + 1 \in a + 1 .. e
      BY <1>1
    <2>3. KeyOrder[a + n + 1] \notin names
      BY <2>2
    <2>4. f[a + n + 1] = f[a + n + 1 - 1]
      BY <1>1, <2>2, <2>3
    <2>5. a + n + 1 - 1 = a + n
      OBVIOUS
    <2> QED BY <2>1, <2>4, <2>5
  <1>5. Nat \subseteq A
    <2> HIDE DEF A
    <2> QED BY <1>3, <1>4, SetInduction
  <1>6. e - a \in A /\ a + (e - a) = e
    BY <1>5
  <1> QED BY <1>6 DEF f

LEMMA ListedNext ==
  ASSUME NEW names, NEW a \in Nat, NEW e \in Nat, a < e, e <= Len(KeyOrder),
         \A n \in a + 1 .. e - 1 : KeyOrder[n] \notin names, KeyOrder[e] \in names
  PROVE  Listed(names)[e] = Append(Listed(names)[a], KeyOrder[e])
  <1>1. /\ \A i \in 1 .. Len(KeyOrder) :
              KeyOrder[i] \in names => Listed(names)[i] = Append(Listed(names)[i - 1], KeyOrder[i])
        /\ Len(KeyOrder) \in Nat
    BY ListedStep
  <1>2. e \in 1 .. Len(KeyOrder) /\ e - 1 \in Nat /\ a <= e - 1 /\ e - 1 <= Len(KeyOrder)
    BY <1>1
  <1>3. Listed(names)[e] = Append(Listed(names)[e - 1], KeyOrder[e])
    BY <1>1, <1>2
  <1>4. Listed(names)[e - 1] = Listed(names)[a]
    BY <1>2, ListedAhead
  <1> QED BY <1>3, <1>4

LEMMA WalkedStart ==
  ASSUME NEW c
  PROVE  Walked(c, 0) = << >>
  <1>1. [k \in 1 .. 0 |-> IntV(k - 1)] = << >>
    OBVIOUS
  <1>2. Listed(Names(c))[0] = << >>
    BY ListedStep
  <1> QED BY <1>1, <1>2 DEF Walked

LEMMA WalkedTurn ==
  ASSUME NEW h, HeapSound(h), NEW self \in LiveValue(h), NEW at \in Nat, NextTurn(h, self, at) # NoTurn
  PROVE  LET t == NextTurn(h, self, at)
             c == h[self[2]]
         IN  /\ Walked(c, t.at) = Append(Walked(c, at), t.key)
             /\ t.at \in Nat /\ t.at <= Places(c) /\ c.type \in {"array", "table", "class"}
  <1> DEFINE o == self[2]
             c == h[o]
             names == Names(c)
             ahead == {n \in at + 1 .. Len(KeyOrder) : KeyOrder[n] \in names}
             first == CHOOSE n \in ahead : \A m \in ahead : n <= m
             t == NextTurn(h, self, at)
  <1>1. Type(h, self) \in {"array", "table", "class"} /\ t.at \in Nat
    BY NextTurnLive
  <1>2. o \in Obj /\ c.type = Type(h, self)
    BY <1>1, RefType
  <1>3. CASE c.type = "array"
    <2>1. at < Len(c.val)
      BY <1>2, <1>3 DEF NextTurn
    <2>2. t = [at |-> at + 1, key |-> IntV(at), val |-> RealVal(h, c.val[at + 1])]
      BY <1>2, <1>3, <2>1 DEF NextTurn
    <2>3. t.at = at + 1 /\ t.key = IntV(at)
      BY <2>2
    <2>4. Len(c.val) \in Nat
      BY <1>2, <1>3 DEF HeapSound, ObjectSound, ArraySound
    <2> DEFINE s == [k \in 1 .. at |-> IntV(k - 1)]
               u == [k \in 1 .. at + 1 |-> IntV(k - 1)]
    <2>5. u = Append(s, IntV(at))
      BY DEF IntV
    <2>6. Walked(c, at) = s /\ Walked(c, at + 1) = u
      BY <1>3 DEF Walked
    <2> HIDE DEF s, u, t
    <2> QED BY <1>3, <2>1, <2>3, <2>4, <2>5, <2>6 DEF Places, t
  <1>4. CASE c.type \in {"table", "class"}
    <2>1. t = IF ahead # {} THEN [at |-> first, key |-> KeyOrder[first], val |-> t.val] ELSE NoTurn
      <3>1. CASE c.type = "table"
        <4>1. t = IF ahead # {}
                    THEN [at |-> first, key |-> KeyOrder[first], val |-> RealVal(h, h[o].slot[KeyOrder[first]])]
                    ELSE NoTurn
          BY <1>2, <3>1 DEF NextTurn, Names
        <4> HIDE DEF t, ahead, first
        <4> QED BY <4>1
      <3>2. CASE c.type = "class"
        <4>1. t = IF ahead # {}
                    THEN [at |-> first, key |-> KeyOrder[first], val |-> ClassGet(h, o, KeyOrder[first]).val]
                    ELSE NoTurn
          BY <1>2, <3>2 DEF NextTurn, Names
        <4> HIDE DEF t, ahead, first
        <4> QED BY <4>1
      <3> QED BY <1>4, <3>1, <3>2
    <2>2. ahead # {}
      BY <2>1
    <2>3. t.at = first /\ t.key = KeyOrder[first]
      <3> HIDE DEF t, first, ahead
      <3> QED BY <2>1, <2>2
    <2>4. first \in ahead /\ \A m \in ahead : first <= m
      <3>1. ahead \in SUBSET Nat
        OBVIOUS
      <3> HIDE DEF ahead
      <3> QED BY <2>2, <3>1, SmallestExists
    <2> HIDE DEF first, t
    <2>5. first \in Nat /\ at < first /\ first <= Len(KeyOrder) /\ KeyOrder[first] \in names
      BY <2>4, Constants
    <2>6. \A n \in at + 1 .. first - 1 : KeyOrder[n] \notin names
      BY <2>4, <2>5, Constants
    <2> HIDE DEF ahead, names
    <2>7. Listed(names)[first] = Append(Listed(names)[at], KeyOrder[first])
      BY <2>5, <2>6, ListedNext
    <2>8. Walked(c, at) = Listed(names)[at] /\ Walked(c, first) = Listed(names)[first] /\ Places(c) = Len(KeyOrder)
      BY <1>4 DEF Walked, Places, names
    <2> HIDE DEF c
    <2> QED BY <1>1, <1>2, <2>3, <2>5, <2>7, <2>8 DEF t, c
  <1> QED BY <1>1, <1>2, <1>3, <1>4

LEMMA WalkedEnd ==
  ASSUME NEW h, HeapSound(h), NEW self \in LiveValue(h), NEW at \in Nat, NextTurn(h, self, at) = NoTurn,
         at <= Places(h[self[2]]), h[self[2]].type \in {"array", "table", "class"}, self[1] = "ref"
  PROVE  Walked(h[self[2]], at) = Walk(h[self[2]])
  <1> DEFINE o == self[2]
             c == h[o]
             names == Names(c)
             ahead == {n \in at + 1 .. Len(KeyOrder) : KeyOrder[n] \in names}
             first == CHOOSE n \in ahead : \A m \in ahead : n <= m
  <1>1. o \in Obj /\ Type(h, self) = c.type
    BY Values DEF LiveValue, Type
  <1>2. CASE c.type = "array"
    <2>1. Len(c.val) \in Nat
      BY <1>1, <1>2 DEF HeapSound, ObjectSound, ArraySound
    <2>2. ~ (at < Len(c.val))
      <3>1. SUFFICES ASSUME at < Len(c.val) PROVE FALSE
        OBVIOUS
      <3>2. NextTurn(h, self, at) = [at |-> at + 1, key |-> IntV(at), val |-> RealVal(h, h[o].val[at + 1])]
        BY <1>1, <1>2, <3>1 DEF NextTurn
      <3>3. NextTurn(h, self, at).at = at + 1 /\ NoTurn.at = -1
        BY <3>2 DEF NoTurn
      <3> QED BY <3>3
    <2>3. at = Len(c.val)
      BY <1>2, <2>1, <2>2 DEF Places
    <2> QED BY <1>2, <2>3 DEF Walked, Walk
  <1>3. CASE c.type \in {"table", "class"}
    <2>1. ahead = {}
      <3>1. SUFFICES ASSUME ahead # {} PROVE FALSE
        OBVIOUS
      <3>2. first \in ahead
        <4>1. ahead \in SUBSET Nat
          OBVIOUS
        <4> HIDE DEF ahead
        <4> QED BY <3>1, <4>1, SmallestExists
      <3>3. NextTurn(h, self, at).at = first
        <4>1. CASE c.type = "table"
          <5>1. NextTurn(h, self, at) = [at |-> first, key |-> KeyOrder[first], val |-> RealVal(h, h[o].slot[KeyOrder[first]])]
            BY <1>1, <3>1, <4>1 DEF NextTurn, Names
          <5> HIDE DEF first, ahead
          <5> QED BY <5>1
        <4>2. CASE c.type = "class"
          <5>1. NextTurn(h, self, at) = [at |-> first, key |-> KeyOrder[first], val |-> ClassGet(h, o, KeyOrder[first]).val]
            BY <1>1, <3>1, <4>2 DEF NextTurn, Names
          <5> HIDE DEF first, ahead
          <5> QED BY <5>1
        <4> QED BY <1>3, <4>1, <4>2
      <3>4. NoTurn.at = -1
        BY DEF NoTurn
      <3> HIDE DEF first
      <3> QED BY <3>2, <3>3, <3>4, Constants
    <2>2. \A n \in at + 1 .. Len(KeyOrder) : KeyOrder[n] \notin names
      BY <2>1
    <2>3. at <= Len(KeyOrder) /\ Len(KeyOrder) \in Nat
      BY <1>3, Constants DEF Places
    <2> HIDE DEF ahead, names
    <2>4. Listed(names)[Len(KeyOrder)] = Listed(names)[at]
      BY <2>2, <2>3, ListedAhead
    <2>5. Walked(c, at) = Listed(names)[at] /\ Walk(c) = Without(KeyOrder, Key \ names)
      BY <1>3 DEF Walked, Walk, names, Names
    <2> QED BY <2>4, <2>5, ListedRight
  <1> QED BY <1>2, <1>3

\* While the container is as it was, what was met is what lies before the position.
Met ==
    loop # NoLoop /\ loop.whole =>
        LET at == stack[loop.depth + 2][2]
            c == heap[loop.self[2]]
        IN  /\ at <= Places(c) /\ c.type \in {"array", "table", "class"}
            /\ loop.seen = Walked(c, at)

LEMMA MetTurned ==
  ASSUME Inv, NEW self, NEW at, Turned(self, at), loop' # NoLoop, loop'.self = self
  PROVE  LET n == stack'[loop'.depth + 2][2]
             c == heap'[loop'.self[2]]
         IN  /\ n <= Places(c) /\ c.type \in {"array", "table", "class"}
             /\ Walked(c, n) = Append(Walked(heap[self[2]], at), NextTurn(heap, self, at).key)
  <1>1. HeapSound(heap)
    BY DEF Inv
  <1>2. /\ self \in LiveValue(heap) /\ at \in Nat /\ NextTurn(heap, self, at) # NoTurn
        /\ stack'[loop'.depth + 2][2] = NextTurn(heap, self, at).at
        /\ heap'[loop'.self[2]] = heap[self[2]]
    BY DEF Turned, IntV
  <1> QED BY <1>1, <1>2, WalkedTurn

LEMMA MetNext ==
  ASSUME Inv, Met, [Next]_vars
  PROVE  Met'
  <1>1. ASSUME MethodKeeps
        PROVE  Met'
    <2> SUFFICES ASSUME loop' # NoLoop, loop'.whole
                 PROVE  LET at == stack'[loop'.depth + 2][2]
                            c == heap'[loop'.self[2]]
                        IN  /\ at <= Places(c) /\ c.type \in {"array", "table", "class"}
                            /\ loop'.seen = Walked(c, at)
      BY DEF Met
    <2>1. /\ loop # NoLoop /\ loop.whole /\ loop'.seen = loop.seen /\ loop'.self = loop.self
          /\ heap'[loop.self[2]] = heap[loop.self[2]] /\ loop'.depth = loop.depth
      BY <1>1 DEF MethodKeeps
    <2>2. loop.depth + 2 \in 1 .. Len(stack)
      BY <2>1 DEF Inv, Walking
    <2>3. stack'[loop.depth + 2] = stack[loop.depth + 2]
      BY <1>1, <2>2 DEF MethodKeeps
    <2> QED BY <2>1, <2>3 DEF Met
  <1>2. ASSUME NEW i \in Info, Begin(i)
        PROVE  Met'
    <2> SUFFICES ASSUME loop' # NoLoop
                 PROVE  Met'
      BY DEF Met
    <2>1. Turned(loop'.self, 0) /\ loop'.seen = << NextTurn(heap, loop'.self, 0).key >>
      BY <1>2, BeginKeeps
    <2>2. Append(Walked(heap[loop'.self[2]], 0), NextTurn(heap, loop'.self, 0).key)
            = << NextTurn(heap, loop'.self, 0).key >>
      <3>1. \A x : Append(<< >>, x) = << x >>
        OBVIOUS
      <3> QED BY <3>1, WalkedStart
    <2> QED BY <2>1, <2>2, MetTurned DEF Met
  <1>3. CASE Continue
    <2> DEFINE at == stack[loop.depth + 2][2]
    <2>1. /\ loop # NoLoop /\ loop' # NoLoop /\ Turned(loop.self, at)
          /\ loop'.self = loop.self /\ loop'.whole = loop.whole
          /\ loop.whole => loop'.seen = Append(loop.seen, NextTurn(heap, loop.self, at).key)
      BY <1>3, ContinueKeeps
    <2>2. loop.whole => loop.seen = Walked(heap[loop.self[2]], at)
      BY <2>1 DEF Met
    <2> HIDE DEF at
    <2> QED BY <2>1, <2>2, MetTurned DEF Met
  <1>4. CASE End
    BY <1>4, EndKeeps DEF Met
  <1>5. CASE UNCHANGED vars
    BY <1>5 DEF vars, Met
  <1> QED BY <1>1, <1>2, <1>3, <1>4, <1>5, HostKeeps DEF Next

LEMMA MetAll ==
  ASSUME Inv, Met, [Next]_vars
  PROVE  loop # NoLoop /\ loop' = NoLoop /\ loop.whole => loop.seen = Walk(heap[loop.self[2]])
  <1> SUFFICES ASSUME loop # NoLoop, loop' = NoLoop, loop.whole
               PROVE  loop.seen = Walk(heap[loop.self[2]])
    OBVIOUS
  <1>1. ~ MethodKeeps
    BY DEF MethodKeeps
  <1>2. ASSUME NEW i \in Info
        PROVE  ~ Begin(i)
    BY BeginKeeps
  <1>3. ~ Continue
    BY ContinueKeeps
  <1>4. ~ UNCHANGED vars
    BY DEF vars
  <1>5. End
    BY <1>1, <1>2, <1>3, <1>4, HostKeeps DEF Next
  <1> DEFINE at == stack[loop.depth + 2][2]
  <1>6. NextTurn(heap, loop.self, at) = NoTurn /\ loop.self \in LiveValue(heap) /\ at \in Nat
    BY <1>5, EndKeeps
  <1>7. at <= Places(heap[loop.self[2]]) /\ heap[loop.self[2]].type \in {"array", "table", "class"}
        /\ loop.seen = Walked(heap[loop.self[2]], at)
    BY DEF Met
  <1>8. loop.self[1] = "ref" /\ HeapSound(heap)
    BY DEF Inv, Walking
  <1> HIDE DEF at
  <1> QED BY <1>6, <1>7, <1>8, WalkedEnd

\* A walk whose callbacks leave the container alone meets all its elements, in order,
\* each once, also when the callbacks change other objects and the host's variables.
THEOREM WalkMeetsAllAlways == Spec => WalkMeetsAll
  <1> DEFINE All == loop # NoLoop /\ loop' = NoLoop /\ loop.whole => loop.seen = Walk(heap[loop.self[2]])
  <1>1. Init => Met
    BY DEF Init, Met
  <1>2. Inv /\ Met /\ [Next]_vars => Met'
    BY MetNext
  <1>3. Inv /\ Met /\ [Next]_vars => [All]_vars
    BY MetAll
  <1>4. [][All]_vars => WalkMeetsAll
    BY PTL DEF WalkMeetsAll
  <1> QED BY <1>1, <1>2, <1>3, <1>4, InvAlways, PTL DEF Spec

-----------------------------------------------------------------------------
\* What is read after it has been written.  A chain of objects: the next of each of its
\* objects is on it, and it is its first object and the chain of the next.
LEMMA AlongClosed ==
  ASSUME NEW next, NEW o \in Obj, NEW q \in Along(next, o), next[q] \in Obj \cup {Nobody}
  PROVE  next[q] \in Along(next, o) \cup {Nobody}
  BY DEF Along

LEMMA AlongFirst ==
  ASSUME NEW next, NEW o \in Obj, \A q \in Obj : next[q] \in Obj \cup {Nobody}
  PROVE  Along(next, o) \subseteq {o} \cup (IF next[o] = Nobody THEN {} ELSE Along(next, next[o]))
  <1> DEFINE D == {o} \cup (IF next[o] = Nobody THEN {} ELSE Along(next, next[o]))
  <1>1. CASE next[o] = Nobody
    <2>1. \A q \in D : next[q] \in D \cup {Nobody}
      BY <1>1
    <2>2. o \in D /\ D \subseteq Obj
      BY <1>1
    <2> HIDE DEF D
    <2>3. Along(next, o) \subseteq D
      BY <2>1, <2>2, AlongWithin
    <2> QED BY <2>3 DEF D
  <1>2. CASE next[o] # Nobody
    <2>1. next[o] \in Obj
      BY <1>2
    <2>2. next[o] \in Along(next, next[o]) /\ Along(next, next[o]) \subseteq Obj
      BY <2>1, AlongStarts
    <2>3. \A q \in Along(next, next[o]) : next[q] \in Along(next, next[o]) \cup {Nobody}
      BY <2>1, <2>2, AlongClosed
    <2>4. \A q \in D : next[q] \in D \cup {Nobody}
      BY <1>2, <2>2, <2>3
    <2>5. o \in D /\ D \subseteq Obj
      BY <1>2, <2>2
    <2> HIDE DEF D
    <2>6. Along(next, o) \subseteq D
      BY <2>4, <2>5, AlongWithin
    <2> QED BY <2>6 DEF D
  <1> QED BY <1>1, <1>2

\* Somebody on a chain is the first of those in a set.
LEMMA AlongMeets ==
  ASSUME NEW next, NEW o \in Obj, \A q \in Obj : next[q] \in Obj \cup {Nobody},
         NEW X, X \subseteq Along(next, o), X # {}
  PROVE  \E p \in X : X \subseteq Along(next, p)
  <1> SUFFICES ASSUME \A p \in X : ~ (X \subseteq Along(next, p)) PROVE FALSE
    OBVIOUS
  <1> DEFINE D == {p \in Along(next, o) : X \subseteq Along(next, p)}
  <1>1. o \in Along(next, o) /\ Along(next, o) \subseteq Obj
    BY AlongStarts
  <1>2. ASSUME NEW q \in D PROVE next[q] \in D \cup {Nobody}
    <2>1. q \in Obj /\ q \notin X /\ X \subseteq Along(next, q)
      BY <1>1
    <2>2. Along(next, q) \subseteq {q} \cup (IF next[q] = Nobody THEN {} ELSE Along(next, next[q]))
      BY <2>1, AlongFirst
    <2>3. next[q] # Nobody => X \subseteq Along(next, next[q])
      BY <2>1, <2>2
    <2>4. next[q] \in Along(next, o) \cup {Nobody}
      BY <2>1, AlongClosed
    <2> QED BY <2>3, <2>4
  <1>3. o \in D /\ D \subseteq Obj
    BY <1>1
  <1> HIDE DEF D
  <1>4. Along(next, o) \subseteq D
    BY <1>2, <1>3, AlongWithin
  <1>5. X \subseteq D
    BY <1>4
  <1> QED BY <1>5 DEF D

\* If a table or a delegate of it has the key, one of them is found.
LEMMA HolderFound ==
  ASSUME NEW h, HeapSound(h), NEW o \in Obj, NEW key,
         {p \in DelegatesOf(h, o) : key \in DOMAIN h[p].slot} # {}
  PROVE  Holders(h, o, key) # {}
  <1> DEFINE next == [q \in Obj |-> IF h[q].type = "table" THEN h[q].delegate ELSE Nobody]
             X == {p \in DelegatesOf(h, o) : key \in DOMAIN h[p].slot}
  <1>1. \A q \in Obj : next[q] \in Obj \cup {Nobody}
    BY DEF HeapSound, ObjectSound, TableSound
  <1>2. \A p : DelegatesOf(h, p) = Along(next, p)
    BY DEF DelegatesOf
  <1>3. Holders(h, o, key) = {p \in X : X \subseteq Along(next, p)}
    BY <1>2 DEF Holders
  <1>4. X \subseteq Along(next, o) /\ X # {}
    BY <1>2
  <1> HIDE DEF next, X
  <1>5. \E p \in X : X \subseteq Along(next, p)
    BY <1>1, <1>4, AlongMeets
  <1> QED BY <1>3, <1>5

\* Slots change, delegates do not.
WithSlots(h, p, s) == [h EXCEPT ![p].slot = s]

LEMMA SlotsOnly ==
  ASSUME NEW h, HeapSound(h), NEW p \in Obj, h[p].type = "table", NEW s, NEW g, g = WithSlots(h, p, s)
  PROVE  /\ \A q : DelegatesOf(g, q) = DelegatesOf(h, q)
         /\ g[p].slot = s /\ g[p].type = "table"
         /\ \A q : q # p => g[q] = h[q]
  <1> DEFINE next(k) == [q \in Obj |-> IF k[q].type = "table" THEN k[q].delegate ELSE Nobody]
  <1>1. h = [o \in Obj |-> h[o]] /\ TableSound(h, h[p])
    BY DEF HeapSound, ObjectSound
  <1>2. g[p] = [h[p] EXCEPT !.slot = s] /\ \A q : q # p => g[q] = h[q]
    BY <1>1 DEF WithSlots
  <1>3. g[p].slot = s /\ g[p].type = "table" /\ g[p].delegate = h[p].delegate
    BY <1>1, <1>2 DEF TableSound
  <1>4. next(g) = next(h)
    BY <1>2, <1>3
  <1> HIDE DEF next
  <1>5. \A q : DelegatesOf(g, q) = DelegatesOf(h, q)
    BY <1>4 DEF DelegatesOf, next
  <1> QED BY <1>2, <1>3, <1>5

\* What is stored is read back as it is, since it is no weak reference.
Reads(r, self, key, v) == r.ok = TRUE /\ Get(r.heap, self, key) = Found(v)

LEMMA ArrayReads ==
  ASSUME NEW h, HeapSound(h), NEW self \in LiveValue(h), Type(h, self) = "array",
         NEW key, IsIndex(h[self[2]].val, key), NEW v, v[1] # "weak"
  PROVE  Reads(Set(h, self, key, v), self, key, v)
  <1> DEFINE o == self[2]
             g == [h EXCEPT ![o].val[key[2] + 1] = v]
  <1>1. self[1] = "ref" /\ o \in Obj /\ h[o].type = "array"
    BY RefType
  <1>2. h = [q \in Obj |-> h[q]] /\ h[o] = NewArray(h[o].val) /\ h[o].val \in Seq(LiveValue(h))
    BY <1>1 DEF HeapSound, ObjectSound, ArraySound
  <1>3. key[2] \in 0 .. Len(h[o].val) - 1 /\ Len(h[o].val) \in Nat /\ key[2] + 1 \in DOMAIN h[o].val
        /\ DOMAIN h[o].val = 1 .. Len(h[o].val)
    BY <1>2 DEF IsIndex
  <1>4. Set(h, self, key, v) = Done(g)
    BY DEF Set
  <1>5. g[o] = [h[o] EXCEPT !.val = PutAt(@, key[2] + 1, v)]
    BY <1>1, <1>2 DEF PutAt
  <1> DEFINE s == PutAt(h[o].val, key[2] + 1, v)
  <1>6. g[o] = NewArray(s)
    BY <1>2, <1>5 DEF NewArray
  <1>7. s[key[2] + 1] = v /\ DOMAIN s = 1 .. Len(h[o].val)
    BY <1>2, <1>3 DEF PutAt
  <1>8. Len(s) = Len(h[o].val)
    BY <1>3, <1>7
  <1> HIDE DEF s, g
  <1>9. Type(g, self) = "array" /\ g[o].val = s
    BY <1>1, <1>6 DEF NewArray, Type
  <1>10. IsIndex(s, key)
    BY <1>8 DEF IsIndex
  <1>11. Get(g, self, key) = Found(RealVal(g, v))
    BY <1>7, <1>9, <1>10 DEF Get
  <1> QED BY <1>4, <1>11 DEF RealVal, Reads, Done

LEMMA TableSetReads ==
  ASSUME NEW h, HeapSound(h), NEW self \in LiveValue(h), Type(h, self) = "table",
         NEW key, Holders(h, self[2], key) # {}, NEW v, v[1] # "weak"
  PROVE  Reads(Set(h, self, key, v), self, key, v)
  <1> DEFINE o == self[2]
             p == Holder(h, o, key)
             s == PutAt(h[p].slot, key, v)
             g == WithSlots(h, p, s)
  <1>1. self[1] = "ref" /\ o \in Obj /\ h[o].type = "table"
    BY RefType
  <1>2. p \in Obj /\ h[p].type = "table" /\ key \in DOMAIN h[p].slot
    BY <1>1, HolderTable
  <1>3. h = [q \in Obj |-> h[q]]
    BY DEF HeapSound
  <1>4. Set(h, self, key, v) = Done([h EXCEPT ![p].slot[key] = v])
    BY DEF Set
  <1>5. [h EXCEPT ![p].slot[key] = v] = g
    BY DEF PutAt, WithSlots
  <1>6. DOMAIN s = DOMAIN h[p].slot /\ s[key] = v
    BY <1>2 DEF PutAt
  <1> HIDE DEF p, s
  <1>0. g = WithSlots(h, p, s)
    OBVIOUS
  <1> HIDE DEF g, o
  <1>7. /\ \A q : DelegatesOf(g, q) = DelegatesOf(h, q)
        /\ g[p].slot = s /\ g[p].type = "table"
        /\ \A q : q # p => g[q] = h[q]
    BY <1>0, <1>2, SlotsOnly
  <1>8. \A q : DOMAIN g[q].slot = DOMAIN h[q].slot
    BY <1>6, <1>7
  <1>9. Holders(g, o, key) = Holders(h, o, key)
    BY <1>7, <1>8 DEF Holders
  <1>10. Holder(g, o, key) = p
    BY <1>9 DEF Holder, p
  <1>11. Type(g, self) = "table"
    BY <1>1, <1>7 DEF Type, o
  <1>12. Get(g, self, key) = Found(RealVal(g, v))
    BY <1>6, <1>7, <1>9, <1>10, <1>11 DEF Get, o
  <1>13. Set(h, self, key, v) = Done(g)
    BY <1>4, <1>5 DEF o
  <1> QED BY <1>12, <1>13 DEF RealVal, Reads, Done

LEMMA TableNewReads ==
  ASSUME NEW h, HeapSound(h), NEW self \in LiveValue(h), Type(h, self) = "table",
         NEW key, key # Null, Holders(h, self[2], key) = {}, NEW v, v[1] # "weak"
  PROVE  Reads(NewSlot(h, self, key, v), self, key, v)
  <1> DEFINE o == self[2]
             s == Extended(h[o].slot, key, v)
             g == WithSlots(h, o, s)
  <1>1. self[1] = "ref" /\ o \in Obj /\ h[o].type = "table"
    BY RefType
  <1>2. NewSlot(h, self, key, v) = Done(g)
    BY DEF NewSlot, WithSlots
  <1>3. key \in DOMAIN s /\ s[key] = v
    BY DEF Extended
  <1>0. g = WithSlots(h, o, s)
    OBVIOUS
  <1> HIDE DEF s, g, o
  <1>4. /\ \A q : DelegatesOf(g, q) = DelegatesOf(h, q)
        /\ g[o].slot = s /\ g[o].type = "table"
        /\ \A q : q # o => g[q] = h[q]
    BY <1>0, <1>1, SlotsOnly
  <1>5. {p \in DelegatesOf(h, o) : key \in DOMAIN h[p].slot} = {}
    BY <1>1, HolderFound DEF o
  <1>6. o \in DelegatesOf(g, o)
    BY <1>1, AlongStarts DEF DelegatesOf
  <1>7. {p \in DelegatesOf(g, o) : key \in DOMAIN g[p].slot} = {o}
    BY <1>3, <1>4, <1>5, <1>6
  <1>8. Holders(g, o, key) = {o}
    BY <1>6, <1>7 DEF Holders
  <1>9. Holder(g, o, key) = o
    BY <1>8 DEF Holder
  <1>10. Type(g, self) = "table"
    BY <1>1, <1>4 DEF Type, o
  <1>11. Get(g, self, key) = Found(RealVal(g, v))
    BY <1>3, <1>4, <1>8, <1>9, <1>10 DEF Get, o
  <1> QED BY <1>2, <1>11 DEF RealVal, Reads, Done

\* A name a class knows is read through its member.
LEMMA MembersRead ==
  ASSUME NEW h, HeapSound(h), NEW c \in Obj, NEW d, NEW t, NEW f, NEW g, g = WithMembers(h, c, d, t, f)
  PROVE  g[c].type = "class" /\ g[c].default = d /\ g[c].methods = t /\ g[c].member = f
  <1>1. g[c] = ClassOf(h[c].base, h[c].locked, d, t, f)
    BY DEF WithMembers, HeapSound
  <1> QED BY <1>1, ClassParts

LEMMA FieldReads ==
  ASSUME NEW g, NEW c, NEW key \in DOMAIN g[c].member, NEW k, g[c].member[key] = Member("field", k),
         NEW v, v[1] # "weak", g[c].default[k] = v
  PROVE  ClassGet(g, c, key) = Found(v)
  <1>1. RealVal(g, v) = v
    BY DEF RealVal
  <1> QED BY <1>1 DEF ClassGet, Member

LEMMA MethodReads ==
  ASSUME NEW g, NEW c, NEW key \in DOMAIN g[c].member, NEW k, g[c].member[key] = Member("method", k),
         NEW v, g[c].methods[k] = v
  PROVE  ClassGet(g, c, key) = Found(v)
  BY DEF ClassGet, Member

LEMMA ClassReads ==
  ASSUME NEW h, HeapSound(h), NEW self \in LiveValue(h), Type(h, self) = "class", ~ h[self[2]].locked,
         NEW key, key # Null, NEW v \in LiveValue(h), v[1] # "weak"
  PROVE  Reads(NewSlot(h, self, key, v), self, key, v)
  <1> DEFINE c == self[2]
             r == ClassNewSlot(h, c, key, v)
             m == h[c].member[key]
             known == key \in DOMAIN h[c].member
  <1>1. self[1] = "ref" /\ c \in Obj /\ h[c].type = "class"
    BY RefType
  <1>2. /\ IsClass(h[c]) /\ h[c].default \in Seq(LiveValue(h)) /\ h[c].methods \in Seq(LiveValue(h))
        /\ MembersFit(h[c].default, h[c].methods, h[c].member)
    <2> HIDE DEF c, r, m, known
    <2>1. ClassSound(h, h[c]) /\ IsClass(h[c])
      BY <1>1 DEF HeapSound, ObjectSound, ClassSound, IsClass, ClassOf
    <2>2. h[c].default \in Seq(LiveValue(h)) /\ h[c].methods \in Seq(LiveValue(h))
      BY <2>1 DEF ClassSound
    <2>3. MembersFit(h[c].default, h[c].methods, h[c].member)
      BY <2>1 DEF ClassSound, MemberSound, MembersFit
    <2> QED BY <2>1, <2>2, <2>3
  <1>3. NewSlot(h, self, key, v) = r
    BY DEF NewSlot
  <1>4. SUFFICES r.ok = TRUE /\ r.heap[c].type = "class" /\ ClassGet(r.heap, c, key) = Found(v)
    BY <1>1, <1>3 DEF Reads, Get, Type
  <1>5. CASE known /\ m.kind = "field"
    <2> DEFINE k == m.at
               d == PutAt(h[c].default, k, v)
               f == h[c].member
    <2>1. r = Done(WithMembers(h, c, d, h[c].methods, f))
      <3>1. r = Done(DefaultSet(h, c, m.at, v))
        BY <1>5 DEF ClassNewSlot, DefaultSet
      <3> QED BY <3>1, <1>1, <1>2, ClassEdits
    <2>2. key \in DOMAIN f /\ f[key] = Member("field", k) /\ d[k] = v
      BY <1>2, <1>5 DEF MembersFit, PutAt
    <2> HIDE DEF d, k, f, r, c, m, known
    <2> DEFINE g == WithMembers(h, c, d, h[c].methods, f)
    <2>9. g = WithMembers(h, c, d, h[c].methods, f)
      OBVIOUS
    <2> HIDE DEF g
    <2>3. g[c].type = "class" /\ ClassGet(g, c, key) = Found(v)
      <3>1. g[c].type = "class" /\ g[c].default = d /\ g[c].methods = h[c].methods /\ g[c].member = f
        BY <1>1, <2>9, MembersRead
      <3>2. ClassGet(g, c, key) = Found(v)
        BY <2>2, <3>1, FieldReads
      <3> QED BY <3>1, <3>2
    <2> QED BY <2>1, <2>3, <2>9 DEF Done
  <1>6. CASE known /\ m.kind = "method" /\ Type(h, v) = "closure"
    <2> DEFINE k == m.at
               d == PutAt(h[c].methods, k, v)
               f == h[c].member
    <2>1. r = Done(WithMembers(h, c, h[c].default, d, f))
      <3>1. r = Done(MethodSet(h, c, m.at, v))
        BY <1>6 DEF ClassNewSlot, MethodSet
      <3> QED BY <3>1, <1>1, <1>2, ClassEdits
    <2>2. key \in DOMAIN f /\ f[key] = Member("method", k) /\ d[k] = v
      BY <1>2, <1>6 DEF MembersFit, PutAt
    <2> HIDE DEF d, k, f, r, c, m, known
    <2> DEFINE g == WithMembers(h, c, h[c].default, d, f)
    <2>9. g = WithMembers(h, c, h[c].default, d, f)
      OBVIOUS
    <2> HIDE DEF g
    <2>3. g[c].type = "class" /\ ClassGet(g, c, key) = Found(v)
      <3>1. g[c].type = "class" /\ g[c].default = h[c].default /\ g[c].methods = d /\ g[c].member = f
        BY <1>1, <2>9, MembersRead
      <3>2. ClassGet(g, c, key) = Found(v)
        BY <2>2, <3>1, MethodReads
      <3> QED BY <3>1, <3>2
    <2> QED BY <2>1, <2>3, <2>9 DEF Done
  <1>7. CASE ~ known /\ Type(h, v) = "closure"
    <2> DEFINE z == h[c].methods
               d == Append(z, v)
               k == Len(z) + 1
               f == Extended(h[c].member, key, Member("method", k))
    <2>1. r = Done(MethodAdded(h, c, f, v))
      BY <1>7 DEF ClassNewSlot, MethodAdded
    <2>2. key \in DOMAIN f /\ f[key] = Member("method", k)
      BY DEF Extended
    <2>3. d[k] = v
      <3>1. z \in Seq(LiveValue(h))
        BY <1>2
      <3> HIDE DEF z, c, m, known
      <3> QED BY <3>1, AppendSeq
    <2> HIDE DEF f, r
    <2>4. r = Done(WithMembers(h, c, h[c].default, d, f))
      BY <1>1, <1>2, <2>1, ClassEdits
    <2> HIDE DEF d, k, c
    <2> DEFINE g == WithMembers(h, c, h[c].default, d, f)
    <2>9. g = WithMembers(h, c, h[c].default, d, f)
      OBVIOUS
    <2> HIDE DEF g
    <2>5. g[c].type = "class" /\ ClassGet(g, c, key) = Found(v)
      <3>1. g[c].type = "class" /\ g[c].default = h[c].default /\ g[c].methods = d /\ g[c].member = f
        BY <1>1, <2>9, MembersRead
      <3>2. ClassGet(g, c, key) = Found(v)
        BY <2>2, <2>3, <3>1, MethodReads
      <3> QED BY <3>1, <3>2
    <2> QED BY <2>4, <2>5, <2>9 DEF Done
  <1>8. CASE /\ ~ (known /\ m.kind = "field")
             /\ ~ (known /\ m.kind = "method" /\ Type(h, v) = "closure")
             /\ ~ (~ known /\ Type(h, v) = "closure")
    <2> DEFINE z == h[c].default
               d == Append(z, v)
               k == Len(z) + 1
               f == Extended(h[c].member, key, Member("field", k))
    <2>1. r = Done(FieldAdded(h, c, f, v))
      BY <1>8 DEF ClassNewSlot, FieldAdded
    <2>2. key \in DOMAIN f /\ f[key] = Member("field", k)
      BY DEF Extended
    <2>3. d[k] = v
      <3>1. z \in Seq(LiveValue(h))
        BY <1>2
      <3> HIDE DEF z, c, m, known
      <3> QED BY <3>1, AppendSeq
    <2> HIDE DEF f, r
    <2>4. r = Done(WithMembers(h, c, d, h[c].methods, f))
      BY <1>1, <1>2, <2>1, ClassEdits
    <2> HIDE DEF d, k, c
    <2> DEFINE g == WithMembers(h, c, d, h[c].methods, f)
    <2>9. g = WithMembers(h, c, d, h[c].methods, f)
      OBVIOUS
    <2> HIDE DEF g
    <2>5. g[c].type = "class" /\ ClassGet(g, c, key) = Found(v)
      <3>1. g[c].type = "class" /\ g[c].default = d /\ g[c].methods = h[c].methods /\ g[c].member = f
        BY <1>1, <2>9, MembersRead
      <3>2. ClassGet(g, c, key) = Found(v)
        BY <2>2, <2>3, <3>1, FieldReads
      <3> QED BY <3>1, <3>2
    <2> QED BY <2>4, <2>5, <2>9 DEF Done
  <1> QED BY <1>5, <1>6, <1>7, <1>8

-----------------------------------------------------------------------------
\* What the methods that store do to the heap.
LEMMA PopKeeps ==
  ASSUME NEW S, IsMachine(S), NEW k
  PROVE  LET T == Pop(S, "gv", k) IN IsMachine(T) /\ T.heap = S.heap /\ T.ok = S.ok
  <1> DEFINE s == SubSeq(S.stack.gv, 1, Len(S.stack.gv) - k)
  <1>1. Pop(S, "gv", k) = WithStack(S, "gv", s)
    BY DEF Pop, WithStack
  <1> HIDE DEF s
  <1>2. Like(WithStack(S, "gv", s), S.heap, S.refs, S.info, S.left) /\ WithStack(S, "gv", s).ok = S.ok
    BY SetStack
  <1> QED BY <1>1, <1>2 DEF Like

LEMMA AfterTakes ==
  ASSUME NEW S, IsMachine(S), NEW r, NEW k
  PROVE  LET T == sq_pop(Pop(After(S, r), "gv", k), "gv", 1)
         IN  T.heap = r.heap /\ T.ok = r.ok /\ sq_pop(Succeed(Pop(After(S, r), "gv", k)), "gv", 1).heap = r.heap
  <1> DEFINE p == WithHeap(S, r.heap)
             q == WithOk(p, r.ok)
             t == Pop(q, "gv", k)
  <1>1. After(S, r) = q
    BY DEF After, WithOk, WithHeap
  <1>2. IsMachine(p) /\ p.heap = r.heap
    BY SetHeap DEF Like
  <1> HIDE DEF p
  <1>3. IsMachine(q) /\ q.heap = r.heap /\ q.ok = r.ok
    BY <1>2, SetOk DEF Like
  <1> HIDE DEF q
  <1>4. IsMachine(t) /\ t.heap = r.heap /\ t.ok = r.ok
    BY <1>3, PopKeeps
  <1> HIDE DEF t
  <1>5. sq_pop(t, "gv", 1).heap = r.heap /\ sq_pop(t, "gv", 1).ok = r.ok
    BY <1>4, PopKeeps DEF sq_pop
  <1>6. IsMachine(Succeed(t)) /\ Succeed(t).heap = r.heap
    <2>1. Succeed(t) = WithOk(t, TRUE)
      BY DEF Succeed, WithOk
    <2>2. IsMachine(WithOk(t, TRUE)) /\ WithOk(t, TRUE).heap = t.heap
      BY <1>4, SetOk DEF Like
    <2> QED BY <1>4, <2>1, <2>2
  <1>7. sq_pop(Succeed(t), "gv", 1).heap = r.heap
    BY <1>6, PopKeeps DEF sq_pop
  <1> QED BY <1>1, <1>5, <1>7 DEF t

\* Container, key and value as set() and create() put them on the stack.
LEMMA ThreePushed ==
  ASSUME NEW S, NEW b, NEW m, NEW f, Level(S, b, 0, m, f), NEW i \in Infos, NEW key \in Keys, NEW x, IsArgument(x)
  PROVE  LET p == pushValue(Push(push(S, "gv", S.info[i]), "gv", key), "gv", x)
         IN  /\ IsMachine(p) /\ p.heap = S.heap
             /\ Up(p, "gv", -3) = RealVal(S.heap, f[i]) /\ Up(p, "gv", -2) = key /\ Up(p, "gv", -1) = Meant(S, x)
             /\ Meant(S, x) \in LiveValue(S.heap) /\ Meant(S, x)[1] # "weak"
             /\ RealVal(S.heap, f[i]) \in LiveValue(S.heap)
  <1> DEFINE o == push(S, "gv", S.info[i])
             q == Push(o, "gv", key)
             p == pushValue(q, "gv", x)
             v == Meant(S, x)
             w == RealVal(S.heap, f[i])
  <1>1. Level(o, b, 1, m, f) /\ Apart(o, S) /\ o.stack.gv = Append(S.stack.gv, w) /\ w \in LiveValue(S.heap)
    BY LevelVariable, Depths
  <1> HIDE DEF o
  <1>2. key \in LiveValue(o.heap)
    <2>1. HeapSound(o.heap)
      BY <1>1, LevelValues
    <2> QED BY <2>1, Constants DEF Keys
  <1>3. Level(q, b, 2, m, f) /\ Apart(q, o) /\ q.stack.gv = Append(o.stack.gv, key)
    <2>1. Level(q, b, 1 + 1, m, f) /\ Apart(q, o) /\ q.stack.gv = Append(o.stack.gv, key)
      BY <1>1, <1>2, LevelPush
    <2> QED BY <2>1, Depths
  <1> HIDE DEF q
  <1>4. /\ Level(p, b, 2 + 1, m, f) /\ Apart(p, q) /\ p.stack.gv = Append(q.stack.gv, Meant(q, x))
        /\ Meant(q, x) \in LiveValue(q.heap) /\ Meant(q, x)[1] # "weak"
    BY <1>3, LevelArgument
  <1>5. q.heap = S.heap /\ Meant(q, x) = v /\ p.heap = S.heap
    BY <1>1, <1>3, <1>4 DEF Apart, Meant
  <1>6. IsMachine(p)
    BY <1>4 DEF Level, State
  <1> HIDE DEF p, v, w
  <1>7. p.stack.gv = Append(Append(Append(S.stack.gv, w), key), v)
    BY <1>1, <1>3, <1>4, <1>5
  <1>8. S.stack.gv \in Seq(LiveValue(S.heap)) /\ v \in LiveValue(S.heap) /\ key \in LiveValue(S.heap)
    BY <1>1, <1>2, <1>4, <1>5 DEF Level, State, Apart
  <1>9. Up(p, "gv", -3) = w /\ Up(p, "gv", -2) = key /\ Up(p, "gv", -1) = v
    <2> DEFINE s == S.stack.gv
               n == Len(s)
               s1 == Append(s, w)
               s2 == Append(s1, key)
               s3 == Append(s2, v)
    <2>1. n \in Nat /\ s1 \in Seq(LiveValue(S.heap)) /\ Len(s1) = n + 1 /\ s1[n + 1] = w
      BY <1>1, <1>8, AppendSeq
    <2> HIDE DEF s1
    <2>2. s2 \in Seq(LiveValue(S.heap)) /\ Len(s2) = n + 2 /\ s2[n + 2] = key /\ s2[n + 1] = w
      <3>1. Len(s2) = Len(s1) + 1 /\ s2[Len(s1) + 1] = key /\ \A k \in 1 .. Len(s1) : s2[k] = s1[k]
        BY <1>8, <2>1, AppendSeq
      <3>2. (n + 1) + 1 = n + 2 /\ n + 1 \in 1 .. Len(s1)
        BY <2>1
      <3>3. s2 \in Seq(LiveValue(S.heap))
        BY <1>8, <2>1, AppendSeq
      <3> HIDE DEF s2, n
      <3> QED BY <2>1, <3>1, <3>2, <3>3
    <2> HIDE DEF s2
    <2>3. Len(s3) = n + 3 /\ s3[n + 3] = v /\ s3[n + 2] = key /\ s3[n + 1] = w
      <3>1. Len(s3) = Len(s2) + 1 /\ s3[Len(s2) + 1] = v /\ \A k \in 1 .. Len(s2) : s3[k] = s2[k]
        BY <1>8, <2>2, AppendSeq
      <3>2. (n + 2) + 1 = n + 3 /\ n + 1 \in 1 .. Len(s2) /\ n + 2 \in 1 .. Len(s2)
        BY <2>1, <2>2
      <3> HIDE DEF s3, n
      <3> QED BY <2>2, <3>1, <3>2
    <2>4. p.stack.gv = s3
      BY <1>7 DEF s1, s2
    <2> HIDE DEF s3, n
    <2>5. n + 3 + 1 + (-3) = n + 1 /\ n + 3 + 1 + (-2) = n + 2 /\ n + 3 + 1 + (-1) = n + 3
      BY <2>1
    <2> QED BY <2>3, <2>4, <2>5 DEF Up
  <1> QED BY <1>1, <1>4, <1>5, <1>6, <1>9 DEF o, p, q, v, w

LEMMA StoreTakes ==
  ASSUME NEW S, NEW b, NEW m, NEW f, Level(S, b, 0, m, f), NEW i \in Infos, NEW key \in Keys, NEW x, IsArgument(x)
  PROVE  LET w == RealVal(S.heap, f[i])
             v == Meant(S, x)
             r == Set(S.heap, w, key, v)
             T == set(S, i, key, x)
         IN  /\ T.heap = r.heap /\ T.ok = r.ok
             /\ Type(S.heap, w) \in {"table", "class"} =>
                  create(S, i, key, x).heap = NewSlot(S.heap, w, key, v).heap
  <1> DEFINE p == pushValue(Push(push(S, "gv", S.info[i]), "gv", key), "gv", x)
             w == RealVal(S.heap, f[i])
             v == Meant(S, x)
             r == Set(S.heap, w, key, v)
             n == NewSlot(S.heap, w, key, v)
  <1>1. /\ IsMachine(p) /\ p.heap = S.heap
        /\ Up(p, "gv", -3) = w /\ Up(p, "gv", -2) = key /\ Up(p, "gv", -1) = v
    BY ThreePushed
  <1>2. set(S, i, key, x) = sq_pop(sq_set(p, "gv", -3), "gv", 1)
        /\ create(S, i, key, x) = sq_pop(sq_newslot(p, "gv", -3), "gv", 1)
    BY DEF set, create
  <1> HIDE DEF p, w, v
  <1>3. sq_set(p, "gv", -3) = Pop(After(p, r), "gv", 2)
    BY <1>1 DEF sq_set
  <1>4. key # Null
    <2>1. Key \subseteq {"int", "string"} \X Int
      BY ObjectAssumption DEF ObjectAssumption, Key, ToSet
    <2> QED BY <2>1 DEF Keys, Null, IntV
  <1>5. ASSUME Type(S.heap, w) \in {"table", "class"}
        PROVE  create(S, i, key, x).heap = n.heap
    <2>1. sq_newslot(p, "gv", -3) = Succeed(Pop(After(p, n), "gv", 2))
      BY <1>1, <1>4, <1>5 DEF sq_newslot
    <2> HIDE DEF n
    <2> QED BY <1>1, <1>2, <2>1, AfterTakes
  <1> HIDE DEF r, n
  <1>6. set(S, i, key, x).heap = r.heap /\ set(S, i, key, x).ok = r.ok
    BY <1>1, <1>2, <1>3, AfterTakes
  <1> QED BY <1>5, <1>6 DEF r, n, v, w

\* Nulls are appended to an array: it is so much longer, and nothing else has changed.
Longer(g, h, o, k) ==
    /\ \A q \in Obj : q # o => g[q] = h[q]
    /\ g[o].type = "array" /\ g[o].val \in Seq(LiveValue(g)) /\ Len(g[o].val) = Len(h[o].val) + k

LEMMA NullAppended ==
  ASSUME NEW S, NEW b, NEW m, NEW f, Level(S, b, 1, m, f), NEW w, Up(S, "gv", -1) = w, Type(S.heap, w) = "array",
         NEW h, NEW k \in Nat, Longer(S.heap, h, w[2], k), Len(h[w[2]].val) \in Nat
  PROVE  LET T == NullRound(S)
         IN  /\ Level(T, b, 1, m, f) /\ Up(T, "gv", -1) = w /\ Type(T.heap, w) = "array"
             /\ Longer(T.heap, h, w[2], k + 1)
  <1> DEFINE p == sq_pushnull(S, "gv")
             o == w[2]
             a == S.heap[o].val
             s == Append(a, Null)
             g == [S.heap EXCEPT ![o].val = s]
             t == WithHeap(p, g)
             u == Pop(t, "gv", 1)
  <1>1. Level(p, b, 2, m, f) /\ Apart(p, S) /\ p.stack.gv = Append(S.stack.gv, Null)
    BY LevelKey, Depths
  <1>2. HeapSound(S.heap) /\ S.stack.gv \in Seq(LiveValue(S.heap)) /\ w \in LiveValue(S.heap)
        /\ Null \in LiveValue(S.heap)
    <2>1. HeapSound(S.heap) /\ w \in LiveValue(S.heap)
      BY LevelValues, Depths
    <2> QED BY <2>1, Constants DEF Level, State
  <1>3. w[1] = "ref" /\ o \in Obj /\ S.heap[o].type = "array"
    BY <1>2, RefType
  <1>4. a \in Seq(LiveValue(S.heap)) /\ S.heap[o] = NewArray(a) /\ S.heap = [q \in Obj |-> S.heap[q]]
    BY <1>2, <1>3 DEF HeapSound, ObjectSound, ArraySound
  <1>5. s \in Seq(LiveValue(S.heap)) /\ Len(s) = Len(a) + 1
    BY <1>2, <1>4, AppendSeq
  <1>6. HeapSound(g) /\ Grows(S.heap, g) /\ g[o] = NewArray(s) /\ \A q \in Obj : q # o => g[q] = S.heap[q]
    BY <1>2, <1>3, <1>4, <1>5, ArrayPut DEF NewArray
  <1>7. Up(p, "gv", -2) = w /\ Up(p, "gv", -1) = Null
    <2> DEFINE st == S.stack.gv
               n == Len(st)
    <2>1. n \in Nat /\ n > 0 /\ st[n] = w
      <3>1. n = Len(b) + 1 + S.left /\ Len(b) \in Nat /\ S.left \in Nat
        BY DEF Level, State
      <3>2. n + 1 + (-1) = n
        BY <3>1
      <3> QED BY <3>1, <3>2 DEF Up
    <2>2. Len(Append(st, Null)) = n + 1 /\ Append(st, Null)[n + 1] = Null /\ Append(st, Null)[n] = st[n]
      BY <1>2, <2>1, AppendSeq
    <2>3. n + 1 + 1 + (-2) = n /\ n + 1 + 1 + (-1) = n + 1
      BY <2>1
    <2> HIDE DEF n, p, st
    <2>4. p.stack.gv = Append(st, Null)
      BY <1>1 DEF st
    <2> HIDE DEF st
    <2> QED BY <2>1, <2>2, <2>3, <2>4 DEF Up
  <1>8. NullRound(S) = Succeed(u)
    <2>1. IsArray(p, "gv", -2) /\ Array(p, "gv", -2) = a /\ p.heap = S.heap
      BY <1>1, <1>7 DEF IsArray, Array, Apart
    <2>2. WithArray(p, "gv", -2, s) = t
      BY <1>7, <2>1 DEF WithArray, WithHeap
    <2> HIDE DEF t, p
    <2> QED BY <1>7, <2>1, <2>2 DEF NullRound, sq_arrayappend, p
  <1> HIDE DEF g, s, p
  <1>9. Level(t, b, 2, m, f) /\ t.heap = g /\ t.stack = p.stack
    BY <1>1, <1>6, LevelHeap DEF Apart
  <1> HIDE DEF t
  <1>10. 1 \in 0 .. 2
    OBVIOUS
  <1>11. Level(u, b, 2 - 1, m, f) /\ u.heap = t.heap /\ u.stack.gv = SubSeq(t.stack.gv, 1, Len(t.stack.gv) - 1)
    BY <1>9, <1>10, LevelPop DEF Apart
  <1> HIDE DEF u
  <1>12. Level(Succeed(u), b, 1, m, f) /\ Succeed(u).heap = g /\ Succeed(u).stack = u.stack
    BY <1>9, <1>11, Depths, LevelResult DEF Apart
  <1>13. u.stack.gv = S.stack.gv
    <2>1. \A st \in Seq(LiveValue(S.heap)) : SubSeq(Append(st, Null), 1, Len(Append(st, Null)) - 1) = st
      BY <1>2, DropLast
    <2> QED BY <1>1, <1>2, <1>9, <1>11, <2>1
  <1>14. Up(Succeed(u), "gv", -1) = w
    BY <1>12, <1>13 DEF Up
  <1>15. Type(g, w) = "array" /\ g[o].val = s /\ g[o].type = "array"
    BY <1>3, <1>6 DEF Type, NewArray
  <1>16. s \in Seq(LiveValue(g))
    BY <1>3, <1>5, <1>6, <1>15 DEF HeapSound, ObjectSound, ArraySound
  <1>17. Longer(g, h, o, k + 1)
    <2>1. Len(a) = Len(h[o].val) + k /\ \A q \in Obj : q # o => S.heap[q] = h[q]
      BY DEF Longer
    <2>3. Len(h[o].val) \in Nat
      OBVIOUS
    <2> DEFINE first == Len(h[o].val)
               had == Len(a)
    <2>4. had = first + k /\ Len(s) = had + 1 /\ first \in Nat
      BY <1>5, <2>1, <2>3
    <2> HIDE DEF first, had
    <2>5. Len(s) = first + (k + 1)
      BY <2>4
    <2>2. Len(s) = Len(h[o].val) + (k + 1)
      BY <2>5 DEF first
    <2> QED BY <1>6, <1>15, <1>16, <2>1, <2>2 DEF Longer
  <1> QED BY <1>8, <1>12, <1>14, <1>15, <1>17

LEMMA NullsTake ==
  ASSUME NEW S, NEW b, NEW m, NEW f, Level(S, b, 0, m, f), NEW i \in Infos, NEW n \in Nat,
         Type(S.heap, RealVal(S.heap, f[i])) = "array"
  PROVE  Longer(WithNulls(S, i, n).heap, S.heap, RealVal(S.heap, f[i])[2], n)
  <1> DEFINE w == RealVal(S.heap, f[i])
             h == S.heap
             o == w[2]
             p == push(S, "gv", S.info[i])
             a == CHOOSE a : a = [k \in 0 .. n |->
                    IF k = 0 THEN p ELSE sq_arrayappend(sq_pushnull(a[k - 1], "gv"), "gv", -2)]
             TurnTakes(k) == /\ Level(a[k], b, 1, m, f) /\ Up(a[k], "gv", -1) = w /\ Type(a[k].heap, w) = "array"
                             /\ Longer(a[k].heap, h, o, k)
             A == {k \in Nat : k <= n => TurnTakes(k)}
  <1>1. WithNulls(S, i, n) = sq_pop(a[n], "gv", 1)
    BY DEF WithNulls
  <1>2. Level(p, b, 1, m, f) /\ p.heap = h /\ Up(p, "gv", -1) = w /\ w \in LiveValue(h)
    BY LevelVariable, Depths DEF Apart
  <1>3. HeapSound(h) /\ Type(h, w) = "array"
    BY DEF Level, State
  <1> HIDE DEF p
  <1>4. \A c : Rounds("null", p, i, n, c) <=>
          c = [k \in 0 .. n |-> IF k = 0 THEN p ELSE sq_arrayappend(sq_pushnull(c[k - 1], "gv"), "gv", -2)]
    BY DEF Rounds, Round, NullRound
  <1>5. Rounds("null", p, i, n, a)
    BY <1>4, RoundsExist
  <1> HIDE DEF a, w, h
  <1>6. o \in Obj /\ h[o].type = "array"
    BY <1>2, <1>3, RefType
  <1>7. h[o].val \in Seq(LiveValue(h)) /\ Len(h[o].val) \in Nat
    <2>1. h[o].val \in Seq(LiveValue(h))
      BY <1>3, <1>6 DEF HeapSound, ObjectSound, ArraySound
    <2> QED BY <2>1
  <1>8. a[0] = p /\ \A k \in Nat : k < n => a[k + 1] = NullRound(a[k])
    BY <1>5, RoundsRead DEF Round
  <1>9. Longer(h, h, o, 0)
    BY <1>6, <1>7 DEF Longer
  <1>10. 0 \in A
    BY <1>2, <1>3, <1>8, <1>9
  <1>11. ASSUME NEW k \in Nat, k \in A PROVE k + 1 \in A
    <2>1. SUFFICES ASSUME k + 1 <= n PROVE TurnTakes(k + 1)
      OBVIOUS
    <2>2. TurnTakes(k) /\ a[k + 1] = NullRound(a[k])
      BY <1>8, <1>11, <2>1
    <2> DEFINE T == a[k]
    <2>3. /\ Level(T, b, 1, m, f) /\ Up(T, "gv", -1) = w /\ Type(T.heap, w) = "array"
          /\ Longer(T.heap, h, o, k) /\ a[k + 1] = NullRound(T)
      BY <2>2
    <2> HIDE DEF T, A
    <2> QED BY <1>7, <2>3, NullAppended
  <1>12. Nat \subseteq A
    <2> HIDE DEF A
    <2> QED BY <1>10, <1>11, SetInduction
  <1>13. TurnTakes(n)
    BY <1>12
  <1>14. sq_pop(a[n], "gv", 1).heap = a[n].heap
    BY <1>13, PopKeeps DEF Level, State, sq_pop
  <1> QED BY <1>1, <1>13, <1>14 DEF w, h

LEMMA LengthRead ==
  ASSUME NEW S, NEW b, NEW m, NEW f, Level(S, b, 0, m, f), NEW i \in Infos,
         Type(S.heap, RealVal(S.heap, f[i])) = "array"
  PROVE  len(S, i).out[2] = Len(S.heap[RealVal(S.heap, f[i])[2]].val)
  <1> DEFINE w == RealVal(S.heap, f[i])
             p == push(S, "gv", S.info[i])
             x == IntV(Size(p.heap, Up(p, "gv", -1)))
             q == sq_pop(p, "gv", 1)
  <1>1. Level(p, b, 1, m, f) /\ p.heap = S.heap /\ Up(p, "gv", -1) = w
    BY LevelVariable, Depths DEF Apart
  <1>2. len(S, i) = Give(q, x)
    BY DEF len
  <1> HIDE DEF p, w
  <1>3. x = IntV(Len(S.heap[w[2]].val))
    BY <1>1 DEF Size, w
  <1> HIDE DEF x
  <1>4. IsMachine(q)
    BY <1>1, PopKeeps DEF Level, State, sq_pop
  <1> HIDE DEF q
  <1>5. Give(q, x).out = x
    BY <1>4, SetOut
  <1> QED BY <1>2, <1>3, <1>5 DEF w, IntV

\* A store through the reference's copy, which "ret" holds, reads back.
LEMMA ArrayStoreReads ==
  ASSUME NEW S, NEW b, NEW m, NEW f, Level(S, b, 0, m, f), NEW key \in Keys, NEW x, IsArgument(x),
         Type(S.heap, RealVal(S.heap, f["ret"])) = "array", key[1] = "int", key[2] \in Nat
  PROVE  Get(AssignElement(S, key, x).heap, RealVal(S.heap, f["ret"]), key) = Found(Meant(S, x))
  <1> DEFINE w == RealVal(S.heap, f["ret"])
             o == w[2]
             h == S.heap
             l == Len(h[o].val)
             n == Turns(key[2] + 1 - len(S, "ret").out[2])
             T == WithNulls(S, "ret", n)
             g == T.heap
             v == Meant(S, x)
  <1>1. "ret" \in Infos /\ n \in Nat
    BY TurnsNat DEF Infos, Local
  <1>2. HeapSound(h) /\ w \in LiveValue(h) /\ w[1] # "weak" /\ S.info = f
    <2>1. HeapSound(h) /\ S.info = f
      BY DEF Level, State
    <2>2. w \in LiveValue(h) /\ w[1] # "weak"
      BY <1>1, LevelVariable
    <2> QED BY <2>1, <2>2
  <1>3. w[1] = "ref" /\ o \in Obj /\ h[o].type = "array"
    BY <1>2, RefType
  <1>4. l \in Nat
    <2>1. h[o].val \in Seq(LiveValue(h))
      BY <1>2, <1>3 DEF HeapSound, ObjectSound, ArraySound
    <2> QED BY <2>1
  <1>5. n = Turns(key[2] + 1 - l)
    BY <1>1, LengthRead
  <1>6. type(S, "ret") = "array"
    BY <1>2 DEF type
  <1>7. AssignElement(S, key, x) = set(T, "ret", key, x)
    <2>1. Filled(S, "ret", key[2]) = T
      BY DEF Filled
    <2> HIDE DEF T, n
    <2> QED BY <1>6, <2>1 DEF AssignElement
  <1> HIDE DEF n
  <1>8. Level(T, b, 0, m, f) /\ Longer(g, h, o, n)
    BY <1>1, LevelWithNulls, NullsTake
  <1> HIDE DEF T
  <1>9. HeapSound(g)
    BY <1>8 DEF Level, State
  \* The same objects are there.
  <1>10. \A q \in Obj : g[q] = Free <=> h[q] = Free
    BY <1>3, <1>8 DEF Longer, Free
  <1>11. \A y \in LiveValue(h) : RealVal(g, y) = RealVal(h, y) /\ y \in LiveValue(g)
    <2>1. \A y \in Value : y[1] \in {"weak", "ref"} => y[2] \in Obj
      BY <1>2, Values
    <2>2. ASSUME NEW y \in LiveValue(h) PROVE RealVal(g, y) = RealVal(h, y) /\ y \in LiveValue(g)
      <3> HIDE DEF g, h, w
      <3>4. y \in Value
        BY DEF LiveValue
      <3>1. y \in Value /\ (y[1] \in {"weak", "ref"} => (g[y[2]] = Free <=> h[y[2]] = Free))
        BY <1>10, <2>1, <3>4
      <3>2. y[1] = "ref" => h[y[2]] # Free
        BY DEF LiveValue, Alive
      <3>3. RealVal(g, y) = RealVal(h, y)
        BY <3>1 DEF RealVal
      <3> QED BY <3>1, <3>2, <3>3 DEF LiveValue, Alive
    <2> QED BY <2>2
  <1>12. f \in [Infos -> LiveValue(h)] /\ T.info = f
    BY <1>8, HeldNow DEF Level
  <1>13. RealVal(g, f["ret"]) = w
    BY <1>1, <1>11, <1>12
  <1>14. Meant(T, x) = v
    <2>1. CASE x \in Plain
      <3>1. x[1] # "var"
        BY <2>1 DEF Plain
      <3> QED BY <3>1 DEF Meant
    <2>2. CASE \E j \in Infos : x = Var(j)
      <3>1. PICK j \in Infos : x = Var(j)
        BY <2>2
      <3>2. Meant(T, x) = RealVal(g, f[j]) /\ v = RealVal(h, f[j])
        BY <1>2, <1>12, <3>1 DEF Meant, Var
      <3> QED BY <1>11, <1>12, <3>2
    <2> QED BY <2>1, <2>2 DEF IsArgument
  <1>15. w \in LiveValue(g) /\ Type(g, w) = "array"
    BY <1>2, <1>3, <1>8, <1>11 DEF Longer, Type
  <1>16. v[1] # "weak"
    BY <1>8, <1>14, LevelArgument
  <1>17. IsIndex(g[o].val, key)
    <2>1. Len(g[o].val) = l + n
      BY <1>8 DEF Longer
    <2>2. key[2] < l + n
      <3> DEFINE k == key[2]
      <3>1. k \in Nat /\ n = IF k + 1 - l \in Nat THEN k + 1 - l ELSE 0
        BY <1>5 DEF Turns
      <3> HIDE DEF k, l
      <3>2. k < l + n
        BY <1>4, <3>1
      <3> QED BY <3>2 DEF k
    <2> HIDE DEF l
    <2> QED BY <1>1, <1>4, <2>1, <2>2 DEF IsIndex
  <1> HIDE DEF w, g, v
  <1>18. Reads(Set(g, w, key, v), w, key, v)
    BY <1>9, <1>15, <1>16, <1>17, ArrayReads DEF o
  <1>19. set(T, "ret", key, x).heap = Set(g, w, key, v).heap
    BY <1>1, <1>8, <1>13, <1>14, StoreTakes DEF g
  <1> QED BY <1>7, <1>18, <1>19 DEF Reads, w, v

LEMMA SlotStoreReads ==
  ASSUME NEW S, NEW b, NEW m, NEW f, Level(S, b, 0, m, f), NEW key \in Keys, NEW x, IsArgument(x),
         LET w == RealVal(S.heap, f["ret"])
         IN  Type(S.heap, w) = "table" \/ (Type(S.heap, w) = "class" /\ ~ S.heap[w[2]].locked)
  PROVE  Get(AssignElement(S, key, x).heap, RealVal(S.heap, f["ret"]), key) = Found(Meant(S, x))
  <1> DEFINE w == RealVal(S.heap, f["ret"])
             h == S.heap
             v == Meant(S, x)
             s == set(S, "ret", key, x)
             r == Set(h, w, key, v)
  <1>1. "ret" \in Infos
    BY DEF Infos, Local
  <1>2. w \in LiveValue(h) /\ w[1] # "weak"
    BY <1>1, LevelVariable
  <1>3. HeapSound(h) /\ S.info = f
    BY DEF Level, State
  <1>4. key # Null
    <2>1. Key \subseteq {"int", "string"} \X Int
      BY ObjectAssumption DEF ObjectAssumption, Key, ToSet
    <2> QED BY <2>1 DEF Keys, Null, IntV
  <1>5. v \in LiveValue(h) /\ v[1] # "weak"
    BY LevelArgument
  <1>6. type(S, "ret") = Type(h, w)
    BY <1>3 DEF type
  <1>7. AssignElement(S, key, x) = IF s.ok THEN s ELSE create(s, "ret", key, x)
    <2> HIDE DEF w
    <2>1. type(S, "ret") \in {"table", "class"} /\ type(S, "ret") # "array"
      BY <1>6 DEF w
    <2> QED BY <2>1 DEF AssignElement
  <1>8. s.heap = r.heap /\ s.ok = r.ok
    BY <1>1, StoreTakes
  <1>9. Level(s, b, 0, m, f)
    BY <1>1, LevelChangeSlot
  <1> HIDE DEF s, r, v
  \* A set that is refused has changed nothing.
  <1>10. ASSUME r = Refused(h), Type(h, w) \in {"table", "class"}
         PROVE  AssignElement(S, key, x).heap = NewSlot(h, w, key, v).heap
    <2>1. s.heap = h /\ s.ok = FALSE
      BY <1>8, <1>10 DEF Refused
    <2>2. Meant(s, x) = v /\ RealVal(s.heap, f["ret"]) = w
      BY <1>3, <1>9, <2>1 DEF Meant, Level, v
    <2> HIDE DEF w, h
    <2>3. create(s, "ret", key, x).heap = NewSlot(s.heap, w, key, v).heap
      BY <1>1, <1>9, <1>10, <2>1, <2>2, StoreTakes
    <2> QED BY <1>7, <2>1, <2>3
  <1> HIDE DEF w
  <1>11. CASE Type(h, w) = "table" /\ Holders(h, w[2], key) # {}
    <2>1. Reads(r, w, key, v)
      BY <1>2, <1>3, <1>5, <1>11, TableSetReads DEF r
    <2>2. AssignElement(S, key, x).heap = r.heap
      BY <1>7, <1>8, <2>1 DEF Reads
    <2> QED BY <2>1, <2>2 DEF Reads, w, v
  <1>12. CASE Type(h, w) = "table" /\ Holders(h, w[2], key) = {}
    <2>1. r = Refused(h)
      BY <1>12 DEF Set, r
    <2>2. Reads(NewSlot(h, w, key, v), w, key, v)
      BY <1>2, <1>3, <1>4, <1>5, <1>12, TableNewReads
    <2> QED BY <1>10, <1>12, <2>1, <2>2 DEF Reads, w, v
  <1>13. CASE Type(h, w) = "class" /\ ~ h[w[2]].locked
    <2>1. r = Refused(h)
      BY <1>13 DEF Set, r
    <2>2. Reads(NewSlot(h, w, key, v), w, key, v)
      BY <1>2, <1>3, <1>4, <1>5, <1>13, ClassReads
    <2> QED BY <1>10, <1>13, <2>1, <2>2 DEF Reads, w, v
  <1>14. Type(h, w) = "table" \/ (Type(h, w) = "class" /\ ~ h[w[2]].locked)
    BY DEF w
  <1> QED BY <1>11, <1>12, <1>13, <1>14 DEF w, v

LEMMA InvReadsBack ==
  ASSUME Inv
  PROVE  ReadsBack
  <1> SUFFICES ASSUME NEW i \in Info, NEW key \in Key, NEW x \in Argument,
                      \/ Type(heap, RealVal(heap, info[i])) = "array" /\ key[1] = "int" /\ key[2] \in Nat
                      \/ Type(heap, RealVal(heap, info[i])) = "table"
                      \/ /\ Type(heap, RealVal(heap, info[i])) = "class"
                         /\ ~ heap[RealVal(heap, info[i])[2]].locked
               PROVE  Get(setElement(Now(<< >>), i, key, x).heap, RealVal(heap, info[i]), key)
                        = Found(IF x[1] = "var" THEN RealVal(heap, info[x[2]]) ELSE x)
    BY DEF ReadsBack
  <1> DEFINE S == Now(<< >>)
             self == RealVal(heap, info[i])
             f == Assigned(info, "ret", info[i])
             p == assign(S, "ret", i)
             q == AssignElement(p, key, x)
             v == Meant(p, x)
  <1>0. \/ Type(heap, self) = "array" /\ key[1] = "int" /\ key[2] \in Nat
        \/ Type(heap, self) = "table" \/ (Type(heap, self) = "class" /\ ~ heap[self[2]].locked)
    OBVIOUS
  <1>1. Level(S, stack, 0, 0, info) /\ S.heap = heap /\ i \in Infos /\ key \in Keys /\ IsArgument(x)
    BY NowEmpty, Arguments
  <1>2. "ret" \in Infos /\ i # "ret"
    BY InfoAssumption DEF InfoAssumption, Infos, Local
  <1>3. setElement(S, i, key, x) = clear(q, "ret")
    BY DEF setElement
  <1> HIDE DEF S
  <1>4. Level(p, stack, 0, 0, f) /\ p.heap = heap
    <2>1. LET T == assign(S, "ret", i)
          IN  Level(T, stack, 0, 0, Assigned(info, "ret", IF "ret" = i THEN Null ELSE info[i])) /\ T.heap = S.heap
      BY <1>1, <1>2, LevelAssign
    <2> QED BY <1>1, <1>2, <2>1
  <1>5. f["ret"] = info[i] /\ \A j \in Infos : j # "ret" => f[j] = info[j]
    BY <1>2 DEF Assigned, Inv
  <1>6. p.info = f
    BY <1>4 DEF Level
  <1>7. v = IF x[1] = "var" THEN RealVal(heap, info[x[2]]) ELSE x
    <2>1. x = Closure \/ \E j \in Variable : x = Var(j)
      BY DEF Argument, Element
    <2>2. CASE x = Closure
      BY <2>2 DEF Meant, Closure
    <2>3. CASE \E j \in Variable : x = Var(j)
      <3>1. PICK j \in Variable : x = Var(j)
        BY <2>3
      <3>2. j \in Infos /\ j # "ret"
        BY InfoAssumption DEF InfoAssumption, Variable, Infos, Local
      <3>3. x[1] = "var" /\ x[2] = j
        BY <3>1 DEF Var
      <3> HIDE DEF f, p
      <3> QED BY <1>4, <1>5, <1>6, <3>2, <3>3 DEF Meant
    <2> QED BY <2>1, <2>2, <2>3
  <1> HIDE DEF p, v, f
  <1>8. Level(q, stack, 0, 0, f)
    BY <1>1, <1>4, LevelAssignElement
  <1>9. RealVal(p.heap, f["ret"]) = self
    BY <1>4, <1>5
  <1>10. Get(q.heap, self, key) = Found(v)
    <2> DEFINE w == RealVal(p.heap, f["ret"])
    <2>1. w = self /\ p.heap = heap
      BY <1>4, <1>9
    <2>2. CASE Type(heap, self) = "array" /\ key[1] = "int" /\ key[2] \in Nat
      <3>1. Type(p.heap, w) = "array" /\ key[1] = "int" /\ key[2] \in Nat
        BY <2>1, <2>2
      <3>2. Get(q.heap, w, key) = Found(v)
        BY <1>1, <1>4, <3>1, ArrayStoreReads DEF v
      <3> QED BY <2>1, <3>2
    <2>3. CASE Type(heap, self) = "table" \/ (Type(heap, self) = "class" /\ ~ heap[self[2]].locked)
      <3>1. Type(p.heap, w) = "table" \/ (Type(p.heap, w) = "class" /\ ~ p.heap[w[2]].locked)
        BY <2>1, <2>3
      <3>2. Get(q.heap, w, key) = Found(v)
        BY <1>1, <1>4, <3>1, SlotStoreReads DEF v
      <3> QED BY <2>1, <3>2
    <2> HIDE DEF self, q, w
    <2> QED BY <1>0, <2>2, <2>3, Zenon
  <1> HIDE DEF q
  <1>11. clear(q, "ret").heap = q.heap
    BY <1>2, <1>8, LevelClear
  <1> QED BY <1>3, <1>7, <1>10, <1>11 DEF S

\* What is assigned to an element through an ObjectInfo is what is read from it then, in any
\* array, table or class without instances and whatever the heap is like.
THEOREM ReadsBackAlways == Spec => []ReadsBack
  <1>1. Inv => ReadsBack
    BY InvReadsBack
  <1> QED BY <1>1, InvAlways, PTL
=============================================================================
