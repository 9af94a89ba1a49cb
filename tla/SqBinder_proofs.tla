---------------------------- MODULE SqBinder_proofs ----------------------------
(***************************************************************************)
(* Whatever scripts and the host do with bound classes, every C++ object   *)
(* has one owner and is deleted once, functions run on objects of their    *)
(* class, and wrappers count their references.                             *)
(***************************************************************************)
EXTENDS SqBinder, FiniteSetTheorems, TLAPS

Lists == INSTANCE SqListOps_proofs

Real == Class \ Script      \* the bound classes

-----------------------------------------------------------------------------
(* The inductive invariant.                                                *)

NativeType == [cls : Real \cup {None}, life : {"none", "live", "gone"}, host : BOOLEAN]
InstType == [cls : Class \cup {None}, up : 0 .. MaxNative, hook : BOOLEAN, script : BOOLEAN, refs : Nat]
WrapType == [kind : {None, "object", "function"}, obj : 0 .. MaxInst, env : 0 .. MaxInst]

Typed(in, nat) == in \in [Inst -> InstType] /\ nat \in [Native -> NativeType]

\* What is not there refers to nothing.
Bare(in, nat) ==
    /\ \A i \in Inst : in[i].cls = None => in[i] = NoInst
    /\ \A n \in Native : nat[n].life = "live" => nat[n].cls # None
    /\ \A n \in Native : nat[n].host => nat[n].life = "live"

\* An instance refers to an object that is there, which it owns if the host does not.
Refers(in, nat) ==
    \A i \in Inst : IF in[i].up = 0 THEN ~ in[i].hook
                    ELSE nat[in[i].up].life = "live" /\ in[i].hook = ~ nat[in[i].up].host

\* An object that is there and not the host's has an owner, and no two.
OneOwner(in, nat) ==
    /\ \A n \in Native : nat[n].life = "live" /\ ~ nat[n].host => \E i \in Inst : in[i].up = n
    /\ \A i, j \in Inst : in[i].hook /\ in[j].hook /\ in[i].up = in[j].up => i = j

\* An object is of every bound class that its instance is of.
Agrees(in, nat) ==
    \A i \in Inst : in[i].up # 0 =>
        \A d \in Real : IsA(in[i].cls, d) => IsA(nat[in[i].up].cls, d)

Sound(in, nat) ==
    Typed(in, nat) /\ Bare(in, nat) /\ Refers(in, nat) /\ OneOwner(in, nat) /\ Agrees(in, nat)

ObjRefs(wr, i) == {w \in Wrap : wr[w].obj = i}
EnvRefs(wr, i) == {w \in Wrap : wr[w].env = i}

Counted(in, wr) ==
    /\ wr \in [Wrap -> WrapType]
    /\ \A i \in Inst : in[i].refs = Cardinality(ObjRefs(wr, i)) + Cardinality(EnvRefs(wr, i))

\* What a call's outcome r refers to is there, and of its class.
Own(r, nat) ==
    r.cls # None =>
      /\ \/ r.form \in {"global", "member global"}
         \/ r.on \in Native /\ nat[r.on].life = "live" /\ IsA(nat[r.on].cls, r.cls)
      /\ \A k \in DOMAIN r.params :
            r.params[k].kind \in Given /\ r.got[k][2] # 0 =>
              /\ r.got[k][2] \in Native
              /\ nat[r.got[k][2]].life = "live" /\ IsA(nat[r.got[k][2]].cls, r.params[k].cls)

\* Instances, objects and wrappers.
Kept == Sound(inst, native) /\ Lost(inst) = {} /\ Counted(inst, wrap)

BinderInv == Kept /\ height = 0 /\ Own(out, native)

-----------------------------------------------------------------------------
(* Chains of classes.                                                      *)

LEMMA ChainFacts ==
  ASSUME NEW c \in Class
  PROVE  /\ Chain[c] \in Seq(Class) /\ Len(Chain[c]) \in Nat /\ Len(Chain[c]) > 0
         /\ DOMAIN Chain[c] = 1 .. Len(Chain[c])
         /\ \A k \in 1 .. Len(Chain[c]) :
               /\ Chain[c][k] \in Class
               /\ Chain[Chain[c][k]] = SubSeq(Chain[c], k, Len(Chain[c]))
         /\ \E d \in Real : IsA(c, d)
         /\ IsA(c, c)
<1>1. /\ Chain[c] \in Seq(Class) /\ Chain[c] # << >> /\ Chain[c][1] = c
      /\ \E d \in Real : IsA(c, d)
      /\ \A k \in DOMAIN Chain[c] : Chain[Chain[c][k]] = SubSeq(Chain[c], k, Len(Chain[c]))
  BY BinderAssumption DEF Real
<1>2. Len(Chain[c]) \in Nat /\ Len(Chain[c]) > 0 /\ DOMAIN Chain[c] = 1 .. Len(Chain[c])
  BY <1>1
<1>3. \A k \in 1 .. Len(Chain[c]) : Chain[c][k] \in Class
  BY <1>1, <1>2
<1>4. IsA(c, c)
  BY <1>1, <1>2 DEF IsA, Contains
<1> QED BY <1>1, <1>2, <1>3, <1>4

LEMMA IsAClass ==
  ASSUME NEW c \in Class, NEW d, IsA(c, d)
  PROVE  d \in Class
BY ChainFacts DEF IsA, Contains

\* A class further along a chain is of a class's classes from there on.
LEMMA Further ==
  ASSUME NEW c \in Class, NEW k \in 1 .. Len(Chain[c]), NEW j \in 1 .. Len(Chain[c])
  PROVE  k <= j => IsA(Chain[c][k], Chain[c][j])
<1> DEFINE s == Chain[c]
           t == SubSeq(s, k, Len(s))
<1>1. s \in Seq(Class) /\ Len(s) \in Nat /\ Chain[s[k]] = t
  BY ChainFacts
<1> HIDE DEF s
<1> SUFFICES ASSUME k <= j PROVE IsA(s[k], s[j])
  BY DEF s
<1>2. k \in 1 .. Len(s) /\ j \in 1 .. Len(s)
  BY DEF s
<1>3. Len(t) = Len(s) - k + 1 /\ t[j - k + 1] = s[j]
  BY <1>1, <1>2
<1>4. j - k + 1 \in 1 .. Len(t)
  BY <1>1, <1>2, <1>3
<1> HIDE DEF t
<1> QED BY <1>1, <1>3, <1>4 DEF IsA, Contains

LEMMA IsATransitive ==
  ASSUME NEW a \in Class, NEW b, NEW c, IsA(a, b), IsA(b, c)
  PROVE  IsA(a, c)
<1> DEFINE s == Chain[a]
<1>1. PICK k \in 1 .. Len(s) : s[k] = b
  BY DEF IsA, Contains
<1>2. /\ Chain[b] = SubSeq(s, k, Len(s)) /\ s \in Seq(Class) /\ Len(s) \in Nat
  BY <1>1, ChainFacts
<1>3. PICK j \in 1 .. Len(Chain[b]) : Chain[b][j] = c
  BY DEF IsA, Contains
<1> HIDE DEF s
<1>4. j \in 1 .. Len(s) - k + 1 /\ Chain[b][j] = s[k + j - 1]
  BY <1>1, <1>2, <1>3
<1>5. k + j - 1 \in 1 .. Len(s)
  BY <1>1, <1>2, <1>4
<1> QED BY <1>3, <1>4, <1>5 DEF IsA, Contains, s

\* The nearest bound class is of every bound class that the class is of.
LEMMA BoundNearest ==
  ASSUME NEW c \in Class
  PROVE  /\ BoundClass(c) \in Real
         /\ \A d \in Real : IsA(c, d) => IsA(BoundClass(c), d)
<1> DEFINE s == Chain[c]
           I == {i \in 1 .. Len(s) : s[i] \in Class \ Script}
<1>1. Nearest(c, Class \ Script) = IF I # {} THEN Min(I) ELSE 0
  BY DEF Nearest, SelectInSeq
<1>2. I \in SUBSET Nat
  BY ChainFacts
<1>3. I # {}
  <2>1. PICK d \in Real : IsA(c, d)
    BY ChainFacts
  <2>2. PICK k \in 1 .. Len(s) : s[k] = d
    BY <2>1 DEF IsA, Contains
  <2> QED BY <2>1, <2>2 DEF Real
<1>4. \E x \in I : \A y \in I : x =< y
  BY <1>2, <1>3, Lists!SmallestExists
<1>5. Min(I) \in I /\ \A y \in I : Min(I) =< y
  BY <1>4 DEF Min
<1>6. BoundClass(c) = s[Min(I)]
  BY <1>1, <1>3 DEF BoundClass
<1> HIDE DEF I
<1>7. Min(I) \in 1 .. Len(s) /\ s[Min(I)] \in Real
  BY <1>5 DEF I, Real
<1>8. ASSUME NEW d \in Real, IsA(c, d) PROVE IsA(BoundClass(c), d)
  <2>1. PICK j \in 1 .. Len(s) : s[j] = d
    BY <1>8 DEF IsA, Contains
  <2>2. j \in I
    BY <2>1 DEF I, Real
  <2>3. Min(I) <= j
    BY <1>5, <2>2
  <2> QED BY <1>6, <1>7, <2>1, <2>3, Further
<1> QED BY <1>6, <1>7, <1>8

-----------------------------------------------------------------------------
(* What settling does.                                                     *)

LEMMA NoInstType == NoInst \in InstType /\ NoInst.cls = None
BY BinderAssumption DEF NoInst, InstType

\* The objects of the instances that go are deleted once.
LEMMA SettleFacts ==
  ASSUME NEW in, NEW nat, Sound(in, nat), Settle(in, nat)
  PROVE  /\ inst' \in [Inst -> InstType] /\ native' \in [Native -> NativeType]
         /\ \A i \in Inst : inst'[i] = IF i \in Lost(in) THEN NoInst ELSE in[i]
         /\ \A n \in Native : HooksOn(in, n) = {} => native'[n] = nat[n]
         /\ \A n \in Native : HooksOn(in, n) # {} =>
               /\ nat[n].life = "live" /\ ~ nat[n].host
               /\ native'[n].life = "gone" /\ ~ native'[n].host
<1>1. in \in [Inst -> InstType] /\ nat \in [Native -> NativeType]
  BY DEF Sound, Typed
<1>2. \A i \in Inst : inst'[i] = IF i \in Lost(in) THEN NoInst ELSE in[i]
  BY DEF Settle
<1>3. inst' \in [Inst -> InstType]
  BY <1>1, <1>2, NoInstType DEF Settle
<1>4. \A n \in Native :
         native'[n] = IF HooksOn(in, n) = {} THEN nat[n]
                      ELSE IF Cardinality(HooksOn(in, n)) = 1 THEN Delete(nat, n)[n]
                      ELSE [nat[n] EXCEPT !.life = "twice"]
  BY DEF Settle
<1>5. ASSUME NEW n \in Native, HooksOn(in, n) = {} PROVE native'[n] = nat[n]
  BY <1>4, <1>5
<1>6. ASSUME NEW n \in Native, HooksOn(in, n) # {}
      PROVE  /\ nat[n].life = "live" /\ ~ nat[n].host
             /\ native'[n].life = "gone" /\ ~ native'[n].host
             /\ native'[n] \in NativeType
  <2>1. PICK i \in HooksOn(in, n) : TRUE
    BY <1>6
  <2>2. i \in Inst /\ in[i].hook /\ in[i].up = n /\ n # 0
    BY <2>1 DEF HooksOn, Lost, Native
  <2>3. HooksOn(in, n) = {i}
    <3>1. \A j \in HooksOn(in, n) : j = i
      BY <2>2 DEF HooksOn, Lost, Sound, OneOwner
    <3> QED BY <2>1, <3>1
  <2>4. Cardinality(HooksOn(in, n)) = 1
    BY <2>3, FS_Singleton
  <2>5. nat[n].life = "live" /\ ~ nat[n].host
    BY <2>2 DEF Sound, Refers
  <2>6. native'[n] = Delete(nat, n)[n]
    BY <1>4, <1>6, <2>4
  <2>7. Delete(nat, n)[n] = [nat[n] EXCEPT !.life = "gone"]
    BY <1>1, <2>5 DEF Delete, NativeType
  <2>8. nat[n] \in NativeType
    BY <1>1
  <2> QED BY <2>5, <2>6, <2>7, <2>8 DEF NativeType
<1>7. native' \in [Native -> NativeType]
  <2>1. \A n \in Native : native'[n] \in NativeType
    BY <1>1, <1>5, <1>6
  <2>2. native' = [n \in Native |-> native'[n]]
    BY DEF Settle
  <2> QED BY <2>1, <2>2
<1> QED BY <1>2, <1>3, <1>5, <1>6, <1>7

LEMMA SettleSound ==
  ASSUME NEW in, NEW nat, Sound(in, nat), Settle(in, nat)
  PROVE  Sound(inst', native') /\ Lost(inst') = {}
<1>1. /\ inst' \in [Inst -> InstType] /\ native' \in [Native -> NativeType]
      /\ \A i \in Inst : inst'[i] = IF i \in Lost(in) THEN NoInst ELSE in[i]
      /\ \A n \in Native : HooksOn(in, n) = {} => native'[n] = nat[n]
      /\ \A n \in Native : HooksOn(in, n) # {} =>
            /\ nat[n].life = "live" /\ ~ nat[n].host
            /\ native'[n].life = "gone" /\ ~ native'[n].host
  BY SettleFacts
<1>2. in \in [Inst -> InstType] /\ nat \in [Native -> NativeType]
  BY DEF Sound, Typed
<1>3. NoInst.cls = None /\ NoInst.up = 0 /\ NoInst.hook = FALSE
  BY DEF NoInst
\* Who stays refers to nothing that goes.
<1>4. ASSUME NEW i \in Inst, i \notin Lost(in), in[i].up # 0
      PROVE  native'[in[i].up] = nat[in[i].up]
  <2>1. in[i].up \in Native
    BY <1>2, <1>4 DEF InstType, Native
  <2>2. SUFFICES ASSUME HooksOn(in, in[i].up) # {} PROVE FALSE
    BY <1>1, <2>1
  <2>3. PICK j \in HooksOn(in, in[i].up) : TRUE
    BY <2>2
  <2>4. j \in Inst /\ j # i /\ in[j].hook /\ in[j].up = in[i].up
    BY <1>4, <2>3 DEF Lost, HooksOn
  <2>5. in[i].hook
    BY <1>4, <2>4 DEF Sound, Refers
  <2> QED BY <2>4, <2>5 DEF Sound, OneOwner
<1>5. Bare(inst', native')
  <2>1. \A i \in Inst : inst'[i].cls = None => inst'[i] = NoInst
    BY <1>1 DEF Sound, Bare
  <2>2. \A n \in Native : native'[n].life = "live" => native'[n].cls # None
    BY <1>1 DEF Sound, Bare
  <2>3. \A n \in Native : native'[n].host => native'[n].life = "live"
    BY <1>1 DEF Sound, Bare
  <2> QED BY <2>1, <2>2, <2>3 DEF Bare
<1>6. Refers(inst', native')
  <2> SUFFICES ASSUME NEW i \in Inst
               PROVE  IF inst'[i].up = 0 THEN ~ inst'[i].hook
                      ELSE native'[inst'[i].up].life = "live"
                             /\ inst'[i].hook = ~ native'[inst'[i].up].host
    BY DEF Refers
  <2>1. CASE i \in Lost(in)
    BY <1>1, <1>3, <2>1
  <2>2. CASE i \notin Lost(in)
    BY <1>1, <1>4, <2>2 DEF Sound, Refers
  <2> QED BY <2>1, <2>2
<1>7. OneOwner(inst', native')
  <2>1. ASSUME NEW n \in Native, native'[n].life = "live", ~ native'[n].host
        PROVE  \E i \in Inst : inst'[i].up = n
    <3>1. HooksOn(in, n) = {} /\ native'[n] = nat[n]
      BY <1>1, <2>1
    <3>2. PICK i \in Inst : in[i].up = n
      BY <2>1, <3>1 DEF Sound, OneOwner
    <3>3. in[i].hook
      <4>1. in[i].up # 0 /\ ~ nat[n].host
        BY <2>1, <3>1, <3>2 DEF Native
      <4>2. in[i].hook = ~ nat[n].host
        BY <3>2, <4>1 DEF Sound, Refers
      <4> QED BY <4>1, <4>2
    <3>4. i \notin Lost(in)
      BY <3>1, <3>2, <3>3 DEF HooksOn
    <3> QED BY <1>1, <3>2, <3>4
  <2>2. \A i, j \in Inst : inst'[i].hook /\ inst'[j].hook /\ inst'[i].up = inst'[j].up => i = j
    BY <1>1, <1>3 DEF Sound, OneOwner
  <2> QED BY <2>1, <2>2 DEF OneOwner
<1>8. Agrees(inst', native')
  <2> SUFFICES ASSUME NEW i \in Inst, inst'[i].up # 0, NEW d \in Real, IsA(inst'[i].cls, d)
               PROVE  IsA(native'[inst'[i].up].cls, d)
    BY DEF Agrees
  <2>1. i \notin Lost(in) /\ inst'[i] = in[i]
    BY <1>1, <1>3
  <2> QED BY <1>4, <2>1 DEF Sound, Agrees
<1>9. Lost(inst') = {}
  BY <1>1, <1>3 DEF Lost
<1> QED BY <1>1, <1>5, <1>6, <1>7, <1>8, <1>9 DEF Sound, Typed

LEMMA SettleCounted ==
  ASSUME NEW in, NEW nat, Sound(in, nat), Settle(in, nat),
         NEW wr, Counted(in, wr)
  PROVE  Counted(inst', wr)
<1>1. \A i \in Inst : inst'[i] = IF i \in Lost(in) THEN NoInst ELSE in[i]
  BY SettleFacts
<1>2. \A i \in Inst : inst'[i].refs = in[i].refs
  BY <1>1 DEF Lost, NoInst
<1> QED BY <1>2 DEF Counted

\* If none is lost, nothing changes.
LEMMA SettleNone ==
  ASSUME NEW in, NEW nat, Sound(in, nat), Settle(in, nat), Lost(in) = {}
  PROVE  /\ \A i \in Inst : inst'[i] = in[i]
         /\ \A n \in Native : native'[n] = nat[n]
<1>1. /\ \A i \in Inst : inst'[i] = IF i \in Lost(in) THEN NoInst ELSE in[i]
      /\ \A n \in Native : HooksOn(in, n) = {} => native'[n] = nat[n]
  BY SettleFacts
<1>2. \A n \in Native : HooksOn(in, n) = {}
  BY DEF HooksOn
<1> QED BY <1>1, <1>2

-----------------------------------------------------------------------------
(* Instances and objects that come and go.                                 *)

\* Nobody refers to an object that is not there.
LEMMA Unreferred ==
  ASSUME NEW in, NEW nat, Sound(in, nat), NEW n \in Native, nat[n].life # "live", NEW i \in Inst
  PROVE  in[i].up # n
BY DEF Sound, Refers, Native

\* An instance is added that owns nothing, or an object that nobody else refers to,
\* or refers to one of the host's.
LEMMA Added ==
  ASSUME NEW in, NEW nat, Sound(in, nat), Lost(in) = {},
         NEW i \in Inst, in[i].cls = None,
         NEW c \in Class, NEW u \in 0 .. MaxNative, NEW h \in BOOLEAN,
         NEW mat, mat \in [Native -> NativeType],
         u = 0 => ~ h /\ mat = nat,
         u # 0 => /\ mat[u].life = "live" /\ mat[u].cls # None /\ h = ~ mat[u].host
                  /\ \A n \in Native : n # u => mat[n] = nat[n]
                  /\ \A d \in Real : IsA(c, d) => IsA(mat[u].cls, d)
                  /\ IF h THEN \A j \in Inst : in[j].up # u ELSE mat[u] = nat[u]
  PROVE  LET new == [in EXCEPT ![i] = Instance(c, u, h)]
         IN  /\ Sound(new, mat) /\ Lost(new) = {}
             /\ \A wr : Counted(in, wr) => Counted(new, wr)
<1> DEFINE x == Instance(c, u, h)
           new == [in EXCEPT ![i] = x]
<1>1. in \in [Inst -> InstType] /\ nat \in [Native -> NativeType]
  BY DEF Sound, Typed
<1>2. /\ x \in InstType /\ x.cls = c /\ x.up = u /\ x.hook = h /\ x.script = TRUE /\ x.refs = 0
      /\ c # None
  BY BinderAssumption DEF Instance, NoInst, InstType
<1> HIDE DEF x
<1>3. /\ new \in [Inst -> InstType] /\ new[i] = x
      /\ \A j \in Inst : j # i => new[j] = in[j]
  BY <1>1, <1>2
<1>4. in[i] = NoInst /\ NoInst.up = 0 /\ NoInst.hook = FALSE /\ NoInst.refs = 0
  BY DEF Sound, Bare, NoInst
<1> HIDE DEF new
<1>5. ASSUME NEW j \in Inst, j # i, in[j].up # 0 PROVE mat[in[j].up] = nat[in[j].up]
  <2>1. in[j].up \in Native
    BY <1>1, <1>5 DEF InstType, Native
  <2>2. CASE u = 0
    BY <2>2
  <2>3. CASE u # 0
    BY <1>5, <2>1, <2>3
  <2> QED BY <2>2, <2>3
<1>6. Bare(new, mat)
  <2>1. \A j \in Inst : new[j].cls = None => new[j] = NoInst
    BY <1>2, <1>3 DEF Sound, Bare
  <2>2. ASSUME NEW n \in Native
        PROVE  /\ mat[n].life = "live" => mat[n].cls # None
               /\ mat[n].host => mat[n].life = "live"
    <3>1. CASE u = 0 \/ n # u
      <4>1. mat[n] = nat[n]
        BY <3>1 DEF Native
      <4> QED BY <4>1 DEF Sound, Bare
    <3>2. CASE u # 0 /\ n = u
      BY <3>2
    <3> QED BY <3>1, <3>2
  <2> QED BY <2>1, <2>2 DEF Bare
<1>7. Refers(new, mat)
  <2> SUFFICES ASSUME NEW j \in Inst
               PROVE  IF new[j].up = 0 THEN ~ new[j].hook
                      ELSE mat[new[j].up].life = "live" /\ new[j].hook = ~ mat[new[j].up].host
    BY DEF Refers
  <2>1. CASE j = i
    BY <1>2, <1>3, <2>1
  <2>2. CASE j # i
    BY <1>3, <1>5, <2>2 DEF Sound, Refers
  <2> QED BY <2>1, <2>2
<1>8. OneOwner(new, mat)
  <2>1. ASSUME NEW n \in Native, mat[n].life = "live", ~ mat[n].host
        PROVE  \E j \in Inst : new[j].up = n
    <3>1. CASE u # 0 /\ n = u
      BY <1>2, <1>3, <3>1
    <3>2. CASE u = 0 \/ n # u
      <4>1. mat[n] = nat[n]
        BY <3>2 DEF Native
      <4>2. PICK j \in Inst : in[j].up = n
        BY <2>1, <4>1 DEF Sound, OneOwner
      <4>3. j # i
        BY <1>4, <4>2 DEF Native
      <4> QED BY <1>3, <4>2, <4>3
    <3> QED BY <3>1, <3>2
  <2>2. ASSUME NEW j \in Inst, NEW k \in Inst, new[j].hook, new[k].hook, new[j].up = new[k].up
        PROVE  j = k
    <3>1. CASE j # i /\ k # i
      BY <1>3, <2>2, <3>1 DEF Sound, OneOwner
    <3>2. CASE h
      <4>1. u # 0 /\ \A l \in Inst : in[l].up # u
        BY <3>2
      <4> QED BY <1>2, <1>3, <2>2, <3>1, <4>1
    <3>3. CASE ~ h
      BY <1>2, <1>3, <2>2, <3>1, <3>3
    <3> QED BY <3>2, <3>3
  <2> QED BY <2>1, <2>2 DEF OneOwner
<1>9. Agrees(new, mat)
  <2> SUFFICES ASSUME NEW j \in Inst, new[j].up # 0, NEW d \in Real, IsA(new[j].cls, d)
               PROVE  IsA(mat[new[j].up].cls, d)
    BY DEF Agrees
  <2>1. CASE j = i
    BY <1>2, <1>3, <2>1
  <2>2. CASE j # i
    BY <1>3, <1>5, <2>2 DEF Sound, Agrees
  <2> QED BY <2>1, <2>2
<1>10. Lost(new) = {}
  <2> SUFFICES ASSUME NEW j \in Lost(new) PROVE FALSE
    OBVIOUS
  <2>1. j \in Inst /\ j # i
    BY <1>2, <1>3 DEF Lost
  <2>2. j \in Lost(in)
    BY <1>3, <2>1 DEF Lost
  <2> QED BY <2>2
<1>11. ASSUME NEW wr, Counted(in, wr) PROVE Counted(new, wr)
  <2>1. \A j \in Inst : new[j].refs = in[j].refs
    BY <1>2, <1>3, <1>4
  <2> QED BY <1>11, <2>1 DEF Counted
<1> QED BY <1>3, <1>6, <1>7, <1>8, <1>9, <1>10, <1>11 DEF Sound, Typed, new, x

\* What an instance has but its class and object does not matter.
LEMMA Unmoved ==
  ASSUME NEW in, NEW nat, Sound(in, nat), NEW new, new \in [Inst -> InstType],
         \A i \in Inst : /\ new[i].cls = in[i].cls /\ new[i].up = in[i].up
                         /\ new[i].hook = in[i].hook
                         /\ in[i].cls = None => new[i] = in[i]
  PROVE  Sound(new, nat)
<1>1. Typed(new, nat) /\ Bare(new, nat)
  BY DEF Sound, Typed, Bare
<1>2. Refers(new, nat) /\ OneOwner(new, nat) /\ Agrees(new, nat)
  <2>1. Refers(new, nat)
    BY DEF Sound, Refers
  <2>2. OneOwner(new, nat)
    BY DEF Sound, OneOwner
  <2>3. Agrees(new, nat)
    BY DEF Sound, Agrees
  <2> QED BY <2>1, <2>2, <2>3
<1> QED BY <1>1, <1>2 DEF Sound

\* The host makes and deletes objects that nobody refers to.
LEMMA HostsOwn ==
  ASSUME NEW in, NEW nat, Sound(in, nat), NEW n \in Native, \A i \in Inst : in[i].up # n,
         NEW o \in NativeType, o.life = "live" => o.cls # None /\ o.host, o.host => o.life = "live"
  PROVE  Sound(in, [nat EXCEPT ![n] = o])
<1> DEFINE mat == [nat EXCEPT ![n] = o]
<1>1. /\ mat \in [Native -> NativeType] /\ mat[n] = o
      /\ \A m \in Native : m # n => mat[m] = nat[m]
  BY DEF Sound, Typed
<1> HIDE DEF mat
<1>2. ASSUME NEW i \in Inst, in[i].up # 0 PROVE mat[in[i].up] = nat[in[i].up]
  BY <1>1, <1>2 DEF Sound, Typed, InstType, Native
<1>3. Bare(in, mat)
  BY <1>1 DEF Sound, Bare
<1>4. Refers(in, mat)
  BY <1>2 DEF Sound, Refers
<1>5. OneOwner(in, mat)
  BY <1>1 DEF Sound, OneOwner
<1>6. Agrees(in, mat)
  BY <1>2 DEF Sound, Agrees
<1> QED BY <1>1, <1>3, <1>4, <1>5, <1>6 DEF Sound, Typed, mat

-----------------------------------------------------------------------------
(* What a step does to instances and objects.                              *)

\* An object that is there stays there.
Stays == \A n \in Native : native[n].life = "live" =>
            native'[n].life = "live" /\ native'[n].cls = native[n].cls

\* An instance i of class c, which refers to u and owns it if h, may be added beside mat.
MayAdd(i, c, u, h, mat) ==
    /\ inst[i].cls = None /\ c \in Class /\ u \in 0 .. MaxNative /\ h \in BOOLEAN
    /\ mat \in [Native -> NativeType]
    /\ u = 0 => ~ h /\ mat = native
    /\ u # 0 => /\ mat[u].life = "live" /\ mat[u].cls # None /\ h = ~ mat[u].host
                /\ \A n \in Native : n # u => mat[n] = native[n]
                /\ \A d \in Real : IsA(c, d) => IsA(mat[u].cls, d)
                /\ IF h THEN \A j \in Inst : inst[j].up # u ELSE mat[u] = native[u]

LEMMA SettledKept ==
  ASSUME NEW in, NEW nat, Sound(in, nat), Settle(in, nat), Counted(in, wrap')
  PROVE  Kept'
<1>1. Sound(inst', native') /\ Lost(inst') = {} /\ Counted(inst', wrap')
  BY SettleSound, SettleCounted
<1>2. Lost(inst)' = {}
  BY <1>1 DEF Lost
<1>3. Sound(inst, native)' /\ Counted(inst, wrap)'
  BY <1>1 DEF Sound, Typed, Bare, Refers, OneOwner, Agrees, Counted, ObjRefs, EnvRefs
<1> QED BY <1>2, <1>3 DEF Kept

\* The objects that are there are in mat, too.
StayIn(mat) == \A n \in Native : native[n].life = "live" =>
                  mat[n].life = "live" /\ mat[n].cls = native[n].cls

\* Then nothing is lost by it.
LEMMA AddedSettles ==
  ASSUME Kept, NEW i \in Inst, NEW c, NEW u, NEW h, NEW mat,
         MayAdd(i, c, u, h, mat), StayIn(mat),
         Settle([inst EXCEPT ![i] = Instance(c, u, h)], mat),
         UNCHANGED wrap
  PROVE  Kept' /\ Stays
<1> DEFINE new == [inst EXCEPT ![i] = Instance(c, u, h)]
<1>1. Sound(new, mat) /\ Lost(new) = {} /\ Counted(new, wrap)
  BY Added DEF Kept, MayAdd
<1> HIDE DEF new
<1>2. Settle(new, mat)
  BY DEF new
<1>3. Kept'
  BY <1>1, <1>2, SettledKept
<1>4. \A n \in Native : native'[n] = mat[n]
  BY <1>1, <1>2, SettleNone
<1> QED BY <1>3, <1>4 DEF Stays, StayIn

LEMMA FreshIs == ASSUME NEW i \in Inst, Fresh(i) PROVE inst[i].cls = None
BY DEF Fresh

\* A new object for the new instance.
MadeAt(n, k, mat) ==
    /\ mat \in [Native -> NativeType]
    /\ mat[n].life = "live" /\ mat[n].cls = k /\ ~ mat[n].host
    /\ \A m \in Native : m # n => mat[m] = native[m]

LEMMA MadeIs ==
  ASSUME Kept, NEW n \in Native, NEW k \in Real
  PROVE  MadeAt(n, k, [native EXCEPT ![n] = Made(k, FALSE)])
<1>1. native \in [Native -> NativeType]
  BY DEF Kept, Sound, Typed
<1>2. Made(k, FALSE) \in NativeType
  BY DEF Made, NativeType
<1> QED BY <1>1, <1>2 DEF MadeAt, Made

LEMMA MadeAdds ==
  ASSUME Kept, NEW i \in Inst, inst[i].cls = None, NEW c \in Class,
         NEW n \in Native, native[n].life = "none",
         NEW k \in Real, \A d \in Real : IsA(c, d) => IsA(k, d),
         NEW h \in BOOLEAN, h,
         NEW mat, MadeAt(n, k, mat)
  PROVE  MayAdd(i, c, n, h, mat) /\ StayIn(mat)
<1>1. k # None
  BY BinderAssumption DEF Real
<1>2. n \in 0 .. MaxNative /\ n # 0
  BY BinderAssumption DEF Native
<1>3. \A j \in Inst : inst[j].up # n
  BY Unreferred DEF Kept
<1>4. MayAdd(i, c, n, h, mat)
  BY <1>1, <1>2, <1>3 DEF MayAdd, MadeAt
<1>5. StayIn(mat)
  BY DEF StayIn, MadeAt
<1> QED BY <1>4, <1>5

\* An instance without an object.
LEMMA EmptySettles ==
  ASSUME Kept, NEW i \in Inst, inst[i].cls = None, NEW c \in Class,
         Settle([inst EXCEPT ![i] = Instance(c, 0, FALSE)], native), UNCHANGED wrap
  PROVE  Kept' /\ Stays
<1>1. native \in [Native -> NativeType]
  BY DEF Kept, Sound, Typed
<1>2. 0 \in 0 .. MaxNative
  BY BinderAssumption
<1>3. MayAdd(i, c, 0, FALSE, native)
  BY <1>1, <1>2 DEF MayAdd
<1>4. StayIn(native)
  BY DEF StayIn
<1> QED BY <1>3, <1>4, AddedSettles

\* One of the host's objects is lent, or handed over.
LEMMA GivenSettles ==
  ASSUME Kept, NEW i \in Inst, inst[i].cls = None, NEW c \in Real,
         NEW n \in Native, native[n].life = "live", native[n].host, IsA(native[n].cls, c),
         NEW h \in BOOLEAN, h => Unlent(n),
         Settle([inst EXCEPT ![i] = Instance(c, n, h)],
                IF h THEN [native EXCEPT ![n].host = FALSE] ELSE native),
         UNCHANGED wrap
  PROVE  Kept' /\ Stays
<1> DEFINE mat == IF h THEN [native EXCEPT ![n].host = FALSE] ELSE native
<1>1. native \in [Native -> NativeType] /\ native[n] \in NativeType
  BY DEF Kept, Sound, Typed
<1>2. /\ mat \in [Native -> NativeType]
      /\ mat[n].life = "live" /\ mat[n].cls = native[n].cls /\ h = ~ mat[n].host
      /\ \A m \in Native : m # n => mat[m] = native[m]
      /\ ~ h => mat[n] = native[n]
  <2>1. CASE h
    BY <1>1, <2>1 DEF NativeType
  <2>2. CASE ~ h
    BY <1>1, <2>2
  <2> QED BY <2>1, <2>2
<1>3. native[n].cls # None
  BY DEF Kept, Sound, Bare
<1>4. n \in 0 .. MaxNative /\ n # 0
  BY BinderAssumption DEF Native
<1>5. h => \A j \in Inst : inst[j].up # n
  BY DEF Unlent
<1>6. c \in Class /\ native[n].cls \in Class
  BY <1>1, <1>3 DEF Real, NativeType
<1>7. \A d \in Real : IsA(c, d) => IsA(mat[n].cls, d)
  BY <1>2, <1>6, IsATransitive
<1> HIDE DEF mat
<1>8. Settle([inst EXCEPT ![i] = Instance(c, n, h)], mat)
  BY DEF mat
<1>9. MayAdd(i, c, n, h, mat)
  BY <1>2, <1>3, <1>4, <1>5, <1>6, <1>7 DEF MayAdd
<1>10. StayIn(mat)
  BY <1>2 DEF StayIn
<1> QED BY <1>8, <1>9, <1>10, AddedSettles

LEMMA SameKept == ASSUME Kept, UNCHANGED <<inst, native, wrap>> PROVE Kept' /\ Stays
<1>1. Stays
  BY DEF Stays
<1>2. Lost(inst)' = {}
  BY DEF Kept, Lost
<1>3. Sound(inst, native)' /\ Counted(inst, wrap)'
  BY DEF Kept, Sound, Typed, Bare, Refers, OneOwner, Agrees, Counted, ObjRefs, EnvRefs
<1> QED BY <1>1, <1>2, <1>3 DEF Kept

LEMMA SameInstances ==
  ASSUME Kept, UNCHANGED <<inst, wrap>>, NEW mat, Sound(inst, mat), native' = mat
  PROVE  Kept'
<1>1. Lost(inst)' = {}
  BY DEF Kept, Lost
<1>2. Sound(inst, native)' /\ Counted(inst, wrap)'
  BY DEF Kept, Sound, Typed, Bare, Refers, OneOwner, Agrees, Counted, ObjRefs, EnvRefs
<1> QED BY <1>1, <1>2 DEF Kept

LEMMA NewKeeps == ASSUME Kept, New PROVE Kept'
<1>1. PICK c \in Class, i \in Inst :
         /\ Fresh(i)
         /\ \/ \E n \in Native :
                  FreshNative(n) /\ Settle([inst EXCEPT ![i] = Instance(c, n, TRUE)],
                                           [native EXCEPT ![n] = Made(BoundClass(c), FALSE)])
            \/ Settle([inst EXCEPT ![i] = Instance(c, 0, FALSE)], native)
            \/ UNCHANGED <<inst, native>>
  BY DEF New
<1>2. UNCHANGED wrap
  BY DEF New
<1>3. inst[i].cls = None
  BY <1>1, FreshIs
<1>4. BoundClass(c) \in Real /\ \A d \in Real : IsA(c, d) => IsA(BoundClass(c), d)
  BY BoundNearest
<1>5. ASSUME NEW n \in Native, FreshNative(n),
             Settle([inst EXCEPT ![i] = Instance(c, n, TRUE)],
                    [native EXCEPT ![n] = Made(BoundClass(c), FALSE)])
      PROVE  Kept'
  <2>1. native[n].life = "none"
    BY <1>5 DEF FreshNative
  <2> DEFINE mat == [native EXCEPT ![n] = Made(BoundClass(c), FALSE)]
  <2>2. MadeAt(n, BoundClass(c), mat)
    BY <1>4, MadeIs
  <2> HIDE DEF mat
  <2>3. PICK h \in BOOLEAN : h = TRUE
    OBVIOUS
  <2>4. Settle([inst EXCEPT ![i] = Instance(c, n, h)], mat)
    BY <1>5, <2>3 DEF mat
  <2>5. MayAdd(i, c, n, h, mat) /\ StayIn(mat)
    BY <1>3, <1>4, <2>1, <2>2, <2>3, MadeAdds
  <2> QED BY <1>2, <2>4, <2>5, AddedSettles
<1>6. CASE Settle([inst EXCEPT ![i] = Instance(c, 0, FALSE)], native)
  BY <1>2, <1>3, <1>6, EmptySettles
<1>7. CASE UNCHANGED <<inst, native>>
  BY <1>2, <1>7, SameKept
<1> QED BY <1>1, <1>5, <1>6, <1>7

\* A clone is an instance without an object.
LEMMA CloneKeeps == ASSUME Kept, Clone PROVE Kept'
<1>1. PICK i \in InScript, j \in Inst : Fresh(j) /\ Cloned(i, j)
  BY DEF Clone
<1>2. UNCHANGED <<native, wrap>>
  BY DEF Clone
<1> DEFINE c == inst[i].cls
           new == [inst EXCEPT ![j] = Instance(c, 0, FALSE)]
<1>3. inst[j].cls = None
  BY <1>1, FreshIs
<1>4. c \in Class /\ native \in [Native -> NativeType]
  BY DEF Kept, Sound, Typed, InScript, Held, InstType
<1>5. 0 \in 0 .. MaxNative
  BY BinderAssumption
<1> HIDE DEF c
<1>6. Sound(new, native) /\ Lost(new) = {} /\ Counted(new, wrap)
  BY <1>3, <1>4, <1>5, Added DEF Kept
<1>7. inst' = new
  BY <1>1 DEF Cloned, c
<1> HIDE DEF new
<1>8. Lost(inst)' = {}
  BY <1>6, <1>7 DEF Lost
<1>9. Sound(inst, native)' /\ Counted(inst, wrap)'
  BY <1>2, <1>6, <1>7 DEF Sound, Typed, Bare, Refers, OneOwner, Agrees, Counted, ObjRefs, EnvRefs
<1> QED BY <1>8, <1>9 DEF Kept

\* The result of a function.
LEMMA PushKeeps ==
  ASSUME Kept, NEW f \in Bound, PushVar(f), UNCHANGED wrap
  PROVE  Kept' /\ Stays
<1>1. CASE f.gives \in {"nothing", "plain"}
  BY <1>1, SameKept DEF PushVar
<1>2. CASE f.gives \notin {"nothing", "plain"}
  <2>1. f.gives \in {"copy", "pointer", "const"} /\ f.of \in Real
    BY <1>2, BinderAssumption DEF Real
  <2>2. PICK n \in Native, i \in Inst :
           /\ native[n].life = "live" /\ native[n].host /\ IsA(native[n].cls, f.of)
           /\ Fresh(i)
           /\ f.gives = "pointer" => Unlent(n)
           /\ CASE f.gives = "copy" -> PushInstanceCopy(f.of, n, i, native)
                [] f.gives = "pointer" -> PushInstanceInit(f.of, n, i, native)
                [] f.gives = "const" -> PushInstance(f.of, n, i, native)
    BY <1>2 DEF PushVar
  <2> DEFINE c == f.of
  <2>3. inst[i].cls = None
    BY <2>2, FreshIs
  <2>4. c \in Class /\ native[n].cls \in Real
    <3>1. native[n] \in NativeType /\ native[n].cls # None
      BY <2>2 DEF Kept, Sound, Typed, Bare
    <3> QED BY <2>1, <3>1 DEF Real, NativeType
  <2>5. \A d \in Real : IsA(c, d) => IsA(native[n].cls, d)
    BY <2>2, <2>4, IsATransitive DEF Real
  <2>9. c \in Real /\ \A d \in Real : IsA(c, d) => IsA(c, d)
    BY <2>1
  <2> HIDE DEF c
  <2>6. CASE f.gives = "copy"
    <3>1. PushInstanceCopy(c, n, i, native)
      BY <2>2, <2>6 DEF c
    <3>2. CASE Settle([inst EXCEPT ![i] = Instance(c, 0, FALSE)], native)
      BY <2>3, <2>4, <3>2, EmptySettles
    <3>3. ASSUME NEW m \in Native, FreshNative(m),
                 Settle([inst EXCEPT ![i] = Instance(c, m, TRUE)],
                        [native EXCEPT ![m] = Made(c, FALSE)])
          PROVE  Kept' /\ Stays
      <4>1. native[m].life = "none"
        BY <3>3 DEF FreshNative
      <4> DEFINE mat == [native EXCEPT ![m] = Made(c, FALSE)]
      <4>2. MadeAt(m, c, mat)
        BY <2>9, MadeIs
      <4> HIDE DEF mat
      <4>3. PICK h \in BOOLEAN : h = TRUE
        OBVIOUS
      <4>4. Settle([inst EXCEPT ![i] = Instance(c, m, h)], mat)
        BY <3>3, <4>3 DEF mat
      <4>5. MayAdd(i, c, m, h, mat) /\ StayIn(mat)
        BY <2>3, <2>4, <2>9, <4>1, <4>2, <4>3, MadeAdds
      <4> QED BY <4>4, <4>5, AddedSettles
    <3> QED BY <3>1, <3>2, <3>3 DEF PushInstanceCopy
  <2>7. CASE f.gives = "pointer"
    <3>1. PushInstanceInit(c, n, i, native) /\ Unlent(n)
      BY <2>2, <2>7 DEF c
    <3>2. CASE Settle([inst EXCEPT ![i] = Instance(c, 0, FALSE)], native)
      BY <2>3, <2>4, <3>2, EmptySettles
    <3>3. CASE Settle([inst EXCEPT ![i] = Instance(c, n, TRUE)], [native EXCEPT ![n].host = FALSE])
      BY <2>1, <2>2, <2>3, <3>1, <3>3, GivenSettles DEF c
    <3> QED BY <3>1, <3>2, <3>3 DEF PushInstanceInit
  <2>8. CASE f.gives = "const"
    <3>1. Settle([inst EXCEPT ![i] = Instance(c, n, FALSE)], native)
      BY <2>2, <2>8 DEF c, PushInstance
    <3> QED BY <2>1, <2>2, <2>3, <3>1, GivenSettles DEF c
  <2> QED BY <2>1, <2>6, <2>7, <2>8
<1> QED BY <1>1, <1>2

\* A script lets go of an instance.
LEMMA ForgetKeeps == ASSUME Kept, Forget PROVE Kept'
<1>1. PICK i \in InScript : Settle([inst EXCEPT ![i].script = FALSE], native)
  BY DEF Forget
<1> DEFINE new == [inst EXCEPT ![i].script = FALSE]
<1>2. inst \in [Inst -> InstType] /\ i \in Inst /\ inst[i].cls # None
  BY DEF Kept, Sound, Typed, InScript, Held
<1>3. /\ new \in [Inst -> InstType]
      /\ \A j \in Inst : /\ new[j].cls = inst[j].cls /\ new[j].up = inst[j].up
                         /\ new[j].hook = inst[j].hook /\ new[j].refs = inst[j].refs
                         /\ inst[j].cls = None => new[j] = inst[j]
  BY <1>2 DEF InstType
<1> HIDE DEF new
<1>4. Sound(new, native)
  BY <1>3, Unmoved DEF Kept
<1>5. Counted(new, wrap)
  BY <1>3 DEF Kept, Counted
<1>6. Settle(new, native)
  BY <1>1 DEF new
<1>7. wrap' = wrap
  BY DEF Forget
<1> QED BY <1>4, <1>5, <1>6, <1>7, SettledKept

-----------------------------------------------------------------------------
(* Wrappers.                                                               *)

Bit(b) == IF b THEN 1 ELSE 0

\* One member more or less of a finite set.
LEMMA CountBut ==
  ASSUME NEW S, IsFiniteSet(S), NEW w
  PROVE  /\ Cardinality(S) \in Nat /\ Cardinality(S \ {w}) \in Nat
         /\ Cardinality(S) = Cardinality(S \ {w}) + Bit(w \in S)
<1>1. Cardinality(S) \in Nat
  BY FS_CardinalityType
<1>2. CASE w \in S
  <2>1. IsFiniteSet(S \ {w}) /\ Cardinality(S \ {w}) = Cardinality(S) - 1
    BY <1>2, FS_RemoveElement
  <2>2. Cardinality(S \ {w}) \in Nat
    BY <2>1, FS_CardinalityType
  <2> QED BY <1>1, <1>2, <2>1, <2>2 DEF Bit
<1>3. CASE w \notin S
  <2>1. S \ {w} = S
    BY <1>3
  <2> QED BY <1>1, <1>3, <2>1 DEF Bit
<1> QED BY <1>2, <1>3

LEMMA RefsFinite ==
  ASSUME NEW wr, NEW i
  PROVE  IsFiniteSet(ObjRefs(wr, i)) /\ IsFiniteSet(EnvRefs(wr, i))
<1>1. IsFiniteSet(Wrap)
  BY FS_Interval, BinderAssumption DEF Wrap
<1>2. ObjRefs(wr, i) \subseteq Wrap /\ EnvRefs(wr, i) \subseteq Wrap
  BY DEF ObjRefs, EnvRefs
<1> QED BY <1>1, <1>2, FS_Subset

\* Assigning to a wrapper: who referred to an instance, and who does now.
LEMMA Rewrapped ==
  ASSUME NEW wr, NEW w \in Wrap, NEW h, NEW i,
         NEW now, now[w] = h, \A x \in Wrap : x # w => now[x] = wr[x]
  PROVE  /\ Cardinality(ObjRefs(wr, i)) \in Nat /\ Cardinality(EnvRefs(wr, i)) \in Nat
         /\ Cardinality(ObjRefs(now, i)) \in Nat /\ Cardinality(EnvRefs(now, i)) \in Nat
         /\ Cardinality(ObjRefs(wr, i)) + Bit(h.obj = i)
              = Cardinality(ObjRefs(now, i)) + Bit(wr[w].obj = i)
         /\ Cardinality(EnvRefs(wr, i)) + Bit(h.env = i)
              = Cardinality(EnvRefs(now, i)) + Bit(wr[w].env = i)
<1>1. now[w] = h /\ \A x \in Wrap : x # w => now[x] = wr[x]
  OBVIOUS
<1>2. ObjRefs(wr, i) \ {w} = ObjRefs(now, i) \ {w}
  BY <1>1 DEF ObjRefs
<1>3. EnvRefs(wr, i) \ {w} = EnvRefs(now, i) \ {w}
  BY <1>1 DEF EnvRefs
<1>4. /\ Bit(w \in ObjRefs(wr, i)) = Bit(wr[w].obj = i) /\ Bit(w \in ObjRefs(now, i)) = Bit(h.obj = i)
      /\ Bit(w \in EnvRefs(wr, i)) = Bit(wr[w].env = i) /\ Bit(w \in EnvRefs(now, i)) = Bit(h.env = i)
  <2>1. /\ w \in ObjRefs(wr, i) <=> wr[w].obj = i
        /\ w \in ObjRefs(now, i) <=> h.obj = i
        /\ w \in EnvRefs(wr, i) <=> wr[w].env = i
        /\ w \in EnvRefs(now, i) <=> h.env = i
    BY <1>1 DEF ObjRefs, EnvRefs
  <2> QED BY <2>1 DEF Bit
<1>5. \A b \in BOOLEAN : Bit(b) \in Nat
  BY DEF Bit
<1>6. /\ Cardinality(ObjRefs(wr, i)) \in Nat /\ Cardinality(ObjRefs(wr, i) \ {w}) \in Nat
      /\ Cardinality(ObjRefs(wr, i)) = Cardinality(ObjRefs(wr, i) \ {w}) + Bit(wr[w].obj = i)
  BY <1>4, CountBut, RefsFinite
<1>7. /\ Cardinality(ObjRefs(now, i)) \in Nat
      /\ Cardinality(ObjRefs(now, i)) = Cardinality(ObjRefs(wr, i) \ {w}) + Bit(h.obj = i)
  <2>1. IsFiniteSet(ObjRefs(now, i))
    BY RefsFinite
  <2>2. /\ Cardinality(ObjRefs(now, i)) \in Nat
        /\ Cardinality(ObjRefs(now, i))
             = Cardinality(ObjRefs(now, i) \ {w}) + Bit(w \in ObjRefs(now, i))
    BY <2>1, CountBut
  <2>3. Cardinality(ObjRefs(wr, i) \ {w}) = Cardinality(ObjRefs(now, i) \ {w})
    BY <1>2
  <2> QED BY <1>4, <2>2, <2>3
<1>8. /\ Cardinality(EnvRefs(wr, i)) \in Nat /\ Cardinality(EnvRefs(wr, i) \ {w}) \in Nat
      /\ Cardinality(EnvRefs(wr, i)) = Cardinality(EnvRefs(wr, i) \ {w}) + Bit(wr[w].env = i)
  BY <1>4, CountBut, RefsFinite
<1>9. /\ Cardinality(EnvRefs(now, i)) \in Nat
      /\ Cardinality(EnvRefs(now, i)) = Cardinality(EnvRefs(wr, i) \ {w}) + Bit(h.env = i)
  <2>1. IsFiniteSet(EnvRefs(now, i))
    BY RefsFinite
  <2>2. /\ Cardinality(EnvRefs(now, i)) \in Nat
        /\ Cardinality(EnvRefs(now, i))
             = Cardinality(EnvRefs(now, i) \ {w}) + Bit(w \in EnvRefs(now, i))
    BY <2>1, CountBut
  <2>3. Cardinality(EnvRefs(wr, i) \ {w}) = Cardinality(EnvRefs(now, i) \ {w})
    BY <1>3
  <2> QED BY <1>4, <2>2, <2>3
<1>10. Bit(wr[w].obj = i) \in Nat /\ Bit(h.obj = i) \in Nat
       /\ Bit(wr[w].env = i) \in Nat /\ Bit(h.env = i) \in Nat
  BY DEF Bit
<1> QED BY <1>6, <1>7, <1>8, <1>9, <1>10

\* While references are counted, there may be fewer than there are wrappers.
LooseType == [cls : Class \cup {None}, up : 0 .. MaxNative, hook : BOOLEAN, script : BOOLEAN, refs : Int]

\* Two sets of instances that differ only in what is counted.
Alike(in, new, i, d) ==
    /\ new \in [Inst -> LooseType]
    /\ \A j \in Inst : /\ new[j].cls = in[j].cls /\ new[j].up = in[j].up
                       /\ new[j].hook = in[j].hook /\ new[j].script = in[j].script
                       /\ IF i = j THEN new[j].refs = in[j].refs + d ELSE new[j] = in[j]

LEMMA OneRef ==
  ASSUME NEW in \in [Inst -> LooseType], NEW i \in 0 .. MaxInst
  PROVE  Alike(in, AddRef(in, i), i, 1) /\ Alike(in, Unref(in, i), i, -1)
<1>1. CASE i = 0
  BY <1>1 DEF Alike, AddRef, Unref, Inst
<1>2. CASE i # 0
  <2> DEFINE more == [in EXCEPT ![i].refs = @ + 1]
             less == [in EXCEPT ![i].refs = @ - 1]
  <2>1. i \in Inst
    BY <1>2, BinderAssumption DEF Inst
  <2>2. Alike(in, more, i, 1)
    BY <2>1 DEF Alike, LooseType
  <2>3. Alike(in, less, i, -1)
    BY <2>1 DEF Alike, LooseType
  <2> QED BY <1>2, <2>2, <2>3 DEF AddRef, Unref
<1> QED BY <1>1, <1>2

\* Who is referred to is there.
LEMMA ReferredIs ==
  ASSUME NEW in, NEW nat, Sound(in, nat), NEW wr, Counted(in, wr),
         NEW w \in Wrap, NEW i \in Inst, wr[w].obj = i \/ wr[w].env = i
  PROVE  in[i].cls # None
<1>1. /\ Cardinality(ObjRefs(wr, i)) \in Nat /\ Cardinality(EnvRefs(wr, i)) \in Nat
      /\ Cardinality(ObjRefs(wr, i)) = Cardinality(ObjRefs(wr, i) \ {w}) + Bit(w \in ObjRefs(wr, i))
      /\ Cardinality(EnvRefs(wr, i)) = Cardinality(EnvRefs(wr, i) \ {w}) + Bit(w \in EnvRefs(wr, i))
      /\ Cardinality(ObjRefs(wr, i) \ {w}) \in Nat /\ Cardinality(EnvRefs(wr, i) \ {w}) \in Nat
  BY CountBut, RefsFinite
<1>2. w \in ObjRefs(wr, i) \/ w \in EnvRefs(wr, i)
  BY DEF ObjRefs, EnvRefs
<1>3. in[i].refs # 0
  BY <1>1, <1>2 DEF Bit, Counted
<1> QED BY <1>3 DEF Sound, Bare, NoInst

\* A wrapper w gets h: what it had is released, what it has is counted.
LEMMA RewrapSound ==
  ASSUME NEW in, NEW nat, Sound(in, nat), NEW wr, Counted(in, wr),
         NEW w \in Wrap, NEW h \in WrapType,
         h.obj # 0 => in[h.obj].cls # None, h.env # 0 => in[h.env].cls # None
  PROVE  LET new == AddRefs(Unrefs(in, wr[w]), h)
         IN  Sound(new, nat) /\ Counted(new, [wr EXCEPT ![w] = h])
<1> DEFINE g == wr[w]
           one == Unref(in, g.obj)
           two == Unref(one, g.env)
           tri == AddRef(two, h.obj)
           new == AddRef(tri, h.env)
<1>1. wr \in [Wrap -> WrapType] /\ in \in [Inst -> InstType]
  BY DEF Counted, Sound, Typed
<1>2. g \in WrapType
  BY <1>1
<1>3. in \in [Inst -> LooseType]
  <2>1. InstType \subseteq LooseType
    BY DEF InstType, LooseType
  <2> QED BY <1>1, <2>1
<1>4. /\ g.obj \in 0 .. MaxInst /\ g.env \in 0 .. MaxInst
      /\ h.obj \in 0 .. MaxInst /\ h.env \in 0 .. MaxInst
  BY <1>2 DEF WrapType
<1>5. \A i \in Inst : g.obj = i \/ g.env = i => in[i].cls # None
  BY ReferredIs
<1>6. \A i \in Inst : h.obj = i \/ h.env = i => in[i].cls # None
  BY DEF Inst
<1> HIDE DEF g
<1>7. Alike(in, one, g.obj, -1)
  BY <1>3, <1>4, OneRef
<1>8. one \in [Inst -> LooseType]
  BY <1>7 DEF Alike
<1> HIDE DEF one
<1>9. Alike(one, two, g.env, -1)
  BY <1>8, <1>4, OneRef
<1>10. two \in [Inst -> LooseType]
  BY <1>9 DEF Alike
<1> HIDE DEF two
<1>11. Alike(two, tri, h.obj, 1)
  BY <1>10, <1>4, OneRef
<1>12. tri \in [Inst -> LooseType]
  BY <1>11 DEF Alike
<1> HIDE DEF tri
<1>13. Alike(tri, new, h.env, 1)
  BY <1>12, <1>4, OneRef
<1> HIDE DEF new
<1>14. /\ new \in [Inst -> LooseType]
       /\ \A i \in Inst : /\ new[i].cls = in[i].cls /\ new[i].up = in[i].up
                          /\ new[i].hook = in[i].hook
                          /\ in[i].cls = None => new[i] = in[i]
  BY <1>5, <1>6, <1>7, <1>9, <1>11, <1>13 DEF Alike
<1>15. ASSUME NEW i \in Inst
       PROVE  new[i].refs + Bit(g.obj = i) + Bit(g.env = i)
                = in[i].refs + Bit(h.obj = i) + Bit(h.env = i)
  <2>1. in[i].refs \in Int /\ one[i].refs \in Int /\ two[i].refs \in Int
        /\ tri[i].refs \in Int /\ new[i].refs \in Int
    BY <1>3, <1>8, <1>10, <1>12, <1>14 DEF LooseType
  <2>2. one[i].refs + Bit(g.obj = i) = in[i].refs
    BY <1>7, <2>1 DEF Alike, Bit
  <2>3. two[i].refs + Bit(g.env = i) = one[i].refs
    BY <1>9, <2>1 DEF Alike, Bit
  <2>4. tri[i].refs = two[i].refs + Bit(h.obj = i)
    BY <1>11, <2>1 DEF Alike, Bit
  <2>5. new[i].refs = tri[i].refs + Bit(h.env = i)
    BY <1>13, <2>1 DEF Alike, Bit
  <2>6. Bit(g.obj = i) \in Nat /\ Bit(g.env = i) \in Nat /\ Bit(h.obj = i) \in Nat /\ Bit(h.env = i) \in Nat
    BY DEF Bit
  <2> QED BY <2>1, <2>2, <2>3, <2>4, <2>5, <2>6
<1> DEFINE now == [wr EXCEPT ![w] = h]
<1>19. now \in [Wrap -> WrapType] /\ now[w] = h /\ \A x \in Wrap : x # w => now[x] = wr[x]
  BY <1>1
<1> HIDE DEF now
<1>16. ASSUME NEW i \in Inst
       PROVE  /\ new[i].refs = Cardinality(ObjRefs(now, i)) + Cardinality(EnvRefs(now, i))
              /\ new[i].refs \in Nat
  <2> DEFINE a == Cardinality(ObjRefs(wr, i))
             b == Cardinality(EnvRefs(wr, i))
             c == Cardinality(ObjRefs(now, i))
             d == Cardinality(EnvRefs(now, i))
             p == Bit(g.obj = i)
             q == Bit(g.env = i)
             r == Bit(h.obj = i)
             s == Bit(h.env = i)
  <2>1. a \in Nat /\ b \in Nat /\ c \in Nat /\ d \in Nat /\ a + r = c + p /\ b + s = d + q
    BY <1>19, Rewrapped DEF g
  <2>2. in[i].refs = a + b
    BY DEF Counted
  <2>3. p \in Nat /\ q \in Nat /\ r \in Nat /\ s \in Nat
    BY DEF Bit
  <2>4. new[i].refs \in Int
    BY <1>14 DEF LooseType
  <2>5. new[i].refs + p + q = in[i].refs + r + s
    BY <1>15
  <2> HIDE DEF a, b, c, d, p, q, r, s
  <2>6. new[i].refs = c + d
    BY <2>1, <2>2, <2>3, <2>4, <2>5
  <2>7. c + d \in Nat
    BY <2>1
  <2> QED BY <2>6, <2>7 DEF c, d
<1>17. new \in [Inst -> InstType]
  <2>1. \A i \in Inst : new[i] \in LooseType /\ new[i].refs \in Nat
    BY <1>14, <1>16
  <2>2. \A i \in Inst : new[i] \in InstType
    BY <2>1 DEF LooseType, InstType
  <2> QED BY <1>14, <2>2
<1>18. Sound(new, nat)
  BY <1>14, <1>17, Unmoved
<1>20. Counted(new, now)
  BY <1>16, <1>19 DEF Counted
<1>21. new = AddRefs(Unrefs(in, wr[w]), h)
  BY DEF new, tri, two, one, g, AddRefs, Unrefs
<1> QED BY <1>18, <1>20, <1>21 DEF now

\* Assignment of h to a wrapper, whatever it had.
LEMMA RewrapKeeps ==
  ASSUME Kept, NEW w \in Wrap, NEW h \in WrapType,
         h.obj # 0 => inst[h.obj].cls # None, h.env # 0 => inst[h.env].cls # None,
         wrap' = [wrap EXCEPT ![w] = h],
         Settle(AddRefs(Unrefs(inst, wrap[w]), h), native)
  PROVE  Kept'
<1> DEFINE new == AddRefs(Unrefs(inst, wrap[w]), h)
           now == [wrap EXCEPT ![w] = h]
<1>1. Sound(new, native) /\ Counted(new, now)
  BY RewrapSound DEF Kept
<1>2. Settle(new, native) /\ wrap' = now
  OBVIOUS
<1> HIDE DEF new, now
<1> QED BY <1>1, <1>2, SettledKept

LEMMA NoWrapIs == NoWrap \in WrapType /\ NoWrap.obj = 0 /\ NoWrap.env = 0
BY BinderAssumption DEF NoWrap, WrapType

LEMMA HeldIs ==
  ASSUME Kept, NEW i \in InScript
  PROVE  i \in Inst /\ i # 0 /\ i \in 0 .. MaxInst /\ inst[i].cls # None /\ inst[i].cls \in Class
BY BinderAssumption DEF InScript, Held, Inst, Kept, Sound, Typed, InstType

LEMMA WrappedKeeps == ASSUME Kept, Wrapped PROVE Kept'
<1>1. PICK w \in Wrap, h \in {Object(i) : i \in InScript} \cup {Function(i) : i \in InScript} :
         /\ wrap[w] = NoWrap
         /\ wrap' = [wrap EXCEPT ![w] = h]
         /\ Settle(AddRefs(inst, h), native)
  BY DEF Wrapped
<1>2. PICK i \in InScript : h = Object(i) \/ h = Function(i)
  OBVIOUS
<1>3. /\ h \in WrapType
      /\ h.obj # 0 => inst[h.obj].cls # None
      /\ h.env # 0 => inst[h.env].cls # None
  BY <1>2, HeldIs, BinderAssumption DEF Object, Function, WrapType
<1>4. Unrefs(inst, wrap[w]) = inst
  BY <1>1, NoWrapIs DEF Unrefs, Unref
<1>5. Settle(AddRefs(Unrefs(inst, wrap[w]), h), native)
  BY <1>1, <1>4
<1> QED BY <1>1, <1>3, <1>5, RewrapKeeps

LEMMA CopyKeeps == ASSUME Kept, Copy PROVE Kept'
<1>1. PICK w \in Wrap, x \in Wrap :
         wrap' = [wrap EXCEPT ![w] = Assigned(w, x)] /\ Assign(w, x)
  BY DEF Copy
<1> DEFINE h == Assigned(w, x)
<1>2. h \in WrapType
  BY NoWrapIs DEF Kept, Counted, Assigned
<1>3. /\ h.obj # 0 => h.obj \in Inst
      /\ h.env # 0 => h.env \in Inst
  BY <1>2, BinderAssumption DEF WrapType, Inst
<1>4. /\ h.obj # 0 => inst[h.obj].cls # None
      /\ h.env # 0 => inst[h.env].cls # None
  <2>1. CASE h = NoWrap
    BY <2>1, NoWrapIs
  <2>2. CASE h = wrap[x]
    BY <1>3, <2>2, ReferredIs DEF Kept
  <2> QED BY <2>1, <2>2 DEF Assigned
<1>5. wrap' = [wrap EXCEPT ![w] = h] /\ Settle(AddRefs(Unrefs(inst, wrap[w]), h), native)
  BY <1>1 DEF Assign
<1> HIDE DEF h
<1> QED BY <1>2, <1>4, <1>5, RewrapKeeps

LEMMA DestroyKeeps == ASSUME Kept, Destroy PROVE Kept'
<1>1. PICK w \in Wrap :
         wrap' = [wrap EXCEPT ![w] = NoWrap] /\ Settle(Unrefs(inst, wrap[w]), native)
  BY DEF Destroy
<1>2. AddRefs(Unrefs(inst, wrap[w]), NoWrap) = Unrefs(inst, wrap[w])
  BY NoWrapIs DEF AddRefs, AddRef
<1>3. Settle(AddRefs(Unrefs(inst, wrap[w]), NoWrap), native)
  BY <1>1, <1>2
<1> QED BY <1>1, <1>3, NoWrapIs, RewrapKeeps

-----------------------------------------------------------------------------
(* Calls of bound functions.                                               *)

\* Arguments that are instances are the script's.
ProperValue(x) == x[1] = "inst" => x[2] \in Inst
Proper(args) == \A j \in DOMAIN args : ProperValue(args[j])

LEMMA ArgumentsProper ==
  ASSUME NEW args \in Arguments, NEW i \in InScript
  PROVE  Proper(args) /\ Proper(<<<<"inst", i>>>> \o args)
<1>1. \A x \in Argument : ProperValue(x)
  BY DEF Argument, Text, InScript, Held, ProperValue
<1>2. Text \in Argument /\ <<"inst", i>> \in Argument
  BY DEF Argument
<1>3. args \in Seq(Argument)
  <2>1. CASE args = << >>
    BY <2>1
  <2>2. CASE \E x \in Argument : args = <<x>>
    BY <2>2
  <2>3. CASE \E x \in Argument : args = <<x, Text>>
    BY <1>2, <2>3
  <2> QED BY <2>1, <2>2, <2>3 DEF Arguments
<1>4. <<<<"inst", i>>>> \in Seq(Argument)
  BY <1>2
<1>5. <<<<"inst", i>>>> \o args \in Seq(Argument)
  BY <1>3, <1>4
<1>6. ASSUME NEW s \in Seq(Argument) PROVE Proper(s)
  BY <1>1 DEF Proper
<1> QED BY <1>3, <1>5, <1>6

LEMMA ConvertOwn ==
  ASSUME Kept, NEW p, p.kind \in Given, p.cls \in Real,
         NEW x, ProperValue(x), Convert(p, x)[2] # 0
  PROVE  LET n == Convert(p, x)[2]
         IN  n \in Native /\ native[n].life = "live" /\ IsA(native[n].cls, p.cls)
<1>1. Convert(p, x) = GetInstance(x, p.cls)
  BY DEF Convert, Given
<1>2. /\ x[1] = "inst" /\ IsA(inst[x[2]].cls, p.cls)
      /\ Convert(p, x) = <<"object", inst[x[2]].up>>
  BY <1>1 DEF GetInstance, NoObject
<1> DEFINE j == x[2]
           n == inst[j].up
<1>3. j \in Inst /\ Convert(p, x)[2] = n /\ n # 0
  BY <1>2 DEF ProperValue
<1>4. n \in Native
  BY <1>3 DEF Kept, Sound, Typed, InstType, Native
<1>5. native[n].life = "live"
  BY <1>3 DEF Kept, Sound, Refers
<1>6. IsA(native[n].cls, p.cls)
  BY <1>2, <1>3 DEF Kept, Sound, Agrees
<1> QED BY <1>3, <1>4, <1>5, <1>6

LEMMA NoDomain == DOMAIN << >> = {}
OBVIOUS

\* A function that runs without an object, or on one of its class.
LEMMA RanOwn ==
  ASSUME Kept, NEW f \in Bound, NEW n, NEW args, Proper(args), NEW start,
         \/ f.form \in {"global", "member global"}
         \/ n \in Native /\ native[n].life = "live" /\ IsA(native[n].cls, f.cls)
  PROVE  /\ Own(Ran(f, n, args, start), native)
         /\ Own(Void(Ran(f, n, args, start)), native)
         /\ \A given : Own([Ran(f, n, args, start) EXCEPT !.params = << >>, !.got = given], native)
<1> DEFINE r == Ran(f, n, args, start)
           g == [k \in DOMAIN f.params |-> Convert(f.params[k], ArgAt(args, start + k - 2))]
<1>1. ASSUME NEW k \in DOMAIN f.params, f.params[k].kind \in Given, g[k][2] # 0
      PROVE  /\ g[k][2] \in Native
             /\ native[g[k][2]].life = "live" /\ IsA(native[g[k][2]].cls, f.params[k].cls)
  <2> DEFINE x == ArgAt(args, start + k - 2)
  <2>1. ProperValue(x)
    BY DEF ArgAt, Proper, ProperValue, UserData
  <2>2. f.params[k].cls \in Real
    BY <1>1, BinderAssumption DEF Real
  <2>3. g[k] = Convert(f.params[k], x)
    OBVIOUS
  <2> HIDE DEF x
  <2> QED BY <1>1, <2>1, <2>2, <2>3, ConvertOwn
<1> HIDE DEF g
<1>2. r = [cls |-> f.cls, form |-> f.form, params |-> f.params, on |-> n, gives |-> "value", got |-> g]
  BY DEF Ran, g
<1> HIDE DEF r
<1>3. Own(r, native)
  <2>1. r.cls = f.cls /\ r.form = f.form /\ r.params = f.params /\ r.on = n /\ r.got = g
    BY <1>2
  <2> QED BY <1>1, <2>1 DEF Own
<1>4. Own(Void(r), native)
  <2> DEFINE v == Void(r)
  <2>1. v.cls = f.cls /\ v.form = f.form /\ v.params = f.params /\ v.on = n /\ v.got = g
    BY <1>2 DEF Void
  <2> HIDE DEF v
  <2>2. Own(v, native)
    BY <1>1, <2>1 DEF Own
  <2> QED BY <2>2 DEF v
<1>5. ASSUME NEW given PROVE Own([r EXCEPT !.params = << >>, !.got = given], native)
  <2> DEFINE v == [r EXCEPT !.params = << >>, !.got = given]
  <2>1. v.cls = f.cls /\ v.form = f.form /\ v.params = << >> /\ v.on = n
    BY <1>2
  <2> HIDE DEF v
  <2>2. DOMAIN v.params = {}
    BY <2>1, NoDomain
  <2>3. Own(v, native)
    BY <2>1, <2>2 DEF Own
  <2> QED BY <2>3 DEF v
<1> QED BY <1>3, <1>4, <1>5 DEF r

LEMMA NothingOwn ==
  ASSUME NEW nat
  PROVE  Own(Quiet, nat) /\ Own(BadInstance, nat) /\ Own(NoFunction, nat) /\ Own(Void(BadInstance), nat)
BY DEF Own, Quiet, BadInstance, NoFunction, Void

LEMMA QuietOwn == ASSUME out' = Quiet PROVE Own(out, native)'
BY DEF Own, Quiet

\* However a function is called, by name from an instance of its class.
LEMMA CallerOwn ==
  ASSUME Kept, NEW i \in InScript, NEW f \in Bound, IsA(inst[i].cls, f.cls),
         NEW args \in Arguments
  PROVE  Own(Caller(f, i, args), native)
<1> DEFINE n == inst[i].up
           all == <<<<"inst", i>>>> \o args
<1>1. f.form \in Form /\ f.cls \in Real
  BY BinderAssumption DEF Real
<1>2. Proper(args) /\ Proper(all)
  BY ArgumentsProper
<1>3. ASSUME n # 0 PROVE n \in Native /\ native[n].life = "live" /\ IsA(native[n].cls, f.cls)
  <2>1. i \in Inst
    BY HeldIs
  <2>2. n \in Native
    BY <1>3, <2>1 DEF Kept, Sound, Typed, InstType, Native
  <2>3. native[n].life = "live"
    BY <1>3, <2>1 DEF Kept, Sound, Refers
  <2>4. IsA(native[n].cls, f.cls)
    BY <1>1, <1>3, <2>1 DEF Kept, Sound, Agrees
  <2> QED BY <2>2, <2>3, <2>4
<1> HIDE DEF all
\* The functions of objects.
<1>4. ASSUME n # 0
      PROVE  /\ Own(Ran(f, n, args, 2), native) /\ Own(Void(Ran(f, n, args, 2)), native)
             /\ Own([Ran(f, n, << >>, 2) EXCEPT !.params = << >>, !.got = args], native)
  <2>1. Own(Ran(f, n, args, 2), native) /\ Own(Void(Ran(f, n, args, 2)), native)
    BY <1>2, <1>3, <1>4, RanOwn
  <2>2. Proper(<< >>)
    BY DEF Proper
  <2>3. Own([Ran(f, n, << >>, 2) EXCEPT !.params = << >>, !.got = args], native)
    BY <1>3, <1>4, <2>2, RanOwn
  <2> QED BY <2>1, <2>3
<1> HIDE DEF n
<1>5. n = inst[i].up
  BY DEF n
<1>6. CASE f.form = "member"
  BY <1>4, <1>5, <1>6, NothingOwn DEF Caller, SqMemberFunc, SqMemberVoid, SqMember
<1>7. CASE f.form = "cast"
  BY <1>4, <1>5, <1>7, NothingOwn DEF Caller, SqCastMemberFunc, SqCastMemberVoid, SqCastMember
<1>8. CASE f.form = "bridge"
  BY <1>4, <1>5, <1>8, NothingOwn DEF Caller, SqBridgeFunc, SqBridgeVoid, SqBridge
<1>9. CASE f.form = "proxy"
  BY <1>4, <1>5, <1>9, NothingOwn DEF Caller, SqProxyFunc, SqProxyVoid, SqProxy
<1>10. CASE f.form = "varargs"
  BY <1>4, <1>5, <1>10, NothingOwn DEF Caller, SqVarArgMember
<1>11. CASE f.form = "template"
  BY <1>4, <1>5, <1>11, NothingOwn DEF Caller, SQTemplateCaller
\* Functions without an object.
<1>12. ASSUME f.form \in {"global", "member global"}, NEW start
       PROVE  Own(Ran(f, 0, all, start), native) /\ Own(Void(Ran(f, 0, all, start)), native)
  BY <1>2, <1>12, RanOwn
<1>13. CASE f.form = "member global"
  BY <1>12, <1>13 DEF Caller, SqMemberGlobalFunc, SqGlobalVoid, SqGlobal, all
<1>14. CASE f.form = "global"
  BY <1>12, <1>14 DEF Caller, SqGlobalFunc, SqGlobalVoid, SqGlobal, all
<1> QED BY <1>1, <1>6, <1>7, <1>8, <1>9, <1>10, <1>11, <1>13, <1>14 DEF Form

\* What a script finds is bound to a class of the instance's.
LEMMA FoundIs ==
  ASSUME NEW c, NEW name, NEW m, NEW f \in Found(c, name, m)
  PROVE  f \in Bound /\ IsA(c, f.cls)
<1> DEFINE named == {g \in Bound : g.name = name /\ IsA(c, g.cls)}
<1>1. f \in named
  BY DEF Found, Overload
<1> QED BY <1>1

\* The handler of overloaded functions gives what they give, or nothing of theirs.
LEMMA HandlerOwn ==
  ASSUME NEW f, NEW r, NEW nat, Own(r, nat)
  PROVE  Own(SqOverload(f, r), nat)
<1>1. \A v : Own([Quiet EXCEPT !.gives = v], nat)
  BY DEF Own, Quiet
<1> QED BY <1>1 DEF SqOverload

\* What an outcome refers to is there as long as objects stay.
LEMMA OwnStays == ASSUME NEW r, Own(r, native), Stays PROVE Own(r, native')
BY DEF Own, Stays

LEMMA CallKeeps == ASSUME Kept, Call PROVE Kept' /\ Own(out', native')
<1>1. PICK i \in InScript, g \in Bound, args \in Arguments :
         \/ Found(inst[i].cls, g.name, Len(args)) = {} /\ out' = NoFunction /\ UNCHANGED <<inst, native>>
         \/ \E f \in Found(inst[i].cls, g.name, Len(args)) :
               /\ out' = SqOverload(f, Caller(f, i, args))
               /\ IF out'.gives = "value" THEN PushVar(f) ELSE UNCHANGED <<inst, native>>
  BY DEF Call
<1>2. UNCHANGED wrap
  BY DEF Call
<1>3. CASE out' = NoFunction /\ UNCHANGED <<inst, native>>
  BY <1>2, <1>3, SameKept, NothingOwn
<1>4. ASSUME NEW f \in Found(inst[i].cls, g.name, Len(args)),
             out' = SqOverload(f, Caller(f, i, args)),
             IF out'.gives = "value" THEN PushVar(f) ELSE UNCHANGED <<inst, native>>
      PROVE  Kept' /\ Own(out', native')
  <2>1. f \in Bound /\ IsA(inst[i].cls, f.cls)
    BY FoundIs
  <2>2. Own(out', native)
    <3>1. Own(Caller(f, i, args), native)
      BY <2>1, CallerOwn
    <3> QED BY <1>4, <3>1, HandlerOwn
  <2>3. Kept' /\ Stays
    BY <1>2, <1>4, <2>1, PushKeeps, SameKept
  <2> QED BY <2>2, <2>3, OwnStays
<1> QED BY <1>1, <1>3, <1>4

-----------------------------------------------------------------------------
(* The host, and the invariant.                                            *)

LEMMA HostNewKeeps == ASSUME Kept, HostNew PROVE Kept'
<1>1. PICK n \in Native, c \in Real : FreshNative(n) /\ native' = [native EXCEPT ![n] = Made(c, TRUE)]
  BY DEF HostNew, Real
<1> DEFINE o == Made(c, TRUE)
<1>2. o \in NativeType /\ o.life = "live" /\ o.cls = c /\ c # None /\ o.host
  BY BinderAssumption DEF Made, NativeType, Real
<1>3. \A i \in Inst : inst[i].up # n
  BY <1>1, Unreferred DEF FreshNative, Kept
<1> HIDE DEF o
<1>4. Sound(inst, [native EXCEPT ![n] = o])
  BY <1>2, <1>3, HostsOwn DEF Kept
<1>5. native' = [native EXCEPT ![n] = o] /\ UNCHANGED <<inst, wrap>>
  BY <1>1 DEF HostNew, o
<1> QED BY <1>4, <1>5, SameInstances

LEMMA HostDeleteKeeps == ASSUME Kept, HostDelete PROVE Kept'
<1>1. PICK n \in Native : native[n].host /\ Unlent(n) /\ native' = [Delete(native, n) EXCEPT ![n].host = FALSE]
  BY DEF HostDelete
<1>2. native \in [Native -> NativeType] /\ native[n].life = "live"
  BY <1>1 DEF Kept, Sound, Typed, Bare
<1> DEFINE o == [native[n] EXCEPT !.life = "gone", !.host = FALSE]
<1>3. o \in NativeType /\ o.life = "gone" /\ ~ o.host
  BY <1>2 DEF NativeType
<1>4. \A i \in Inst : inst[i].up # n
  BY <1>1 DEF Unlent
<1>5. native' = [native EXCEPT ![n] = o]
  <2> DEFINE g == [native[n] EXCEPT !.life = "gone"]
             h == [g EXCEPT !.host = FALSE]
  <2>1. Delete(native, n) = [native EXCEPT ![n] = g]
    BY <1>2 DEF Delete
  <2>2. native' = [native EXCEPT ![n] = h]
    BY <1>1, <1>2, <2>1
  <2>3. h = o
    BY <1>2 DEF NativeType
  <2> QED BY <2>2, <2>3
<1>6. UNCHANGED <<inst, wrap>>
  BY DEF HostDelete
<1> HIDE DEF o
<1>7. Sound(inst, [native EXCEPT ![n] = o])
  BY <1>3, <1>4, HostsOwn DEF Kept
<1> QED BY <1>5, <1>6, <1>7, SameInstances

\* A call of a script's function leaves the stack as it was.
LEMMA CallScriptKeeps == ASSUME height = 0, CallScript PROVE height' = 0
<1>1. PICK n \in 0 .. 2 : height' = height + Evaluate(n, TRUE)
                          \/ \E ok \in BOOLEAN : height' = height + Execute(n, ok)
  BY DEF CallScript
<1>2. n \in Int
  OBVIOUS
<1>3. Evaluate(n, TRUE) = 0
  BY <1>2 DEF Evaluate, SqCall
<1>4. ASSUME NEW ok \in BOOLEAN PROVE Execute(n, ok) = 0
  BY <1>2 DEF Execute, SqCall
<1>5. CASE height' = height + Evaluate(n, TRUE)
  <2> DEFINE e == Evaluate(n, TRUE)
  <2>1. e = 0 /\ height' = height + e
    BY <1>3, <1>5
  <2> HIDE DEF e
  <2> QED BY <2>1
<1>6. ASSUME NEW ok \in BOOLEAN, height' = height + Execute(n, ok) PROVE height' = 0
  BY <1>4, <1>6
<1> QED BY <1>1, <1>5, <1>6

LEMMA InitKept == ASSUME Init PROVE BinderInv
<1>1. /\ native = [n \in Native |-> NoNative] /\ inst = [i \in Inst |-> NoInst]
      /\ wrap = [w \in Wrap |-> NoWrap] /\ height = 0 /\ out = Quiet
  BY DEF Init
<1>2. NoNative \in NativeType /\ NoNative.life = "none" /\ ~ NoNative.host
  BY DEF NoNative, NativeType
<1>3. NoInst \in InstType /\ NoInst.cls = None /\ NoInst.up = 0 /\ NoInst.hook = FALSE /\ NoInst.refs = 0
  BY NoInstType DEF NoInst
<1>4. Sound(inst, native)
  BY <1>1, <1>2, <1>3 DEF Sound, Typed, Bare, Refers, OneOwner, Agrees
<1>5. Lost(inst) = {}
  BY <1>1, <1>3 DEF Lost
<1>6. Counted(inst, wrap)
  <2>1. wrap \in [Wrap -> WrapType]
    BY <1>1, NoWrapIs
  <2>2. ASSUME NEW i \in Inst PROVE Cardinality(ObjRefs(wrap, i)) + Cardinality(EnvRefs(wrap, i)) = 0
    <3>1. ObjRefs(wrap, i) = {} /\ EnvRefs(wrap, i) = {}
      BY <1>1, NoWrapIs DEF ObjRefs, EnvRefs, Inst
    <3>2. Cardinality({}) = 0
      BY FS_EmptySet
    <3> QED BY <3>1, <3>2
  <2> QED BY <1>1, <1>3, <2>1, <2>2 DEF Counted
<1>7. Own(out, native)
  BY <1>1, NothingOwn
<1> QED BY <1>1, <1>4, <1>5, <1>6, <1>7 DEF BinderInv, Kept

LEMMA StepKept == ASSUME BinderInv, [Next]_bindvars PROVE BinderInv'
<1> USE DEF BinderInv
<1>1. CASE New
  <2>1. out' = Quiet /\ height' = height
    BY <1>1 DEF New
  <2> QED BY <1>1, <2>1, NewKeeps, QuietOwn
<1>2. CASE Clone
  <2>1. out' = Quiet /\ height' = height
    BY <1>2 DEF Clone
  <2> QED BY <1>2, <2>1, CloneKeeps, QuietOwn
<1>3. CASE Forget
  <2>1. out' = Quiet /\ height' = height
    BY <1>3 DEF Forget
  <2> QED BY <1>3, <2>1, ForgetKeeps, QuietOwn
<1>4. CASE Call
  <2>1. height' = height
    BY <1>4 DEF Call
  <2>2. Own(out, native)'
    BY <1>4, CallKeeps DEF Own
  <2> QED BY <1>4, <2>1, <2>2, CallKeeps
<1>5. CASE HostNew
  <2>1. out' = Quiet /\ height' = height
    BY <1>5 DEF HostNew
  <2> QED BY <1>5, <2>1, HostNewKeeps, QuietOwn
<1>6. CASE HostDelete
  <2>1. out' = Quiet /\ height' = height
    BY <1>6 DEF HostDelete
  <2> QED BY <1>6, <2>1, HostDeleteKeeps, QuietOwn
<1>7. CASE Wrapped
  <2>1. out' = Quiet /\ height' = height
    BY <1>7 DEF Wrapped
  <2> QED BY <1>7, <2>1, WrappedKeeps, QuietOwn
<1>8. CASE Copy
  <2>1. out' = Quiet /\ height' = height
    BY <1>8 DEF Copy
  <2> QED BY <1>8, <2>1, CopyKeeps, QuietOwn
<1>9. CASE Destroy
  <2>1. out' = Quiet /\ height' = height
    BY <1>9 DEF Destroy
  <2> QED BY <1>9, <2>1, DestroyKeeps, QuietOwn
<1>10. CASE CallScript
  <2>1. out' = Quiet /\ UNCHANGED <<inst, native, wrap>>
    BY <1>10 DEF CallScript
  <2>2. height' = 0
    BY <1>10, CallScriptKeeps
  <2> QED BY <2>1, <2>2, SameKept, QuietOwn
<1>11. CASE UNCHANGED bindvars
  <2>1. UNCHANGED <<inst, native, wrap, height, out>>
    BY <1>11 DEF bindvars
  <2>2. Own(out, native)'
    BY <2>1 DEF Own
  <2> QED BY <2>1, <2>2, SameKept
<1> QED BY <1>1, <1>2, <1>3, <1>4, <1>5, <1>6, <1>7, <1>8, <1>9, <1>10, <1>11 DEF Next

LEMMA InvariantAlways == Spec => []BinderInv
<1>1. Init => BinderInv
  BY InitKept
<1>2. BinderInv /\ [Next]_bindvars => BinderInv'
  BY StepKept
<1> QED BY <1>1, <1>2, PTL DEF Spec

-----------------------------------------------------------------------------
(* The theorems.                                                           *)

LEMMA InvariantOwned == ASSUME BinderInv PROVE NativesOwned
<1>1. Sound(inst, native)
  BY DEF BinderInv, Kept
<1>2. inst \in [Inst -> InstType] /\ native \in [Native -> NativeType]
  BY <1>1 DEF Sound, Typed
<1>3. ASSUME NEW n \in Native PROVE native[n].life # "twice"
  BY <1>2 DEF NativeType
<1>4. ASSUME NEW n \in Native, native[n].life = "live"
      PROVE  Cardinality({i \in Held : inst[i].hook /\ inst[i].up = n})
               + (IF native[n].host THEN 1 ELSE 0) = 1
  <2> DEFINE owners == {i \in Held : inst[i].hook /\ inst[i].up = n}
  <2>0. n # 0
    BY DEF Native
  <2>1. CASE native[n].host
    <3>1. ASSUME NEW i \in Inst, inst[i].up = n PROVE ~ inst[i].hook
      <4>1. inst[i].hook = ~ native[n].host
        BY <1>1, <2>0, <3>1 DEF Sound, Refers
      <4> QED BY <2>1, <4>1
    <3>2. owners = {}
      BY <3>1 DEF Held
    <3>3. Cardinality(owners) = 0
      BY <3>2, FS_EmptySet
    <3> HIDE DEF owners
    <3>4. Cardinality(owners) + (IF native[n].host THEN 1 ELSE 0) = 1
      BY <2>1, <3>3
    <3> QED BY <3>4 DEF owners
  <2>2. CASE ~ native[n].host
    <3>1. PICK i \in Inst : inst[i].up = n
      BY <1>1, <1>4, <2>2 DEF Sound, OneOwner
    <3>2. inst[i].hook
      <4>1. inst[i].hook = ~ native[n].host
        BY <1>1, <2>0, <3>1 DEF Sound, Refers
      <4> QED BY <2>2, <4>1
    <3>3. inst[i].cls # None
      BY <1>1, <2>0, <3>1 DEF Sound, Bare, NoInst
    <3>4. i \in owners
      BY <3>1, <3>2, <3>3 DEF Held
    <3>5. \A j \in owners : j = i
      BY <1>1, <3>1, <3>2 DEF Sound, OneOwner, Held
    <3>6. Cardinality(owners) = 1
      <4>1. owners = {i}
        BY <3>4, <3>5
      <4> HIDE DEF owners
      <4> QED BY <4>1, FS_Singleton
    <3> HIDE DEF owners
    <3>7. Cardinality(owners) + (IF native[n].host THEN 1 ELSE 0) = 1
      BY <2>2, <3>6
    <3> QED BY <3>7 DEF owners
  <2> QED BY <2>1, <2>2
<1>5. ASSUME NEW i \in Held, inst[i].up # 0 PROVE native[inst[i].up].life = "live"
  BY <1>1, <1>5 DEF Sound, Refers, Held
<1> QED BY <1>3, <1>4, <1>5 DEF NativesOwned

\* Every C++ object that is there has one owner, the host or one instance, and is
\* deleted once; no instance points to one that is gone.
THEOREM NativesOwnedAlways == Spec => []NativesOwned
<1>1. BinderInv => NativesOwned
  BY InvariantOwned
<1> QED BY <1>1, InvariantAlways, PTL

\* A bound function runs on an object that is there and of its class, and the
\* objects among its arguments are of the classes of its parameters.
THEOREM RunsOnOwnAlways == Spec => []RunsOnOwn
<1>1. ASSUME BinderInv PROVE RunsOnOwn
  <2>1. Own(out, native)
    BY <1>1 DEF BinderInv
  <2> SUFFICES ASSUME out.cls # None
               PROVE  /\ \/ out.form \in {"global", "member global"}
                         \/ out.on # 0 /\ native[out.on].life = "live" /\ IsA(native[out.on].cls, out.cls)
                      /\ \A k \in DOMAIN out.params :
                            out.params[k].kind \in {"object", "pointer"} /\ out.got[k][2] # 0 =>
                              IsA(native[out.got[k][2]].cls, out.params[k].cls)
    BY DEF RunsOnOwn
  <2>2. \/ out.form \in {"global", "member global"}
        \/ out.on # 0 /\ native[out.on].life = "live" /\ IsA(native[out.on].cls, out.cls)
    <3>1. 0 \notin Native
      BY DEF Native
    <3>2. \/ out.form \in {"global", "member global"}
          \/ out.on \in Native /\ native[out.on].life = "live" /\ IsA(native[out.on].cls, out.cls)
      BY <2>1, Zenon DEF Own
    <3> QED BY <3>1, <3>2
  <2>3. ASSUME NEW k \in DOMAIN out.params, out.params[k].kind \in Given, out.got[k][2] # 0
        PROVE  IsA(native[out.got[k][2]].cls, out.params[k].cls)
    BY <2>1, <2>3, Zenon DEF Own
  <2> QED BY <2>2, <2>3 DEF Given
<1>2. BinderInv => RunsOnOwn
  BY <1>1
<1> QED BY <1>2, InvariantAlways, PTL

\* What the host's wrappers refer to is counted, every reference once, and the host's
\* calls leave the stack as it was.
THEOREM HandlesCountedAlways == Spec => []HandlesCounted
<1>1. BinderInv => HandlesCounted
  BY DEF BinderInv, Kept, Counted, ObjRefs, EnvRefs, HandlesCounted, Held
<1> QED BY <1>1, InvariantAlways, PTL

=============================================================================
