------------------------------ MODULE MCSqCompiler ------------------------------
(* Families of functions (a, b, h) for TLC.  Every family varies what one part of *)
(* the compiler has to get right; every function returns all that it can see.  *)
EXTENDS SqExecute

a == <<"var", "a">>
b == <<"var", "b">>
x == <<"var", "x">>
g == <<"slot", "g">>
one == <<"int", 1>>
s == <<"str", "g">>
null == <<"null">>
f(e) == <<"call", "f", e>>
boom(e) == <<"call", "boom", e>>
plus(l, r) == <<"ARITH", "+", l, r>>

ReturnAll(es) == <<"return", <<"array", <<a, b, g>> \o es>>>>
Function(va, body) ==
  [params |-> <<"a", "b", "h">>, args |-> <<IntV(va), IntV(0), <<"fun", "f">>>>, body |-> body]

MCSlots0 == [g |-> IntV(5), f |-> <<"fun", "f">>, boom |-> <<"fun", "boom">>]

\* Expressions over expressions: operands that are places, temporaries,
\* literals, side effects, and calls.
Atoms == {a, g, one, s}
Effects == {<<"set", "a", plus(b, one)>>, <<"set", "a", b>>, <<"post", "a">>, <<"setslot", "g", a>>}
Inner == Atoms \cup Effects \cup
  {b, null, <<"pre", "a">>, <<"add", "a", one>>, <<"addslot", "g", a>>, <<"preslot", "g">>, <<"postslot", "g">>,
   plus(a, one), <<"AND", a, g>>, <<"OR", b, a>>, <<"cond", b, a, g>>, <<"cond", a, b, s>>, <<"not", b>>,
   <<"EQ", 0, a, s>>, <<"NE", 0, s, g>>, <<"CMP", "<=", null, a>>, <<"bool", 0>>, <<"index", s>>,
   <<"calllocal", "h", b>>, f(a), f(plus(a, g)), <<"comma", f(b), a>>, <<"set", "a", g>>}
Second == Effects \cup {a, g, s, null, <<"AND", a, g>>, <<"cond", a, b, s>>, f(plus(a, g))}
Outer(e, d) ==
  {plus(e, d), <<"ARITH", "/", e, d>>, <<"CMP", "<", e, d>>, <<"EQ", 0, e, d>>, <<"AND", e, d>>, <<"OR", e, d>>,
   <<"cond", e, d, b>>, <<"cond", e, b, d>>, <<"array", <<e, d>>>>, <<"comma", e, d>>, <<"set", "b", plus(e, d)>>}
Expressions(ds) == UNION {Outer(e, d) : e \in Inner, d \in ds}
               \cup {<<op, "a", e>> : op \in {"set", "add"}, e \in Inner}
               \cup {<<op, "g", e>> : op \in {"setslot", "addslot"}, e \in Inner}
               \cup {f(e) : e \in Inner} \cup {boom(e) : e \in Inner} \cup {<<"index", e>> : e \in Inner}

OfExpressions ==
  {Function(2, <<<<"local", <<<<"x", e>>>>>>, ReturnAll(<<x>>)>>) : e \in Expressions(Second)}

\* Expressions a function returns, where a call may become a tail call.
OfReturns ==
  {Function(2, <<<<"return", e>>>>) : e \in {d \in Expressions({a, f(plus(a, g))}) : d[1] # "comma"}}

\* Two variables in one declaration: the second is compiled without a break of
\* the optimizer, next to the instructions of the first.
OfDeclarations ==
  {Function(va, <<<<"local", <<<<"x", e>>, <<"y", d>>>>>>, ReturnAll(<<x, <<"var", "y">>>>)>>) :
     va \in {2}, e \in Atoms \cup Effects \cup {null},
     d \in {x, null, s, plus(x, one), <<"EQ", 0, a, x>>, <<"index", x>>, <<"set", "x", plus(a, one)>>, f(x),
            <<"set", "a", x>>, <<"array", <<x, s>>>>}}

\* Every kind of loop, switch and try around every way to leave it.
Small == {<<"break">>, <<"continue">>, <<"throw", a>>, <<"return">>, <<"return", f(a)>>, <<"exp", boom(a)>>,
          <<"exp", <<"set", "b", plus(b, one)>>>>}
If(e, t) == <<"if", e, t>>
Block(ss) == <<"block", ss>>
Tail1 == <<"exp", f(b)>>
Bodies == {Block(<<<<"local", <<<<"y", plus(a, b)>>>>>>, t, Tail1>>) : t \in Small}
          \cup {Block(<<If(<<"EQ", 0, b, one>>, t), <<"exp", <<"pre", "b">>>>>>) : t \in Small}
          \cup {<<"if", b, t, <<"exp", <<"pre", "b">>>>>> : t \in Small}
Loops(t) ==
  {<<"for", <<"local", <<<<"i", <<"int", 0>>>>>>>>, <<"CMP", "<", <<"var", "i">>, <<"int", 2>>>>, <<"post", "i">>, t>>,
   <<"while", <<"CMP", "<", <<"postslot", "g">>, <<"int", 7>>>>, t>>,
   <<"dowhile", t, <<"CMP", "<", <<"postslot", "g">>, <<"int", 7>>>>>>,
   <<"foreach", "k", "v", <<"array", <<s, one>>>>, t>>}
Tries(t, c) == <<"try", t, "e", c>>
Tested(t, u) == <<"switch", a, <<<<one, <<t>>>>, <<plus(one, one), <<Tail1, u>>>>>>, <<<<"exp", <<"set", "b", s>>>>>>>>

OfStatements ==
  LET Nested == UNION {Loops(t) : t \in Bodies}
                \cup UNION {Loops(Tries(t, <<"exp", f(<<"var", "e">>)>>)) : t \in Bodies}
                \cup UNION {Loops(Tries(<<"throw", b>>, t)) : t \in Small}
                \cup UNION {Loops(Tested(t, u)) : t \in Small, u \in {<<"break">>, <<"continue">>, Tail1}}
                \cup {Tries(Tries(l, u), Tail1) : l \in UNION {Loops(t) : t \in Small}, u \in Small \ {<<"break">>, <<"continue">>}}
                \cup UNION {Loops(Tries(l, Tail1)) : l \in UNION {Loops(t) : t \in Small}}
  IN  {Function(va, <<n, Tail1, ReturnAll(<<>>)>>) : va \in {1, 2}, n \in Nested}

MCPrograms == {Compiled(p) : p \in OfExpressions \cup OfReturns \cup OfDeclarations \cup OfStatements}
================================================================================
