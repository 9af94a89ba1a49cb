------------------------------- MODULE SqRex -------------------------------
(***************************************************************************)
(* The library's regular expressions: a pattern is read into nodes, and a  *)
(* text is matched against them from left to right; a repetition stops as  *)
(* soon as what follows it matches, and no decision is taken back.         *)
(*                                                                         *)
(* An object is used once here: a group that no later search enters keeps  *)
(* the place it had in the text of an earlier one.  Word boundaries and    *)
(* escaped characters are left out, and with them an escape that ends a    *)
(* range: no pattern has both a dash and a class.                          *)
(*                                                                         *)
(* A definition whose comment begins with "Defect" is a variant of the one *)
(* below it with a plausible bug; Next uses none of them.                  *)
(***************************************************************************)
EXTENDS SqRegular

CONSTANTS Patterns,                 \* what is compiled
          Alphabet, MaxLetters        \* bound: texts

VARIABLES pattern,
          rex,       \* what it was read as
          found      \* what the last function gave back

rexvars == <<pattern, rex, found>>

Unread == [ok |-> FALSE, list |-> << >>, groups |-> 0]
Nowhere == -1

-----------------------------------------------------------------------------
\* Reading.  A result has the nodes read, the groups so far and what is left.

Bad == [ok |-> FALSE, list |-> << >>, groups |-> 0, rest |-> << >>]
Good(list, groups, rest) == [ok |-> TRUE, list |-> list, groups |-> groups, rest |-> rest]
Begins(t, S) == t # << >> /\ Head(t) \in S
Char(c) == IF IsClass(c) THEN <<"class", c>> ELSE <<"char", c>>

\* The items of a set up to its bracket; "first" may yet begin a range.
RECURSIVE sqstd_rex_class(_, _, _)
sqstd_rex_class(t, first, items) ==
    CASE t = << >> -> Bad
      [] Begins(t, {"]"}) -> Good(items \o first, 0, t)
      [] Begins(t, {"-"}) /\ first # << >> ->
           IF Len(t) = 1 \/ IsClass(first[1][2]) \/ Code[first[1][2]] > Code[t[2]] THEN Bad
           ELSE sqstd_rex_class(SubSeq(t, 3, Len(t)), << >>,
                                Append(items, <<"range", first[1][2], t[2]>>))
      [] OTHER -> sqstd_rex_class(Tail(t), <<Char(Head(t))>>, items \o first)

RECURSIVE sqstd_rex_parsenumber(_, _)
sqstd_rex_parsenumber(t, n) ==
    IF Begins(t, DOMAIN Digit) THEN sqstd_rex_parsenumber(Tail(t), n * 10 + Digit[Head(t)])
    ELSE [rest |-> t, n |-> n % (Many + 1)]

\* The most repetitions, read behind the comma.
Most(t, p, q) == IF Begins(t, DOMAIN Digit) THEN q ELSE Many

\* How often a node is repeated: a pair, or none; and what is left.
Braces(t) ==
    LET p == sqstd_rex_parsenumber(t, 0)
        q == sqstd_rex_parsenumber(Tail(p.rest), 0)
        times(a, b, rest) == [ok |-> TRUE, times |-> <<a, b>>, rest |-> rest]
    IN  CASE ~ Begins(t, DOMAIN Digit) \/ ~ Begins(p.rest, {"}", ","}) -> Bad
          [] Begins(p.rest, {"}"}) -> times(p.n, p.n, Tail(p.rest))
          [] Begins(p.rest, {","}) /\ ~ Begins(q.rest, {"}"}) -> Bad
          [] OTHER -> times(p.n, Most(Tail(p.rest), p.n, q.n), Tail(q.rest))

Times(t) ==
    IF Begins(t, {"*", "+", "?"})
      THEN [ok |-> TRUE, rest |-> Tail(t),
            times |-> CASE Head(t) = "*" -> <<0, Many>> [] Head(t) = "+" -> <<1, Many>>
                        [] Head(t) = "?" -> <<0, 1>>]
    ELSE IF Begins(t, {"{"}) THEN Braces(Tail(t))
    ELSE [ok |-> TRUE, times |-> << >>, rest |-> t]

\* A group, a set, an anchor or a character; list(t, n) reads what is in a group.
Group(inner, k) ==
    IF ~ inner.ok \/ ~ Begins(inner.rest, {")"}) THEN Bad
    ELSE Good(<<<<"expr", k, inner.list>>>>, inner.groups, Tail(inner.rest))

Set(t, neg, n) ==
    LET set == sqstd_rex_class(t, << >>, << >>)
    IN  IF Begins(t, {"]"}) \/ ~ set.ok THEN Bad
        ELSE Good(<<<<"set", neg, set.list>>>>, n, Tail(set.rest))

Atom(t, n, list(_, _)) ==
    CASE t = << >> -> Bad
      [] Begins(t, {"("}) /\ ~ Begins(Tail(t), {"?"}) -> Group(list(Tail(t), n + 1), n)
      [] Begins(t, {"("}) /\ Begins(Tail(t), {"?"}) ->
           IF Len(t) > 2 /\ t[3] = ":" THEN Group(list(SubSeq(t, 4, Len(t)), n), -1) ELSE Bad
      [] Begins(t, {"["}) ->
           IF Begins(Tail(t), {"^"}) THEN Set(Tail(Tail(t)), TRUE, n) ELSE Set(Tail(t), FALSE, n)
      [] Begins(t, {"$"}) -> Good(<<<<"eol">>>>, n, Tail(t))
      [] Begins(t, {"."}) -> Good(<<<<"dot">>>>, n, Tail(t))
      [] OTHER -> Good(<<Char(Head(t))>>, n, Tail(t))

Repeated(n, times) == IF times = << >> THEN n ELSE <<"greedy", n, times[1], times[2]>>
Ended(t) == t = << >> \/ Begins(t, {"|", ")", "*", "+"})

\* One more element: an atom, repeated or not.
sqstd_rex_element(x, atom) ==
    LET many == Times(atom.rest)
    IN  IF ~ atom.ok \/ ~ many.ok THEN [on |-> FALSE, r |-> Bad]
        ELSE [on |-> ~ Ended(many.rest),
              r |-> Good(Append(x.r.list, Repeated(atom.list[1], many.times)),
                         atom.groups, many.rest)]

Either(left, right) ==
    IF right.ok THEN [right EXCEPT !.list = <<<<"or", left.list, @>>>>] ELSE Bad

RECURSIVE sqstd_rex_list(_, _)
sqstd_rex_list(t, n) ==
    LET list(u, k) == sqstd_rex_list(u, k)
        step(x, k) == IF x.on THEN sqstd_rex_element(x, Atom(x.r.rest, x.r.groups, list)) ELSE x
        start == IF Begins(t, {"^"}) THEN Good(<<<<"bol">>>>, n, Tail(t)) ELSE Good(<< >>, n, t)
        left == FoldLeft(step, [on |-> TRUE, r |-> start], [k \in 1 .. Len(t) + 1 |-> k]).r
    IN  IF left.ok /\ Begins(left.rest, {"|"})
          THEN Either(left, sqstd_rex_list(Tail(left.rest), left.groups)) ELSE left

\* The whole expression is group 0.
sqstd_rex_compile(t) ==
    LET r == sqstd_rex_list(t, 1)
    IN  IF r.ok /\ r.rest = << >>
          THEN [ok |-> TRUE, list |-> <<<<"expr", 0, r.list>>>>, groups |-> r.groups] ELSE Unread

-----------------------------------------------------------------------------
\* Matching.  What goes on: the place in the text, the groups' places, the next
\* group, and whether a character after the text's last one was taken.

NoPlace == [begin |-> 0, len |-> 0]
Start(i, caps) == [at |-> i, caps |-> caps, sub |-> 0, over |-> FALSE]
Failed(r) == r.at = Nowhere
Fail(r) == [r EXCEPT !.at = Nowhere]
Take(text, r, yes) ==
    IF yes THEN [r EXCEPT !.at = @ + 1, !.over = @ \/ r.at >= Len(text)] ELSE Fail(r)

\* Behind the text is its terminator, which is no digit, and memory of others, which
\* is taken for more of it.
IsIn(text, r, items) ==
    IF r.at < Len(text) THEN InSet(items, text[r.at + 1])
    ELSE \E k \in DOMAIN items : items[k] = <<"class", "\\D">>

After(list, k, next) == IF k < Len(list) THEN SubSeq(list, k + 1, Len(list)) ELSE next

\* Defect: the most there may be is one too many.
EnoughLess(p, q, n) == n >= p /\ (q = Many \/ n < q)

\* Whether so many repetitions are right.
Enough(p, q, n) == n >= p /\ (q = Many \/ n <= q)

\* Repetitions: the n-th one has ended in s.  What follows is tried after each one,
\* and leaves the groups it entered behind; try(list, r, next) matches a node.
Again(x, s, t, p, q, end) ==
    [r |-> [t EXCEPT !.at = s.at], n |-> x.n + 1,
     on |-> s.at < end /\ (Failed(t) \/ ~ Enough(p, q, x.n + 1))]

Once(x, s, stop, ahead, p, q, end, try(_, _, _)) ==
    IF Failed(s) THEN [x EXCEPT !.r = [s EXCEPT !.at = x.r.at], !.on = FALSE]
    ELSE IF stop = << >> \/ (stop[1][1] = "greedy" /\ stop[1][3] = 0)
      THEN Again(x, s, Fail(s), p, q, end)
    ELSE Again(x, s, try(stop, s, ahead), p, q, end)

Repeat(list, r, next, end, try(_, _, _)) ==
    LET p == list[1][3]
        q == list[1][4]
        stop == After(list, 1, next)
        ahead == After(stop, 1, After(next, 1, << >>))
        step(x, k) ==
            IF ~ x.on \/ (x.n # Many /\ x.n >= q) THEN x
            ELSE Once(x, try(<<list[1][2]>>, x.r, stop), stop, ahead, p, q, end, try)
        x == FoldLeft(step, [r |-> r, n |-> 0, on |-> TRUE], [k \in 1 .. Many + 1 |-> k])
    IN  IF Enough(p, q, x.n) THEN x.r ELSE Fail(x.r)

\* A group is entered, and left.
Entered(n, r) ==
    IF n[2] = r.sub THEN [r EXCEPT !.sub = @ + 1, !.caps[n[2] + 1].begin = r.at] ELSE r

Left(n, r, s) ==
    IF n[2] # r.sub THEN s
    ELSE IF Failed(s) THEN [s EXCEPT !.caps[n[2] + 1] = NoPlace]
    ELSE [s EXCEPT !.caps[n[2] + 1].len = s.at - s.caps[n[2] + 1].begin]

Or(text, r, left, right(_)) ==
    IF Failed(left) THEN right([left EXCEPT !.at = r.at]) ELSE left

\* The head of a list; "next" follows the whole list.  The nodes of a group are
\* matched one after the other, those of a choice without a look at what follows.
RECURSIVE sqstd_rex_matchnode(_, _, _, _)
sqstd_rex_matchnode(text, list, r, next) ==
    LET n == Head(list)
        try(l, s, after) == sqstd_rex_matchnode(text, l, s, after)
        walk(l, s, after(_)) ==
            FoldLeftDomain(LAMBDA x, k : IF Failed(x) THEN x
                                         ELSE try(SubSeq(l, k, Len(l)), x, after(k)), s, l)
        choose(l, s) == walk(l, s, LAMBDA k : << >>)
    IN  CASE n[1] \in {"char", "class"} -> Take(text, r, IsIn(text, r, <<n>>))
          [] n[1] = "set" -> Take(text, r, IsIn(text, r, n[3]) # n[2])
          [] n[1] = "dot" -> Take(text, r, TRUE)
          [] n[1] = "bol" -> IF r.at = 0 THEN r ELSE Fail(r)
          [] n[1] = "eol" -> IF r.at = Len(text) THEN r ELSE Fail(r)
          [] n[1] = "greedy" -> Repeat(list, r, next, Len(text), try)
          [] n[1] = "or" -> Or(text, r, choose(n[2], r), LAMBDA s : choose(n[3], s))
          [] n[1] = "expr" ->
               Left(n, r, walk(n[3], Entered(n, r), LAMBDA k : After(n[3], k, next)))

NotFound == [begin |-> Nowhere, end |-> Nowhere, caps |-> << >>, over |-> FALSE]
Found(i, r) == [begin |-> i, end |-> r.at, caps |-> r.caps, over |-> r.over]
Captured(r) == [r EXCEPT !.caps = [k \in DOMAIN @ |-> IF @[k].len > 0 THEN @[k] ELSE NoPlace]]
NoCaps(x) == [k \in 1 .. x.groups |-> NoPlace]

sqstd_rex_match(x, text) ==
    LET r == sqstd_rex_matchnode(text, x.list, Start(0, NoCaps(x)), << >>)
    IN  IF r.at = Len(text) THEN Found(0, r) ELSE NotFound

\* From every place but the one behind the last character.
RECURSIVE Search(_, _, _, _)
Search(x, text, i, caps) ==
    LET r == sqstd_rex_matchnode(text, x.list, Start(i, caps), << >>)
    IN  IF i >= Len(text) THEN NotFound
        ELSE IF Failed(r) THEN Search(x, text, i + 1, r.caps) ELSE Found(i, r)

sqstd_rex_search(x, text) == Search(x, text, 0, NoCaps(x))

-----------------------------------------------------------------------------
Asked(op, text, r) == [op |-> op, text |-> text, r |-> r]
Nothing == Asked("none", << >>, NotFound)
Texts == BoundedSeq(Alphabet, MaxLetters)
Unused == pattern = << >> /\ rex = Unread /\ found = Nothing

Init ==
    /\ pattern \in Patterns
    /\ rex = Unread
    /\ found = Nothing

_regexp_constructor ==
    /\ ~ rex.ok /\ sqstd_rex_compile(pattern).ok
    /\ rex' = sqstd_rex_compile(pattern)
    /\ UNCHANGED <<pattern, found>>

_regexp_match ==
    /\ rex.ok /\ found = Nothing
    /\ \E text \in Texts : found' = Asked("match", text, sqstd_rex_match(rex, text))
    /\ UNCHANGED <<pattern, rex>>

_regexp_capture ==
    /\ rex.ok /\ found = Nothing
    /\ \E text \in Texts : found' = Asked("search", text, Captured(sqstd_rex_search(rex, text)))
    /\ UNCHANGED <<pattern, rex>>

Next == _regexp_constructor \/ _regexp_match \/ _regexp_capture

Spec == Init /\ [][Next]_rexvars

-----------------------------------------------------------------------------
\* Properties.

Expression == rex.list[1][3]

\* What is read is what was written, in its order, every group with its number.
RECURSIVE Groups(_)
Groups(list) ==
    FlattenSeq([k \in DOMAIN list |->
       CASE list[k][1] = "expr" -> (IF list[k][2] < 0 THEN << >> ELSE <<list[k][2]>>)
                                     \o Groups(list[k][3])
         [] list[k][1] = "greedy" -> Groups(<<list[k][2]>>)
         [] list[k][1] = "or" -> Groups(list[k][2]) \o Groups(list[k][3])
         [] OTHER -> << >>])

ReadsPattern ==
    rex.ok => /\ TextOf(Expression) = pattern
              /\ Groups(rex.list) = [k \in 1 .. rex.groups |-> k - 1]

\* Unless a character behind the text was taken: what is found matches the expression;
\* the groups lie in the text, and group 0 is what was found.  And a text that a plain
\* expression matches is found, at the first place, and all of it.
FindsRight ==
    LET text == found.text
        r == found.r
        first == {i \in 0 .. Len(text) - 1 : Ends(Expression, text, i) # {}}
    IN  rex.ok /\ found.op # "none" /\ ~ r.over =>
          /\ r.begin # Nowhere =>
                /\ r.end \in Ends(Expression, text, r.begin)
                /\ \A k \in DOMAIN r.caps : r.caps[k].begin + r.caps[k].len <= Len(text)
                /\ r.end > r.begin => r.caps[1] = [begin |-> r.begin, len |-> r.end - r.begin]
          /\ IsPlain(Expression) =>
                /\ found.op = "match" =>
                      ((Len(text) \in Ends(Expression, text, 0)) = (r.begin # Nowhere))
                /\ found.op = "search" =>
                      IF first = {} THEN r.begin = Nowhere
                      ELSE r.begin = Min(first) /\ r.end = Max(Ends(Expression, text, r.begin))

\* An expression is read as it is written, and what it finds it matches.
RegexpsRight == ReadsPattern /\ FindsRight
=============================================================================
