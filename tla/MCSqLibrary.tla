---------------------------- MODULE MCSqLibrary ----------------------------
(***************************************************************************)
(* The library's components for TLC, each on its own: the binder, arrays,  *)
(* blobs and regular expressions.  What a run uses is chosen at the start, *)
(* and the others stay as they are.                                        *)
(***************************************************************************)
EXTENDS SqBinder

CONSTANTS Elem, Size, MaxSort, ArrayCalls,    \* SqArray
          Base, MaxBytes, BlobCalls,          \* SqBlob
          MaxSymbols, Alphabet, MaxLetters    \* SqRex

VARIABLES using,
          arr, sort,
          blob,
          did, gave, count,                   \* calls of arrays and blobs
          pattern, rex, found

array == <<arr, sort, did, gave, count>>
bytes == <<blob, did, gave, count>>
regexp == <<pattern, rex, found>>
vars == <<using, bindvars, arr, sort, bytes, regexp>>

\* Classes: two of sqobject's, a host's, and one that a script derives.
MCClass == {"Object", "Thread", "Point", "Task"}
MCChain == [Object |-> <<"Object">>, Thread |-> <<"Thread", "Object">>,
           Point |-> <<"Point">>, Task |-> <<"Task", "Thread", "Object">>]

\* Parameters and bound functions.
P(kind) == [kind |-> kind, cls |-> "none"]
PObject(kind) == [kind |-> kind, cls |-> "Object"]
F(name, cls, form, params, gives, of) ==
    [name |-> name, cls |-> cls, form |-> form, params |-> params,
     gives |-> gives, of |-> of, over |-> FALSE]
Over(f) == [f EXCEPT !.over = TRUE]

MCBound ==
    {F("notify", "Object", "member", << >>, "nothing", "none"),
     F("peek", "Object", "member global", <<PObject("pointer")>>, "const", "Object"),
     F("setPriority", "Thread", "member", <<P("integer")>>, "nothing", "none"),
     F("wait", "Thread", "varargs", << >>, "plain", "none"),
     F("point", "Thread", "bridge", << >>, "pointer", "Point"),
     F("stop", "Thread", "template", <<P("integer")>>, "nothing", "none"),
     F("near", "Point", "proxy", <<PObject("object"), P("bool")>>, "copy", "Point"),
     F("any", "Point", "global", <<P("integer")>>, "plain", "none"),
     Over(F("move", "Point", "member", <<P("string")>>, "plain", "none")),
     Over(F("move", "Point", "cast", <<P("info"), P("chars")>>, "plain", "none"))}

MCAllocators ==
    [Object |-> {"VMConstructor"}, Thread |-> {"VMConstructor"},
     Point |-> {"DefaultAllocator", "NoConstructor", "CopyOnly", "NoCopy", "Factory",
                "ArgsConstructor", "NOConstructor", "SQTemplate"}]

-----------------------------------------------------------------------------
A == INSTANCE SqArray WITH out <- gave, calls <- count, MaxCalls <- ArrayCalls

\* Offsets before, in, at the end of and behind the text; numbers that fit a byte,
\* that do not, and a negative one.
B == INSTANCE SqBlob WITH
       out <- gave, calls <- count, MaxCalls <- BlobCalls,
       Offset <- {-1, 0, 1, 3, 6}, Number <- {1, 5, -2}

ASSUME B!BlobAssumption

\* Patterns of the symbols of one family each, so that few symbols meet in every way:
\* groups, choices and counts; sets, ranges, anchors and repetitions.
Family == {{"a", "b", "(", ")", "*"}, {"a", "b", "(", ")", "|"}, {"a", "{", "}", ",", "2"}}
Family1 == {{"a", "b", "[", "]", "^", "\\D"}, {"a", "b", "c", "[", "]", "-"},
            {"a", "b", "?", "+", "^", "$", "."}}

X == INSTANCE SqRex WITH
       Many <- 23,
       Patterns <- UNION {BoundedSeq(S, MaxSymbols) : S \in Family}
                     \cup UNION {BoundedSeq(S, MaxSymbols - 1) : S \in Family1}

-----------------------------------------------------------------------------
BinderUnused == Init /\ \A c \in DOMAIN maker : maker[c] = VMConstructor
Uncalled == did = <<"new">> /\ gave = <<"nothing">> /\ count = 0

LibraryInit ==
    \/ using = "binder" /\ Init /\ A!Unused /\ B!Unused /\ Uncalled /\ X!Unused
    \/ using = "array" /\ A!Init /\ BinderUnused /\ B!Unused /\ X!Unused
    \/ using = "blob" /\ B!Init /\ BinderUnused /\ A!Unused /\ X!Unused
    \/ using = "regexp" /\ X!Init /\ BinderUnused /\ A!Unused /\ B!Unused /\ Uncalled

Binder(act) == using = "binder" /\ act /\ UNCHANGED <<using, arr, sort, bytes, regexp>>
Array(act) == using = "array" /\ act /\ UNCHANGED <<using, bindvars, blob, regexp>>
Blob(act) == using = "blob" /\ act /\ UNCHANGED <<using, bindvars, arr, sort, regexp>>
Regexp(act) == using = "regexp" /\ act /\ UNCHANGED <<using, bindvars, arr, sort, bytes>>

BinderNew == Binder(New)
BinderClone == Binder(Clone)
BinderForget == Binder(Forget)
BinderCall == Binder(Call)
HostMakes == Binder(HostNew)
HostDeletes == Binder(HostDelete)
HostWraps == Binder(Wrapped)
HostCopies == Binder(Copy)
HostDestroys == Binder(Destroy)
HostCallsScript == Binder(CallScript)
ArrayCall == Array(A!Call)
ArraySort == Array(A!array_sort)
ArrayCompare == Array(A!Compare)
BlobCall == Blob(B!Next)
RegexpNew == Regexp(X!_regexp_constructor)
RegexpMatch == Regexp(X!_regexp_match)
RegexpCapture == Regexp(X!_regexp_capture)

LibraryNext ==
    \/ BinderNew \/ BinderClone \/ BinderForget \/ BinderCall
    \/ HostMakes \/ HostDeletes \/ HostWraps \/ HostCopies \/ HostDestroys \/ HostCallsScript
    \/ ArrayCall \/ ArraySort \/ ArrayCompare
    \/ BlobCall
    \/ RegexpNew \/ RegexpMatch \/ RegexpCapture

LibrarySpec == LibraryInit /\ [][LibraryNext]_vars /\ WF_vars(ArrayCompare)

-----------------------------------------------------------------------------
\* An array does what a sequence does, and its block holds values up to its size.
ImplementsList ==
    /\ using = "array" => A!List!Init
    /\ [][using = "array" => A!List!Next]_<<A!Used(arr), did, gave>>
    /\ []A!CellsUsed

\* A sort by a function that knows an order ends.
SortEnds == A!SortEnds

\* A blob does what a stream of bytes does.
ImplementsStream ==
    /\ using = "blob" => B!Stream!Init
    /\ [][using = "blob" => B!Stream!Next]_<<B!Text, blob.ptr, did, gave>>

\* An expression is read as it is written, and what it finds it matches.
RegexpsRight == X!RegexpsRight
=============================================================================
