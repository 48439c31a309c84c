------------------------------ MODULE FrontEnds ------------------------------
(***************************************************************************)
(* `gopapy unparse --check` on one file: unparseOne of cmd/gopapy/main.go  *)
(* parses it with v1, writes the tree, parses what was written and         *)
(* compares the two trees.  Beside it, v2 reads whatever v1 reads: the     *)
(* linters, the language server and the commands take now one and now the  *)
(* other for the same file.                                                *)
(***************************************************************************)
EXTENDS Syntax

CONSTANT Files  \* the files, as tokens

VARIABLES
    step,   \* how far the check has come
    mod,    \* what v1 read in the file,
    other,  \* and what v2 read
    mod2,   \* what v1 read in what was written,
    other2  \* and what v2 read

vars == <<toks, step, mod, other, mod2, other2>>

V1 == INSTANCE LegacyParser
V2 == INSTANCE Parser
Writer == INSTANCE Unparse

\* One of these files is checked.
Opens(files) ==
    /\ toks \in files
    /\ step = "source"
    /\ mod = Fail /\ other = Fail /\ mod2 = Fail /\ other2 = Fail
Init == Opens(Files)

\* The file is parsed, and what was written of it; a file that does not parse is done.
Parse ==
    /\ step \in {"source", "written"}
    /\ \E r1 \in {V1!ParseFile(1)}, r2 \in {V2!parseModule(1)} :
          \/ /\ step = "source"
             /\ mod' = r1 /\ other' = r2
             /\ step' = IF r1.ok THEN "parsed" ELSE "failed"
             /\ UNCHANGED <<mod2, other2>>
          \/ /\ step = "written"
             /\ mod2' = r1 /\ other2' = r2
             /\ step' = "compared"
             /\ UNCHANGED <<mod, other>>
    /\ UNCHANGED toks

Unparse ==
    /\ step = "parsed"
    /\ toks' = Writer!UnparseModule(mod.t)
    /\ step' = "written"
    /\ UNCHANGED <<mod, other, mod2, other2>>

Done ==
    /\ step \in {"failed", "compared"}
    /\ UNCHANGED vars

Next == Parse \/ Unparse \/ Done
Spec == Init /\ [][Next]_vars

-----------------------------------------------------------------------------
(* What the two front ends are known to read differently, and what the     *)
(* writer is known to lose.                                                *)

RECURSIVE Nodes(_)
\* A tree and all that is in it.
Nodes(t) == {t} \cup UNION {Nodes(t.c[i]) : i \in DOMAIN t.c}
Kind(t, k) == {n \in Nodes(t) : n.k = k}

OneTuple(e) == e.k = "Tuple" /\ Len(e.c) = 1
\* The targets that a `for` of any sort assigns to.
LoopTargets(t) == {n.c[1] : n \in UNION {Kind(t, k) : k \in {"For", "AsyncFor", "comprehension"}}}
Withs(t) == Kind(t, "With") \cup Kind(t, "AsyncWith")

\* v1 drops the comma behind a single subscript or yielded value.
CommaDropped(v2) ==
    \/ \E n \in Kind(v2, "Subscript") : OneTuple(n.c[2])
    \/ \E n \in Kind(v2, "Yield") : n.c # <<>> /\ OneTuple(n.c[1])
    \/ \E n \in Kind(v2, "For") : OneTuple(n.c[2])
    \/ \E n \in Kind(v2, "AugAssign") : OneTuple(n.c[2])
\* v1 drops the name in `_ as x`, and the type parameters of `async def`.
WildcardNamed(v2) == \E n \in Kind(v2, "MatchAs") : n.c = <<Op("MatchAs", "", <<>>)>>
AsyncGeneric(v2) == \E n \in Kind(v2, "AsyncFunctionDef") : n.c[5].c # <<>>
\* In a pattern, v1 takes the imaginary part of 1 - 1j to be negative and adds it.
ComplexMinus(v1) == \E n \in Kind(v1, "BinOp") : n.c[2] = Constant("-1")
\* v1 takes a walrus and what follows it to be two managers.
ManagedTuple(v2) == \E n \in Withs(v2) : \E item \in {n.c[1].c[i] : i \in DOMAIN n.c[1].c} :
    item.c[1].k = "Tuple" /\ item.c[1].c[1].k = "NamedExpr"
\* v2 lets await take a whole power.
AwaitedPower(v2) == \E n \in Kind(v2, "Await") : n.c[1].k = "BinOp" /\ n.c[1].op = "**"
\* v2 ends the suite behind a colon at a type alias.
AliasInSuite(v1) == \E n \in Kind(v1, "body") : \E i \in 1 .. Len(n.c) - 1 : n.c[i].k = "TypeAlias"

ReadDifferently(v1, v2) ==
    \/ CommaDropped(v2) \/ WildcardNamed(v2) \/ AsyncGeneric(v2) \/ ManagedTuple(v2)
    \/ ComplexMinus(v1) \/ AwaitedPower(v2) \/ AliasInSuite(v1)

\* v2 does not read the operators that also begin a subject, a call in what is
\* assigned to by a loop, and a tuple in parentheses before `as` or a comma.
Unread2(v1) ==
    \/ \E i \in DOMAIN toks : At(i) = "match" /\ At(i + 1) \in {"*", "-", "+", "not"}
    \/ \E t \in LoopTargets(v1) : Kind(t, "Call") # {}
    \/ \E n \in Withs(v1) :
          n.c[1].c[1].c[1].k = "Tuple" /\ (n.c[1].c[1].c[2] # Nil \/ Len(n.c[1].c) > 1)
\* v1 does not read a star in the value of an augmented assignment, and takes the
\* word behind the last comma of an open sequence pattern to be a name.
Unread1 ==
    \/ \E i \in DOMAIN toks : At(i) \in AugTokens /\ \E j \in DOMAIN toks : j > i /\ At(j) = "*"
    \/ \E i \in DOMAIN toks : At(i) = "," /\ At(i + 1) = "if"

\* The walrus needs its parentheses where the writer leaves them out.
WalrusInIf(t) == \E n \in Kind(t, "IfExp") : \E i \in {1, 2} : n.c[i].k = "NamedExpr"
\* A tuple that is the only manager is read as the managers.
TupleManaged(t) == \E n \in Withs(t) :
    Len(n.c[1].c) = 1 /\ n.c[1].c[1].c[1].k = "Tuple" /\ n.c[1].c[1].c[2] = Nil
Lost(t) == WalrusInIf(t) \/ TupleManaged(t)

-----------------------------------------------------------------------------

Same(a, b) == a.ok = b.ok /\ a.t = b.t

\* Everything the front ends read and the writer writes consists of known tokens.
TypeOK ==
    /\ step \in {"source", "parsed", "failed", "written", "compared"}
    /\ \A i \in DOMAIN toks : toks[i] \in Tokens
    /\ mod.ok = (step \in {"parsed", "written", "compared"})

\* What unparse writes reads back as the same tree, but for the trees of Lost.
RoundTripsButLost == step = "compared" /\ ~Lost(mod.t) => Same(mod, mod2)

\* The front ends read the same tree in a file, or both reject it.
FrontEndsAgree ==
    step \in {"parsed", "failed"} =>
        \/ Same(mod, other)
        \/ mod.ok /\ other.ok /\ ReadDifferently(mod.t, other.t)
        \/ mod.ok /\ ~other.ok /\ Unread2(mod.t)
        \/ ~mod.ok /\ other.ok /\ Unread1

\* v2 reads in what is written what v1 read in the file: the writer makes up for
\* most of the differences.
WrittenIsShared ==
    step = "compared" /\ ~Lost(mod.t) =>
        \/ Same(mod, other2)
        \/ ~other2.ok /\ Unread2(mod.t)
        \/ other2.ok /\ (AwaitedPower(other2.t) \/ ComplexMinus(mod.t))
=============================================================================
