----------------------------- MODULE LegacyChecks -----------------------------
(***************************************************************************)
(* legacy/linter: the checks that look at the tree or at its symbol table. *)
(* A diagnostic is a code and the name it is about, or none; of several    *)
(* alike on one name one is enough here.  F501, F541 and W605 are about    *)
(* the text of strings.                                                    *)
(***************************************************************************)
EXTENDS LegacySymbols

Diag(code, name) == [code |-> code, name |-> name]

RECURSIVE Nodes(_)
\* A tree and all that is in it, in the order of WalkPreorder.
Nodes(t) == <<t>> \o FlattenSeq([i \in DOMAIN t.c |-> Nodes(t.c[i])])
NodesOf(t, kinds) == SelectSeq(Nodes(t), LAMBDA n : n.k \in kinds)

-----------------------------------------------------------------------------
(* Imports and names: check_f401.go, check_f811.go, check_f821.go.         *)

FromFuture(s) == s.k = "ImportFrom" /\ s.c[2].c = <<Name("__future__")>>
\* futureImportNames, which looks at the statements of the module only.
FutureNames(mod) ==
    UNION {{BoundName(a) : a \in ToSet(s.c[3].c)} : s \in {s \in ToSet(mod.c) : FromFuture(s)}}
    \cup {BoundName(a) : a \in {a \in UNION {ToSet(s.c) : s \in {s \in ToSet(mod.c) : s.k = "Import"}} :
                                   a.c[1].c = <<Name("__future__")>>}}

\* usedAt: the module has an entry for the name that nothing in its own scope reads.
Unread(root, name) == HasBound(root, name) /\ ~HasUsed(root, name)

F401(root, mod) ==
    {Diag("F401", name) : name \in
        {n \in NamesOf(root) \ FutureNames(mod) : HasDecl(root, n, {"import"}) /\ Unread(root, n)}}

\* A name is bound twice and not read behind the first and up to the second place.
Redefined(sites) ==
    LET binds == {i \in DOMAIN sites : sites[i].bind}
    IN  \E i, j \in binds :
            /\ i < j
            /\ ~\E k \in binds : i < k /\ k < j
            /\ ~\E k \in i + 1 .. j : sites[k].use
F811(root) ==
    UNION {{Diag("F811", name) : name \in
        {n \in NamesOf(scope) : /\ ~HasDecl(scope, n, {"param", "global", "nonlocal"})
                                /\ Redefined(SitesOf(scope, n))}} : scope \in ScopesIn(root)}

\* The names with an entry here that ends a lookup.
Settled(scope) ==
    {n \in NamesOf(scope) : HasBound(scope, n) \/ HasDecl(scope, n, {"global", "nonlocal"})}
Builtins == {"type"}
RECURSIVE Undefined(_, _)
\* around: the names a lookup finds in the scopes around, which passes over classes.
Undefined(scope, around) ==
    LET visible == IF scope.kind = "class" THEN around ELSE around \cup Settled(scope)
    IN  {n \in NamesOf(scope) \ (Settled(scope) \cup around \cup Builtins) : HasUsed(scope, n)}
        \cup UNION {Undefined(scope.inner[i], visible) : i \in DOMAIN scope.inner}
StarImport(s) == s.k = "ImportFrom" /\ s.c[3].c = <<>>
F821(root, mod) ==
    IF \E s \in ToSet(mod.c) : StarImport(s) THEN {}
    ELSE {Diag("F821", name) : name \in Undefined(root, {})}

-----------------------------------------------------------------------------
(* Unused locals: check_f841.go.                                           *)

NextChildSkips(scope, child, kind, name) == \* mutant: the search starts one too far
    LET found == {i \in child + 2 .. Len(scope.inner) :
                     scope.inner[i].kind = kind /\ scope.inner[i].name = name}
    IN  IF found = {} THEN Len(scope.inner) + 1 ELSE CHOOSE i \in found : \A j \in found : i <= j
\* nextChild: the first scope of that kind and name behind the child-th, or one past all.
NextChild(scope, child, kind, name) ==
    LET found == {i \in child + 1 .. Len(scope.inner) :
                     scope.inner[i].kind = kind /\ scope.inner[i].name = name}
    IN  IF found = {} THEN Len(scope.inner) + 1 ELSE CHOOSE i \in found : \A j \in found : i <= j

FunctionKinds == {"FunctionDef", "AsyncFunctionDef"}
AssignedName(s) ==
    CASE s.k = "Assign" /\ Len(s.c[1].c) = 1 -> s.c[1].c[1]
      [] s.k = "AnnAssign" /\ s.c[3] # Nil -> s.c[1]
      [] OTHER -> Nil
\* checkTarget: the local is never read in the scope.
UnreadIn(scope, name) ==
    /\ name # "_" /\ HasBound(scope, name) /\ ~HasUsed(scope, name)
    /\ ~HasDecl(scope, name, {"param", "import", "global", "nonlocal"})

BlockKinds ==
    {"If", "While", "For", "AsyncFor", "With", "AsyncWith", "Try", "TryStar", "Match"}
\* The bodies of a statement that are blocks of the scope it is in.
Blocks(s) ==
    IF s.k \notin BlockKinds THEN {}
    ELSE UNION {CASE p.k = "body" -> {p}
                  [] p.k = "handlers" -> {h.c[2] : h \in ToSet(p.c)}
                  [] p.k = "cases" -> {case.c[3] : case \in ToSet(p.c)}
                  [] OTHER -> {} : p \in ToSet(s.c)}

RECURSIVE WalkLocals(_, _, _)
\* walkScope: every block counts the scopes inside from the first one on.  What is
\* found is the function the assignment is in and the name.
WalkLocals(scope, owner, stmts) ==
    LET kind(s) == IF s.k = "ClassDef" THEN "class" ELSE "function"
        isScope(s) == s.k \in FunctionKinds \cup {"ClassDef"}
        Body1(s) == IF s.k = "ClassDef" THEN s.c[3].c ELSE s.c[2].c
        Step(acc, s) ==
            LET child == NextChild(scope, acc.child, kind(s), s.op)
            IN  IF ~isScope(s) THEN acc
                ELSE [child |-> child,
                      out |-> acc.out \cup
                          (IF child > Len(scope.inner) THEN {}
                           ELSE WalkLocals(scope.inner[child], IF s.k = "ClassDef" THEN Nil ELSE s, Body1(s)))]
        assigned == {AssignedName(s) : s \in ToSet(stmts)}
    IN  FoldLeft(Step, [child |-> 0, out |-> {}], stmts).out
        \cup UNION {WalkLocals(scope, owner, b.c) : b \in UNION {Blocks(s) : s \in ToSet(stmts)}}
        \cup {[owner |-> owner, name |-> e.op] :
                 e \in {e \in assigned : owner # Nil /\ e.k = "Name" /\ UnreadIn(scope, e.op)}}
UnusedLocals(root, mod) == WalkLocals(root, Nil, mod.c)
F841(root, mod) == {Diag("F841", local.name) : local \in UnusedLocals(root, mod)}

-----------------------------------------------------------------------------
(* Comparisons: check_e711.go, check_e712.go, check_f632.go.               *)

\* A comparison is its first operand and then operators with theirs.
Left(compare, i) == IF i = 1 THEN compare.c[1] ELSE compare.c[i].c[1]
Right(compare, i) == compare.c[i + 1].c[1]
CompareOp(compare, i) == compare.c[i + 1].op
Slots(compare) == 1 .. Len(compare.c) - 1

Nones == {Constant("None")}
Bools == {Constant("True"), Constant("False")}
\* The places where == or != has None, or a truth value, on one of its sides.
EqualityWith(compare, i, constants) ==
    CompareOp(compare, i) \in {"==", "!="} /\ {Left(compare, i), Right(compare, i)} \cap constants # {}

AllConstants(es) == \A e \in ToSet(es) : e.k = "Constant"
IsLiteral(e) ==
    CASE e.k = "Constant" -> e \notin Nones
      [] e.k \in {"Tuple", "List", "Set"} -> AllConstants(e.c)
      [] e.k = "Dict" -> \A item \in ToSet(e.c) : item.k = "pair" /\ AllConstants(item.c)
      [] e.k = "UnaryOp" -> e.op \in {"-", "+", "~"} /\ e.c[1].k = "Constant"
      [] OTHER -> FALSE
IsWithLiteral(compare, i) ==
    CompareOp(compare, i) \in {"is", "is not"} /\ IsLiteral(Right(compare, i))

Compares(code, mod, Wrong(_, _)) ==
    {Diag(code, "") : n \in {n \in ToSet(NodesOf(mod, {"Compare"})) : \E i \in Slots(n) : Wrong(n, i)}}
E711(mod) == Compares("E711", mod, LAMBDA n, i : EqualityWith(n, i, Nones))
E712(mod) == Compares("E712", mod, LAMBDA n, i : EqualityWith(n, i, Bools))
F632(mod) == Compares("F632", mod, IsWithLiteral)

Lint(mod) ==
    LET root == Build(mod)
    IN  F401(root, mod) \cup F632(mod) \cup F811(root) \cup F821(root, mod) \cup F841(root, mod)
        \cup E711(mod) \cup E712(mod)
=============================================================================
