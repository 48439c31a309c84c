-------------------------------- MODULE LintFix --------------------------------
(***************************************************************************)
(* What `gopapy lint --fix` does to one file: FixWithConfig of             *)
(* legacy/linter/fix.go between the parse and the write of fixOne, and the *)
(* lint that follows.  (What fixOne does to the file system is in          *)
(* FixInPlace.)                                                            *)
(*                                                                         *)
(* The passes change the tree one after the other, and all of them go by   *)
(* the symbol table of the tree as it was read.  The properties judge them *)
(* by what a function body computes, for bodies without branches, by what  *)
(* the checks say of the result, and by what the parsers read in it.       *)
(***************************************************************************)
EXTENDS LegacyChecks

CONSTANT Inputs  \* the files, as tokens, each with the codes that are enabled for it

VARIABLES
    phase,     \* how far the fix has come
    enabled,  \* the codes that are enabled for this file
    read,     \* the tree that was read
    tree,     \* the tree as the passes leave it
    fixed,    \* the diagnostics that the passes say they resolved
    again,    \* the tree that v1 reads in what was written,
    elsewhere  \* and what v2 reads

vars == <<toks, phase, enabled, read, tree, fixed, again, elsewhere>>

V1 == INSTANCE LegacyParser
V2 == INSTANCE Parser
Writer == INSTANCE Unparse

Opens(inputs) ==
    /\ \E input \in inputs : toks = input.file /\ enabled = input.codes
    /\ phase = "source"
    /\ read = Nil /\ tree = Nil /\ again = Nil
    /\ fixed = {}
    /\ elsewhere = Fail
Init == Opens(Inputs)

\* v1 reads the file, and after the fix what was written, which lint does with it.
Parse ==
    /\ phase \in {"source", "written"}
    /\ \E mod \in {V1!ParseFile(1)} :
           CASE ~mod.ok -> phase' = "failed" /\ UNCHANGED <<read, tree, again>>
             [] mod.ok /\ phase = "source" ->
                    phase' = "imports" /\ read' = mod.t /\ tree' = mod.t /\ UNCHANGED again
             [] mod.ok /\ phase = "written" ->
                    phase' = "linted" /\ again' = mod.t /\ UNCHANGED <<read, tree>>
    /\ UNCHANGED <<toks, enabled, fixed, elsewhere>>

-----------------------------------------------------------------------------
(* Unused imports.                                                         *)

\* filterImport and filterImportFrom: the names of a statement that stay.
UnusedIgnoringUses(root, name) == HasBound(root, name) \* mutant: FlagUsed is not looked at
Unused(root, name) == Unread(root, name)
Spared(s) == IF s.k = "Import" THEN FutureNames(read) ELSE {}
KeptNames(root, s, aliases) ==
    SelectSeq(aliases, LAMBDA a : BoundName(a) \in Spared(s) \/ ~Unused(root, BoundName(a)))

\* mutant: a statement whose names all go is not removed
FilteredImportKept(root, s) ==
    LET names == IF s.k = "Import" THEN s.c ELSE s.c[3].c
        kept == KeptNames(root, s, names)
    IN  IF s.k \notin {"Import", "ImportFrom"} \/ FromFuture(s) \/ StarImport(s) THEN <<s>>
        ELSE IF s.k = "Import" THEN <<[s EXCEPT !.c = kept]>>
        ELSE <<[s EXCEPT !.c[3].c = kept]>>
\* What is left of a statement: itself, with fewer names, or nothing.
FilteredImport(root, s) ==
    LET names == IF s.k = "Import" THEN s.c ELSE s.c[3].c
        kept == KeptNames(root, s, names)
    IN  IF s.k \notin {"Import", "ImportFrom"} \/ FromFuture(s) \/ StarImport(s) THEN <<s>>
        ELSE IF kept = <<>> THEN <<>>
        ELSE IF s.k = "Import" THEN <<[s EXCEPT !.c = kept]>>
        ELSE <<[s EXCEPT !.c[3].c = kept]>>

RECURSIVE FixStmts(_, _)
\* fixStmts: the statements of a module, and of the blocks that are no scopes.
FixStmts(root, n) ==
    CASE n.k \in {"Module", "body"} ->
            [n EXCEPT !.c = FlattenSeq([i \in DOMAIN n.c |-> FilteredImport(root, FixStmts(root, n.c[i]))])]
      [] n.k \in BlockKinds \cup {"handlers", "ExceptHandler", "cases", "case"} ->
            [n EXCEPT !.c = [i \in DOMAIN n.c |-> FixStmts(root, n.c[i])]]
      [] OTHER -> n

FixImports ==
    /\ phase = "imports"
    /\ phase' = "stores"
    /\ tree' = IF "F401" \in enabled THEN FixStmts(Build(read), read) ELSE read
    /\ fixed' = IF tree' = tree THEN fixed ELSE {"F401"}
    /\ UNCHANGED <<toks, enabled, read, again, elsewhere>>

-----------------------------------------------------------------------------
(* Dead stores.                                                            *)

\* constantStoreName and nextRebindPos: the name that is stored to, or "".
StoredAnything(s) == \* mutant: the value may be any expression
    IF s.k = "Assign" /\ Len(s.c[1].c) = 1 /\ s.c[1].c[1].k = "Name" THEN s.c[1].c[1].op ELSE ""
ConstantStoreName(s) ==
    IF s.k = "Assign" /\ Len(s.c[1].c) = 1 /\ s.c[1].c[1].k = "Name" /\ s.c[2].k = "Constant"
    THEN s.c[1].c[1].op ELSE ""
ReboundName(s) == AssignedName(s).op

IsDeadStore(stmts, i) ==
    /\ i < Len(stmts)
    /\ ConstantStoreName(stmts[i]) # ""
    /\ AssignedName(stmts[i + 1]).k = "Name"
    /\ ReboundName(stmts[i + 1]) = ConstantStoreName(stmts[i])

\* scanDeadStoreLiteral.
ScanDeadStores(stmts) ==
    FlattenSeq([i \in DOMAIN stmts |-> IF IsDeadStore(stmts, i) THEN <<>> ELSE <<stmts[i]>>])

RECURSIVE DropDeadStores(_)
DropDeadStores(t) ==
    LET inside == [t EXCEPT !.c = [i \in DOMAIN t.c |-> DropDeadStores(t.c[i])]]
    IN  IF t.k \in FunctionKinds THEN [inside EXCEPT !.c[2].c = ScanDeadStores(@)] ELSE inside

FixDeadStores ==
    /\ phase = "stores"
    /\ phase' = "comparisons"
    /\ tree' = IF "F811" \in enabled THEN DropDeadStores(tree) ELSE tree
    /\ fixed' = IF tree' = tree THEN fixed ELSE fixed \cup {"F811"}
    /\ UNCHANGED <<toks, enabled, read, again, elsewhere>>

-----------------------------------------------------------------------------
(* Comparisons with None, True and False.                                  *)

RewriteEqToIs(op) == IF op = "==" THEN "is" ELSE "is not"
\* mutant: left stays the first operand of the chain
RewritesHead(compare, i) ==
    IF "E711" \in enabled /\ CompareOp(compare, i) \in {"==", "!="}
       /\ {compare.c[1], Right(compare, i)} \cap Nones # {} THEN "E711"
    ELSE IF "E712" \in enabled /\ EqualityWith(compare, i, Bools) THEN "E712" ELSE ""
\* The code for which the operator in that slot is rewritten, or "".
Rewrites(compare, i) ==
    IF "E711" \in enabled /\ EqualityWith(compare, i, Nones) THEN "E711"
    ELSE IF "E712" \in enabled /\ EqualityWith(compare, i, Bools) THEN "E712" ELSE ""
RewriteSlot(compare, i) ==
    IF Rewrites(compare, i) = "" THEN compare.c[i + 1]
    ELSE [compare.c[i + 1] EXCEPT !.op = RewriteEqToIs(@)]

RECURSIVE RewriteComparisons(_)
RewriteComparisons(t) ==
    LET inside == [t EXCEPT !.c = [i \in DOMAIN t.c |-> RewriteComparisons(t.c[i])]]
    IN  IF t.k # "Compare" THEN inside
        ELSE [inside EXCEPT !.c = [i \in DOMAIN t.c |->
                 IF i = 1 THEN inside.c[1] ELSE RewriteSlot(inside, i - 1)]]

RewrittenCodes(t) ==
    UNION {{Rewrites(n, i) : i \in Slots(n)} : n \in ToSet(NodesOf(t, {"Compare"}))} \ {""}
FixComparisons ==
    /\ phase = "comparisons"
    /\ tree' = RewriteComparisons(tree)
    /\ fixed' = fixed \cup RewrittenCodes(tree)
    \* fixOne writes nothing when nothing was fixed
    /\ phase' = IF fixed' = {} THEN "unchanged" ELSE "fixed"
    /\ UNCHANGED <<toks, enabled, read, again, elsewhere>>

-----------------------------------------------------------------------------

Write ==
    /\ phase = "fixed"
    /\ phase' = "written"
    /\ toks' = Writer!UnparseModule(tree)
    /\ UNCHANGED <<enabled, read, tree, fixed, again, elsewhere>>

\* Commands that use v2 read what was written too.
Reread ==
    /\ phase = "linted"
    /\ phase' = "reread"
    /\ elsewhere' = V2!parseModule(1)
    /\ UNCHANGED <<toks, enabled, read, tree, fixed, again>>

Done ==
    /\ phase \in {"failed", "unchanged", "reread"}
    /\ UNCHANGED vars

Next == Parse \/ FixImports \/ FixDeadStores \/ FixComparisons \/ Write \/ Reread \/ Done
Spec == Init /\ [][Next]_vars

-----------------------------------------------------------------------------
(* What a function body without branches computes.                         *)

RECURSIVE Term(_, _)
\* The expression with the values of its names put in; env: name to value.
Term(e, env) ==
    IF e.k = "Name" THEN (IF e.op \in DOMAIN env THEN env[e.op] ELSE e)
    ELSE [e EXCEPT !.c = [i \in DOMAIN e.c |-> Term(e.c[i], env)]]

Mentions(e) == {n.op : n \in ToSet(NodesOf(e, {"Name"}))}
Calls(e) == NodesOf(e, {"Call", "Await", "Yield", "YieldFrom"}) # <<>>

OwnScope(function) == Last(Walk(<<Use(function)>>).inner)
\* The names of a function that code outside of it sees.
Shared(function) ==
    LET own == OwnScope(function)
        captured == UNION {{n \in NamesOf(s) : HasUsed(s, n) /\ ~HasBound(s, n)} :
                              s \in ScopesIn(own) \ {own}}
    IN  captured \cup {n \in NamesOf(own) : HasDecl(own, n, {"global", "nonlocal"})}

(***************************************************************************)
(* What the world sees of a call: what is called, stored elsewhere and     *)
(* returned, where a name without a value is read (which may raise), and   *)
(* each time the values of the shared names.  At the first statement that  *)
(* is not simple it sees everything, and the rest is left out.  A run of   *)
(* the body has the values of the names, env, and the trace of all that.   *)
(***************************************************************************)
Set(env, name, value) == [n \in DOMAIN env \cup {name} |-> IF n = name THEN value ELSE env[n]]
Seen(run, what) ==
    [run EXCEPT !.trace = Append(@, <<what, [n \in run.shared \cap DOMAIN run.env |-> run.env[n]]>>)]
Computed(run, e) ==
    IF Calls(e) \/ Mentions(e) \ DOMAIN run.env # {} THEN Seen(run, Term(e, run.env)) ELSE run
Stored(run, target, value) ==
    IF target.k = "Name" THEN [run EXCEPT !.env = Set(@, target.op, value)]
    ELSE Seen(run, <<Term(target, run.env), value>>)
StoredIn(run, targets, value) == FoldLeft(LAMBDA r, t : Stored(r, t, value), run, targets)

Targets(s) ==
    CASE s.k = "Assign" -> s.c[1].c
      [] s.k = "AugAssign" \/ (s.k = "AnnAssign" /\ s.c[3] # Nil) -> <<s.c[1]>>
      [] s.k = "FunctionDef" -> <<Name(s.op)>>
      [] OTHER -> <<>>
Value(s) ==
    CASE s.k = "Assign" -> s.c[2]
      [] s.k = "AnnAssign" -> s.c[3]
      [] s.k = "AugAssign" -> BinOp(s.op, s.c[1], s.c[2])
      [] s.k = "Expr" -> s.c[1]
      [] s.k = "FunctionDef" -> Constant(s.op)
      [] OTHER -> Nil
Simple == {"Pass", "Global", "Nonlocal", "Assign", "AnnAssign", "AugAssign", "Expr", "FunctionDef"}

RECURSIVE Ran(_, _)
Ran(run, stmts) ==
    IF stmts = <<>> THEN Seen(run, "end").trace
    ELSE IF Head(stmts).k \in Simple
    THEN Ran(StoredIn(Computed(run, Value(Head(stmts))), Targets(Head(stmts)),
                      Term(Value(Head(stmts)), run.env)), Tail(stmts))
    ELSE Seen(run, Term(Head(stmts), run.env)).trace
Meaning(function) ==
    Ran([env |-> [n \in {} |-> Nil], trace |-> <<>>, shared |-> Shared(function)], function.c[2].c)

Functions(t) == NodesOf(t, FunctionKinds)

\* The value that is stored next reads the name, or may let others see it.
SeenBetween(function) ==
    LET stmts == function.c[2].c
    IN  \E i \in DOMAIN stmts :
            /\ IsDeadStore(stmts, i)
            /\ LET name == ConstantStoreName(stmts[i])
                   next == stmts[i + 1].c[IF stmts[i + 1].k = "Assign" THEN 2 ELSE 3]
               IN  name \in Mentions(next) \/ (name \in Shared(function) /\ Mentions(next) # {})

-----------------------------------------------------------------------------
(* What else the properties are about.                                     *)

\* The blocks of these statements are never empty in a file.
Filled(body) == IF body.c = <<>> THEN [body EXCEPT !.c = <<N("Pass", <<>>)>>] ELSE body
RECURSIVE WithPasses(_)
\* The tree with a `pass` in each block that unparse cannot leave out.
WithPasses(t) ==
    LET inside == [t EXCEPT !.c = [i \in DOMAIN t.c |-> WithPasses(t.c[i])]]
        first == CASE t.k \in {"Try", "TryStar"} -> 1
                   [] t.k \in {"If", "While", "With", "AsyncWith", "ExceptHandler"} -> 2
                   [] t.k \in {"For", "AsyncFor", "case"} -> 3
                   [] OTHER -> 0
    IN  IF first = 0 THEN inside ELSE [inside EXCEPT !.c[first] = Filled(@)]

\* A `try` with neither a handler nor `finally`.
BareTry(t) == \E n \in ToSet(NodesOf(t, {"Try"})) : n.c[2].c = <<>> /\ n.c[4].c = <<>>

\* The names that are imported in t, anywhere.
ImportedIn(t) ==
    {BoundName(a) : a \in ToSet(NodesOf(t, {"alias"}))}
\* A truth value was compared with ==, or None with a literal behind it.
IsForLiteral(t) ==
    \E n \in ToSet(NodesOf(t, {"Compare"})) : \E i \in Slots(n) :
        Rewrites(n, i) # "" /\ IsLiteral(Right(n, i))

RECURSIVE ListsOf(_)
\* The lists of statements of a scope: its body, and the blocks in it that are no scopes.
ListsOf(stmts) ==
    {stmts} \cup UNION {ListsOf(b.c) : b \in UNION {Blocks(s) : s \in ToSet(stmts)}}
OwnStmts(stmts) == UNION {ToSet(list) : list \in ListsOf(stmts)}
Defs == FunctionKinds \cup {"ClassDef"}
BodyOf(def) == IF def.k = "ClassDef" THEN def.c[3].c ELSE def.c[2].c

\* The names that the statements of a function bind by `x = ..` or `x: y = ..`.
NamesAmong(targets) == {e.op : e \in {e \in targets : e.k = "Name"}}
StoredByStatement(stmts) ==
    NamesAmong({s.c[1].c[1] : s \in {s \in stmts : s.k = "Assign" /\ Len(s.c[1].c) = 1}}
               \cup {s.c[1] : s \in {s \in stmts : s.k = "AnnAssign" /\ s.c[3] # Nil}})
\* Those that they bind by `x = y = ..`, and those bound by a walrus, also in a comprehension.
StoredInChain(stmts) ==
    NamesAmong(UNION {ToSet(s.c[1].c) : s \in {s \in stmts : s.k = "Assign" /\ Len(s.c[1].c) > 1}})
StoredByWalrus(scope) == {site.name : site \in {site \in ToSet(scope.sites) : site.host}}

RECURSIVE ReadInside(_, _)
\* A function, class or comprehension inside reads this scope's variable.
ReadInside(scope, name) ==
    \E inner \in ToSet(scope.inner) :
        LET own == HasDecl(inner, name, {"global"})
                   \/ (HasBound(inner, name) /\ ~HasDecl(inner, name, {"nonlocal"}))
        IN  \/ ~own /\ HasUsed(inner, name)
            \/ (~own \/ inner.kind = "class") /\ ReadInside(inner, name)

\* A variable of a function or lambda: `_` is not meant to be read.
IsLocal(scope, name) ==
    name # "_" /\ \A site \in ToSet(SitesOf(scope, name)) : site.decl = ""
ReadHere(scope, name) == \E site \in ToSet(SitesOf(scope, name)) : site.use

\* The locals that are bound in one of the three ways and that nothing reads.
UnreadLocals(mod) ==
    UNION {LET scope == OwnScope(f)
               stmts == IF f.k = "Lambda" THEN {} ELSE OwnStmts(BodyOf(f))
           IN  {[owner |-> f, name |-> name] : name \in
                   {n \in StoredByStatement(stmts) \cup StoredInChain(stmts) \cup StoredByWalrus(scope) :
                       IsLocal(scope, n) /\ ~ReadHere(scope, n) /\ ~ReadInside(scope, n)}} :
           f \in ToSet(NodesOf(mod, FunctionKinds \cup {"Lambda"}))}

\* No statement of the function binds it on its own.
OnlyInExpression(local) ==
    local.owner.k = "Lambda" \/ local.name \notin StoredByStatement(OwnStmts(BodyOf(local.owner)))
ReadByClosure(local) == ReadInside(OwnScope(local.owner), local.name)

\* The functions and classes of a scope that have a namesake before them in another block.
Namesakes(d, e) == e.op = d.op /\ (e.k = "ClassDef" <=> d.k = "ClassDef")
Repeated(scope, stmts) ==
    LET order == NodesOf(scope, Defs)
    IN  {order[j] : j \in {j \in DOMAIN order :
            \E list, other \in ListsOf(stmts) :
                /\ list # other /\ order[j] \in ToSet(list)
                /\ \E i \in 1 .. j - 1 : order[i] \in ToSet(other) /\ Namesakes(order[j], order[i])}}
\* The local is inside of one of them.
InRepeated(local) ==
    \E d \in Repeated(read, read.c) \cup UNION {Repeated(f, BodyOf(f)) : f \in ToSet(NodesOf(read, Defs))} :
        local.owner \in ToSet(Nodes(d))

-----------------------------------------------------------------------------

Fixable == {"F401", "F811", "E711", "E712"}
TypeOK ==
    /\ phase \in {"source", "failed", "imports", "stores", "comparisons", "fixed", "unchanged",
                 "written", "linted", "reread"}
    /\ fixed \subseteq enabled /\ enabled \subseteq Fixable
    /\ (fixed = {}) <=> (tree = read)
    /\ (again = Nil) <=> (phase \notin {"linted", "reread"})
    /\ elsewhere.ok => phase = "reread"
    /\ \A i \in DOMAIN toks : toks[i] \in Tokens

(***************************************************************************)
(* "dropping the first preserves observable behavior": no function whose   *)
(* dead stores are removed computes anything else than before, unless the  *)
(* value that is stored next reads the name itself or may run code that    *)
(* sees it, which scanDeadStoreLiteral does not look for.                  *)
(***************************************************************************)
FixKeepsMeaning ==
    phase = "comparisons" =>
        \A pair \in ToSet(Zip(Functions(read), Functions(tree))) :
            \/ Meaning(pair[1]) = Meaning(pair[2])
            \/ SeenBetween(pair[1])

(***************************************************************************)
(* The file that is written is the tree that was fixed, to both parsers.   *)
(* The one way in which a fix breaks a file is to remove all of a          *)
(* `finally` that has no handlers before it: v1 reads even that, v2 and    *)
(* Python do not.                                                          *)
(***************************************************************************)
FixedFileStands ==
    /\ phase = "failed" => read = Nil
    /\ phase = "linted" => again = WithPasses(tree)
    /\ phase = "reread" => IF elsewhere.ok THEN elsewhere.t = WithPasses(tree) ELSE BareTry(tree)

(***************************************************************************)
(* After --fix none of the diagnostics is left that the enabled fixes are  *)
(* for, and there are no new ones, but for two: `is` with a literal where  *)
(* there was ==, and an undefined name where an import went that a         *)
(* function, class or comprehension reads.                                 *)
(***************************************************************************)
FixAddsNothing ==
    phase = "linted" =>
        LET before == Lint(read)
            after == Lint(again)
        IN  /\ {d \in after : d.code \in {"F401", "E711", "E712"} \cap enabled} = {}
            /\ \A d \in after \ before :
                  \/ d.code = "F632" /\ IsForLiteral(read)
                  \/ d.code = "F821" /\ d.name \in ImportedIn(read) \ ImportedIn(tree)

(***************************************************************************)
(* F841 "fires when a local in a function or lambda body is bound by a     *)
(* plain assignment (Assign / AnnAssign with a value / NamedExpr walrus)   *)
(* and never read."  What is reported is such a local, and all such locals *)
(* are reported, wherever the function is defined, but for these: a local  *)
(* that only a closure reads is reported; one that is bound by a walrus or *)
(* in a chain only is not, and so neither is any of a lambda; and a        *)
(* function or class may be taken for one of the same name and scope that  *)
(* stands before it in another block, so nothing is said of its locals.    *)
(***************************************************************************)
ReportedLocalIsUnread ==
    phase = "imports" =>
        LET reported == UnusedLocals(Build(read), read)
            unread == UnreadLocals(read)
        IN  /\ \A local \in reported \ unread : ReadByClosure(local) \/ InRepeated(local)
            /\ \A local \in unread \ reported : OnlyInExpression(local) \/ InRepeated(local)
=============================================================================
