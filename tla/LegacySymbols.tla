----------------------------- MODULE LegacySymbols -----------------------------
(***************************************************************************)
(* legacy/symbols: the symbol table of a tree of ast/.  A scope is the     *)
(* sequence of the places where names occur in it, and the scopes inside.  *)
(*                                                                         *)
(* The builder visits a statement in an order of its own and sorts by      *)
(* position whenever the order matters; here the sites are in the order of *)
(* the source from the start.  What is recorded at the position of a whole *)
(* node, a handler's name or that of a pattern, comes before the node.     *)
(***************************************************************************)
EXTENDS Syntax

\* A place: the name is bound or read or both, or declared; decl says how.  host:
\* it is a walrus, which a comprehension leaves to the scope around it.
Site(name, bind, use, decl) ==
    [name |-> name, bind |-> bind, use |-> use, decl |-> decl, host |-> FALSE]
Scope(kind, name, walk) ==
    [kind |-> kind, name |-> name, sites |-> walk.sites, inner |-> walk.inner]

\* What a walk has found in the current scope: its sites and the scopes inside.
Found(sites, inner) == [sites |-> sites, inner |-> inner]
Join(walks) ==
    FoldLeft(LAMBDA a, b : Found(a.sites \o b.sites, a.inner \o b.inner), Found(<<>>, <<>>), walks)

(***************************************************************************)
(* What the builder does with a node, one thing after the other: it walks  *)
(* a part of it as an expression, statement or pattern, or as a target,    *)
(* it records a site (bind, use and declare), or it walks parts of it in a *)
(* scope of their own.                                                     *)
(***************************************************************************)
Use(n) == [what |-> "use", n |-> n]
Bind(n) == [what |-> "bind", n |-> n]
Record(site) == <<[what |-> "site", site |-> site]>>
Push(kind, name, parts) == <<[what |-> "scope", kind |-> kind, name |-> name, parts |-> parts]>>

UseAll(nodes) == [i \in DOMAIN nodes |-> Use(nodes[i])]
BindAll(nodes) == [i \in DOMAIN nodes |-> Bind(nodes[i])]
RecordAll(names, decl) == FlattenSeq([i \in DOMAIN names |-> Record(Site(names[i], decl = "import", FALSE, decl))])
Bound(name) == IF name = "" THEN <<>> ELSE Record(Site(name, TRUE, FALSE, ""))

\* The name an import binds: for a.b.c the first component.
BoundName(alias) == IF alias.op = "" THEN alias.c[1].c[1].op ELSE alias.op
Imports(aliases) == RecordAll([i \in DOMAIN aliases |-> BoundName(aliases[i])], "import")
Declares(names, decl) == RecordAll([i \in DOMAIN names |-> names[i].op], decl)

\* params: the defaults are not among them.
Params(a) ==
    LET args == a.c[1].c \o a.c[2].c \o <<a.c[4]>> \o a.c[5].c \o <<a.c[7]>>
        given == SelectSeq(args, LAMBDA arg : arg # Nil)
    IN  FlattenSeq([i \in DOMAIN given |->
            Append(Record(Site(given[i].op, TRUE, FALSE, "param")), Use(given[i].c[1]))])

\* funcDef: decorators, defaults and the result belong to the scope around.
FunctionParts(n) ==
    LET args == n.c[1]
    IN  <<Use(n.c[3])>> \o Bound(n.op) \o <<Use(args.c[3]), Use(args.c[6]), Use(n.c[4])>>
        \o Push("function", n.op, <<Use(n.c[5])>> \o Params(args) \o <<Use(n.c[2])>>)
ClassParts(n) ==
    <<Use(n.c[4])>> \o Bound(n.op) \o <<Use(n.c[1]), Use(n.c[2])>>
    \o Push("class", n.op, <<Use(n.c[5]), Use(n.c[3])>>)

\* x += 1 binds x and reads it at one place.
AugTarget(t) == IF t.k = "Name" THEN Record(Site(t.op, TRUE, TRUE, "")) ELSE <<Bind(t)>>

Wrappers == {"Tuple", "List", "Starred"}
TargetParts(n) ==
    CASE n.k = "Name" -> Bound(n.op) [] n.k \in Wrappers -> BindAll(n.c) [] OTHER -> <<Use(n)>>
Parts(n) ==
    LET c == n.c
    IN  CASE n.k = "Name" -> Record(Site(n.op, FALSE, TRUE, ""))
          [] n.k = "NamedExpr" ->
                Append(Record([Site(c[1].op, TRUE, FALSE, "") EXCEPT !.host = TRUE]), Use(c[2]))
          [] n.k = "Lambda" -> Push("lambda", "<lambda>", Append(Params(c[1]), Use(c[2])))
          [] n.k = "Assign" -> Append(BindAll(c[1].c), Use(c[2]))
          [] n.k = "AugAssign" -> Append(AugTarget(c[1]), Use(c[2]))
          [] n.k \in {"AnnAssign", "For", "AsyncFor"} -> <<Bind(c[1])>> \o UseAll(Tail(c))
          [] n.k = "withitem" -> <<Use(c[1]), Bind(c[2])>>
          [] n.k = "Delete" -> BindAll(c)
          [] n.k = "TypeAlias" -> <<Bind(c[1]), Use(c[3])>>
          [] n.k = "Import" -> Imports(c)
          [] n.k = "ImportFrom" -> Imports(c[3].c)
          [] n.k = "Global" -> Declares(c, "global")
          [] n.k = "Nonlocal" -> Declares(c, "nonlocal")
          [] n.k \in {"FunctionDef", "AsyncFunctionDef"} -> FunctionParts(n)
          [] n.k = "ClassDef" -> ClassParts(n)
          [] n.k \in {"ExceptHandler", "MatchStar", "MatchAs", "MatchMapping",
                      "TypeVar", "ParamSpec", "TypeVarTuple"} -> Bound(n.op) \o UseAll(c)
          [] OTHER -> UseAll(c)

\* comp: the first iterable is walked in the scope around, and a walrus binds there.
Hosted(site) == site.host
Own(site) == ~Hosted(site)
Comps == {"ListComp", "SetComp", "DictComp", "GeneratorExp"}
Generator(g) == <<Bind(g.c[1])>> \o UseAll(Tail(g.c))
Before(comp) ==
    LET elts == SelectSeq(comp.c, LAMBDA e : e.k # "comprehension")
    IN  Append(UseAll(elts), Bind(comp.c[Len(elts) + 1].c[1]))
FirstIter(comp) == <<Use(SelectSeq(comp.c, LAMBDA e : e.k = "comprehension")[1].c[2])>>
Behind(comp) ==
    LET gens == SelectSeq(comp.c, LAMBDA e : e.k = "comprehension")
    IN  UseAll(SubSeq(gens[1].c, 3, Len(gens[1].c)))
        \o FlattenSeq([i \in 1 .. Len(gens) - 1 |-> Generator(gens[i + 1])])
\* What a comprehension leaves to the scope around, and what it keeps.
Comp(before, iter, behind) ==
    LET Up(walk) == Found(SelectSeq(walk.sites, Hosted), <<>>)
        all == Join(<<before, behind>>)
        scope == Scope("comprehension", "<comp>", [all EXCEPT !.sites = SelectSeq(@, Own)])
    IN  Join(<<Up(before), iter, Up(behind), Found(<<>>, <<scope>>)>>)

RECURSIVE Walk(_)
Walk(parts) ==
    LET One(p) ==
            CASE p.what = "site" -> Found(<<p.site>>, <<>>)
              [] p.what = "scope" -> Found(<<>>, <<Scope(p.kind, p.name, Walk(p.parts))>>)
              [] p.what = "use" /\ p.n.k \in Comps ->
                    Comp(Walk(Before(p.n)), Walk(FirstIter(p.n)), Walk(Behind(p.n)))
              [] p.what \in {"use", "bind"} /\ ~(p.what = "use" /\ p.n.k \in Comps) ->
                    Walk(IF p.what = "bind" THEN TargetParts(p.n) ELSE Parts(p.n))
    IN  Join([i \in DOMAIN parts |-> One(parts[i])])

Build(mod) == Scope("module", "", Walk(UseAll(mod.c)))

-----------------------------------------------------------------------------
(* What the table says of a name.                                          *)

NamesOf(scope) == {site.name : site \in ToSet(scope.sites)}
SitesOf(scope, name) == SelectSeq(scope.sites, LAMBDA site : site.name = name)
HasBound(scope, name) == \E site \in ToSet(SitesOf(scope, name)) : site.bind
HasUsed(scope, name) == \E site \in ToSet(SitesOf(scope, name)) : site.use
HasDecl(scope, name, decls) == \E site \in ToSet(SitesOf(scope, name)) : site.decl \in decls

RECURSIVE ScopesIn(_)
\* A scope and all scopes inside it.
ScopesIn(scope) == {scope} \cup UNION {ScopesIn(scope.inner[i]) : i \in DOMAIN scope.inner}
=============================================================================
