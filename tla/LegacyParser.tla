---------------------------- MODULE LegacyParser ----------------------------
(***************************************************************************)
(* The v1 front end: the grammar of legacy/parser/, with the parsing that  *)
(* participle makes of its tags, and the lowering of ast/emit.go and       *)
(* ast/match.go.  A rule tries its alternatives in order and stays with    *)
(* the first that matches; what is optional or repeated is taken as far as *)
(* it goes.  (The lookahead of 96 tokens is out of reach of short files.)  *)
(* A rule of the grammar is an operator of that name from a position to a  *)
(* result; the nodes are made by the operators Emit... .                   *)
(***************************************************************************)
EXTENDS Syntax

RECURSIVE Binary(_, _)
RECURSIVE Item(_, _)
\* The rules that contain themselves, each by the name of the rule.
AnExpression(i) == Item("Expression", i)
AFactor(i) == Item("Factor", i)
APattern(i) == Item("Pattern", i)
AStatement(i) == Item("Statement", i)
ADisjunction(i) == Item("Disjunction", i)
AnInversion(i) == Item("Inversion", i)
ASimpleStmt(i) == Item("SimpleStmt", i)
ABlock(i) == Item("Block", i)
ABitOr(i) == Item("BitOr", i)
\* The first of these rules that matches.
RECURSIVE FirstOf(_, _)
FirstOf(rules, i) ==
    IF rules = <<>> THEN Fail
    ELSE LET r == Item(Head(rules), i) IN IF r.ok THEN r ELSE FirstOf(Tail(rules), i)

\* emit.go: the degraded value of a part that the grammar left out.
placeholderExpr == Constant("None")

NAME(i) == IF IsName(At(i)) THEN Ok(Name(At(i)), i + 1) ELSE Fail
OptionalName(i) == Optional(NAME(i), i)
\* 'as' NAME, or nothing: the name as text.
AsName(i) ==
    IF At(i) = "as" /\ IsName(At(i + 1)) THEN Ok(At(i + 1), i + 2) ELSE Ok("", i)

-----------------------------------------------------------------------------
(* Expressions: grammar_expr.go.                                           *)

StarOrExpr(i) == Map(After(i, "*", AnExpression), Starred) ?? AnExpression(i)

WalrusExpr(i) ==
    IF IsName(At(i)) /\ At(i + 1) = ":="
    THEN Map(AnExpression(i + 2), LAMBDA v : N("NamedExpr", <<Name(At(i)), v>>))
    ELSE Fail

\* The body of an expression, maybe followed by `if` and `else`.
Conditional(i) ==
    Then(ADisjunction(i), LAMBDA body :
        Then(After(body.i, "if", ADisjunction), LAMBDA test :
            Map(After(test.i, "else", AnExpression), LAMBDA orelse :
                IfExp(body.t, test.t, orelse)))
        ?? body)

\* An item for each comma, as long as the rule matches; a first one before them.
RECURSIVE Rest(_, _, _)
Rest(rule, i, elts) ==
    LET r == After(i, ",", LAMBDA j : Item(rule, j))
    IN  IF r.ok THEN Rest(rule, r.i, Append(elts, r.t)) ELSE Ok(elts, i)
ListOf(rule, i) == Then(Item(rule, i), LAMBDA h : Rest(rule, h.i, <<h.t>>))
\* As many times as it matches.
RECURSIVE Many(_, _, _)
Many(rule, i, elts) ==
    LET r == Item(rule, i)
    IN  IF r.ok THEN Many(rule, r.i, Append(elts, r.t)) ELSE Ok(elts, i)

\* emitYield: a comma behind a single value is not looked at.
EmitYield(values) ==
    N("Yield", IF Len(values) = 1 THEN values ELSE <<Tuple(values)>>)
YieldExpr(i) ==
    LET from == IF At(i + 1) = "from" THEN AnExpression(i + 2) ELSE Fail
        list == ListOf("StarOrExpr", i + 1)
    IN  IF At(i) # "yield" THEN Fail
        ELSE Map(from, LAMBDA v : N("YieldFrom", <<v>>))
             ?? (IF list.ok THEN Ok(EmitYield(list.t), SkipComma(list.i)) ELSE Fail)
             ?? Ok(N("Yield", <<>>), i + 1)

\* Parameters of def and lambda: every part of one is optional.
Param(i, annotated) ==
    LET kind == IF At(i) \in {"/", "*", "**"} THEN At(i) ELSE ""
        name == OptionalName(IF kind = "" THEN i ELSE i + 1)
        star == At(name.i + 1) = "*"
        annot == IF annotated /\ At(name.i) = ":"
                 THEN Map(AnExpression(IF star THEN name.i + 2 ELSE name.i + 1),
                          LAMBDA e : IF star THEN Starred(e) ELSE e)
                 ELSE Fail
        a == Optional(annot, name.i)
        default == Optional(After(a.i, "=", AnExpression), a.i)
    IN  Ok(Op("param", kind, <<name.t, a.t, default.t>>), default.i)

RECURSIVE Params(_, _, _)
Params(i, annotated, params) ==
    LET p == Param(i, annotated)
        all == Append(params, p.t)
    IN  IF At(p.i) = "," THEN Params(p.i + 1, annotated, all) ELSE Ok(all, p.i)

\* emitArguments: / turns what came before it into positional-only parameters,
\* * what comes after it into keyword-only ones.
EmitArguments(params) ==
    LET ParamArg(p) == Arg(p.c[1].op, p.c[2])
        Plain(ps) == SelectSeq(ps, LAMBDA p : p.op = "" /\ p.c[1] # Nil)
        Of(kind) == SelectSeq(params, LAMBDA p : p.op = kind)
        LastOf(kind) ==
            LET named == SelectSeq(Of(kind), LAMBDA p : p.c[1] # Nil)
            IN  IF named = <<>> THEN Nil ELSE ParamArg(named[Len(named)])
        At1(kind) == {i \in DOMAIN params : params[i].op = kind}
        star == IF At1("*") = {} THEN Len(params) + 1 ELSE CHOOSE i \in At1("*") : \A j \in At1("*") : i <= j
        slash == IF At1("/") = {} THEN 0 ELSE CHOOSE i \in At1("/") : \A j \in At1("/") : i >= j
        positional == Plain(SubSeq(params, 1, star - 1))
        before == Plain(SubSeq(params, 1, IF slash < star THEN slash ELSE star - 1))
        kwonly == Plain(SubSeq(params, star, Len(params)))
        Defaults(ps) == [i \in DOMAIN ps |-> ps[i].c[3]]
        Args(ps) == [i \in DOMAIN ps |-> ParamArg(ps[i])]
    IN  Arguments(Args(before),
                  Args(SubSeq(positional, Len(before) + 1, Len(positional))),
                  SelectSeq(Defaults(positional), LAMBDA d : d # Nil),
                  LastOf("*"), Args(kwonly), Defaults(kwonly), LastOf("**"))

Lambda1(i) ==
    IF At(i) # "lambda" THEN Fail
    ELSE Then(Item("LambdaParams", i + 1), LAMBDA ps :
            Map(After(ps.i, ":", AnExpression), LAMBDA body :
                Lambda(EmitArguments(ps.t), body)))

Expression(i) == YieldExpr(i) ?? WalrusExpr(i) ?? Lambda1(i) ?? Conditional(i)

\* Disjunction and Conjunction: a head and what follows each further word.
RECURSIVE Chain(_, _, _)
Operand(word, i) ==
    IF word = "or" THEN Then(AnInversion(i), LAMBDA r : Chain("and", r.i, <<r.t>>)) ELSE AnInversion(i)
EmitChain(word, values) == IF Len(values) = 1 THEN values[1] ELSE Op("BoolOp", word, values)
Chain(word, i, values) ==
    LET r == IF At(i) = word THEN Operand(word, i + 1) ELSE Fail
    IN  IF r.ok THEN Chain(word, r.i, Append(values, r.t)) ELSE Ok(EmitChain(word, values), i)
Disjunction(i) == Then(Operand("or", i), LAMBDA r : Chain("or", r.i, <<r.t>>))

\* CmpRight: `not in`, `is` and `is not` are read word by word.
CmpOp(i) ==
    CASE At(i) = "not" /\ At(i + 1) = "in" -> Ok("not in", i + 2)
      [] At(i) = "is" -> IF At(i + 1) = "not" THEN Ok("is not", i + 2) ELSE Ok("is", i + 1)
      [] At(i) \in Comparisons \cup {"in"} -> Ok(At(i), i + 1)
      [] OTHER -> Fail
RECURSIVE CmpRights(_, _)
CmpRights(i, tail) ==
    LET r == Then(CmpOp(i), LAMBDA o : Map(ABitOr(o.i), LAMBDA e : Op("cmp", o.t, <<e>>)))
    IN  IF r.ok THEN CmpRights(r.i, Append(tail, r.t)) ELSE Ok(tail, i)
EmitComparison(head, tail) == IF tail = <<>> THEN head ELSE N("Compare", <<head>> \o tail)
Comparison(i) ==
    Then(ABitOr(i), LAMBDA h : Map(CmpRights(h.i, <<>>), LAMBDA tail : EmitComparison(h.t, tail)))

Inversion(i) ==
    Map(After(i, "not", AnInversion), LAMBDA e : Op("UnaryOp", "not", <<e>>))
    ?? Comparison(i)

\* BitOr, BitXor, BitAnd, Shift, Sum and Term: a list that is folded to the left.
RECURSIVE BinaryTail(_, _, _)
EmitBinary(left, op, right) == BinOp(op, left, right)
BinaryTail(level, i, left) ==
    LET r == IF At(i) \in BinaryLevels[level] THEN Binary(level + 1, i + 1) ELSE Fail
    IN  IF r.ok THEN BinaryTail(level, r.i, EmitBinary(left, At(i), r.t)) ELSE Ok(left, i)
Binary(level, i) ==
    IF level > Len(BinaryLevels) THEN AFactor(i)
    ELSE Then(Binary(level + 1, i), LAMBDA r : BinaryTail(level, r.i, r.t))

-----------------------------------------------------------------------------
(* Targets and comprehensions.                                             *)

TargetAtom(i) == IF At(i) = "*" THEN Map(ABitOr(i + 1), Starred) ELSE ABitOr(i)
RECURSIVE TargetTail(_, _)
TargetTail(i, elts) ==
    LET r == IF At(i) = "," /\ At(i + 1) # "in" THEN TargetAtom(i + 1) ELSE Fail
    IN  IF r.ok THEN TargetTail(r.i, Append(elts, r.t)) ELSE Ok(elts, i)
EmitTargetList(elts, trail) == IF Len(elts) = 1 /\ ~trail THEN elts[1] ELSE Tuple(elts)
TargetList(i) ==
    Then(TargetAtom(i), LAMBDA h : Then(TargetTail(h.i, <<h.t>>), LAMBDA r :
        Ok(EmitTargetList(r.t, At(r.i) = ","), SkipComma(r.i))))

CompIfs(i) == Many("CompIf", i, <<>>)
CompFor(i) ==
    LET async == At(i) = "async"
        j == IF async THEN i + 1 ELSE i
    IN  Then(IF At(j) = "for" THEN Close(TargetList(j + 1), "in") ELSE Fail, LAMBDA target :
            Then(ADisjunction(target.i), LAMBDA iter :
                Map(CompIfs(iter.i), LAMBDA ifs :
                    Comprehension(IF async THEN "async" ELSE "", target.t, iter.t, ifs))))
CompFors(i) == Many("CompFor", i, <<>>)

-----------------------------------------------------------------------------
(* Atoms and what follows them.                                            *)

\* An element of what is between brackets.
Argument(i) ==
    Map(After(i, "**", AnExpression), LAMBDA v : Keyword("", v))
    ?? Map(After(i, "*", AnExpression), Starred)
    ?? Map(IF IsName(At(i)) /\ At(i + 1) = "=" THEN AnExpression(i + 2) ELSE Fail,
           LAMBDA v : Keyword(At(i), v))
    ?? AnExpression(i)
DictItemOrExpr(i) ==
    Map(After(i, "**", AnExpression), LAMBDA v : N("unpack", <<v>>))
    ?? Map(After(i, "*", AnExpression), Starred)
    ?? Then(AnExpression(i), LAMBDA k :
           Map(After(k.i, ":", AnExpression), LAMBDA v : N("pair", <<k.t, v>>))
           ?? k)
\* Nothing, or a first element and then comprehension clauses, more elements or a
\* comma: CallArgs, ListLit, DictOrSetLit and ParenLit.
Bracketed(rule, i, closer) ==
    LET first == Item(rule, i)
        comp == CompFors(first.i)
        rest == Rest(rule, first.i, <<first.t>>)
        trail == At(rest.i) = ","
    IN  Close(IF ~first.ok THEN Ok([elts |-> <<>>, comp |-> <<>>, trail |-> FALSE], i)
              ELSE IF comp.t # <<>> THEN Ok([elts |-> <<first.t>>, comp |-> comp.t, trail |-> FALSE], comp.i)
              ELSE Ok([elts |-> rest.t, comp |-> <<>>, trail |-> trail], SkipComma(rest.i)),
              closer)

\* emitCallArgs and emitArgList.
EmitArgList(elts, kind) == SelectSeq(elts, LAMBDA e : (e.k = "keyword") = (kind = "keyword"))
EmitCall(func, b) ==
    LET elt == IF b.elts # <<>> /\ b.elts[1].k \in {"keyword", "Starred"} THEN placeholderExpr ELSE b.elts[1]
    IN  IF b.comp # <<>> THEN Call(func, <<N("GeneratorExp", <<elt>> \o b.comp)>>, <<>>)
        ELSE Call(func, EmitArgList(b.elts, "arg"), EmitArgList(b.elts, "keyword"))

EmitList(b) ==
    IF b.comp # <<>> THEN N("ListComp", b.elts \o b.comp) ELSE N("List", b.elts)

\* The first item tells a dict from a set; what does not fit is dropped or unwrapped.
EmitDictOrSet(b) ==
    LET isDict == b.elts = <<>> \/ b.elts[1].k \in {"unpack", "pair"}
        Elt(e) == IF e.k \in {"unpack", "pair"} THEN e.c[1] ELSE e
    IN  CASE b.comp # <<>> /\ isDict ->
                N("DictComp", (IF b.elts[1].k = "pair" THEN b.elts[1].c
                               ELSE <<placeholderExpr, placeholderExpr>>) \o b.comp)
          [] b.comp # <<>> /\ ~isDict -> N("SetComp", b.elts \o b.comp)
          [] b.comp = <<>> /\ isDict -> N("Dict", SelectSeq(b.elts, LAMBDA e : e.k \in {"unpack", "pair"}))
          [] b.comp = <<>> /\ ~isDict -> N("Set", [i \in DOMAIN b.elts |-> Elt(b.elts[i])])

EmitParen(b) ==
    CASE b.comp # <<>> -> N("GeneratorExp", b.elts \o b.comp)
      [] b.comp = <<>> /\ Len(b.elts) = 1 /\ ~b.trail /\ b.elts[1].k # "Starred" -> b.elts[1]
      [] OTHER -> Tuple(b.elts)

\* : upper? (: step?)?
SliceTail(i) ==
    LET upper == Optional(AnExpression(i + 1), i + 1)
        step == IF At(upper.i) = ":" THEN Optional(AnExpression(upper.i + 1), upper.i + 1)
                ELSE Ok(Nil, upper.i)
    IN  IF At(i) = ":" THEN Ok(<<upper.t, step.t>>, step.i) ELSE Fail
EmitSubscript(lower, tail) == Slice(lower, tail[1], tail[2])
Subscript(i) ==
    Map(After(i, "*", AnExpression), Starred)
    ?? Then(AnExpression(i), LAMBDA e : Map(SliceTail(e.i), LAMBDA tail : EmitSubscript(e.t, tail)) ?? e)
    ?? Map(SliceTail(i), LAMBDA tail : EmitSubscript(Nil, tail))
\* emitSubscriptList: a comma behind a single subscript is not looked at.
EmitSubscriptList(items) ==
    IF Len(items) = 1 /\ items[1].k # "Starred" THEN items[1] ELSE Tuple(items)
SubscriptList(i) ==
    Then(ListOf("Subscript", i), LAMBDA r : Ok(EmitSubscriptList(r.t), SkipComma(r.i)))

RECURSIVE Strings(_)
Strings(i) == IF At(i) = "s" THEN Strings(i + 1) ELSE i

Atom(i) ==
    LET tok == At(i)
    IN  CASE IsName(tok) \/ tok \in {"1", "..."} -> Ok(NameOrConstant(tok), i + 1)
          [] tok = "s" -> Ok(Constant("s"), Strings(i))
          [] tok = "[" -> Map(Bracketed("StarOrExpr", i + 1, "]"), EmitList)
          [] tok = "{" -> Map(Bracketed("DictItemOrExpr", i + 1, "}"), EmitDictOrSet)
          [] tok = "(" -> Map(Bracketed("StarOrExpr", i + 1, ")"), EmitParen)
          [] OTHER -> Fail

Trailer(e, i) ==
    CASE At(i) = "." -> IF IsName(At(i + 1)) THEN Ok(Attribute(e, At(i + 1)), i + 2) ELSE Fail
      [] At(i) = "(" -> Map(Bracketed("Argument", i + 1, ")"), LAMBDA b : EmitCall(e, b))
      [] At(i) = "[" -> Map(Close(SubscriptList(i + 1), "]"), LAMBDA s : N("Subscript", <<e, s>>))
      [] OTHER -> Fail
RECURSIVE Trailers(_, _)
Trailers(e, i) == LET r == Trailer(e, i) IN IF r.ok THEN Trailers(r.t, r.i) ELSE Ok(e, i)
Primary(i) == Then(Atom(i), LAMBDA a : Trailers(a.t, a.i))

AwaitPrimary(i) ==
    IF At(i) = "await" THEN Map(Primary(i + 1), LAMBDA e : N("Await", <<e>>)) ELSE Primary(i)

\* Power: ** groups to the right.
Power(i) ==
    Then(AwaitPrimary(i), LAMBDA base :
        Map(After(base.i, "**", AFactor), LAMBDA exp :
            BinOp("**", base.t, exp)) ?? base)
Factor(i) ==
    Map(IF At(i) \in {"+", "-", "~"} THEN AFactor(i + 1) ELSE Fail,
        LAMBDA e : Op("UnaryOp", At(i), <<e>>))
    ?? Power(i)

-----------------------------------------------------------------------------
(* Simple statements: grammar.go.                                          *)

\* One element stands for itself, unless a comma follows it.
EmitTuple(elts, trail) == IF Len(elts) = 1 /\ ~trail THEN elts[1] ELSE Tuple(elts)
\* r, a list, and the comma that may follow it.
Trail(r, Emit(_, _)) ==
    Then(r, LAMBDA list : Ok(Emit(list.t, At(list.i) = ","), SkipComma(list.i)))

\* emitAssignTarget: a star alone makes a tuple as well.
EmitAssignTarget(elts, trail) == EmitTuple(elts, trail \/ elts[1].k = "Starred")
AssignTarget(i) == Trail(ListOf("StarOrExpr", i), EmitAssignTarget)

ReturnStmt(i) ==
    After(i, "return", LAMBDA j :
        Map(Trail(ListOf("StarOrExpr", j), EmitTuple), LAMBDA v : N("Return", <<v>>))
        ?? Ok(N("Return", <<>>), j))

RaiseStmt(i) ==
    After(i, "raise", LAMBDA j :
        LET exc == Optional(AnExpression(j), j)
            cause == IF exc.t = Nil THEN exc ELSE Optional(After(exc.i, "from", AnExpression), exc.i)
        IN  Ok(N("Raise", <<exc.t, IF cause.i = exc.i THEN Nil ELSE cause.t>>), cause.i))

DelStmt(i) ==
    After(i, "del", LAMBDA j :
        Trail(ListOf("Expression", j), LAMBDA elts, trail : N("Delete", elts)))

GlobalStmt(i, kind, word) ==
    After(i, word, LAMBDA j : Map(ListOf("NAME", j), LAMBDA names : N(kind, names)))

AssertStmt(i) ==
    After(i, "assert", LAMBDA j :
        Then(AnExpression(j), LAMBDA test :
            Map(Optional(After(test.i, ",", AnExpression), test.i), LAMBDA msg :
                N("Assert", <<test.t, msg>>))))

RECURSIVE Dotted(_, _)
Dotted(i, names) ==
    IF At(i) = "." /\ IsName(At(i + 1)) THEN Dotted(i + 2, Append(names, Name(At(i + 1))))
    ELSE Ok(names, i)
\* A name, and those that follow behind dots.
Names(i) == Then(NAME(i), LAMBDA head : Dotted(head.i, <<head.t>>))
WithAs(r) ==
    Then(r, LAMBDA n : Map(AsName(n.i), LAMBDA asname : Alias(DottedName(n.t), asname)))
DottedAsName(i) == WithAs(Names(i))
ImportAs(i) == WithAs(Map(NAME(i), LAMBDA name : <<name>>))
ImportStmt(i) ==
    After(i, "import", LAMBDA j :
        Map(ListOf("DottedAsName", j), LAMBDA names : N("Import", names)))

\* The dots of a relative import, counted as emitFrom does.
RECURSIVE Level(_, _)
Level(i, dots) ==
    CASE At(i) = "." -> Level(i + 1, dots + 1)
      [] At(i) = "..." -> Level(i + 1, dots + 3)
      [] OTHER -> Ok(dots, i)
FromNames(i) ==
    IF At(i) = "*" THEN Ok(<<>>, i + 1)
    ELSE After(i, "(", LAMBDA j :
            Close(Trail(ListOf("ImportAs", j), LAMBDA names, trail : names), ")"))
         ?? ListOf("ImportAs", i)
FromStmt(i) ==
    After(i, "from", LAMBDA j :
        LET dots == Level(j, 0)
            module == IF At(dots.i) = "import" THEN Ok(<<>>, dots.i)
                      ELSE Names(dots.i) ?? Ok(<<>>, dots.i)
        IN  Map(After(module.i, "import", FromNames), LAMBDA names :
                ImportFrom(dots.t, module.t, names)))

YieldStmt(i) == Map(YieldExpr(i), LAMBDA e : N("Expr", <<e>>))

\* The parameters of a def, a class or a type, if it has any.
TypeParamKind(star) ==
    CASE star = "*" -> "TypeVarTuple" [] star = "**" -> "ParamSpec" [] OTHER -> "TypeVar"
TypeParamItem(i) ==
    LET star == IF At(i) \in {"*", "**"} THEN At(i) ELSE ""
        name == NAME(IF star = "" THEN i ELSE i + 1)
        bound == Optional(After(name.i, ":", AnExpression), name.i)
        starred == At(bound.i + 1) = "*"
        default == Optional(
            After(bound.i, "=", LAMBDA j :
                IF starred THEN Map(AnExpression(j + 1), Starred) ELSE AnExpression(j)), bound.i)
    IN  IF name.ok
        THEN Ok(TypeParam(TypeParamKind(star), name.t.op, IF star = "" THEN bound.t ELSE Nil, default.t),
                default.i)
        ELSE Fail
TypeParams(i) ==
    After(i, "[", LAMBDA j :
        Close(Trail(ListOf("TypeParam", j), LAMBDA params, trail : params), "]"))
    ?? Ok(<<>>, i)

TypeAliasStmt(i) ==
    After(i, "type", LAMBDA j :
        Then(NAME(j), LAMBDA name :
            Then(Item("TypeParams", name.i), LAMBDA params :
                Map(After(params.i, "=", AnExpression), LAMBDA value :
                    TypeAlias(name.t, params.t, value)))))

\* What emitAssign makes of the targets that = separates: the last is the value.
RECURSIVE MoreTargets(_, _)
MoreTargets(i, targets) ==
    LET r == After(i, "=", AssignTarget)
    IN  IF r.ok THEN MoreTargets(r.i, Append(targets, r.t)) ELSE Ok(targets, i)
EmitAssign(all) == Assign(SubSeq(all, 1, Len(all) - 1), all[Len(all)])
AugValue(i) ==
    IF At(i) \in AugTokens
    THEN Trail(ListOf("Expression", i + 1), LAMBDA elts, trail : EmitTuple(elts, FALSE))
    ELSE Fail
\* Behind an annotation, an operator or more targets are read and dropped.
AssignStmt(i) ==
    Then(AssignTarget(i), LAMBDA target :
        LET annot == After(target.i, ":", AnExpression)
            value == Optional(After(annot.i, "=", AssignTarget), annot.i)
            j == IF annot.ok THEN value.i ELSE target.i
            aug == AugValue(j)
            more == MoreTargets(j, <<target.t>>)
            end == IF aug.ok THEN aug.i ELSE more.i
        IN  CASE annot.ok ->
                    Ok(AnnAssign(target.t, annot.t, value.t, target.t.k = "Name"), end)
              [] ~annot.ok /\ aug.ok -> Ok(AugAssign(target.t, AugOp(At(j)), aug.t), end)
              [] ~annot.ok /\ ~aug.ok /\ Len(more.t) > 1 -> Ok(EmitAssign(more.t), end)
              [] OTHER -> Ok(N("Expr", <<target.t>>), end))

Word(i, word, kind) == IF At(i) = word THEN Ok(N(kind, <<>>), i + 1) ELSE Fail

SimpleStmt(i) ==
    FirstOf(<<"Return", "Pass", "Break", "Continue", "Raise", "Del", "Global", "Nonlocal",
              "Assert", "Import", "From", "Yield", "TypeAlias", "Assign">>, i)

RECURSIVE MoreSimple(_, _)
MoreSimple(i, stmts) ==
    LET r == After(i, ";", ASimpleStmt)
    IN  IF r.ok THEN MoreSimple(r.i, Append(stmts, r.t)) ELSE Ok(stmts, i)
SimpleStmts(i) ==
    Then(ASimpleStmt(i), LAMBDA first : Then(MoreSimple(first.i, <<first.t>>), LAMBDA r :
        Close(IF At(r.i) = ";" THEN Ok(r.t, r.i + 1) ELSE r, "NEWLINE")))

-----------------------------------------------------------------------------
(* Patterns: ast/match.go.                                                 *)

PatDotted(names) ==
    FoldLeft(LAMBDA e, name : Attribute(e, name.op), Head(names), Tail(names))

\* A list between brackets, with a comma behind it or without, or nothing.
PatternList(rule, i, closer) ==
    Close(Trail(ListOf(rule, i), LAMBDA elts, trail : elts) ?? Ok(<<>>, i), closer)

PatternArg(i) ==
    Then(NAME(i), LAMBDA name :
        Map(After(name.i, "=", APattern), LAMBDA p : Op("kwd", name.t.op, <<p>>)))
    ?? APattern(i)
EmitClassPattern(cls, args) ==
    N("MatchClass", <<cls, N("patterns", SelectSeq(args, LAMBDA a : a.k # "kwd")),
                      N("kwds", SelectSeq(args, LAMBDA a : a.k = "kwd"))>>)
ClassPattern(i) ==
    Then(Names(i), LAMBDA names :
        Map(After(names.i, "(", LAMBDA j : PatternList("PatternArg", j, ")")), LAMBDA args :
            EmitClassPattern(PatDotted(names.t), args)))

ValuePattern(i) ==
    Then(Names(i), LAMBDA names :
        IF Len(names.t) = 1 THEN Fail ELSE Ok(N("MatchValue", <<PatDotted(names.t)>>), names.i))

EmitStar(name) == Op("MatchStar", IF name = "_" THEN "" ELSE name, <<>>)
SeqItem(i) ==
    After(i, "*", LAMBDA j : Map(NAME(j), LAMBDA name : EmitStar(name.op))) ?? APattern(i)
\* In parentheses, a sequence of one needs its comma.
SeqPattern(i) ==
    Map(After(i, "[", LAMBDA j : PatternList("SeqItem", j, "]"))
        ?? After(i, "(", LAMBDA j :
               Then(SeqItem(j), LAMBDA head :
                   Map(After(head.i, ",", LAMBDA k : PatternList("SeqItem", k, ")")), LAMBDA rest :
                       <<head.t>> \o rest))
               ?? Close(Ok(<<>>, j), ")")),
        LAMBDA items : N("MatchSequence", items))

\* A number, or one and an imaginary part behind a sign.
Signed(i) == IF At(i) \in {"+", "-"} THEN i + 1 ELSE i
Number(i, Imag(_, _)) ==
    LET j == Signed(i)
        re == IF j = i THEN Constant("1") ELSE Op("UnaryOp", At(i), <<Constant("1")>>)
    IN  CASE At(j) = "1" /\ At(j + 1) \in {"+", "-"} /\ At(j + 2) = "1" ->
                Ok(Imag(re, At(j + 1)), j + 3)
          [] At(j) = "1" /\ ~(At(j + 1) \in {"+", "-"} /\ At(j + 2) = "1") -> Ok(re, j + 1)
          [] OTHER -> Fail
\* The sign before anything but a number is dropped.
Text(i) ==
    LET j == Signed(i)
    IN  CASE At(j) = "s" -> Ok(Constant("s"), Strings(j))
          [] At(j) \in Constants -> Ok(Constant(At(j)), j + 1)
          [] OTHER -> Fail

MapKey(i) ==
    Number(i, LAMBDA re, sign : BinOp(sign, re, Constant("1"))) ?? Text(i) ?? Map(Names(Signed(i)), PatDotted)
MapItem(i) ==
    After(i, "**", LAMBDA j : Map(NAME(j), LAMBDA name : Op("rest", name.op, <<>>)))
    ?? Then(MapKey(i), LAMBDA key :
           Map(After(key.i, ":", APattern), LAMBDA p : N("item", <<key.t, p>>)))
EmitMapPattern(items) ==
    LET rests == SelectSeq(items, LAMBDA e : e.k = "rest")
    IN  Op("MatchMapping", IF rests = <<>> THEN "" ELSE rests[Len(rests)].op,
           SelectSeq(items, LAMBDA e : e.k = "item"))
MapPattern(i) ==
    After(i, "{", LAMBDA j : Map(PatternList("MapItem", j, "}"), EmitMapPattern))

\* The grammar catches the sign with the imaginary part, not as the operator.
LitPattern(i) ==
    Map(Number(i, LAMBDA re, sign : BinOp("+", re, Constant(IF sign = "-" THEN "-1" ELSE "1"))),
        LAMBDA e : N("MatchValue", <<e>>))
    ?? Map(Text(i), LAMBDA e : N(IF e.op = "s" THEN "MatchValue" ELSE "MatchSingleton", <<e>>))

EmitCapture(name) == Op("MatchAs", IF name.op = "_" THEN "" ELSE name.op, <<>>)
ClosedPattern(i) ==
    FirstOf(<<"ClassPattern", "ValuePattern", "SeqPattern", "MapPattern", "LitPattern",
              "Capture", "Paren">>, i)

RECURSIVE OrTail(_, _)
OrTail(i, patterns) ==
    LET r == After(i, "|", ClosedPattern)
    IN  IF r.ok THEN OrTail(r.i, Append(patterns, r.t)) ELSE Ok(patterns, i)
EmitOrPattern(patterns) == IF Len(patterns) = 1 THEN patterns[1] ELSE N("MatchOr", patterns)
OrPattern(i) ==
    Then(ClosedPattern(i), LAMBDA head : Map(OrTail(head.i, <<head.t>>), EmitOrPattern))

Wildcard == Op("MatchAs", "", <<>>)
Pattern(i) ==
    Then(OrPattern(i), LAMBDA p : Map(AsName(p.i), LAMBDA name :
        IF name = "" THEN p.t ELSE Op("MatchAs", name, IF p.t = Wildcard THEN <<>> ELSE <<p.t>>)))

-----------------------------------------------------------------------------
(* Compound statements.                                                    *)

\* The statements of each line: a simple one may hold several.
RECURSIVE Statements(_, _)
Statements(i, stmts) ==
    LET r == AStatement(i)
    IN  IF r.ok THEN Statements(r.i, stmts \o r.t) ELSE Ok(stmts, i)
Block(i) ==
    After2(i, "NEWLINE", "INDENT", LAMBDA j :
        Then(AStatement(j), LAMBDA first : Close(Statements(first.i, first.t), "DEDENT")))
    ?? Item("SimpleStmts", i)
\* The block behind a word and a colon; if the word is missing, no statements.
ClauseBlock(i, word) == After2(i, word, ":", ABlock)
OptionalBlock(i, word) == ClauseBlock(i, word) ?? Ok(<<>>, i)
\* What is between a word and the colon, and the block.
Headed(r, Emit(_, _)) ==
    Then(r, LAMBDA head : Map(After(head.i, ":", ABlock), LAMBDA body : Emit(head.t, body)))

\* emitIf: each elif is the only statement of the else before it.
RECURSIVE IfTail(_)
ElifClause(i) ==
    Then(Headed(After(i, "elif", AnExpression), LAMBDA test, body : <<test, body>>), LAMBDA e :
        Map(IfTail(e.i), LAMBDA orelse : <<If(e.t[1], e.t[2], orelse)>>))
IfTail(i) == ElifClause(i) ?? OptionalBlock(i, "else")
IfStmt(i) ==
    Then(Headed(After(i, "if", AnExpression), LAMBDA test, body : <<test, body>>), LAMBDA s :
        Map(IfTail(s.i), LAMBDA orelse : If(s.t[1], s.t[2], orelse)))

WhileStmt(i) ==
    Then(Headed(After(i, "while", AnExpression), LAMBDA test, body : <<test, body>>), LAMBDA s :
        Map(OptionalBlock(s.i, "else"), LAMBDA orelse : While(s.t[1], s.t[2], orelse)))

\* emitForIter: a comma behind a single value is not looked at.
ForIter(i) ==
    Trail(ListOf("StarOrExpr", i), LAMBDA elts, trail : EmitTuple(elts, elts[1].k = "Starred"))
ForStmt(i, kind) ==
    Then(After(i, "for", LAMBDA j : Close(TargetList(j), "in")), LAMBDA target :
        Then(Headed(ForIter(target.i), LAMBDA iter, body : <<iter, body>>), LAMBDA s :
            Map(OptionalBlock(s.i, "else"), LAMBDA orelse :
                For(kind, target.t, s.t[1], s.t[2], orelse))))

WithItem(i) ==
    Then(AnExpression(i), LAMBDA e :
        Map(Optional(After(e.i, "as", AnExpression), e.i), LAMBDA vars : Withitem(e.t, vars)))
\* The parentheses are those of the statement only if the colon follows.
WithGroup(i) ==
    Then(After(i, "(", LAMBDA j :
             Close(Trail(ListOf("WithItem", j), LAMBDA items, trail : items), ")")),
         LAMBDA r : IF At(r.i) = ":" THEN r ELSE Fail)
WithStmt(i, kind) ==
    Headed(After(i, "with", LAMBDA j : WithGroup(j) ?? ListOf("WithItem", j)),
           LAMBDA items, body : With(kind, items, body))

ExceptClause(i) ==
    After(i, "except", LAMBDA j :
        LET star == At(j) = "*"
            k == IF star THEN j + 1 ELSE j
            type == Optional(Map(ListOf("Expression", k), LAMBDA elts : EmitTuple(elts, FALSE)), k)
            name == IF type.t = Nil THEN Ok("", type.i) ELSE AsName(type.i)
        IN  Map(After(name.i, ":", ABlock), LAMBDA body :
                N(IF star THEN "star" ELSE "", <<ExceptHandler(type.t, name.t, body)>>)))
EmitTry(body, handlers, orelse, finalbody) ==
    Try(IF \E h \in DOMAIN handlers : handlers[h].k = "star" THEN "TryStar" ELSE "Try",
        body, [h \in DOMAIN handlers |-> handlers[h].c[1]], orelse, finalbody)
TryStmt(i) ==
    Then(ClauseBlock(i, "try"), LAMBDA body :
        Then(Many("ExceptClause", body.i, <<>>), LAMBDA handlers :
            Then(OptionalBlock(handlers.i, "else"), LAMBDA orelse :
                Map(OptionalBlock(orelse.i, "finally"), LAMBDA finalbody :
                    EmitTry(body.t, handlers.t, orelse.t, finalbody)))))

CaseItems(i) ==
    Then(ListOf("SeqItem", i), LAMBDA items :
        Ok(IF Len(items.t) = 1 /\ At(items.i) # "," THEN items.t[1] ELSE N("MatchSequence", items.t),
           SkipComma(items.i)))
CaseClause(i) ==
    Then(After(i, "case", CaseItems), LAMBDA pattern :
        LET guard == Optional(After(pattern.i, "if", AnExpression), pattern.i)
        IN  Map(After(guard.i, ":", ABlock), LAMBDA body :
                N("case", <<pattern.t, guard.t, Body(body)>>)))
MatchStmt(i) ==
    Then(Close(Close(Close(After(i, "match", AssignTarget), ":"), "NEWLINE"), "INDENT"), LAMBDA subject :
        Then(Many("CaseClause", subject.i, <<>>), LAMBDA cases :
            IF cases.t = <<>> THEN Fail
            ELSE Close(Ok(N("Match", <<subject.t, N("cases", cases.t)>>), cases.i), "DEDENT")))

\* emitAsyncFuncDef leaves the type parameters out.
EmitFuncDef(kind, name, params, args, returns, body) ==
    FunctionDef(kind, name.op, EmitArguments(args), body, <<>>, returns,
                IF kind = "FunctionDef" THEN params ELSE <<>>)
FuncDef(i, kind) ==
    Then(After(i, "def", NAME), LAMBDA name :
        Then(Item("TypeParams", name.i), LAMBDA params :
            Then(After(params.i, "(", LAMBDA j : Close(Item("Params", j), ")")), LAMBDA args :
                Headed(Optional(After(args.i, "->", AnExpression), args.i), LAMBDA returns, body :
                    EmitFuncDef(kind, name.t, params.t, args.t, returns, body)))))

ClassDef1(i) ==
    Then(After(i, "class", NAME), LAMBDA name :
        Then(Item("TypeParams", name.i), LAMBDA params :
            LET bases == After(params.i, "(", LAMBDA j : PatternList("Argument", j, ")"))
                         ?? Ok(<<>>, params.i)
            IN  Map(After(bases.i, ":", ABlock), LAMBDA body :
                    ClassDef(name.t.op, EmitArgList(bases.t, "arg"), EmitArgList(bases.t, "keyword"),
                             body, <<>>, params.t))))

AsyncStmt(i) ==
    After(i, "async", LAMBDA j : FirstOf(<<"AsyncFuncDef", "AsyncFor", "AsyncWith">>, j))

Decorator(i) == Close(After(i, "@", AnExpression), "NEWLINE")
EmitDecorated(s, decorators) ==
    [s EXCEPT !.c[IF s.k = "ClassDef" THEN 4 ELSE 3] = N("decorators", decorators)]
Decorated(i) ==
    LET decorators == Many("Decorator", i, <<>>)
        j == decorators.i
    IN  IF decorators.t = <<>> THEN Fail
        ELSE Map(After(j, "async", LAMBDA k : Item("AsyncFuncDef", k))
                 ?? FirstOf(<<"FuncDef", "ClassDef">>, j),
                 LAMBDA s : EmitDecorated(s, decorators.t))

CompoundStmt(i) ==
    FirstOf(<<"Async", "Decorated", "If", "While", "For", "With", "Try", "Match", "FuncDef",
              "ClassDef">>, i)

Statement(i) == Map(CompoundStmt(i), LAMBDA s : <<s>>) ?? Item("SimpleStmts", i)

\* The file, up to the end of what the lexer read.
File(i) ==
    Then(Statements(i, <<>>), LAMBDA r : Close(Ok(N("Module", r.t), r.i), "END"))

Item(rule, i) ==
    CASE rule = "Expression" -> Expression(i)
      [] rule = "StarOrExpr" -> StarOrExpr(i)
      [] rule = "Argument" -> Argument(i)
      [] rule = "DictItemOrExpr" -> DictItemOrExpr(i)
      [] rule = "Subscript" -> Subscript(i)
      [] rule = "CompFor" -> CompFor(i)
      [] rule = "CompIf" -> After(i, "if", ADisjunction)
      [] rule = "NAME" -> NAME(i)
      [] rule = "DottedAsName" -> DottedAsName(i)
      [] rule = "ImportAs" -> ImportAs(i)
      [] rule = "Params" -> Params(i, TRUE, <<>>)
      [] rule = "LambdaParams" -> Params(i, FALSE, <<>>)
      [] rule = "TypeParams" -> TypeParams(i)
      [] rule = "TypeParam" -> TypeParamItem(i)
      [] rule = "PatternArg" -> PatternArg(i)
      [] rule = "SeqItem" -> SeqItem(i)
      [] rule = "MapItem" -> MapItem(i)
      [] rule = "WithItem" -> WithItem(i)
      [] rule = "ExceptClause" -> ExceptClause(i)
      [] rule = "CaseClause" -> CaseClause(i)
      [] rule = "Decorator" -> Decorator(i)
      [] rule = "Factor" -> Factor(i)
      [] rule = "Pattern" -> Pattern(i)
      [] rule = "Statement" -> Statement(i)
      [] rule = "Disjunction" -> Disjunction(i)
      [] rule = "Inversion" -> Inversion(i)
      [] rule = "SimpleStmt" -> SimpleStmt(i)
      [] rule = "Block" -> Block(i)
      [] rule = "BitOr" -> Binary(1, i)
      [] rule = "SimpleStmts" -> SimpleStmts(i)
      [] rule = "Return" -> ReturnStmt(i)
      [] rule = "Pass" -> Word(i, "pass", "Pass")
      [] rule = "Break" -> Word(i, "break", "Break")
      [] rule = "Continue" -> Word(i, "continue", "Continue")
      [] rule = "Raise" -> RaiseStmt(i)
      [] rule = "Del" -> DelStmt(i)
      [] rule = "Global" -> GlobalStmt(i, "Global", "global")
      [] rule = "Nonlocal" -> GlobalStmt(i, "Nonlocal", "nonlocal")
      [] rule = "Assert" -> AssertStmt(i)
      [] rule = "Import" -> ImportStmt(i)
      [] rule = "From" -> FromStmt(i)
      [] rule = "Yield" -> YieldStmt(i)
      [] rule = "TypeAlias" -> TypeAliasStmt(i)
      [] rule = "Assign" -> AssignStmt(i)
      [] rule = "ClassPattern" -> ClassPattern(i)
      [] rule = "ValuePattern" -> ValuePattern(i)
      [] rule = "SeqPattern" -> SeqPattern(i)
      [] rule = "MapPattern" -> MapPattern(i)
      [] rule = "LitPattern" -> LitPattern(i)
      [] rule = "Capture" -> Map(NAME(i), EmitCapture)
      [] rule = "Paren" -> After(i, "(", LAMBDA j : Close(APattern(j), ")"))
      [] rule = "Async" -> AsyncStmt(i)
      [] rule = "Decorated" -> Decorated(i)
      [] rule = "If" -> IfStmt(i)
      [] rule = "While" -> WhileStmt(i)
      [] rule = "For" -> ForStmt(i, "For")
      [] rule = "With" -> WithStmt(i, "With")
      [] rule = "Try" -> TryStmt(i)
      [] rule = "Match" -> MatchStmt(i)
      [] rule = "FuncDef" -> FuncDef(i, "FunctionDef")
      [] rule = "AsyncFuncDef" -> FuncDef(i, "AsyncFunctionDef")
      [] rule = "AsyncFor" -> ForStmt(i, "AsyncFor")
      [] rule = "AsyncWith" -> WithStmt(i, "AsyncWith")
      [] rule = "ClassDef" -> ClassDef1(i)
      [] rule = "File" -> File(i)

\* ParseFile of legacy/parser/parser.go.
ParseFile(i) == Item("File", i)
=============================================================================
