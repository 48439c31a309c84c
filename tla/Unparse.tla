------------------------------- MODULE Unparse -------------------------------
(***************************************************************************)
(* ast/unparse.go: the text of a tree, as the tokens it lexes to.  It is   *)
(* what `gopapy unparse`, the fixes of the linter and the formatting of    *)
(* the language server write.  f-strings are not here.                     *)
(***************************************************************************)
EXTENDS Syntax

\* The precedences, loosest first.
pTuple == 0
pTest == 1
pNamed == 2
pOr == 3
pAnd == 4
pNot == 5
pCmp == 6
pBitOr == 7
pFactor == 13
pPower == 14
pAwait == 15
pAtom == 16

\* opPrec: BinaryLevels begin with pBitOr.
OpPrec(op) ==
    IF op = "**" THEN pPower
    ELSE (CHOOSE l \in DOMAIN BinaryLevels : op \in BinaryLevels[l]) + pBitOr - 1

\* The precedence below which an expression is put in parentheses.
OwnPrec(e) ==
    CASE e.k = "BoolOp" -> IF e.op = "and" THEN pAnd ELSE pOr
      [] e.k = "NamedExpr" -> pNamed
      [] e.k = "BinOp" -> OpPrec(e.op)
      [] e.k = "UnaryOp" -> IF e.op = "not" THEN pNot ELSE pFactor
      [] e.k \in {"Lambda", "IfExp"} -> pTest
      [] e.k = "Await" -> pAwait
      [] e.k = "Compare" -> pCmp
      [] e.k = "Tuple" -> IF Len(e.c) > 1 THEN pTuple ELSE pAtom
      [] OTHER -> pAtom

Concat(seqs) == FoldLeft(LAMBDA a, b : a \o b, <<>>, seqs)
Parens(text) == <<"(">> \o text \o <<")">>
Separated(seqs, sep) ==
    Concat([i \in DOMAIN seqs |-> IF i = 1 THEN seqs[i] ELSE sep \o seqs[i]])
Commas(seqs) == Separated(seqs, <<",">>)

\* Three dots in a row are one token.
Dots(n) == [i \in 1 .. (n \div 3) |-> "..."] \o [i \in 1 .. (n % 3) |-> "."]

\* The texts that contain themselves, each by the name of what it is the text of.
RECURSIVE Text(_, _, _)
Expr(e, prec) == Text("expr", e, prec)
Pattern(p) == Text("pattern", p, 0)
Suite(body) == Text("suite", body, 0)

Exprs(seq, prec) == [i \in DOMAIN seq |-> Expr(seq[i], prec)]
List(seq) == Commas(Exprs(seq, pTest))
\* word and the expression, or nothing.
Given(word, e, prec) == IF e = Nil THEN <<>> ELSE word \o Expr(e, prec)

ExprKeyword(k) == (IF k.op = "" THEN <<"**">> ELSE <<k.op, "=">>) \o Expr(k.c[1], pTest)
CallArguments(args, keywords) ==
    Commas(Exprs(args, pTest) \o [i \in DOMAIN keywords |-> ExprKeyword(keywords[i])])

Comprehensions(gens) ==
    Concat([i \in DOMAIN gens |->
        (IF gens[i].op = "async" THEN <<"async", "for">> ELSE <<"for">>)
        \o Expr(gens[i].c[1], pTuple) \o <<"in">> \o Expr(gens[i].c[2], pOr)
        \o Concat([j \in 1 .. Len(gens[i].c) - 2 |-> <<"if">> \o Expr(gens[i].c[j + 2], pOr)])])

\* arguments; the defaults are those of the last positional parameters.
Arg1(arg, default) ==
    <<arg.op>> \o Given(<<":">>, arg.c[1], pTest) \o Given(<<"=">>, default, pTest)
ExprArguments(a) ==
    LET posonly == a.c[1].c  args == a.c[2].c  defaults == a.c[3].c
        vararg == a.c[4]  kwonly == a.c[5].c  kwdefaults == a.c[6].c  kwarg == a.c[7]
        positional == posonly \o args
        offset == Len(positional) - Len(defaults)
        Positional(i) == Arg1(positional[i], IF i <= offset THEN Nil ELSE defaults[i - offset])
    IN  Commas(
            [i \in DOMAIN posonly |-> Positional(i)]
            \o (IF posonly # <<>> THEN <<<<"/">>>> ELSE <<>>)
            \o [i \in DOMAIN args |-> Positional(Len(posonly) + i)]
            \o (CASE vararg # Nil -> <<<<"*">> \o Arg1(vararg, Nil)>>
                  [] vararg = Nil /\ kwonly # <<>> -> <<<<"*">>>>
                  [] OTHER -> <<>>)
            \o [i \in DOMAIN kwonly |-> Arg1(kwonly[i], kwdefaults[i])]
            \o (IF kwarg # Nil THEN <<<<"**">> \o Arg1(kwarg, Nil)>> ELSE <<>>))

SubscriptTuple(e) == \* mutant: every tuple goes without its parentheses
    IF e.k = "Tuple" THEN List(e.c) ELSE Expr(e, pTest)
\* A tuple of one keeps its parentheses, in subscripts and after `match`.
SubscriptSlice(e) ==
    IF e.k = "Tuple" /\ Len(e.c) > 1 THEN List(e.c) ELSE Expr(e, pTest)
MatchSubject(e) == SubscriptSlice(e)

\* A number with an attribute is put in parentheses.
AttributeValue(e) ==
    IF e = Constant("1") THEN Parens(Expr(e, pAtom)) ELSE Expr(e, pAtom)

\* An expression without the parentheses that its surroundings ask for.
Bare(e) ==
    LET c == e.c
        right == IF e.op = "**" THEN 1 ELSE 0
    IN  CASE e.k \in {"Name", "Constant"} -> <<e.op>>
          [] e.k = "BoolOp" -> Separated(Exprs(c, OwnPrec(e) + 1), <<e.op>>)
          [] e.k = "NamedExpr" -> Expr(c[1], pAtom) \o <<":=">> \o Expr(c[2], pNamed + 1)
          [] e.k = "BinOp" ->
                Expr(c[1], OpPrec(e.op) + right) \o <<e.op>> \o Expr(c[2], OpPrec(e.op) + 1 - right)
          [] e.k = "UnaryOp" -> <<e.op>> \o Expr(c[1], OwnPrec(e))
          [] e.k = "Lambda" -> <<"lambda">> \o ExprArguments(c[1]) \o <<":">> \o Expr(c[2], pTest)
          [] e.k = "IfExp" ->
                Expr(c[1], pTest + 1) \o <<"if">> \o Expr(c[2], pTest + 1)
                \o <<"else">> \o Expr(c[3], pTest)
          [] e.k = "Compare" ->
                Expr(c[1], pCmp + 1)
                \o Concat([i \in 1 .. Len(c) - 1 |->
                       (CASE c[i + 1].op = "not in" -> <<"not", "in">>
                          [] c[i + 1].op = "is not" -> <<"is", "not">>
                          [] OTHER -> <<c[i + 1].op>>) \o Expr(c[i + 1].c[1], pCmp + 1)])
          [] e.k = "Dict" ->
                <<"{">> \o Commas([i \in DOMAIN c |->
                    IF c[i].k = "unpack" THEN <<"**">> \o Expr(c[i].c[1], pBitOr)
                    ELSE Expr(c[i].c[1], pTest) \o <<":">> \o Expr(c[i].c[2], pTest)]) \o <<"}">>
          [] e.k = "Set" -> <<"{">> \o List(c) \o <<"}">>
          [] e.k = "List" -> <<"[">> \o List(c) \o <<"]">>
          [] e.k = "ListComp" -> <<"[">> \o Expr(c[1], pTest) \o Comprehensions(Tail(c)) \o <<"]">>
          [] e.k = "SetComp" -> <<"{">> \o Expr(c[1], pTest) \o Comprehensions(Tail(c)) \o <<"}">>
          [] e.k = "GeneratorExp" -> Parens(Expr(c[1], pTest) \o Comprehensions(Tail(c)))
          [] e.k = "DictComp" ->
                <<"{">> \o Expr(c[1], pTest) \o <<":">> \o Expr(c[2], pTest)
                \o Comprehensions(SubSeq(c, 3, Len(c))) \o <<"}">>
          [] e.k = "Await" ->
                <<"await">> \o (IF c[1].k = "Await" THEN Parens(Expr(c[1], 0)) ELSE Expr(c[1], pAwait))
          [] e.k = "Yield" -> Parens(<<"yield">> \o Concat(Exprs(c, pTuple)))
          [] e.k = "YieldFrom" -> Parens(<<"yield", "from">> \o Expr(c[1], pTest))
          [] e.k = "Call" -> Expr(c[1], pAtom) \o Parens(CallArguments(c[2].c, c[3].c))
          [] e.k = "Attribute" -> AttributeValue(c[1]) \o <<".", e.op>>
          [] e.k = "Subscript" -> Expr(c[1], pAtom) \o <<"[">> \o SubscriptSlice(c[2]) \o <<"]">>
          [] e.k = "Slice" ->
                Given(<<>>, c[1], pTest) \o <<":">> \o Given(<<>>, c[2], pTest)
                \o Given(<<":">>, c[3], pTest)
          [] e.k = "Starred" -> <<"*">> \o Expr(c[1], pAtom)
          [] e.k = "Tuple" /\ Len(c) # 1 -> IF c = <<>> THEN <<"(", ")">> ELSE List(c)
          [] e.k = "Tuple" /\ Len(c) = 1 -> Parens(Expr(c[1], pTest) \o <<",">>)

ExprText(e, prec) == IF prec > OwnPrec(e) THEN Parens(Bare(e)) ELSE Bare(e)

-----------------------------------------------------------------------------
(* Statements.                                                             *)

TypeParamList(params) ==
    LET One(p) ==
            (CASE p.k = "TypeVar" -> <<>> [] p.k = "ParamSpec" -> <<"**">>
               [] p.k = "TypeVarTuple" -> <<"*">>)
            \o <<p.op>> \o Given(<<":">>, p.c[1], pTest) \o Given(<<"=">>, p.c[2], pTest)
    IN  IF params = <<>> THEN <<>>
        ELSE <<"[">> \o Commas([i \in DOMAIN params |-> One(params[i])]) \o <<"]">>

As(name) == IF name = "" THEN <<>> ELSE <<"as", name>>
\* A dotted name, and the names that import and from bring in.
Dotted(names) == Separated([i \in DOMAIN names |-> <<names[i].op>>], <<".">>)
WriteAlias(a) == Dotted(a.c[1].c) \o As(a.op)
Aliases(names) == Commas([i \in DOMAIN names |-> WriteAlias(names[i])])

TupleHasStarred(e) == e.k = "Tuple" /\ \E i \in DOMAIN e.c : e.c[i].k = "Starred"

\* A negative imaginary part is subtracted.
MatchValueExpr(e) ==
    IF e.k = "BinOp" /\ e.c[2] = Constant("-1") THEN Expr(e.c[1], pTest) \o <<"-", "1">>
    ELSE Expr(e, pTest)

Patterns(seq) == [i \in DOMAIN seq |-> Pattern(seq[i])]
PatternText(p) ==
    LET c == p.c
    IN  CASE p.k = "MatchValue" -> MatchValueExpr(c[1])
          [] p.k = "MatchSingleton" -> Expr(c[1], pTest)
          [] p.k = "MatchSequence" -> <<"[">> \o Commas(Patterns(c)) \o <<"]">>
          [] p.k = "MatchMapping" ->
                <<"{">> \o Commas([i \in DOMAIN c |->
                                     Expr(c[i].c[1], pTest) \o <<":">> \o Pattern(c[i].c[2])]
                                  \o (IF p.op = "" THEN <<>> ELSE <<<<"**", p.op>>>>)) \o <<"}">>
          [] p.k = "MatchClass" ->
                Expr(c[1], pAtom)
                \o Parens(Commas(Patterns(c[2].c)
                                 \o [i \in DOMAIN c[3].c |->
                                       <<c[3].c[i].op, "=">> \o Pattern(c[3].c[i].c[1])]))
          [] p.k = "MatchStar" -> <<"*", IF p.op = "" THEN "_" ELSE p.op>>
          [] p.k = "MatchAs" /\ c = <<>> -> <<IF p.op = "" THEN "_" ELSE p.op>>
          [] p.k = "MatchAs" /\ c # <<>> ->
                (IF c[1].k = "MatchAs" THEN Parens(Pattern(c[1])) ELSE Pattern(c[1])) \o As(p.op)
          [] p.k = "MatchOr" ->
                Separated([i \in DOMAIN c |->
                             IF c[i].k \in {"MatchAs", "MatchOr"} THEN Parens(Pattern(c[i]))
                             ELSE Pattern(c[i])], <<"|">>)

Line(text) == text \o <<"NEWLINE">>

\* The statements of one line.
SimpleText(s) ==
    LET c == s.c
    IN  CASE s.k = "Return" -> <<"return">> \o Concat(Exprs(c, pTuple))
          [] s.k = "Delete" -> <<"del">> \o List(c)
          [] s.k = "Assign" ->
                Concat([i \in DOMAIN c[1].c |-> Expr(c[1].c[i], pTuple) \o <<"=">>])
                \o Expr(c[2], pTuple)
          [] s.k = "TypeAlias" ->
                <<"type">> \o Expr(c[1], pAtom) \o TypeParamList(c[2].c) \o <<"=">> \o Expr(c[3], pTest)
          [] s.k = "AugAssign" ->
                Expr(c[1], pTest) \o <<AugToken(s.op)>>
                \o Expr(c[2], IF TupleHasStarred(c[2]) THEN pAtom ELSE pTuple)
          [] s.k = "AnnAssign" ->
                (IF s.op = "simple" THEN Expr(c[1], pTest) ELSE Parens(Expr(c[1], pTest)))
                \o <<":">> \o Expr(c[2], pTest) \o Given(<<"=">>, c[3], pTest)
          [] s.k = "Raise" -> <<"raise">> \o Given(<<>>, c[1], pTest) \o Given(<<"from">>, c[2], pTest)
          [] s.k = "Assert" -> <<"assert">> \o Expr(c[1], pTest) \o Given(<<",">>, c[2], pTest)
          [] s.k = "Import" -> <<"import">> \o Aliases(c)
          [] s.k = "ImportFrom" ->
                <<"from">> \o Dots(Len(c[1].c)) \o Dotted(c[2].c)
                \o <<"import">> \o (IF c[3].c = <<>> THEN <<"*">> ELSE Aliases(c[3].c))
          [] s.k \in {"Global", "Nonlocal"} ->
                <<IF s.k = "Global" THEN "global" ELSE "nonlocal">>
                \o Commas([i \in DOMAIN c |-> <<c[i].op>>])
          [] s.k = "Expr" ->
                (CASE c[1].k = "Yield" -> <<"yield">> \o Concat(Exprs(c[1].c, pTuple))
                   [] c[1].k = "YieldFrom" -> <<"yield", "from">> \o Expr(c[1].c[1], pTest)
                   [] OTHER -> Expr(c[1], pTuple))
          [] s.k = "Pass" -> <<"pass">>
          [] s.k = "Break" -> <<"break">>
          [] s.k = "Continue" -> <<"continue">>

Stmts(stmts) == Concat([i \in DOMAIN stmts |-> Text("stmt", stmts[i], 0)])
SuiteText(body) ==
    <<":", "NEWLINE", "INDENT">>
    \o (IF body.c = <<>> THEN Line(<<"pass">>) ELSE Stmts(body.c)) \o <<"DEDENT">>
\* word and its suite, or nothing.
Clause(word, body) == IF body.c = <<>> THEN <<>> ELSE <<word>> \o Suite(body)
Async(s, kind) == IF s.k = kind THEN <<"async">> ELSE <<>>
Decorators(decorators) ==
    Concat([i \in DOMAIN decorators |-> Line(<<"@">> \o Expr(decorators[i], pTest))])

IfStmt1(s, word) ==
    <<word>> \o Expr(s.c[1], pTest) \o Suite(s.c[2])
    \o (IF Len(s.c[3].c) = 1 /\ s.c[3].c[1].k = "If" THEN Text("elif", s.c[3].c[1], 0)
        ELSE Clause("else", s.c[3]))

WithItemText(item) == Expr(item.c[1], pTest) \o Given(<<"as">>, item.c[2], pTest)

HandlerText(h, star) ==
    <<"except">> \o (IF star THEN <<"*">> ELSE <<>>) \o Given(<<>>, h.c[1], pTest)
    \o As(h.op) \o Suite(h.c[2])

CaseText(case) ==
    <<"case">> \o Pattern(case.c[1]) \o Given(<<"if">>, case.c[2], pTest) \o Suite(case.c[3])

CompoundText(s) ==
    LET c == s.c
    IN  CASE s.k \in {"FunctionDef", "AsyncFunctionDef"} ->
                Decorators(c[3].c) \o Async(s, "AsyncFunctionDef") \o <<"def", s.op>>
                \o TypeParamList(c[5].c) \o Parens(ExprArguments(c[1]))
                \o Given(<<"->">>, c[4], pTest) \o Suite(c[2])
          [] s.k = "ClassDef" ->
                Decorators(c[4].c) \o <<"class", s.op>> \o TypeParamList(c[5].c)
                \o (IF c[1].c \o c[2].c = <<>> THEN <<>> ELSE Parens(CallArguments(c[1].c, c[2].c)))
                \o Suite(c[3])
          [] s.k = "If" -> IfStmt1(s, "if")
          [] s.k \in {"For", "AsyncFor"} ->
                Async(s, "AsyncFor") \o <<"for">> \o Expr(c[1], pTuple) \o <<"in">>
                \o Expr(c[2], pTuple) \o Suite(c[3]) \o Clause("else", c[4])
          [] s.k = "While" -> <<"while">> \o Expr(c[1], pTest) \o Suite(c[2]) \o Clause("else", c[3])
          [] s.k \in {"With", "AsyncWith"} ->
                Async(s, "AsyncWith") \o <<"with">>
                \o Commas([i \in DOMAIN c[1].c |-> WithItemText(c[1].c[i])]) \o Suite(c[2])
          [] s.k \in {"Try", "TryStar"} ->
                <<"try">> \o Suite(c[1])
                \o Concat([i \in DOMAIN c[2].c |-> HandlerText(c[2].c[i], s.k = "TryStar")])
                \o Clause("else", c[3]) \o Clause("finally", c[4])
          [] s.k = "Match" ->
                <<"match">> \o MatchSubject(c[1]) \o <<":", "NEWLINE", "INDENT">>
                \o Concat([i \in DOMAIN c[2].c |-> CaseText(c[2].c[i])]) \o <<"DEDENT">>

CompoundKinds ==
    {"FunctionDef", "AsyncFunctionDef", "ClassDef", "If", "For", "AsyncFor", "While",
     "With", "AsyncWith", "Try", "TryStar", "Match"}
Stmt(s) == IF s.k \in CompoundKinds THEN CompoundText(s) ELSE Line(SimpleText(s))

Text(what, node, prec) ==
    CASE what = "expr" -> ExprText(node, prec)
      [] what = "pattern" -> PatternText(node)
      [] what = "stmt" -> Stmt(node)
      [] what = "elif" -> IfStmt1(node, "elif")
      [] what = "suite" -> SuiteText(node)

\* Unparse of a module.
UnparseModule(mod) == Stmts(mod.c) \o <<"END">>
=============================================================================
