------------------------------- MODULE Parser -------------------------------
(***************************************************************************)
(* The v2 front end: the recursive descent of parser/parser.go and         *)
(* parser/stmt.go over the tokens of parser/lex.go.  A function of the     *)
(* parser is an operator of its name, from a position to a result; it      *)
(* looks at the token there and at most one more, and never goes back.     *)
(* The trees are those that parser/ast_dump.go and v1 agree on.            *)
(***************************************************************************)
EXTENDS Syntax

RECURSIVE parseNot(_)
RECURSIVE parseBinary(_, _)
RECURSIVE Item(_, _)
\* The rules that contain themselves, each by the name of the rule.
AnExpr(i) == Item("Expr", i)
AUnary(i) == Item("Unary", i)
ATargetAtom(i) == Item("TargetAtom", i)
AnAsPattern(i) == Item("AsPattern", i)
AStatementLine(i) == Item("StatementLine", i)
ABlock(i) == Item("Block", i)
ABitOr(i) == Item("BitOr", i)
ATrailer(i) == Item("Trailer", i)
AWithItem(i) == Item("WithItem", i)
AllWithItems(i) == Item("WithItems", i)

Soft(tok) == tok \in SoftKeywords
isReservedKeyword(tok) == tok \in Keywords \cup {"match", "case"}
PlainName(tok) == IsName(tok) /\ (~isReservedKeyword(tok) \/ Soft(tok))
parseName(i) == IF IsName(At(i)) THEN Ok(At(i), i + 1) ELSE Fail
\* What Rule reads behind word; without the word, nothing.
Maybe(i, word, Rule(_)) == IF At(i) = word THEN Rule(i + 1) ELSE Ok(Nil, i)
MaybeName(i, word) == IF At(i) = word THEN parseName(i + 1) ELSE Ok("", i)

\* Items up to a closing token, each but the last with a comma behind it.
RECURSIVE Items(_, _, _, _)
Items(rule, i, closer, elts) ==
    IF At(i) = closer THEN Ok(elts, i + 1)
    ELSE Then(Item(rule, i), LAMBDA r :
            IF At(r.i) = "," THEN Items(rule, r.i + 1, closer, Append(elts, r.t))
            ELSE Close(Ok(Append(elts, r.t), r.i), closer))
\* The same behind a first item, with or without more.
ItemsAfter(first, rule, closer) ==
    IF At(first.i) = "," THEN Items(rule, first.i + 1, closer, <<first.t>>)
    ELSE Close(Ok(<<first.t>>, first.i), closer)
\* One item, and one more for each comma, but for a comma before a token of ends.
RECURSIVE MoreItems(_, _, _, _)
MoreItems(rule, i, elts, ends) ==
    CASE At(i) # "," -> Ok(elts, i)
      [] At(i) = "," /\ At(i + 1) \in ends -> Ok(elts, i + 1)
      [] OTHER -> Then(Item(rule, i + 1), LAMBDA r : MoreItems(rule, r.i, Append(elts, r.t), ends))
Listed(rule, i, ends) ==
    Then(Item(rule, i), LAMBDA r : MoreItems(rule, r.i, <<r.t>>, ends))
\* A single element with no comma stands for itself.
OneOrTuple(rule, i, ends) ==
    Then(Item(rule, i), LAMBDA r :
        IF At(r.i) = "," THEN Map(MoreItems(rule, r.i, <<r.t>>, ends), Tuple) ELSE r)

-----------------------------------------------------------------------------
(* Expressions: parser.go.                                                 *)

StmtEnds == {";", "NEWLINE", "END", "DEDENT"}
ExprListTerminators == StmtEnds \cup {"=", ":", ")", "]", "}"} \cup AugTokens
YieldTerminators == StmtEnds \cup {")", "]", "}", ",", ":", "="}

parseStarredOrExpr(i) ==
    IF At(i) = "*" THEN Map(AnExpr(i + 1), Starred) ELSE AnExpr(i)
parseTestlistOrStarExpr(i) ==
    OneOrTuple("StarredOrExpr", i, ExprListTerminators)

parseYieldExpr(i) ==
    CASE At(i + 1) = "from" -> Map(AnExpr(i + 2), LAMBDA v : N("YieldFrom", <<v>>))
      [] At(i + 1) \in YieldTerminators -> Ok(N("Yield", <<>>), i + 1)
      [] OTHER -> Map(parseTestlistOrStarExpr(i + 1), LAMBDA v : N("Yield", <<v>>))

parseNamedExprFromName(i) ==
    Map(AnExpr(i + 2), LAMBDA v : N("NamedExpr", <<Name(At(i)), v>>))

RECURSIVE Values(_, _, _)
\* parseOr reads what "and" joins, parseAnd what "not" begins: one node for all.
Values(word, i, values) ==
    Then(IF word = "or" THEN Values("and", i, <<>>) ELSE parseNot(i), LAMBDA r :
        IF At(r.i) = word THEN Values(word, r.i + 1, Append(values, r.t))
        ELSE Ok(IF values = <<>> THEN r.t ELSE Op("BoolOp", word, Append(values, r.t)), r.i))
parseOr(i) == Values("or", i, <<>>)

parseTernary(i) ==
    Then(parseOr(i), LAMBDA body :
        IF At(body.i) # "if" THEN body
        ELSE Then(Close(parseOr(body.i + 1), "else"), LAMBDA test :
                Map(AnExpr(test.i), LAMBDA orelse : IfExp(body.t, test.t, orelse))))

tryComparisonOp(i) ==
    CASE At(i) \in Comparisons \cup {"in"} -> Ok(At(i), i + 1)
      [] At(i) = "is" -> IF At(i + 1) = "not" THEN Ok("is not", i + 2) ELSE Ok("is", i + 1)
      [] At(i) = "not" /\ At(i + 1) = "in" -> Ok("not in", i + 2)
      [] OTHER -> Fail
RECURSIVE Compared(_, _)
Compared(i, c) ==
    LET op == tryComparisonOp(i)
    IN  IF op.ok
        THEN Then(ABitOr(op.i), LAMBDA r : Compared(r.i, Append(c, Op("cmp", op.t, <<r.t>>))))
        ELSE Ok(IF Len(c) = 1 THEN c[1] ELSE N("Compare", c), i)
parseCompare(i) == Then(ABitOr(i), LAMBDA left : Compared(left.i, <<left.t>>))
parseNot(i) ==
    IF At(i) = "not" THEN Map(parseNot(i + 1), LAMBDA e : Op("UnaryOp", "not", <<e>>))
    ELSE parseCompare(i)

\* parseBitOr down to parseMultiplicative.
RECURSIVE BinaryTail(_, _, _)
BinaryTail(level, i, left) ==
    IF At(i) \in BinaryLevels[level]
    THEN Then(parseBinary(level + 1, i + 1), LAMBDA right :
            BinaryTail(level, right.i, BinOp(At(i), left, right.t)))
    ELSE Ok(left, i)
parseBinary(level, i) ==
    IF level > Len(BinaryLevels) THEN AUnary(i)
    ELSE Then(parseBinary(level + 1, i), LAMBDA r : BinaryTail(level, r.i, r.t))

parseSubscriptItem(i) ==
    LET lower == IF At(i) = ":" THEN Ok(Nil, i) ELSE AnExpr(i)
        Part(j, ends) == IF At(j) \in ends THEN Ok(Nil, j) ELSE AnExpr(j)
    IN  IF At(i) = "*" THEN Map(AnExpr(i + 1), Starred)
        ELSE Then(lower, LAMBDA l :
            IF At(l.i) # ":" THEN l
            ELSE Then(Part(l.i + 1, {":", "]", ","}), LAMBDA u :
                    Map(IF At(u.i) = ":" THEN Part(u.i + 1, {"]", ","}) ELSE Ok(Nil, u.i), LAMBDA s :
                        Slice(l.t, u.t, s))))
parseSubscriptBody(i) ==
    Map(OneOrTuple("SubscriptItem", i, {"]"}), LAMBDA s : IF s.k = "Starred" THEN Tuple(<<s>>) ELSE s)

isCompForStart(i) == At(i) = "for" \/ (At(i) = "async" /\ At(i + 1) = "for")
parseTargetList(i) == OneOrTuple("TargetAtom", i, {"in", ")", "]", "}"})
RECURSIVE Ifs(_, _)
Ifs(i, ifs) ==
    IF At(i) = "if" THEN Then(parseOr(i + 1), LAMBDA r : Ifs(r.i, Append(ifs, r.t))) ELSE Ok(ifs, i)
RECURSIVE Clauses(_, _)
Clauses(i, gens) ==
    LET async == At(i) = "async"
    IN  IF ~isCompForStart(i) THEN Ok(gens, i)
        ELSE Then(Close(parseTargetList(IF async THEN i + 2 ELSE i + 1), "in"), LAMBDA target :
                Then(parseOr(target.i), LAMBDA iter :
                    Then(Ifs(iter.i, <<>>), LAMBDA ifs :
                        Clauses(ifs.i, Append(gens,
                            Comprehension(IF async THEN "async" ELSE "", target.t, iter.t, ifs.t))))))
parseComprehensionClauses(i) == Clauses(i, <<>>)
\* The comprehension of kind k whose element or elements were read already.
CompOf(k, elts, i, closer) ==
    Close(Map(parseComprehensionClauses(i), LAMBDA gens : N(k, elts \o gens)), closer)

CallArg(i) ==
    CASE At(i) = "**" -> Map(AnExpr(i + 1), LAMBDA v : Keyword("", v))
      [] At(i) = "*" -> Map(AnExpr(i + 1), Starred)
      [] PlainName(At(i)) /\ At(i + 1) = "=" -> Map(AnExpr(i + 2), LAMBDA v : Keyword(At(i), v))
      [] OTHER -> AnExpr(i)
\* From the parenthesis on; only the first argument may be a bare generator.
parseCallArgs(i) ==
    IF At(i + 1) = ")" THEN Ok(<<>>, i + 2)
    ELSE Then(CallArg(i + 1), LAMBDA first :
            IF isCompForStart(first.i) /\ first.t.k # "keyword" /\ At(i + 1) # "*"
            THEN Map(CompOf("GeneratorExp", <<first.t>>, first.i, ")"), LAMBDA gen : <<gen>>)
            ELSE ItemsAfter(first, "CallArg", ")"))
Positional(args) == SelectSeq(args, LAMBDA a : a.k # "keyword")
Keywords1(args) == SelectSeq(args, LAMBDA a : a.k = "keyword")

\* What follows an atom, of the kinds that begin with a token of tokens.
RECURSIVE Trailers(_, _, _)
Trailers(e, i, tokens) ==
    LET r == CASE At(i) = "." ->
                    Map(parseName(i + 1), LAMBDA attr : Attribute(e, attr))
               [] At(i) = "(" ->
                    Map(parseCallArgs(i), LAMBDA args : Call(e, Positional(args), Keywords1(args)))
               [] At(i) = "[" ->
                    Close(Map(parseSubscriptBody(i + 1), LAMBDA s : N("Subscript", <<e, s>>)), "]")
    IN  IF At(i) \in tokens THEN Then(r, LAMBDA next : Trailers(next.t, next.i, tokens)) ELSE Ok(e, i)
Postfix == {".", "(", "["}

parseParenAtom(i) ==
    IF At(i + 1) = ")" THEN Ok(Tuple(<<>>), i + 2)
    ELSE Then(parseStarredOrExpr(i + 1), LAMBDA first :
            CASE isCompForStart(first.i) -> CompOf("GeneratorExp", <<first.t>>, first.i, ")")
              [] At(first.i) = ")" -> Ok(first.t, first.i + 1)
              [] At(first.i) = "," -> Map(Items("StarredOrExpr", first.i + 1, ")", <<first.t>>), Tuple)
              [] OTHER -> Fail)
parseListAtom(i) ==
    IF At(i + 1) = "]" THEN Ok(N("List", <<>>), i + 2)
    ELSE Then(parseStarredOrExpr(i + 1), LAMBDA first :
            IF isCompForStart(first.i) THEN CompOf("ListComp", <<first.t>>, first.i, "]")
            ELSE Map(ItemsAfter(first, "StarredOrExpr", "]"), LAMBDA elts : N("List", elts)))

\* An item of a dict; the key of the first one may have been read already.
Pair(key) ==
    Map(After(key.i, ":", AnExpr), LAMBDA v : N("pair", <<key.t, v>>))
DictItem(i) ==
    IF At(i) = "**" THEN Map(AnExpr(i + 1), LAMBDA v : N("unpack", <<v>>))
    ELSE Then(AnExpr(i), Pair)
Dict(first) == Map(ItemsAfter(first, "DictItem", "}"), LAMBDA items : N("Dict", items))
parseBraceAtom(i) ==
    CASE At(i + 1) = "}" -> Ok(N("Dict", <<>>), i + 2)
      [] At(i + 1) = "**" -> Then(DictItem(i + 1), Dict)
      [] OTHER ->
            Then(parseStarredOrExpr(i + 1), LAMBDA first :
                CASE At(first.i) = ":" ->
                        Then(Pair(first), LAMBDA item :
                            IF isCompForStart(item.i) THEN CompOf("DictComp", item.t.c, item.i, "}")
                            ELSE Dict(item))
                  [] isCompForStart(first.i) -> CompOf("SetComp", <<first.t>>, first.i, "}")
                  [] OTHER -> Map(ItemsAfter(first, "StarredOrExpr", "}"), LAMBDA elts : N("Set", elts)))

RECURSIVE AfterStrings(_)
AfterStrings(i) == IF At(i) = "s" THEN AfterStrings(i + 1) ELSE i
\* Any other name is one, keywords included.
parseAtom(i) ==
    CASE IsName(At(i)) \/ At(i) \in {"1", "..."} -> Ok(NameOrConstant(At(i)), i + 1)
      [] At(i) = "s" -> Ok(Constant("s"), AfterStrings(i))
      [] At(i) = "(" -> parseParenAtom(i)
      [] At(i) = "[" -> parseListAtom(i)
      [] At(i) = "{" -> parseBraceAtom(i)
      [] OTHER -> Fail
parseTrailer(i) == Then(parseAtom(i), LAMBDA a : Trailers(a.t, a.i, Postfix))

parsePowerOfAtoms(i) == \* mutant: no sign may follow the operator
    Then(ATrailer(i), LAMBDA left :
        IF At(left.i) = "**" THEN Map(ATrailer(left.i + 1), LAMBDA right : BinOp("**", left.t, right))
        ELSE left)
parsePower(i) ==
    Then(ATrailer(i), LAMBDA left :
        IF At(left.i) = "**" THEN Map(AUnary(left.i + 1), LAMBDA right : BinOp("**", left.t, right))
        ELSE left)
\* await takes all that a sign takes, a power included.
parseUnary(i) ==
    CASE At(i) \in {"+", "-", "~"} ->
            Map(AUnary(i + 1), LAMBDA e : Op("UnaryOp", At(i), <<e>>))
      [] At(i) = "await" -> Map(AUnary(i + 1), LAMBDA e : N("Await", <<e>>))
      [] OTHER -> parsePower(i)

\* A target that begins with a name has no calls in it.
parseTargetAtom(i) ==
    CASE At(i) = "*" -> Map(ATargetAtom(i + 1), Starred)
      [] At(i) = "(" -> Then(parseParenAtom(i), LAMBDA e : Trailers(e.t, e.i, Postfix))
      [] At(i) = "[" -> Map(Items("TargetAtom", i + 1, "]", <<>>), LAMBDA elts : N("List", elts))
      [] IsName(At(i)) -> Trailers(Name(At(i)), i + 1, {".", "["})
      [] OTHER -> Fail

\* The parameters up to the token end, which is left there.  In a lambda none has
\* an annotation, / and * may come anywhere, and a second / forgets the first.
NoParams ==
    [posonly |-> <<>>, args |-> <<>>, defaults |-> <<>>, vararg |-> Nil, kwonly |-> <<>>,
     kwdefaults |-> <<>>, kwarg |-> Nil, state |-> "normal"]
parseFuncParam(i, end) ==
    Then(parseName(i), LAMBDA name :
        Map(IF end = ":" THEN Ok(Nil, name.i) ELSE Maybe(name.i, ":", parseStarredOrExpr),
            LAMBDA annotation : Arg(name.t, annotation)))
SlashForgets(a, i, end) == \* mutant: the parameters before / are dropped
    IF end = ")" /\ a.state # "normal" THEN Fail ELSE Ok([a EXCEPT !.args = <<>>], i + 1)
Slash(a, i, end) ==
    IF end = ")" /\ a.state # "normal" THEN Fail
    ELSE Ok([a EXCEPT !.posonly = (IF end = ")" THEN @ ELSE <<>>) \o a.args, !.args = <<>>], i + 1)
Star(a, i, end) ==
    IF end = ")" /\ a.state = "kwonly" THEN Fail
    ELSE IF IsName(At(i + 1))
    THEN Map(parseFuncParam(i + 1, end), LAMBDA arg : [a EXCEPT !.vararg = arg, !.state = "kwonly"])
    ELSE IF end = ":" /\ At(i + 1) \notin {",", ":"} THEN Fail
    ELSE Ok([a EXCEPT !.state = "kwonly"], i + 1)
DoubleStar(a, i, end) ==
    Map(parseFuncParam(i + 1, end), LAMBDA arg :
        [a EXCEPT !.kwarg = arg, !.state = IF end = ")" THEN "done" ELSE @])
Regular(a, i, end) ==
    Then(parseFuncParam(i, end), LAMBDA arg :
        Map(Maybe(arg.i, "=", AnExpr), LAMBDA default :
            IF a.state = "kwonly"
            THEN [a EXCEPT !.kwonly = Append(@, arg.t), !.kwdefaults = Append(@, default)]
            ELSE [a EXCEPT !.args = Append(@, arg.t),
                           !.defaults = IF default = Nil THEN @ ELSE Append(@, default)]))
OneParam(a, i, end) ==
    CASE At(i) = "/" -> Slash(a, i, end)
      [] At(i) = "*" -> Star(a, i, end)
      [] At(i) = "**" -> DoubleStar(a, i, end)
      [] IsName(At(i)) -> Regular(a, i, end)
      [] OTHER -> Fail
RECURSIVE ParamsFrom(_, _, _)
ParamsFrom(a, i, end) ==
    IF At(i) = end THEN Ok(a, i)
    ELSE Then(OneParam(a, i, end), LAMBDA r :
            CASE At(r.i) = "," -> ParamsFrom(r.t, r.i + 1, end)
              [] At(r.i) = end -> r
              [] OTHER -> Fail)
parseFuncParams(i, end) ==
    Map(ParamsFrom(NoParams, i, end), LAMBDA a :
        Arguments(a.posonly, a.args, a.defaults, a.vararg, a.kwonly, a.kwdefaults, a.kwarg))

parseLambda(i) ==
    Then(Close(parseFuncParams(i + 1, ":"), ":"), LAMBDA args :
        Map(AnExpr(args.i), LAMBDA body : Lambda(args.t, body)))

parseExpr(i) ==
    CASE At(i) = "lambda" -> parseLambda(i)
      [] At(i) = "yield" -> parseYieldExpr(i)
      [] PlainName(At(i)) /\ At(i + 1) = ":=" -> parseNamedExprFromName(i)
      [] OTHER -> parseTernary(i)

-----------------------------------------------------------------------------
(* Simple statements: stmt.go.                                             *)

RECURSIVE validateAssignTarget(_)
validateAssignTarget(e) ==
    CASE e.k \in {"Name", "Attribute", "Subscript", "Starred"} -> TRUE
      [] e.k \in {"Tuple", "List"} -> \A i \in DOMAIN e.c : validateAssignTarget(e.c[i])
      [] OTHER -> FALSE
\* r, if what it holds may be assigned to.
Valid(r, targets) == IF \A i \in DOMAIN targets : validateAssignTarget(targets[i]) THEN r ELSE Fail

parseReturnStmt(i) ==
    IF At(i + 1) \in StmtEnds THEN Ok(N("Return", <<>>), i + 1)
    ELSE Map(parseTestlistOrStarExpr(i + 1), LAMBDA v : N("Return", <<v>>))
parseRaiseStmt(i) ==
    IF At(i + 1) \in StmtEnds THEN Ok(N("Raise", <<Nil, Nil>>), i + 1)
    ELSE Then(AnExpr(i + 1), LAMBDA exc :
            Map(Maybe(exc.i, "from", AnExpr), LAMBDA cause : N("Raise", <<exc.t, cause>>)))

RECURSIVE Dotted(_, _)
Dotted(i, names) ==
    IF At(i) = "." THEN Then(parseName(i + 1), LAMBDA n : Dotted(n.i, Append(names, Name(n.t))))
    ELSE Ok(names, i)
parseDottedName(i) == Then(parseName(i), LAMBDA n : Dotted(n.i, <<Name(n.t)>>))
WithAs(r) ==
    Then(r, LAMBDA names :
        Map(MaybeName(names.i, "as"), LAMBDA asname : Alias(DottedName(names.t), asname)))
parseDottedAlias(i) == WithAs(parseDottedName(i))
parseImportAsName(i) == WithAs(Map(parseName(i), LAMBDA n : <<Name(n)>>))
parseImportStmt(i) ==
    Map(Listed("DottedAlias", i + 1, {}), LAMBDA names : N("Import", names))

RECURSIVE Level(_, _)
Level(i, level) ==
    CASE At(i) = "." -> Level(i + 1, level + 1)
      [] At(i) = "..." -> Level(i + 1, level + 3)
      [] OTHER -> Ok(level, i)
ImportedNames(i) ==
    CASE At(i) = "*" -> Ok(<<>>, i + 1)
      [] At(i) = "(" -> Then(parseImportAsName(i + 1), LAMBDA a : ItemsAfter(a, "ImportAsName", ")"))
      [] OTHER -> Listed("ImportAsName", i, {})
parseFromImportStmt(i) ==
    Then(Level(i + 1, 0), LAMBDA level :
        Then(IF PlainName(At(level.i)) THEN parseDottedName(level.i) ELSE Ok(<<>>, level.i), LAMBDA module :
            Map(After(module.i, "import", ImportedNames), LAMBDA names :
                ImportFrom(level.t, module.t, names))))

parseGlobalNonlocal(i, kind) ==
    Map(Listed("Name", i + 1, {}), LAMBDA names : N(kind, names))
parseDeleteStmt(i) ==
    Then(Listed("Expr", i + 1, StmtEnds), LAMBDA r :
        Valid(Ok(N("Delete", r.t), r.i), r.t))
parseAssertStmt(i) ==
    Then(AnExpr(i + 1), LAMBDA test :
        Map(Maybe(test.i, ",", AnExpr), LAMBDA msg : N("Assert", <<test.t, msg>>)))

\* More targets behind =, the last of which is the value.
RECURSIVE AssignChain(_, _)
AssignChain(i, targets) ==
    Then(parseTestlistOrStarExpr(i + 1), LAMBDA rhs :
        IF At(rhs.i) = "=" THEN AssignChain(rhs.i, Append(targets, rhs.t))
        ELSE Valid(Ok(Assign(targets, rhs.t), rhs.i), targets))
parseExprBasedStmt(i) ==
    Then(parseTestlistOrStarExpr(i), LAMBDA lhs :
        CASE At(lhs.i) = ":" ->
                Then(AnExpr(lhs.i + 1), LAMBDA annotation :
                    Then(Maybe(annotation.i, "=", parseTestlistOrStarExpr), LAMBDA value :
                        Valid(Ok(AnnAssign(lhs.t, annotation.t, value.t, lhs.t.k = "Name"), value.i),
                              <<lhs.t>>)))
          [] At(lhs.i) \in AugTokens ->
                Then(parseTestlistOrStarExpr(lhs.i + 1), LAMBDA rhs :
                    Valid(Ok(AugAssign(lhs.t, AugOp(At(lhs.i)), rhs.t), rhs.i), <<lhs.t>>))
          [] At(lhs.i) = "=" -> AssignChain(lhs.i, <<lhs.t>>)
          [] OTHER -> Ok(N("Expr", <<lhs.t>>), lhs.i))

parseSimpleStmt(i) ==
    CASE At(i) = "pass" -> Ok(N("Pass", <<>>), i + 1)
      [] At(i) = "break" -> Ok(N("Break", <<>>), i + 1)
      [] At(i) = "continue" -> Ok(N("Continue", <<>>), i + 1)
      [] At(i) = "return" -> parseReturnStmt(i)
      [] At(i) = "raise" -> parseRaiseStmt(i)
      [] At(i) = "import" -> parseImportStmt(i)
      [] At(i) = "from" -> parseFromImportStmt(i)
      [] At(i) = "global" -> parseGlobalNonlocal(i, "Global")
      [] At(i) = "nonlocal" -> parseGlobalNonlocal(i, "Nonlocal")
      [] At(i) = "del" -> parseDeleteStmt(i)
      [] At(i) = "assert" -> parseAssertStmt(i)
      [] OTHER -> parseExprBasedStmt(i)

\* The parameters of a def, a class or a type, if it has any.
parseTypeParam(i) ==
    LET star == IF At(i) \in {"*", "**"} THEN At(i) ELSE ""
        kind == CASE star = "*" -> "TypeVarTuple" [] star = "**" -> "ParamSpec" [] OTHER -> "TypeVar"
    IN  Then(parseName(IF star = "" THEN i ELSE i + 1), LAMBDA name :
            Then(IF star = "" THEN Maybe(name.i, ":", AnExpr) ELSE Ok(Nil, name.i), LAMBDA bound :
                Map(Maybe(bound.i, "=", parseStarredOrExpr), LAMBDA default :
                    TypeParam(kind, name.t, bound.t, default))))
parseTypeParams(i) == IF At(i) = "[" THEN Items("TypeParam", i + 1, "]", <<>>) ELSE Ok(<<>>, i)

\* A semicolon and a line end are taken as well; neither has to be there.
looksLikeTypeAlias(i) == At(i) = "type" /\ IsName(At(i + 1)) /\ ~isReservedKeyword(At(i + 1))
parseTypeAliasStmt(i) ==
    Then(parseTypeParams(i + 2), LAMBDA params :
        Then(After(params.i, "=", AnExpr), LAMBDA value :
            LET j == IF At(value.i) = ";" THEN value.i + 1 ELSE value.i
            IN  Ok(TypeAlias(Name(At(i + 1)), params.t, value.t), IF At(j) = "NEWLINE" THEN j + 1 ELSE j)))

\* The statements of a line; a type alias ends it wherever it stands.
RECURSIVE SimpleStmts(_, _)
SimpleStmts(i, stmts) ==
    IF looksLikeTypeAlias(i)
    THEN Map(parseTypeAliasStmt(i), LAMBDA s : Append(stmts, s))
    ELSE Then(parseSimpleStmt(i), LAMBDA s :
            LET more == At(s.i) = ";" /\ At(s.i + 1) \notin {"NEWLINE", "END"}
                end == IF At(s.i) = ";" THEN s.i + 1 ELSE s.i
                all == Append(stmts, s.t)
            IN  CASE more -> SimpleStmts(s.i + 1, all)
                  [] ~more /\ At(end) = "NEWLINE" -> Ok(all, end + 1)
                  [] ~more /\ At(end) \in {"END", "DEDENT"} -> Ok(all, end)
                  [] OTHER -> Fail)
parseSimpleStmtList(i) == SimpleStmts(i, <<>>)

-----------------------------------------------------------------------------
(* Blocks and compound statements.                                         *)

RECURSIVE Lines(_, _)
Lines(i, stmts) ==
    CASE At(i) \in {"DEDENT", "END"} -> Ok(stmts, i)
      [] At(i) = "NEWLINE" -> Lines(i + 1, stmts)
      [] OTHER -> Then(AStatementLine(i), LAMBDA r : Lines(r.i, stmts \o r.t))
\* The end of what is indented; at the end of the file it may be missing.
Dedent(r) == IF r.ok /\ At(r.i) = "DEDENT" THEN Ok(r.t, r.i + 1) ELSE r
parseBlock(i) ==
    CASE At(i) = ":" /\ At(i + 1) = "NEWLINE" ->
            IF At(i + 2) = "INDENT" THEN Dedent(Lines(i + 3, <<>>)) ELSE Fail
      [] At(i) = ":" /\ At(i + 1) # "NEWLINE" -> parseSimpleStmtList(i + 1)
      [] OTHER -> Fail
MaybeBlock(i, word) == IF At(i) = word THEN ABlock(i + 1) ELSE Ok(<<>>, i)

RECURSIVE parseIfStmt(_)
parseIfStmt(i) ==
    Then(AnExpr(i + 1), LAMBDA test :
        Then(ABlock(test.i), LAMBDA body :
            Map(IF At(body.i) = "elif" THEN Map(parseIfStmt(body.i), LAMBDA s : <<s>>)
                ELSE MaybeBlock(body.i, "else"),
                LAMBDA orelse : If(test.t, body.t, orelse))))
parseWhileStmt(i) ==
    Then(AnExpr(i + 1), LAMBDA test :
        Then(ABlock(test.i), LAMBDA body :
            Map(MaybeBlock(body.i, "else"), LAMBDA orelse : While(test.t, body.t, orelse))))
parseForStmt(i, kind) ==
    Then(Close(parseTargetList(i + 1), "in"), LAMBDA target :
        Then(parseTestlistOrStarExpr(target.i), LAMBDA iter :
            Then(ABlock(iter.i), LAMBDA body :
                Map(MaybeBlock(body.i, "else"), LAMBDA orelse :
                    For(kind, target.t, iter.t, body.t, orelse)))))

HandlerType(i) ==
    IF At(i) = ":" THEN Ok(Nil, i) ELSE OneOrTuple("Expr", i, {":", "as"})
parseHandler(i) ==
    LET star == At(i + 1) = "*"
    IN  Then(HandlerType(IF star THEN i + 2 ELSE i + 1), LAMBDA type :
            Then(IF type.t = Nil THEN Ok("", type.i) ELSE MaybeName(type.i, "as"), LAMBDA name :
                Map(ABlock(name.i), LAMBDA body :
                    N(IF star THEN "star" ELSE "", <<ExceptHandler(type.t, name.t, body)>>))))
RECURSIVE Handlers(_, _)
Handlers(i, handlers) ==
    IF At(i) = "except" THEN Then(parseHandler(i), LAMBDA h : Handlers(h.i, Append(handlers, h.t)))
    ELSE Ok(handlers, i)
parseTryStmt(i) ==
    Then(ABlock(i + 1), LAMBDA body :
        Then(Handlers(body.i, <<>>), LAMBDA handlers :
            Then(MaybeBlock(handlers.i, "else"), LAMBDA orelse :
                Then(MaybeBlock(orelse.i, "finally"), LAMBDA finalbody :
                    IF handlers.t = <<>> /\ finalbody.t = <<>> THEN Fail
                    ELSE Ok(Try(IF \E h \in DOMAIN handlers.t : handlers.t[h].k = "star"
                                THEN "TryStar" ELSE "Try",
                                body.t, [h \in DOMAIN handlers.t |-> handlers.t[h].c[1]],
                                orelse.t, finalbody.t), finalbody.i)))))

parseWithItem(i) ==
    Then(AnExpr(i), LAMBDA context :
        Map(Maybe(context.i, "as", ATrailer), LAMBDA vars : Withitem(context.t, vars)))
\* What an opening parenthesis may hold: items, the elements of a tuple if a star
\* or, behind a walrus, anything else follows the comma, or a generator.
RECURSIVE GroupItems(_, _)
TupleItem(first, rule, i) ==
    Map(Listed(rule, i, {")"}), LAMBDA rest : <<Withitem(Tuple(<<first>> \o rest), Nil)>>)
GroupItems(i, items) ==
    LET first == items[1].c
    IN  CASE At(i) # "," -> Ok(items, i)
          [] At(i) = "," /\ At(i + 1) = ")" -> Ok(items, i + 1)
          [] At(i) = "," /\ At(i + 1) = "*" -> TupleItem(first[1], "StarredOrExpr", i + 1)
          [] At(i) = "," /\ At(i + 1) \notin {")", "*"} /\ first[2] = Nil /\ first[1].k = "NamedExpr" ->
                TupleItem(first[1], "Expr", i + 1)
          [] OTHER -> Then(AWithItem(i + 1), LAMBDA item : GroupItems(item.i, Append(items, item.t)))
WithGroup(i) ==
    Then(AWithItem(i), LAMBDA first :
        IF isCompForStart(first.i)
        THEN Then(parseComprehensionClauses(first.i), LAMBDA gens :
                GroupItems(gens.i, <<Withitem(N("GeneratorExp", <<first.t.c[1]>> \o gens.t), Nil)>>))
        ELSE GroupItems(first.i, <<first.t>>))
\* Behind the closing parenthesis, one item may go on as an expression would: with
\* trailers, a target and more items.
WithTail(item, i) ==
    Then(Trailers(item.c[1], i, Postfix), LAMBDA context :
        Then(Maybe(context.i, "as", ATrailer), LAMBDA vars :
            MoreItems("WithItem", vars.i, <<Withitem(context.t, vars.t)>>,
                      StmtEnds \cup {":"})))
WithItems(i) ==
    IF At(i) = "("
    THEN Then(Close(WithGroup(i + 1), ")"), LAMBDA group :
            IF Len(group.t) = 1 /\ group.t[1].c[2] = Nil THEN WithTail(group.t[1], group.i) ELSE group)
    ELSE Listed("WithItem", i, {})
parseWithStmt(i, kind) ==
    Then(AllWithItems(i + 1), LAMBDA items :
        Map(ABlock(items.i), LAMBDA body : With(kind, items.t, body)))

parseFunctionDef(i, kind, decorators) ==
    Then(parseName(i + 1), LAMBDA name :
        Then(parseTypeParams(name.i), LAMBDA params :
            Then(After(params.i, "(", LAMBDA j : Close(parseFuncParams(j, ")"), ")")), LAMBDA args :
                Then(Maybe(args.i, "->", AnExpr), LAMBDA returns :
                    Map(ABlock(returns.i), LAMBDA body :
                        FunctionDef(kind, name.t, args.t, body, decorators, returns.t, params.t))))))
parseClassDef(i, decorators) ==
    Then(parseName(i + 1), LAMBDA name :
        Then(parseTypeParams(name.i), LAMBDA params :
            Then(IF At(params.i) = "(" THEN parseCallArgs(params.i) ELSE Ok(<<>>, params.i), LAMBDA bases :
                Map(ABlock(bases.i), LAMBDA body :
                    ClassDef(name.t, Positional(bases.t), Keywords1(bases.t), body, decorators, params.t)))))
RECURSIVE parseDecorated(_, _)
parseDecorated(i, decorators) ==
    CASE At(i) = "@" ->
            Then(Close(AnExpr(i + 1), "NEWLINE"), LAMBDA d : parseDecorated(d.i, Append(decorators, d.t)))
      [] At(i) = "def" -> parseFunctionDef(i, "FunctionDef", decorators)
      [] At(i) = "async" /\ At(i + 1) = "def" -> parseFunctionDef(i + 1, "AsyncFunctionDef", decorators)
      [] At(i) = "class" -> parseClassDef(i, decorators)
      [] OTHER -> Fail
parseAsyncStmt(i) ==
    CASE At(i) = "def" -> parseFunctionDef(i, "AsyncFunctionDef", <<>>)
      [] At(i) = "for" -> parseForStmt(i, "AsyncFor")
      [] At(i) = "with" -> parseWithStmt(i, "AsyncWith")
      [] OTHER -> Fail
isCompoundKeyword(tok) ==
    tok \in {"if", "while", "for", "try", "with", "def", "class", "async"}
parseCompoundStmt(i) ==
    CASE At(i) = "@" -> parseDecorated(i, <<>>)
      [] At(i) = "if" -> parseIfStmt(i)
      [] At(i) = "while" -> parseWhileStmt(i)
      [] At(i) = "for" -> parseForStmt(i, "For")
      [] At(i) = "try" -> parseTryStmt(i)
      [] At(i) = "with" -> parseWithStmt(i, "With")
      [] At(i) = "def" -> parseFunctionDef(i, "FunctionDef", <<>>)
      [] At(i) = "class" -> parseClassDef(i, <<>>)
      [] At(i) = "async" -> parseAsyncStmt(i + 1)

-----------------------------------------------------------------------------
(* match and its patterns.                                                 *)

\* The token behind the bracket that closes the one before i.
RECURSIVE AfterClosing(_, _)
AfterClosing(i, depth) ==
    CASE depth = 0 -> At(i)
      [] depth > 0 /\ i > Len(toks) -> "END"
      [] OTHER -> AfterClosing(i + 1, CASE At(i) \in {"(", "[", "{"} -> depth + 1
                                        [] At(i) \in {")", "]", "}"} -> depth - 1
                                        [] OTHER -> depth)
parenFollowedByColon(i) == AfterClosing(i, 1) = ":"
looksLikeMatchStmt(i) ==
    LET next == At(i + 1)
    IN  /\ At(i) = "match"
        /\ \/ next \in {"1", "s", "{", "-", "+", "~", "*", "..."}
           \/ next \in {"(", "["} /\ parenFollowedByColon(i + 2)
           \/ IsName(next) /\ (\/ ~isReservedKeyword(next) \/ Soft(next)
                               \/ next \in {"not", "lambda", "await", "yield"} \cup Constants)

parseMaybeStarPattern(i) ==
    IF At(i) = "*"
    THEN Map(parseName(i + 1), LAMBDA name : Op("MatchStar", IF name = "_" THEN "" ELSE name, <<>>))
    ELSE AnAsPattern(i)
\* The patterns of a case: a comma makes a sequence, a star alone is refused.
parsePatterns(i) ==
    Then(parseMaybeStarPattern(i), LAMBDA first :
        CASE At(first.i) = "," ->
                Map(MoreItems("MaybeStarPattern", first.i, <<first.t>>, {":", "if"}), LAMBDA items :
                    N("MatchSequence", items))
          [] At(first.i) # "," /\ first.t.k = "MatchStar" -> Fail
          [] OTHER -> first)

parseSignedNumberLiteral(i) ==
    CASE At(i) = "1" -> Ok(Constant("1"), i + 1)
      [] At(i) \in {"+", "-"} /\ At(i + 1) = "1" -> Ok(Op("UnaryOp", At(i), <<Constant("1")>>), i + 2)
      [] OTHER -> Fail
\* A number, or a sum whose second part is the imaginary one.
ComplexLiteral(i) ==
    Then(parseSignedNumberLiteral(i), LAMBDA re :
        CASE At(re.i) \in {"+", "-"} /\ At(re.i + 1) = "1" ->
                Ok(BinOp(At(re.i), re.t, Constant("1")), re.i + 2)
          [] At(re.i) \in {"+", "-"} /\ At(re.i + 1) # "1" -> Fail
          [] OTHER -> re)
parseLiteralPattern(i) ==
    IF At(i) = "s" THEN Ok(N("MatchValue", <<Constant("s")>>), AfterStrings(i))
    ELSE Map(ComplexLiteral(i), LAMBDA e : N("MatchValue", <<e>>))

DottedValue(names) ==
    FoldLeft(LAMBDA e, name : Attribute(e, name.op), names[1], Tail(names))
\* An argument of a class pattern.
ClassPatternArg(i) ==
    IF PlainName(At(i)) /\ At(i + 1) = "="
    THEN Map(AnAsPattern(i + 2), LAMBDA p : Op("kwd", At(i), <<p>>))
    ELSE AnAsPattern(i)
\* No argument without a name comes behind one that has a name.
parseClassPatternArgs(cls, i) ==
    Then(Items("ClassPatternArg", i + 1, ")", <<>>), LAMBDA args :
        LET Named(a) == a.k = "kwd"
            plain == SelectSeq(args.t, LAMBDA a : ~Named(a))
        IN  IF \A j \in DOMAIN args.t : Named(args.t[j]) <=> j > Len(plain)
            THEN Ok(N("MatchClass", <<cls, N("patterns", plain),
                                      N("kwds", SelectSeq(args.t, Named))>>), args.i)
            ELSE Fail)
parseNameStartedPattern(i) ==
    Then(parseDottedName(i), LAMBDA names :
        CASE At(names.i) = "(" -> parseClassPatternArgs(DottedValue(names.t), names.i)
          [] At(names.i) # "(" /\ Len(names.t) > 1 -> Ok(N("MatchValue", <<DottedValue(names.t)>>), names.i)
          [] At(names.i) # "(" /\ Len(names.t) = 1 /\ PlainName(At(i)) ->
                Ok(Op("MatchAs", At(i), <<>>), i + 1)
          [] OTHER -> Fail)

parseSequencePatternBrackets(i) ==
    Map(Items("MaybeStarPattern", i + 1, "]", <<>>), LAMBDA items : N("MatchSequence", items))
parseGroupOrSequencePattern(i) ==
    IF At(i + 1) = ")" THEN Ok(N("MatchSequence", <<>>), i + 2)
    ELSE Then(parseMaybeStarPattern(i + 1), LAMBDA first :
            IF At(first.i) = ")" /\ first.t.k # "MatchStar" THEN Ok(first.t, first.i + 1)
            ELSE Map(ItemsAfter(first, "MaybeStarPattern", ")"), LAMBDA items : N("MatchSequence", items)))

parseMappingKey(i) ==
    CASE At(i) = "s" -> Ok(Constant("s"), AfterStrings(i))
      [] At(i) \in {"1", "+", "-"} -> ComplexLiteral(i)
      [] At(i) \in Constants -> Ok(Constant(At(i)), i + 1)
      [] OTHER -> Map(parseDottedName(i), DottedValue)
\* The items up to the brace; the one with two stars is the last.
RECURSIVE MappingItems(_, _)
MappingItems(i, items) ==
    CASE At(i) = "}" -> Ok(Op("MatchMapping", "", items), i + 1)
      [] At(i) = "**" ->
            IF IsName(At(i + 1)) /\ ~isReservedKeyword(At(i + 1))
            THEN Close(Ok(Op("MatchMapping", At(i + 1), items), SkipComma(i + 2)), "}") ELSE Fail
      [] OTHER ->
            Then(parseMappingKey(i), LAMBDA key :
                Then(After(key.i, ":", AnAsPattern), LAMBDA p :
                    LET all == Append(items, N("item", <<key.t, p.t>>))
                    IN  IF At(p.i) = "," THEN MappingItems(p.i + 1, all)
                        ELSE Close(Ok(Op("MatchMapping", "", all), p.i), "}")))
parseMappingPattern(i) == MappingItems(i + 1, <<>>)

parseClosedPattern(i) ==
    CASE At(i) \in {"1", "s", "-", "+"} -> parseLiteralPattern(i)
      [] At(i) = "[" -> parseSequencePatternBrackets(i)
      [] At(i) = "(" -> parseGroupOrSequencePattern(i)
      [] At(i) = "{" -> parseMappingPattern(i)
      [] At(i) \in Constants -> Ok(N("MatchSingleton", <<Constant(At(i))>>), i + 1)
      [] At(i) = "_" -> Ok(Op("MatchAs", "", <<>>), i + 1)
      [] IsName(At(i)) /\ At(i) \notin Constants \cup {"_"} -> parseNameStartedPattern(i)
      [] OTHER -> Fail
RECURSIVE Alternatives(_, _)
Alternatives(i, items) ==
    Then(parseClosedPattern(i), LAMBDA p :
        IF At(p.i) = "|" THEN Alternatives(p.i + 1, Append(items, p.t))
        ELSE Ok(IF items = <<>> THEN p.t ELSE N("MatchOr", Append(items, p.t)), p.i))
parseOrPattern(i) == Alternatives(i, <<>>)
parseAsPattern(i) ==
    Then(parseOrPattern(i), LAMBDA p :
        CASE At(p.i) # "as" -> p
          [] At(p.i) = "as" /\ PlainName(At(p.i + 1)) /\ At(p.i + 1) # "_" ->
                Ok(Op("MatchAs", At(p.i + 1), <<p.t>>), p.i + 2)
          [] OTHER -> Fail)

parseCaseArm(i) ==
    Then(parsePatterns(i + 1), LAMBDA pattern :
        Then(Maybe(pattern.i, "if", AnExpr), LAMBDA guard :
            Map(ABlock(guard.i), LAMBDA body : N("case", <<pattern.t, guard.t, Body(body)>>))))
RECURSIVE Cases(_, _)
Cases(i, cases) ==
    CASE At(i) \in {"DEDENT", "END"} -> IF cases = <<>> THEN Fail ELSE Ok(cases, i)
      [] At(i) = "NEWLINE" -> Cases(i + 1, cases)
      [] At(i) = "case" -> Then(parseCaseArm(i), LAMBDA c : Cases(c.i, Append(cases, c.t)))
      [] OTHER -> Fail
parseMatchStmt(i) ==
    Then(Close(Close(Close(parseTestlistOrStarExpr(i + 1), ":"), "NEWLINE"), "INDENT"), LAMBDA subject :
        Map(Dedent(Cases(subject.i, <<>>)), LAMBDA cases :
            N("Match", <<subject.t, N("cases", cases)>>)))

parseStatementLine(i) ==
    CASE At(i) = "@" \/ isCompoundKeyword(At(i)) -> Map(parseCompoundStmt(i), LAMBDA s : <<s>>)
      [] looksLikeMatchStmt(i) -> Map(parseMatchStmt(i), LAMBDA s : <<s>>)
      [] looksLikeTypeAlias(i) -> Map(parseTypeAliasStmt(i), LAMBDA s : <<s>>)
      [] OTHER -> parseSimpleStmtList(i)

Item(rule, i) ==
    CASE rule = "Expr" -> parseExpr(i)
      [] rule = "StarredOrExpr" -> parseStarredOrExpr(i)
      [] rule = "SubscriptItem" -> parseSubscriptItem(i)
      [] rule = "TargetAtom" -> parseTargetAtom(i)
      [] rule = "CallArg" -> CallArg(i)
      [] rule = "DictItem" -> DictItem(i)
      [] rule = "Name" -> Map(parseName(i), Name)
      [] rule = "DottedAlias" -> parseDottedAlias(i)
      [] rule = "ImportAsName" -> parseImportAsName(i)
      [] rule = "TypeParam" -> parseTypeParam(i)
      [] rule = "WithItem" -> parseWithItem(i)
      [] rule = "ClassPatternArg" -> ClassPatternArg(i)
      [] rule = "MaybeStarPattern" -> parseMaybeStarPattern(i)
      [] rule = "Unary" -> parseUnary(i)
      [] rule = "AsPattern" -> parseAsPattern(i)
      [] rule = "StatementLine" -> parseStatementLine(i)
      [] rule = "Block" -> parseBlock(i)
      [] rule = "Trailer" -> parseTrailer(i)
      [] rule = "WithItems" -> WithItems(i)
      [] rule = "BitOr" -> parseBinary(1, i)

RECURSIVE ModuleLines(_, _)
ModuleLines(i, stmts) ==
    CASE At(i) = "END" -> Ok(N("Module", stmts), i + 1)
      [] At(i) = "NEWLINE" -> ModuleLines(i + 1, stmts)
      [] OTHER -> Then(AStatementLine(i), LAMBDA r : ModuleLines(r.i, stmts \o r.t))
parseModule(i) == ModuleLines(i, <<>>)
=============================================================================
