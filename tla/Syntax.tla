------------------------------- MODULE Syntax -------------------------------
(***************************************************************************)
(* What the two front ends and the writer share: the tokens of a file, the *)
(* trees, which are those of ast/nodes_gen.go without their positions, and *)
(* the results of a parsing function.                                      *)
(*                                                                         *)
(* A token is its text; the names x and y stand for all identifiers that   *)
(* are no soft keywords, "1" for every number, "s" for every plain string. *)
(* The tokens NEWLINE, INDENT and DEDENT are those of module Blocks.       *)
(***************************************************************************)
EXTENDS Naturals, Sequences, SequencesExt

VARIABLE toks  \* the tokens that are being parsed

\* A token, or the end of the file.
At(i) == IF i \in 1 .. Len(toks) THEN toks[i] ELSE "EOF"

SoftKeywords == {"match", "case", "type"}
Identifiers == {"x", "y", "_", "__future__"} \cup SoftKeywords
Constants == {"None", "True", "False"}
Keywords == Constants \cup
    {"and", "or", "not", "in", "is", "if", "else", "elif", "for", "while", "lambda",
     "def", "class", "return", "yield", "import", "from", "as", "with", "try", "except",
     "finally", "raise", "pass", "break", "continue", "global", "nonlocal", "assert",
     "del", "async", "await"}

Marks ==
    {"NEWLINE", "INDENT", "DEDENT", "END", "1", "s", "...", "(", ")", "[", "]", "{", "}", ",", ":",
     ";", ".", "=", ":=", "->", "@", "+", "-", "~", "*", "**", "/", "//", "%", "|", "^", "&", "<<",
     ">>"} \cup {"<", ">", "<=", ">=", "==", "!="} \cup {"+=", "*=", "@=", "**="}
Tokens == Identifiers \cup Keywords \cup Marks

\* Keywords lex as names: the grammars tell them apart where they have to.
IsName(tok) == tok \in Identifiers \cup Keywords

-----------------------------------------------------------------------------

\* A node of kind k with the name or operator op and the children c.
Op(k, op, c) == [k |-> k, op |-> op, c |-> c]
N(k, c) == Op(k, "", c)
Nil == N("nil", <<>>)

Name(id) == Op("Name", id, <<>>)
Constant(text) == Op("Constant", text, <<>>)
\* The tree of a token that is an expression of its own.
NameOrConstant(tok) ==
    IF tok \in Constants \cup {"1", "..."} THEN Constant(tok) ELSE Name(tok)
Starred(e) == N("Starred", <<e>>)
Tuple(elts) == N("Tuple", elts)
BinOp(op, left, right) == Op("BinOp", op, <<left, right>>)
Attribute(e, attr) == Op("Attribute", attr, <<e>>)
Arg(name, annotation) == Op("arg", name, <<annotation>>)
Keyword(name, value) == Op("keyword", name, <<value>>)
Call(func, args, keywords) == N("Call", <<func, N("args", args), N("keywords", keywords)>>)
IfExp(body, test, orelse) == N("IfExp", <<body, test, orelse>>)
Slice(lower, upper, step) == N("Slice", <<lower, upper, step>>)
Comprehension(async, target, iter, ifs) ==
    Op("comprehension", async, <<target, iter>> \o ifs)
Lambda(args, body) == N("Lambda", <<args, body>>)

\* posonly, args, defaults and so on are sequences of nodes.
Arguments(posonly, args, defaults, vararg, kwonly, kwdefaults, kwarg) ==
    N("Arguments", <<N("posonly", posonly), N("args", args), N("defaults", defaults), vararg,
                     N("kwonly", kwonly), N("kwdefaults", kwdefaults), kwarg>>)

Body(stmts) == N("body", stmts)
\* kind is "FunctionDef" or "AsyncFunctionDef".
FunctionDef(kind, name, args, body, decorators, returns, typeParams) ==
    Op(kind, name, <<args, Body(body), N("decorators", decorators), returns,
                     N("typeParams", typeParams)>>)
ClassDef(name, bases, keywords, body, decorators, typeParams) ==
    Op("ClassDef", name, <<N("args", bases), N("keywords", keywords), Body(body),
                           N("decorators", decorators), N("typeParams", typeParams)>>)
\* kind is "For" or "AsyncFor", "With" or "AsyncWith", "Try" or "TryStar".
For(kind, target, iter, body, orelse) ==
    N(kind, <<target, iter, Body(body), Body(orelse)>>)
With(kind, items, body) == N(kind, <<N("items", items), Body(body)>>)
Withitem(context, vars) == N("withitem", <<context, vars>>)
While(test, body, orelse) == N("While", <<test, Body(body), Body(orelse)>>)
If(test, body, orelse) == N("If", <<test, Body(body), Body(orelse)>>)
Try(kind, body, handlers, orelse, finalbody) ==
    N(kind, <<Body(body), N("handlers", handlers), Body(orelse), Body(finalbody)>>)
ExceptHandler(type, name, body) == Op("ExceptHandler", name, <<type, Body(body)>>)
\* dots is a number, module a sequence of names; no names at all stand for *.
ImportFrom(dots, module, names) ==
    N("ImportFrom", <<N("dots", [d \in 1 .. dots |-> Nil]), N("module", module), N("names", names)>>)
DottedName(names) == N("dotted", names)
Alias(name, asname) == Op("alias", asname, <<name>>)
Assign(targets, value) == N("Assign", <<N("targets", targets), value>>)
AugAssign(target, op, value) == Op("AugAssign", op, <<target, value>>)
AnnAssign(target, annotation, value, simple) ==
    Op("AnnAssign", IF simple THEN "simple" ELSE "", <<target, annotation, value>>)
TypeParam(kind, name, bound, default) ==
    Op(kind, name, <<bound, default>>)
TypeAlias(name, typeParams, value) ==
    N("TypeAlias", <<name, N("typeParams", typeParams), value>>)

\* The operator an augmented assignment is made with, and the other way round.
AugOps == {"+", "*", "@", "**"}
AugToken(op) ==
    CASE op = "+" -> "+=" [] op = "*" -> "*=" [] op = "@" -> "@=" [] op = "**" -> "**="
AugTokens == {AugToken(op) : op \in AugOps}
AugOp(tok) == CHOOSE op \in AugOps : AugToken(op) = tok

Comparisons == {"<", ">", "<=", ">=", "==", "!="}

\* The binary operators, loosest first; ** is not one of them.
BinaryLevels ==
    <<{"|"}, {"^"}, {"&"}, {"<<", ">>"}, {"+", "-"}, {"*", "/", "//", "%", "@"}>>

-----------------------------------------------------------------------------

\* The result of parsing: a node and where to go on, or an error.
Ok(t, i) == [ok |-> TRUE, t |-> t, i |-> i]
Fail == [ok |-> FALSE, t |-> Nil, i |-> 0]

\* r, and then F(r) if there was no error.
Then(r, F(_)) == IF r.ok THEN F(r) ELSE Fail

\* The same as r, with another node made out of it.
Map(r, F(_)) == IF r.ok THEN Ok(F(r.t), r.i) ELSE Fail

\* The token tok itself, and r followed by it.
Lit(i, tok) == IF At(i) = tok THEN Ok(Nil, i + 1) ELSE Fail
Close(r, tok) == IF r.ok /\ At(r.i) = tok THEN Ok(r.t, r.i + 1) ELSE Fail

\* What Rule reads behind the token tok, or behind the two tokens at i.
After(i, tok, Rule(_)) == IF At(i) = tok THEN Rule(i + 1) ELSE Fail
After2(i, tok1, tok2, Rule(_)) ==
    IF At(i) = tok1 /\ At(i + 1) = tok2 THEN Rule(i + 2) ELSE Fail

\* a, or else b.
a ?? b == IF a.ok THEN a ELSE b

\* r if there is one, and otherwise nothing, from i on.
Optional(r, i) == IF r.ok THEN r ELSE Ok(Nil, i)

\* Where to go on after a comma that may be there.
SkipComma(i) == IF At(i) = "," THEN i + 1 ELSE i
=============================================================================
