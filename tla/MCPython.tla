------------------------------- MODULE MCPython -------------------------------
(***************************************************************************)
(* Files for FrontEnds: legal Python, derived from templates that follow   *)
(* the grammar of the language.  A hole of a template is named for the     *)
(* loosest expression that may stand there without parentheses:            *)
(*   y yield   0 tuple   1 walrus   2 lambda, if   3 or   4 and   5 not     *)
(*   6 comparison   7 |   8 ^   9 &   10 <<   11 -   12 *   13 unary        *)
(*   14 **   15 await   16 the rest;  T is a target                         *)
(***************************************************************************)
EXTENDS Integers, SequencesExt

Loosest ==
    [ey |-> 0, e0 |-> 1, e1 |-> 2, e2 |-> 3, e3 |-> 4, e4 |-> 5, e5 |-> 6, e7 |-> 8, e8 |-> 9,
     e9 |-> 10, e10 |-> 11, e11 |-> 12, e12 |-> 13, e13 |-> 14, e15 |-> 16, e16 |-> 17,
     p0 |-> 18, p1 |-> 19, p2 |-> 20, p3 |-> 21]
E(level, t) == [level |-> level + 1, t |-> t]

Operators == {
    E(-1, <<"yield", "e0">>), E(-1, <<"yield">>), E(-1, <<"yield", "from", "e2">>),
    E(0, <<"e2", ",", "e2">>), E(0, <<"e2", ",", "*", "e7", ",">>), E(1, <<"x", ":=", "e2">>),
    E(2, <<"e3", "if", "e3", "else", "e2">>), E(2, <<"lambda", ":", "e2">>),
    E(3, <<"e4", "or", "e4">>), E(4, <<"e5", "and", "e5">>), E(5, <<"not", "e5">>),
    E(6, <<"e7", "<", "e7">>), E(6, <<"e7", "not", "in", "e7", "is", "not", "e7">>),
    E(7, <<"e7", "|", "e8">>), E(8, <<"e8", "^", "e9">>), E(9, <<"e9", "&", "e10">>),
    E(10, <<"e10", "<<", "e11">>), E(11, <<"e11", "-", "e12">>), E(12, <<"e12", "*", "e13">>),
    E(13, <<"-", "e13">>), E(14, <<"e15", "**", "e13">>), E(15, <<"await", "e16">>),
    E(16, <<"e16", ".", "x">>), E(16, <<"e16", "[", "e1", "]">>), E(16, <<"e16", "(", "e1", ")">>)}

Displays == {E(16, t) : t \in {
    <<"1">>, <<"s", "s">>, <<"None">>, <<"...">>, <<"match">>, <<"type">>, <<"(", ")">>,
    <<"(", "e1", ",", ")">>, <<"(", "*", "e7", ",", "e1", ",", ")">>,
    <<"[", "]">>, <<"[", "e1", ",", "*", "e7", "]">>, <<"[", "e1", ",", "]">>,
    <<"{", "}">>, <<"{", "e1", ",", "*", "e7", ",", "}">>,
    <<"{", "e2", ":", "e2", ",", "**", "e7", "}">>, <<"{", "**", "e7", ",", "}">>,
    <<"[", "e1", "for", "T", "in", "e3", "if", "e3", "]">>,
    <<"(", "e1", "async", "for", "x", ",", "T", "in", "e3", "for", "T", ",", "in", "e3", ")">>,
    <<"{", "e1", "for", "T", "in", "e3", "if", "e3", "if", "e3", "}">>,
    <<"{", "e2", ":", "e2", "for", "T", "in", "e3", "}">>,
    <<"x", "(", ")">>, <<"x", "(", "e1", ",", "*", "e2", ",", "x", "=", "e2", ",", "**", "e2", ")">>,
    <<"x", "(", "e1", "for", "T", "in", "e3", ")">>,
    <<"x", "[", "e2", ":", "e2", ":", "e2", "]">>, <<"x", "[", ":", ":", "]">>,
    <<"x", "[", "e1", ",", "e2", ":", "]">>, <<"x", "[", "*", "e7", "]">>, <<"x", "[", "e1", ",", "]">>}}
    \cup {E(2, t) : t \in {
    <<"lambda", "x", "=", "e2", ",", "/", ",", "x", "=", "e2", ",", "*", "x", ",", "x", "=", "e2", ",", "**", "x", ":", "e2">>,
    <<"lambda", "x", ",", "*", ",", "x", ",", ":", "e2">>}}

Targets == {
    <<"x", ".", "x">>, <<"x", "[", "x", "]">>, <<"x", "(", ")", ".", "x">>, <<"(", "x", ")">>,
    <<"(", "x", ",", "x", ")">>, <<"[", "x", ",", "*", "x", "]">>, <<"x">>}


\* Patterns: p0 an open sequence, p1 as, p2 |, p3 the rest.
Patterns == {
    E(17, <<"p1", ",", "p1">>), E(17, <<"*", "x", ",", "p1", ",">>), E(18, <<"p2", "as", "x">>),
    E(19, <<"p3", "|", "p3", "|", "p3">>)}
    \cup {E(20, t) : t \in {
    <<"x">>, <<"_">>, <<"match">>, <<"1">>, <<"-", "1">>, <<"1", "+", "1">>, <<"-", "1", "-", "1">>,
    <<"s", "s">>, <<"None">>, <<"x", ".", "x">>, <<"(", ")">>, <<"(", "p1", ",", ")">>,
    <<"(", "p1", ",", "*", "_", ")">>, <<"[", "]">>, <<"[", "p1", ",", "*", "x", ",", "]">>, <<"{", "}">>,
    <<"{", "s", ":", "p1", ",", "**", "x", "}">>, <<"{", "x", ".", "x", ":", "p1", ",", "-", "1", ":", "p1", ",", "}">>, <<"{", "1", "-", "1", ":", "p1", "}">>,
    <<"x", "(", ")">>, <<"x", ".", "x", "(", "p1", ",", "x", "=", "p1", ",", ")">>}}

Simple == {
    <<"return">>, <<"return", "e0">>, <<"return", "*", "e7", ",", "e2">>, <<"pass">>, <<"break">>,
    <<"continue">>, <<"raise">>, <<"raise", "e2">>, <<"raise", "e2", "from", "e2">>,
    <<"del", "T", ",", "T">>, <<"del", "T", ",">>, <<"global", "x", ",", "x">>, <<"nonlocal", "x">>,
    <<"assert", "e2">>, <<"assert", "e2", ",", "e2">>,
    <<"import", "x", ".", "x", "as", "x", ",", "x">>, <<"from", ".", "import", "x">>,
    <<"from", "...", ".", "x", "import", "*">>, <<"from", "x", "import", "x", "as", "x", ",", "x">>,
    <<"from", "x", ".", "x", "import", "(", "x", "as", "x", ",", "x", ",", ")">>,
    <<"T", "=", "ey">>, <<"T", "=", "T", "=", "ey">>, <<"x", ",", "*", "T", "=", "ey">>,
    <<"T", ",", "=", "e0">>, <<"*", "T", ",", "=", "e0">>, <<"x", "+=", "ey">>, <<"x", "+=", "*", "e7", ",">>, <<"x", "+=", "(", "*", "e7", ",", ")">>, <<"x", ".", "x", "**=", "e0">>,
    <<"x", ":", "e2">>, <<"x", ".", "x", ":", "e2", "=", "ey">>, <<"type", "x", "=", "e2">>,
    <<"type", "x", "[", "x", ":", "e2", "=", "e2", ",", "*", "x", "=", "*", "e7", ",", "**", "x", "]", "=", "e2">>,
    <<"type", "=", "ey">>, <<"match", "=", "ey">>, <<"match", "(", "e1", ")">>, <<"match", "[", "x", "]">>,
    <<"type", ".", "x">>, <<"match", ":", "x", "=", "x">>, <<"ey">>}

\* Statements with suites: B is one of them.
Compound == {
    <<"if", "e1", "B", "elif", "e1", "B", "else", "B">>, <<"if", "e1", "B">>, <<"while", "e1", "B", "else", "B">>,
    <<"for", "T", "in", "e0", "B", "else", "B">>, <<"for", "x", "in", "e2", ",", "B">>, <<"async", "for", "x", ",", "*", "T", ",", "in", "*", "e7", ",", "e2", "B">>,
    <<"with", "e2", "B">>, <<"with", "(", "e1", ")", "B">>, <<"with", "(", "e1", ",", "e2", ")", "B">>, <<"with", "e2", "as", "T", ",", "e2", "B">>, <<"async", "with", "(", "e2", "as", "T", ",", "e2", ",", ")", "B">>,
    <<"try", "B", "except", "B">>, <<"try", "B", "except", "e2", "as", "x", "B", "except", "e2", "B", "else", "B", "finally", "B">>,
    <<"try", "B", "finally", "B">>, <<"try", "B", "except", "*", "e2", "B">>, <<"try", "B", "except", "e2", ",", "e2", "B">>,
    <<"def", "x", "(", ")", "B">>, <<"async", "def", "x", "[", "x", "]", "(", ")", "B">>, <<"async", "def", "x", "(", "x", ",", "/", ")", "->", "e2", "B">>,
    <<"def", "x", "(", "x", ":", "e2", "=", "e2", ",", "/", ",", "x", "=", "e2", ",", "*", "x", ":", "*", "e7", ",", "x", "=", "e2", ",", "**", "x", ":", "e2", ",", ")", "B">>,
    <<"@", "e1", "NEWLINE", "@", "e1", "NEWLINE", "def", "x", "(", "*", ",", "x", ")", "B">>, <<"class", "x", "B">>,
    <<"@", "e1", "NEWLINE", "class", "x", "(", "e1", ",", "*", "e2", ",", "x", "=", "e2", ")", "B">>,
    <<"def", "x", "[", "x", ":", "e2", ",", "*", "x", ",", "**", "x", "=", "e2", "]", "(", ")", "B">>, <<"class", "x", "[", "x", "]", "(", ")", "B">>,
    <<"match", "e0", ":", "NEWLINE", "INDENT", "case", "p0", "if", "e1", "B", "case", "p0", "B", "DEDENT">>,
    <<"match", "*", "e7", ",", "e2", ":", "NEWLINE", "INDENT", "case", "_", "B", "DEDENT">>}
Indented(t) == <<":", "NEWLINE", "INDENT">> \o t \o <<"DEDENT">>

Holes == DOMAIN Loosest \cup {"T", "B"}
Parens(t) == <<"(">> \o t \o <<")">>
\* What stands in a hole that is not the one to be filled.
Default(hole) ==
    IF hole = "B" THEN <<":", "pass", "NEWLINE">> ELSE IF hole \in Holes THEN <<"x">> ELSE <<hole>>
Defaults(t) == FlattenSeq([i \in DOMAIN t |-> Default(t[i])])
\* The ways to put the fragment f into the hole.
Fits(f, hole) ==
    (IF f.level >= Loosest[hole] /\ (f.level = 2 => hole = "e1") THEN {f.t} ELSE {}) \cup {Parens(f.t)}
\* The template t with one of its holes filled; suites holds the statements for B.
Derived(t, exprs, patterns, suites) ==
    UNION {{Defaults(SubSeq(t, 1, i - 1)) \o f \o Defaults(SubSeq(t, i + 1, Len(t))) :
               f \in CASE t[i] = "T" -> Targets
                       [] t[i] = "B" -> {Indented(s) : s \in suites}
                       [] t[i] \in {"p0", "p1", "p2", "p3"} -> UNION {Fits(e, t[i]) : e \in patterns}
                       [] OTHER -> UNION {Fits(e, t[i]) : e \in exprs}} :
           i \in {j \in DOMAIN t : t[j] \in Holes}}
Deeper(templates, exprs) ==
    UNION {{[level |-> e.level, t |-> t] : t \in Derived(e.t, exprs, exprs, {})} : e \in templates}

Flat(templates) == {[e EXCEPT !.t = Defaults(@)] : e \in templates}
Expressions == Deeper(Operators, Flat(Operators \cup Displays)) \cup Deeper(Displays, Flat(Operators))
CasePatterns == Flat(Patterns) \cup Deeper(Patterns, Flat(Patterns))

Line(t) == t \o <<"NEWLINE">>
FlatSimple == {Line(Defaults(t)) : t \in Simple}
FlatCompound == {Defaults(t) : t \in Compound}
InlineSuites ==
    {<<"if", "x", ":">> \o Defaults(s) \o <<";", "x", ";", "NEWLINE">> : s \in Simple}
Statements ==
    {Line(IF e.level = 2 THEN Parens(e.t) ELSE e.t) : e \in Expressions}
    \cup UNION {{Line(s) : s \in Derived(t, Flat(Operators), {}, {})} : t \in Simple}
    \cup FlatSimple \cup FlatCompound
    \cup UNION {Derived(t, Flat(Operators), CasePatterns, FlatSimple \cup FlatCompound) : t \in Compound}
    \cup {s \o Line(<<"x">>) : s \in FlatCompound}
    \cup InlineSuites
MCFiles == {s \o <<"END">> : s \in Statements \cup {<<>>}}
=============================================================================
