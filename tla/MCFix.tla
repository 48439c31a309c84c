-------------------------------- MODULE MCFix --------------------------------
(***************************************************************************)
(* Files for LintFix: imports in every place with something that uses them *)
(* or not, function bodies of three statements, comparisons of two         *)
(* operators, and functions in blocks.                                     *)
(***************************************************************************)
EXTENDS MCPython

PassLine == Line(<<"pass">>)
Def(name, body) == <<"def", name, "(", ")">> \o Indented(body)

ImportLines == {Line(t) : t \in {
    <<"import", "x">>, <<"import", "x", ".", "y">>, <<"import", "x", ".", "y", "as", "y">>,
    <<"import", "y", ",", "x">>, <<"import", "x", ",", "x">>, <<"import", "__future__", "as", "x">>,
    <<"from", "y", "import", "x">>, <<"from", "y", "import", "y", "as", "x", ",", "y">>,
    <<"from", ".", "import", "x">>, <<"from", "y", "import", "*">>}}
\* These stand at the start of a file only.
FutureLines == {Line(<<"from", "__future__", "import", "x">>)}
Places(t) ==
    {t, <<"if", "y">> \o Indented(t), <<"if", "y">> \o Indented(PassLine) \o <<"else">> \o Indented(t),
     <<"if", "y">> \o Indented(PassLine) \o <<"elif", "y">> \o Indented(t),
     <<"while", "y">> \o Indented(t), <<"for", "y", "in", "y">> \o Indented(PassLine \o t),
     <<"with", "y">> \o Indented(t),
     <<"try">> \o Indented(t) \o <<"except">> \o Indented(t),
     <<"try">> \o Indented(PassLine) \o <<"finally">> \o Indented(t),
     <<"match", "y", ":", "NEWLINE", "INDENT", "case", "y">> \o Indented(t) \o <<"DEDENT">>,
     Def("y", t), <<"class", "y">> \o Indented(t)}
Uses ==
    {<<>>, Line(<<"x">>), Def("y", Line(<<"x">>)), <<"class", "y">> \o Indented(Line(<<"x">>)),
     Line(<<"[", "x", "for", "y", "in", "y", "]">>), Line(<<"[", "y", "for", "y", "in", "x", "]">>),
     Line(<<"lambda", ":", "x">>), Def("y", Line(<<"global", "x">>) \o Line(<<"x", "+=", "1">>)),
     Line(<<"del", "x">>), Line(<<"x", "=", "1">>), Line(<<"x", "+=", "1">>),
     Line(<<"from", "y", "import", "x">>)}
Moved == {Line(<<"import", "x">>), Line(<<"from", "y", "import", "y", "as", "x", ",", "y">>)}
ImportFiles ==
    {t \o u : t \in UNION {Places(i) : i \in Moved} \cup ImportLines \cup FutureLines, u \in Uses}

Stores == {Line(t) : t \in {
    <<"x", "=", "1">>, <<"x", "=", "None">>, <<"x", "=", "x">>, <<"x", "=", "y">>, <<"y", "=", "x">>,
    <<"x", "=", "y", "(", ")">>, <<"x", ":", "y", "=", "1">>, <<"x", ":", "y">>, <<"x", "+=", "1">>,
    <<"x", "=", "y", "=", "1">>, <<"x", ".", "y", "=", "1">>, <<"return", "x">>, <<"global", "x">>,
    <<"(", "x", ":=", "1", ")">>, <<"x", "=", "lambda", ":", "x">>}}
    \cup {Def("y", Line(<<"return", "x">>)), <<"if", "y">> \o Indented(Line(<<"x", "=", "1">>))}
Literals == {Line(<<"x", "=", "1">>), Line(<<"x", "=", "None">>)}
Contexts == Literals \cup
    {Line(<<"global", "x">>), Line(<<"return", "x">>), Line(<<"y", "=", "x">>),
     Def("y", Line(<<"return", "x">>))}
BodyFiles ==
    {Def("y", a \o b \o c) : a, c \in Contexts, b \in Stores}
    \cup {Def("y", a \o b \o c) : a \in Contexts, b \in Literals, c \in Stores}
    \cup {<<"async">> \o Def("y", a \o b) : a \in Literals, b \in Stores}
    \cup {a \o b : a \in Literals, b \in Stores}

Operands == {<<"x">>, <<"None">>, <<"True">>, <<"1">>, <<"(", "1", ",", ")">>, <<"-", "1">>}
Equal == {<<"==">>, <<"!=">>, <<"is">>, <<"is", "not">>, <<"<">>}
CompareFiles ==
    {Line(a \o o \o b) : a, b \in Operands, o \in Equal}
    \cup {Line(a \o o \o b \o p \o c) :
             a, b, c \in {<<"x">>, <<"None">>, <<"True">>}, o, p \in {<<"==">>, <<"!=">>, <<"<">>}}
    \cup {Def("x", Line(<<"return", "x", "(", "x">> \o o \o a \o <<")">>)) : o \in Equal, a \in Operands}

\* Functions in blocks and beside each other, with a local that is read or not.
Bodies == {Line(<<"x", "=", "1">>), Line(<<"x", "=", "1">>) \o Line(<<"x">>),
           Line(<<"x", ":", "y", "=", "1">>), Line(<<"_", "=", "1">>)}
\* Bodies that bind a name by a walrus, or in a chain, and nothing else.
Walrus == <<"(", "x", ":=", "1", ")">>
ExpressionBodies ==
    UNION {{Line(t), Line(t) \o Line(<<"x">>), Line(t) \o Def("y", Line(<<"return", "x">>))} : t \in
        {Walrus, <<"[">> \o Walrus \o <<"for", "y", "in", "y", "]">>, <<"lambda", ":">> \o Walrus,
         <<"x", "=", "y", "=", "1">>}}
Nests(d) ==
    {d, <<"if", "y">> \o Indented(d), <<"try">> \o Indented(d) \o <<"except", "y", "as", "y">> \o Indented(d),
     <<"match", "y", ":", "NEWLINE", "INDENT", "case", "y">> \o Indented(d) \o <<"DEDENT">>,
     <<"for", "y", "in", "y">> \o Indented(PassLine) \o <<"else">> \o Indented(d),
     <<"class", "y">> \o Indented(d), Def("y", d)}
LocalFiles ==
    UNION {Nests(Def("x", b)) \cup Nests(b) \cup Nests(<<"if", "y">> \o Indented(b)) : b \in Bodies}
    \cup {s \o t : s \in UNION {Nests(Def("x", b)) : b \in Bodies},
                  t \in UNION {Nests(Def("y", b)) : b \in Bodies}}
    \cup {s \o t : s, t \in UNION {Nests(Def("y", b)) : b \in Bodies}}
    \cup {<<"if", "y">> \o Indented(Def("y", b) \o Def("y", c)) : b, c \in Bodies}
    \cup UNION {Nests(Def("y", b)) : b \in ExpressionBodies}

Given(files, codes) == {[file |-> t \o <<"END">>, codes |-> codes] : t \in files}
MCInputs ==
    Given(ImportFiles \cup BodyFiles \cup CompareFiles \cup LocalFiles, {"F401", "F811", "E711", "E712"})
    \cup Given(CompareFiles \cup {<<")", "NEWLINE">>}, {"F811", "E712"})
=============================================================================
