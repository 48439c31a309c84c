---------------------------- MODULE MCSourceFile ----------------------------
(***************************************************************************)
(* Sources of three lines after a first one, with every kind of            *)
(* indentation and of line; the files are those of MCPython and MCFix.     *)
(***************************************************************************)
EXTENDS SourceFile, MCFix

Spaces(n) == [i \in 1 .. n |-> "s"]
Indents == {<<>>, Spaces(1), Spaces(8), <<"t">>, <<"s", "f">>}
Contents ==
    {<<>>, <<"h", "x">>, <<"x">>, <<"x", "(">>, <<")", "s", "h">>, <<"x", "b">>, <<"b">>}
Lines == {i \o c : i \in Indents, c \in Contents}
MCSources ==
    {<<"x", "n">> \o i \o <<"x", "n">> \o b \o <<"n">> \o c \o e :
        i \in Indents, b \in Lines, c \in Lines, e \in {<<>>, <<"n">>}} \cup {<<>>}
=============================================================================
