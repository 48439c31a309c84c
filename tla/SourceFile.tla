----------------------------- MODULE SourceFile -----------------------------
(***************************************************************************)
(* What a source file goes through: the scanners of the two front ends     *)
(* find its lines and blocks (Blocks), their parsers its tree, which       *)
(* unparse writes back (FrontEnds), and lint --fix changes the tree before *)
(* it is written (LintFix).  Each layer is given what it tells apart,      *)
(* characters or tokens, and is looked at on its own.                      *)
(***************************************************************************)
EXTENDS Blocks

CONSTANTS
    Files,    \* the files as the parsers see them
    Inputs    \* the files that lint --fix is given, with the codes that are enabled

VARIABLES
    layer,                                \* the layer that is looked at
    toks, step, mod, other, mod2, other2, \* those of FrontEnds
    phase, enabled, read, tree, fixed, again, elsewhere  \* those of LintFix, and toks

Parsers == INSTANCE FrontEnds
Fixer == INSTANCE LintFix

treeVars == <<step, mod, other, mod2, other2>>
fixVars == <<phase, enabled, read, tree, fixed, again, elsewhere>>
varsFile == <<layer, vars, toks, treeVars, fixVars>>

In(name) == layer = name

Unselected(files) == {[file |-> f, codes |-> {}] : f \in files}

\* The layers that are not looked at have an empty file.
InitFile ==
    /\ layer \in {"blocks", "trees", "fix"}
    /\ Opens(IF In("blocks") THEN Sources ELSE {<<>>})
    /\ Fixer!Opens(CASE In("blocks") -> Unselected({<<"END">>})
                     [] In("trees") -> Unselected(Files)
                     [] In("fix") -> Inputs)
    /\ Parsers!Opens({toks})

ScanLines == In("blocks") /\ Next /\ UNCHANGED <<layer, toks, treeVars, fixVars>>
CheckTree == In("trees") /\ Parsers!Next /\ UNCHANGED <<layer, vars, fixVars>>
FixTree == In("fix") /\ Fixer!Next /\ UNCHANGED <<layer, vars, treeVars>>

\* The scanners have come to the end of the file, or to an error.
Scanned == In("blocks") /\ Ended /\ UNCHANGED varsFile

NextFile == ScanLines \/ CheckTree \/ FixTree \/ Scanned
SpecFile == InitFile /\ [][NextFile]_varsFile

-----------------------------------------------------------------------------
(* The layers that are not looked at stand still: what Blocks says of its   *)
(* scanners is a property of every state as it is.                         *)

\* Every layer is of its type.
TypeOKFile ==
    /\ layer \in {"blocks", "trees", "fix"}
    /\ TypeOK
    /\ In("trees") => Parsers!TypeOK
    /\ In("fix") => Fixer!TypeOK

\* What unparse writes reads back as the tree it wrote, but for what it is known to lose.
RoundTripsButLost == In("trees") => Parsers!RoundTripsButLost

\* v1 and v2 read the same tree, but where they are known not to.
FrontEndsAgree == In("trees") => Parsers!FrontEndsAgree

\* v2 reads in what unparse writes what v1 read in the file.
WrittenIsShared == In("trees") => Parsers!WrittenIsShared

\* A function computes what it did before --fix, but for reads --fix is known to overlook.
FixKeepsMeaning == In("fix") => Fixer!FixKeepsMeaning

\* What --fix writes is the tree it has made, to both parsers.
FixedFileStands == In("fix") => Fixer!FixedFileStands

\* --fix resolves what it is for and brings nothing that was not reported before.
FixAddsNothing == In("fix") => Fixer!FixAddsNothing

\* F841 finds the locals that their function never reads, in whatever block it stands.
ReportedLocalIsUnread == In("fix") => Fixer!ReportedLocalIsUnread
=============================================================================
