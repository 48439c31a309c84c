---------------------------- MODULE MCLintPooled ----------------------------
(***************************************************************************)
(* Small instances of LintPooled: an arena of one Module node per source,  *)
(* which is the node every reader of an AST starts from.                   *)
(***************************************************************************)
EXTENDS LintPooled, TLC

CONSTANTS old, new, bad

MCContents == {old, new, bad}
MCBroken == {bad}
MCSizeOf == (old :> 1) @@ (new :> 1) @@ (bad :> 2)
MCNodeCount == [v \in MCContents |-> 1]
MCCapacity == [g \in 0 .. MaxGrowths |-> g + 1]
=============================================================================
