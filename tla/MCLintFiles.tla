---------------------------- MODULE MCLintFiles ----------------------------
(***************************************************************************)
(* Small instances of LintFiles.  The contents old and new have the same   *)
(* size, so that only the time stamp tells their versions apart.           *)
(***************************************************************************)
EXTENDS LintFiles, TLC

CONSTANTS old, new, bad

MCContents == {old, new, bad}
MCBroken == {bad}
MCSizeOf == (old :> 1) @@ (new :> 1) @@ (bad :> 2)
=============================================================================
