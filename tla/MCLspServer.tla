---------------------------- MODULE MCLspServer ----------------------------
(***************************************************************************)
(* A small instance of LspServer: two documents of one directory and an    *)
(* untitled one; the fixer changes one text under one configuration.       *)
(***************************************************************************)
EXTENDS LspServer, TLC

CONSTANTS u1, u2, u3, d1, good, bad, zero, strict

MCDirOf == (u1 :> d1) @@ (u2 :> d1) @@ (u3 :> Nothing)
MCFixable == {<<good, strict>>}
=============================================================================
