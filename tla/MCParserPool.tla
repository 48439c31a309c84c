---------------------------- MODULE MCParserPool ----------------------------
(***************************************************************************)
(* Small instances of ParserPool: three sources of which one is broken,    *)
(* arrays that double, so that the largest file needs two moves.           *)
(***************************************************************************)
EXTENDS ParserPool, TLC

CONSTANTS small, large, bad

MCFiles == {small, large, bad}
MCBroken == {bad}
MCNodeCount == (small :> 1) @@ (large :> 3) @@ (bad :> 2)
MCCapacity == [g \in 0 .. MaxGrowths |-> 2 ^ g]

Symmetry == Permutations(Parsers) \cup Permutations(Callers)
ParserSymmetry == Permutations(Parsers)
=============================================================================
