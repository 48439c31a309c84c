----------------------------- MODULE LintPooled -----------------------------
(***************************************************************************)
(* LintFiles of linter/, whose workers parse with parser.ParseFile: the    *)
(* workers of LintFiles are the callers of ParserPool, and each of them    *)
(* uses the AST it was given, for Lint, after the parser went back to the  *)
(* pool.  What Lint reports is what it sees through the pointers then.     *)
(***************************************************************************)
EXTENDS LintFiles

CONSTANTS
    Parsers,      \* identities of parsers
    NodeCount,    \* arena nodes of a content
    MaxGrowths,   \* bound on the growths of an arena
    Capacity      \* cells of each array of an arena

\* The parser's constants, as ParserPool assumes them.
ASSUME PooledAssumption ==
    /\ NodeCount \in [Contents -> Nat]
    /\ \A v \in Contents \ Broken : NodeCount[v] > 0
    /\ MaxGrowths \in Nat
    /\ Capacity \in [0 .. MaxGrowths -> Nat]
    /\ \A g \in 0 .. MaxGrowths - 1 : Capacity[g] < Capacity[g + 1]
    /\ \A v \in Contents : NodeCount[v] <= Capacity[MaxGrowths]
    /\ Nothing \notin Parsers /\ Nothing \notin Workers \X Contents

VARIABLES
    pool, len, grown, cell,   \* the parsers and their arenas
    ppc, own, ast,            \* the workers as callers of ParseFile
    pfile                     \* the source each of them parses or checks

parserVars == <<pool, len, grown, cell, ppc, own, ast, pfile>>

\* Every worker uses its AST.
Parser == INSTANCE ParserPool WITH
    Callers <- Workers, Retainers <- Workers, Files <- Contents,
    pc <- ppc, file <- pfile

InitPooled == Init /\ Parser!Init

\* LintFile calls ParseFile on the source it has read.
SourceOnDisk(w) == \* mutant: the file is read a second time for the parse
    IF disk[job[w]].content \in Contents THEN disk[job[w]].content ELSE src[w]
Source(w) == src[w]

ParseBegin(w) ==
    /\ wpc[w] = "lint"
    /\ Parser!GetPooled(w, Source(w)) \/ Parser!GetFresh(w, Source(w))
    /\ UNCHANGED vars

ParseNode(w) ==
    /\ Parser!Allocate(w)
    /\ UNCHANGED vars

\* ParseFile returns: an error ends lintOneFile, an AST goes to Lint.
ParseEnd(w) ==
    /\ Parser!Finish(w)
    /\ LintSource(w)

\* Lint walks the AST; its diagnostics are stored under the path of the worker.
CheckAST(w) ==
    /\ \E node \in Parser!view[w] : Store(w, Lint(node[2], cfg))
    /\ Parser!Drop(w)

PooledWorker(w) ==
    \/ /\ Receive(w) \/ ExitWorker(w) \/ Stat(w) \/ Lookup(w) \/ Read(w)
       /\ UNCHANGED parserVars
    \/ ParseBegin(w)
    \/ ParseNode(w)
    \/ ParseEnd(w)
    \/ CheckAST(w)

\* A new process starts with an empty pool.
PooledExit ==
    /\ Exit
    /\ pool' = {}
    /\ len' = [p \in Parsers |-> 0]
    /\ grown' = [p \in Parsers |-> 0]
    /\ cell' = [p \in Parsers |-> Parser!Blank]
    /\ ppc' = [w \in Workers |-> "idle"]
    /\ pfile' = [w \in Workers |-> Nothing]
    /\ own' = [w \in Workers |-> Nothing]
    /\ ast' = [w \in Workers |-> {}]

PooledRun ==
    \/ /\ (\E c \in Configs, n \in JobChoices : Start(c, n)) \/ Wait \/ Save
       /\ UNCHANGED parserVars
    \/ PooledExit

Collect == (\E p \in Parsers : Parser!Evict(p)) /\ UNCHANGED vars

NextPooled ==
    \/ Editor /\ UNCHANGED parserVars
    \/ PooledRun
    \/ Collect
    \/ \E w \in Workers : PooledWorker(w)

SpecPooled == InitPooled /\ [][NextPooled]_<<vars, parserVars>>

(***************************************************************************)
(* The workers of a pool that keeps its promise are those of LintFiles:    *)
(* with one job, LintPooled implements LintFiles without its fairness.     *)
(***************************************************************************)
ImplementsLintFiles == Init /\ [][Next]_vars
=============================================================================
