----------------------------- MODULE DirCommands -----------------------------
(***************************************************************************)
(* `gopapy` given a directory: runWithStdin dispatches to benchCmd, whose  *)
(* pool is BenchPool, to checkDir or unparseCmd, whose pool is IndexPool,  *)
(* or to lintCmd.  The pool of lint has a module of its own, LintFiles;    *)
(* its cache file is CacheFile; with --fix it is FixInPlace, which knows   *)
(* neither pool nor cache.  Both of these may meet other processes in the  *)
(* file system.  One command is all a process runs.                        *)
(***************************************************************************)
EXTENDS Naturals

CONSTANTS
    NParsed,     \* files of the directory that bench parses
    NChecked,    \* files of the directory that check and unparse look at
    NumCPU, ChanFactor, MaxBroken, Allow, None,
    Processes, Writers, Sources, Inodes,    \* those of CacheFile
    Fixers, NSources, NTemps, MaxSaves      \* those of FixInPlace

VARIABLES
    command,
    broken, main, sent, ch, chClosed, resultCh, resultClosed, worker, current, parseFailed,
    truth, imain, isent, jobCh, closed, iworker, icurrent, results, report,
    link, types, value, pc, fd, entries, gained,
    disk, saves, fpc, todo, cur, base, tmp, linked, failed, since, meddled

Bench == INSTANCE BenchPool WITH NFiles <- NParsed

Index == INSTANCE IndexPool WITH
    NFiles <- NChecked,
    main <- imain, sent <- isent, worker <- iworker, current <- icurrent

Cache == INSTANCE CacheFile
Fix == INSTANCE FixInPlace

ASSUME DirCommandsAssumption ==
    /\ Bench!BenchAssumption /\ Index!IndexPoolAssumption
    /\ Cache!CacheFileAssumption /\ Fix!FixInPlaceAssumption

benchVars == <<broken, main, sent, ch, chClosed, resultCh, resultClosed, worker,
               current, parseFailed>>
indexVars == <<truth, imain, isent, jobCh, closed, iworker, icurrent, results, report>>
cacheVars == <<link, types, value, pc, fd, entries, gained>>
fixVars == <<disk, saves, fpc, todo, cur, base, tmp, linked, failed, since, meddled>>
vars == <<command, benchVars, indexVars, cacheVars, fixVars>>

Runs(name) == command = name

TypeOK ==
    /\ command \in {"bench", "check", "lint", "fix"}
    /\ Bench!TypeOK
    /\ Index!TypeOK
    /\ Cache!TypeOK
    /\ Fix!TypeOK

\* Files that a command does not look at are taken to be good ones.
Init ==
    /\ command \in {"bench", "check", "lint", "fix"}
    /\ Bench!Init /\ (~Runs("bench") => broken = {})
    /\ Index!Init /\ (~Runs("check") => truth = [i \in Index!Files |-> "ok"])
    /\ Cache!Init
    /\ Fix!Init /\ (~Runs("fix") => \A f \in Fix!Scripts : disk[f].form = "clean")

BenchMain == Runs("bench") /\ Bench!Main /\ UNCHANGED <<command, indexVars, cacheVars, fixVars>>
BenchWorker(w) ==
    Runs("bench") /\ Bench!Worker(w) /\ UNCHANGED <<command, indexVars, cacheVars, fixVars>>
BenchCloser ==
    Runs("bench") /\ Bench!CloseFailures /\ UNCHANGED <<command, indexVars, cacheVars, fixVars>>

IndexMain == Runs("check") /\ Index!Main /\ UNCHANGED <<command, benchVars, cacheVars, fixVars>>
IndexWorker(w) ==
    Runs("check") /\ Index!Worker(w) /\ UNCHANGED <<command, benchVars, cacheVars, fixVars>>

LintCache == Runs("lint") /\ Cache!Next /\ UNCHANGED <<command, benchVars, indexVars, fixVars>>

LintFix == Runs("fix") /\ Fix!Next /\ UNCHANGED <<command, benchVars, indexVars, cacheVars>>

\* run returns the command's exit code; the process ends.
Done == (Bench!Done \/ Index!Done \/ Fix!Ended) /\ UNCHANGED vars

Next ==
    \/ BenchMain \/ BenchCloser \/ IndexMain
    \/ \E w \in 1 .. NumCPU : BenchWorker(w) \/ IndexWorker(w)
    \/ LintCache \/ LintFix
    \/ Done

\* Go runs every goroutine that is not blocked.
Spec ==
    /\ Init /\ [][Next]_vars
    /\ WF_vars(BenchMain) /\ WF_vars(BenchCloser) /\ WF_vars(IndexMain)
    /\ \A w \in 1 .. NumCPU : WF_vars(BenchWorker(w)) /\ WF_vars(IndexWorker(w))

-----------------------------------------------------------------------------

\* The reports of bench, check and unparse --check are those of a serial pass: every
\* file that fails is counted, once, and by check in the right column.
ReportsAreSerial ==
    /\ Runs("bench") => Bench!CountsEveryFailure
    /\ Runs("check") => Index!SummaryIsSerial

\* No worker of bench sends on the channel of failures after it was closed.
NoSendOnClosed == Bench!NoSendOnClosed

\* Commands with a pool end: bench if no more files fail than one channel and all workers
\* but one can hold, check and unparse --check always.
PoolsEnd == (Runs("bench") => Bench!BenchEnds) /\ (Runs("check") => Index!PoolEnds)

\* What a Save has written is what is loaded, whatever fails later.
SavedIsLoaded == Cache!SavedIsLoaded

\* Nobody finds half a file, whatever fails or crashes: the cache file of lint always
\* decodes, and a source that lint --fix is at is whole.
FilesStayWhole == Cache!NeverHalfWritten /\ Fix!NeverTruncated

\* What lint --fix leaves to fix it has reported, or the file was saved meanwhile.
FixedOrReported == Fix!FixedOrReported

\* No step of a Save takes an entry out of the cache file, and what an editor saves is
\* lost only if lint --fix was at the file.
NothingIsLost == Cache!EntriesStay /\ Fix!SavesStay
=============================================================================
