------------------------------ MODULE LintFiles ------------------------------
(***************************************************************************)
(* `gopapy lint DIR`: LintFiles and its worker pool, lintOneFile, and the  *)
(* result cache, over a directory that an editor changes meanwhile.        *)
(*                                                                         *)
(* A run opens the cache, hands the paths to its workers over a channel    *)
(* that is filled and closed beforehand, waits for the workers, and saves  *)
(* the cache.  A run may crash anywhere; the next one starts from the      *)
(* cache file.  Each call of lintOneFile is split where another goroutine  *)
(* or the editor can get in between: Stat, Lookup, ReadFile, the lint      *)
(* proper, and Store.                                                      *)
(*                                                                         *)
(* The lint of a source is its content paired with the configuration:      *)
(* which diagnostics a checker finds is not looked at here.  The parse     *)
(* behind it is private to the worker, as in legacy/linter; LintPooled     *)
(* replaces it by the pooled parser of linter/.                            *)
(***************************************************************************)
EXTENDS Naturals

CONSTANTS
    N,           \* number of paths, 1 .. N
    JobChoices,  \* values of --jobs; 0 stands for the option left out
    GOMAXPROCS,  \* what the runtime reports
    Contents,    \* what a file may contain
    Broken,      \* the contents that do not parse
    SizeOf,      \* SizeOf[v]: size of content v
    Configs,     \* lint configurations a run may be given
    MaxClock,    \* bound: ticks of the clock that stamps edits
    FineClock,   \* TRUE: no two versions of a file share a time stamp
    Gone,        \* a path that is not on disk
    Failed,      \* FileResult.Err: no stat, no read or no parse
    Nothing      \* no entry, no result, no source

ASSUME JobsAssumption ==
    /\ N \in Nat \ {0}
    /\ GOMAXPROCS \in Nat \ {0}
    /\ JobChoices \subseteq Nat /\ JobChoices # {}

ASSUME ContentsAssumption ==
    /\ Broken \subseteq Contents
    /\ SizeOf \in [Contents -> Nat]
    /\ MaxClock \in Nat
    /\ FineClock \in BOOLEAN
    /\ Gone \notin Contents /\ Nothing \notin Contents
    /\ Nothing # Failed /\ {Nothing, Failed} \cap (Contents \X Configs) = {}

Paths == 1 .. N

VARIABLES
    disk,      \* disk[i]: content and modification time of path i
    clock,     \* the time an edit is stamped with
    saved,     \* the entries in the cache file
    phase,     \* "idle", "running", "waited" or "done"
    cfg,       \* configuration of the run
    jobs,      \* size of its worker pool, after clamping
    next,      \* first path not received from the channel
    entries,   \* the entries of the open cache
    dirty,     \* whether the open cache was changed
    wpc,       \* wpc[w]: where worker w is
    job,       \* job[w]: the path it works on
    info,      \* info[w]: what Stat told it
    src,       \* src[w]: what ReadFile gave it
    results,   \* results[i]: the outcome reported for path i
    during     \* history: the contents path i has had since the run began

diskVars == <<disk, clock, during>>
runVars == <<phase, cfg, jobs, results>>
cacheVars == <<saved, entries, dirty>>
workerVars == <<next, wpc, job, info, src>>
vars == <<diskVars, runVars, cacheVars, workerVars>>

\* LintFileWithConfig on a source that parses.
Lint(v, c) == <<v, c>>
Diagnostics == (Contents \ Broken) \X Configs

Versions == [content : Contents \cup {Gone}, mtime : 0 .. MaxClock]
Stats == [mtime : 0 .. MaxClock, size : Nat]
Entries == [hash : Configs, mtime : 0 .. MaxClock, size : Nat, diags : Diagnostics]

\* At most GOMAXPROCS or the largest --jobs workers, and never more than paths.
Workers == 1 .. N

TypeOK ==
    /\ disk \in [Paths -> Versions]
    /\ clock \in 0 .. MaxClock
    /\ saved \in [Paths -> Entries \cup {Nothing}]
    /\ phase \in {"idle", "running", "waited", "done"}
    /\ cfg \in Configs
    /\ jobs \in 1 .. N
    /\ next \in 1 .. N + 1
    /\ entries \in [Paths -> Entries \cup {Nothing}]
    /\ dirty \in BOOLEAN
    /\ wpc \in [Workers -> {"off", "receive", "stat", "lookup", "read", "lint",
                            "store", "exited"}]
    /\ job \in [Workers -> Paths]
    /\ info \in [Workers -> Stats \cup {Nothing}]
    /\ src \in [Workers -> Contents \cup {Nothing}]
    /\ results \in [Paths -> Diagnostics \cup {Failed, Nothing}]
    /\ during \in [Paths -> SUBSET (Contents \cup {Gone})]

Init ==
    /\ disk \in [Paths -> [content : Contents \cup {Gone}, mtime : {0}]]
    /\ clock = 0
    /\ saved = [i \in Paths |-> Nothing]
    /\ phase = "idle"
    /\ cfg \in Configs
    /\ jobs = 1
    /\ next = 1
    /\ entries = saved
    /\ dirty = FALSE
    /\ wpc = [w \in Workers |-> "off"]
    /\ job = [w \in Workers |-> 1]
    /\ info = [w \in Workers |-> Nothing]
    /\ src = [w \in Workers |-> Nothing]
    /\ results = [i \in Paths |-> Nothing]
    /\ during = [i \in Paths |-> {}]

-----------------------------------------------------------------------------
(* The editor and the clock.                                               *)

Tick ==
    /\ clock < MaxClock
    /\ clock' = clock + 1
    /\ UNCHANGED <<disk, during, runVars, cacheVars, workerVars>>

\* A file is written, created or removed; writing stamps it with the clock.
Edit(i, v) ==
    /\ v # disk[i].content
    /\ FineClock => disk[i].mtime < clock
    /\ disk' = [disk EXCEPT ![i] = [content |-> v, mtime |-> clock]]
    /\ during' = [during EXCEPT ![i] = @ \cup {v}]
    /\ UNCHANGED <<clock, runVars, cacheVars, workerVars>>

-----------------------------------------------------------------------------
(* The run.                                                                *)

\* jobs <= 0 means GOMAXPROCS(0), and there are never more jobs than paths.
ClampLow(n) == \* mutant: the upper limit is forgotten
    IF n = 0 THEN GOMAXPROCS ELSE n
Clamp(n) ==
    LET wanted == IF n = 0 THEN GOMAXPROCS ELSE n
    IN  IF wanted > N THEN N ELSE wanted

\* OpenCache, then LintFiles up to the start of its goroutines.
Start(c, n) ==
    /\ phase = "idle"
    /\ phase' = "running"
    /\ cfg' = c
    /\ jobs' = Clamp(n)
    /\ next' = 1
    /\ entries' = saved
    /\ dirty' = FALSE
    /\ wpc' = [w \in Workers |-> IF w <= jobs' THEN "receive" ELSE "off"]
    /\ results' = [i \in Paths |-> Nothing]
    /\ during' = [i \in Paths |-> {disk[i].content}]
    /\ UNCHANGED <<disk, clock, saved, job, info, src>>

WaitNot == TRUE \* mutant: no wg.Wait
AllExited == \A w \in 1 .. jobs : wpc[w] = "exited"

\* wg.Wait returns, and LintFiles hands the results to lintCmd.
Wait ==
    /\ phase = "running"
    /\ AllExited
    /\ phase' = "waited"
    /\ UNCHANGED <<diskVars, cfg, jobs, results, cacheVars, workerVars>>

\* cache.Save: nothing to do, or the file is replaced; a failure is a warning.
Save ==
    /\ phase = "waited"
    /\ phase' = "done"
    /\ \/ dirty /\ saved' = entries /\ dirty' = FALSE
       \/ UNCHANGED <<saved, dirty>>
    /\ UNCHANGED <<diskVars, cfg, jobs, results, entries, workerVars>>

\* The process is gone: it ended, or was killed before that.
Exit ==
    /\ phase # "idle"
    /\ phase' = "idle"
    /\ jobs' = 1
    /\ next' = 1
    /\ entries' = [i \in Paths |-> Nothing]
    /\ dirty' = FALSE
    /\ wpc' = [w \in Workers |-> "off"]
    /\ job' = [w \in Workers |-> 1]
    /\ info' = [w \in Workers |-> Nothing]
    /\ src' = [w \in Workers |-> Nothing]
    /\ results' = [i \in Paths |-> Nothing]
    /\ during' = [i \in Paths |-> {}]
    /\ UNCHANGED <<disk, clock, saved, cfg>>

-----------------------------------------------------------------------------
(* A worker.                                                               *)

\* The next path is received from the channel.
Receive(w) ==
    /\ wpc[w] = "receive"
    /\ next <= N
    /\ job' = [job EXCEPT ![w] = next]
    /\ next' = next + 1
    /\ wpc' = [wpc EXCEPT ![w] = "stat"]
    /\ UNCHANGED <<diskVars, runVars, cacheVars, info, src>>

NeverClosed == FALSE \* mutant: close(ch) is forgotten
Drained == next > N

\* The channel is closed and empty: the range loop ends, wg.Done.
ExitWorker(w) ==
    /\ wpc[w] = "receive"
    /\ Drained
    /\ wpc' = [wpc EXCEPT ![w] = "exited"]
    /\ UNCHANGED <<diskVars, runVars, cacheVars, next, job, info, src>>

SlotOfWorker(w) == w \* mutant: the worker's number indexes results
Slot(w) == job[w]

\* lintOneFile returns r, which the worker stores at the index it received.
Report(w, r) ==
    /\ results' = [results EXCEPT ![Slot(w)] = r]
    /\ wpc' = [wpc EXCEPT ![w] = "receive"]
    /\ info' = [info EXCEPT ![w] = Nothing]
    /\ src' = [src EXCEPT ![w] = Nothing]
    /\ UNCHANGED <<diskVars, phase, cfg, jobs, next, job>>

OnDisk(i) == disk[i].content # Gone
StatOf(i) == [mtime |-> disk[i].mtime, size |-> SizeOf[disk[i].content]]

Stat(w) ==
    /\ wpc[w] = "stat"
    /\ IF OnDisk(job[w])
       THEN /\ info' = [info EXCEPT ![w] = StatOf(job[w])]
            /\ wpc' = [wpc EXCEPT ![w] = "lookup"]
            /\ UNCHANGED <<diskVars, runVars, cacheVars, next, job, src>>
       ELSE Report(w, Failed) /\ UNCHANGED cacheVars

\* The key of a cache entry: absolute path, configuration hash, mtime, size.
HitAnyConfig(e, c, st) == \* mutant: the configuration hash is not compared
    e # Nothing /\ e.mtime = st.mtime /\ e.size = st.size
Hit(e, c, st) ==
    /\ e # Nothing
    /\ e.hash = c
    /\ e.mtime = st.mtime /\ e.size = st.size

Lookup(w) ==
    /\ wpc[w] = "lookup"
    /\ IF Hit(entries[job[w]], cfg, info[w])
       THEN Report(w, entries[job[w]].diags) /\ UNCHANGED cacheVars
       ELSE /\ wpc' = [wpc EXCEPT ![w] = "read"]
            /\ UNCHANGED <<diskVars, runVars, cacheVars, next, job, info, src>>

Read(w) ==
    /\ wpc[w] = "read"
    /\ IF OnDisk(job[w])
       THEN /\ src' = [src EXCEPT ![w] = disk[job[w]].content]
            /\ wpc' = [wpc EXCEPT ![w] = "lint"]
            /\ UNCHANGED <<diskVars, runVars, cacheVars, next, job, info>>
       ELSE Report(w, Failed) /\ UNCHANGED cacheVars

\* LintFileWithConfig: parse, check, filter.
LintSource(w) ==
    /\ wpc[w] = "lint"
    /\ IF src[w] \in Broken
       THEN Report(w, Failed) /\ UNCHANGED cacheVars
       ELSE /\ wpc' = [wpc EXCEPT ![w] = "store"]
            /\ UNCHANGED <<diskVars, runVars, cacheVars, next, job, info, src>>

\* The key of the entry is what Stat said before the source was read.
StatAgain(w) == \* mutant: the file is stat'ed after it was read
    IF OnDisk(job[w]) THEN StatOf(job[w]) ELSE info[w]
EntryKey(w) == info[w]

\* cache.Store and the return of lintOneFile.
Store(w, diags) ==
    /\ wpc[w] = "store"
    /\ entries' = [entries EXCEPT ![job[w]] =
                      [hash |-> cfg, mtime |-> EntryKey(w).mtime,
                       size |-> EntryKey(w).size, diags |-> diags]]
    /\ dirty' = TRUE
    /\ Report(w, diags)
    /\ UNCHANGED saved

Worker(w) ==
    \/ Receive(w)
    \/ ExitWorker(w)
    \/ Stat(w)
    \/ Lookup(w)
    \/ Read(w)
    \/ LintSource(w)
    \/ Store(w, Lint(src[w], cfg))

Run ==
    \/ \E c \in Configs, n \in JobChoices : Start(c, n)
    \/ Wait
    \/ Save
    \/ Exit

Editor == Tick \/ \E i \in Paths, v \in Contents \cup {Gone} : Edit(i, v)

Next == Editor \/ Run \/ \E w \in Workers : Worker(w)

(***************************************************************************)
(* Go schedules every goroutine that can run, and lintCmd does not stop    *)
(* between LintFiles and Save.  Nothing makes a run start, an editor edit, *)
(* or a process crash.                                                     *)
(***************************************************************************)
Fairness == WF_vars(Wait) /\ WF_vars(Save) /\ \A w \in Workers : WF_vars(Worker(w))

Spec == Init /\ [][Next]_vars /\ Fairness

-----------------------------------------------------------------------------

(***************************************************************************)
(* When LintFiles has returned every path has its outcome, and it is that  *)
(* of a content the path had on disk during this very run, linted under    *)
(* this run's configuration: whatever the number of workers, whether it    *)
(* was linted or came from the cache, and however the editor interfered.   *)
(* In particular, when nothing is edited the output depends on the paths   *)
(* and the configuration alone, as the comment on LintFiles says.          *)
(***************************************************************************)
Outcome(v) == IF v \in Broken \cup {Gone} THEN Failed ELSE Lint(v, cfg)

ResultsAreCurrent ==
    phase \in {"waited", "done"} =>
        \A i \in Paths : \E v \in during[i] : results[i] = Outcome(v)

(***************************************************************************)
(* "There is no scenario in which the cache returns diagnostics computed   *)
(* from stale source" (legacy/linter/cache.go): an entry that matches the  *)
(* file as it is on disk holds the diagnostics of the content on disk.     *)
(***************************************************************************)
NotStale(cache) ==
    \A i \in Paths :
        OnDisk(i) /\ cache[i] # Nothing /\ Hit(cache[i], cache[i].hash, StatOf(i))
            => cache[i].diags = Lint(disk[i].content, cache[i].hash)

CacheNeverStale == NotStale(entries) /\ NotStale(saved)

(***************************************************************************)
(* A slot of results belongs to one worker: two workers never hold the     *)
(* same path, and a path that is held or still in the channel has no       *)
(* outcome yet.  This is why results needs no lock.                        *)
(***************************************************************************)
Busy(w) == wpc[w] \notin {"off", "receive", "exited"}

SlotsAreExclusive ==
    /\ \A w, x \in Workers : Busy(w) /\ Busy(x) /\ job[w] = job[x] => w = x
    /\ \A w \in Workers : Busy(w) => job[w] < next /\ results[job[w]] = Nothing
    /\ \A i \in Paths : i >= next => results[i] = Nothing

\* A run that is not killed ends, with its cache saved or given up on.
RunEnds == phase = "running" ~> phase \in {"done", "idle"}
=============================================================================
