------------------------- MODULE LintPooled_proofs -------------------------
(***************************************************************************)
(* Theorems about LintFiles for every number of paths, workers, contents,  *)
(* configurations and clock ticks.  Then: lint with the pooled parser      *)
(* implements it when one worker runs, for every number of parsers and     *)
(* growths too; so what is proved of LintFiles holds of LintPooled.        *)
(***************************************************************************)
EXTENDS LintPooled, TLAPS

-----------------------------------------------------------------------------
(* A parser of one's own: LintFiles.                                       *)

(***************************************************************************)
(* What a worker has in hand when it is past Stat, past ReadFile and past  *)
(* the parse.                                                              *)
(***************************************************************************)
HandsOK ==
    \A w \in Workers :
        /\ wpc[w] \in {"lookup", "read", "lint", "store"} => info[w] \in Stats
        /\ wpc[w] \in {"lint", "store"} => src[w] \in Contents
        /\ wpc[w] = "store" => src[w] \notin Broken

TypeInv == TypeOK /\ HandsOK

\* The size of a pool is between one and the number of paths.
LEMMA ClampInRange == ASSUME NEW n \in JobChoices PROVE Clamp(n) \in 1 .. N
  BY JobsAssumption DEF Clamp

\* A stat of a path that is on disk is a modification time and a size.
LEMMA StatIsStat ==
    ASSUME TypeOK, NEW i \in Paths, OnDisk(i)
    PROVE  StatOf(i) \in Stats /\ disk[i].content \in Contents
<1>1. disk[i] \in Versions /\ disk[i].content \in Contents
  BY DEF TypeOK, OnDisk, Versions
<1>. QED
  BY <1>1, ContentsAssumption DEF StatOf, Stats, Versions

\* The lint of a source that parses is a list of diagnostics.
LEMMA LintIsDiagnostics ==
    ASSUME NEW v \in Contents \ Broken, NEW c \in Configs
    PROVE  Lint(v, c) \in Diagnostics
  BY DEF Lint, Diagnostics

\* A worker that reports keeps the types, whatever else of the cache changes.
LEMMA ReportTypes ==
    ASSUME TypeInv, NEW w \in Workers, NEW r \in Diagnostics \cup {Failed}, Report(w, r),
           Slot(w) = job[w],
           saved' \in [Paths -> Entries \cup {Nothing}],
           entries' \in [Paths -> Entries \cup {Nothing}],
           dirty' \in BOOLEAN
    PROVE  TypeInv'
<1> USE DEF Report, TypeInv, diskVars
<1>1. TypeOK'
  BY DEF TypeOK
<1>2. HandsOK'
  BY DEF TypeOK, HandsOK
<1>. QED
  BY <1>1, <1>2

-----------------------------------------------------------------------------

(***************************************************************************)
(* Type correctness, with what the workers hold.                           *)
(***************************************************************************)
LEMMA TypeInvInductive == TypeInv /\ [Next]_vars => TypeInv'
<1> SUFFICES ASSUME TypeInv, [Next]_vars PROVE TypeInv'
  OBVIOUS
<1> USE DEF TypeInv, diskVars, runVars, cacheVars, workerVars
<1>1. CASE Tick
  <2>1. clock' \in 0 .. MaxClock
    BY <1>1, ContentsAssumption DEF Tick, TypeOK
  <2>2. TypeOK'
    BY <1>1, <2>1 DEF Tick, TypeOK
  <2>3. HandsOK'
    BY <1>1 DEF Tick, HandsOK
  <2>. QED
    BY <2>2, <2>3
<1>2. ASSUME NEW i \in Paths, NEW v \in Contents \cup {Gone}, Edit(i, v)
      PROVE TypeInv'
  <2>1. disk' \in [Paths -> Versions]
    BY <1>2 DEF Edit, TypeOK, Versions
  <2>2. TypeOK'
    BY <1>2, <2>1 DEF Edit, TypeOK
  <2>3. HandsOK'
    BY <1>2 DEF Edit, HandsOK
  <2>. QED
    BY <2>2, <2>3
<1>3. ASSUME NEW c \in Configs, NEW n \in JobChoices, Start(c, n)
      PROVE TypeInv'
  <2>1. jobs' \in 1 .. N /\ next' \in 1 .. N + 1
    BY <1>3, ClampInRange, JobsAssumption DEF Start
  <2>2. wpc' = [w \in Workers |-> IF w <= jobs' THEN "receive" ELSE "off"]
    BY <1>3 DEF Start
  <2>3. \A i \in Paths : disk[i].content \in Contents \cup {Gone}
    BY DEF TypeOK, Versions
  <2>4. during' \in [Paths -> SUBSET (Contents \cup {Gone})]
    BY <1>3, <2>3 DEF Start
  <2>5. TypeOK'
    BY <1>3, <2>1, <2>2, <2>4 DEF Start, TypeOK
  <2>6. HandsOK'
    BY <2>2 DEF HandsOK
  <2>. QED
    BY <2>5, <2>6
<1>4. CASE Wait
  BY <1>4 DEF Wait, TypeOK, HandsOK
<1>5. CASE Save
  <2>1. TypeOK'
    BY <1>5 DEF Save, TypeOK
  <2>2. HandsOK'
    BY <1>5 DEF Save, HandsOK
  <2>. QED
    BY <2>1, <2>2
<1>6. CASE Exit
  <2>1. 1 \in Paths /\ 1 \in 1 .. N /\ 1 \in 1 .. N + 1
    BY JobsAssumption DEF Paths
  <2>2. TypeOK'
    BY <1>6, <2>1 DEF Exit, TypeOK
  <2>3. HandsOK'
    BY <1>6 DEF Exit, HandsOK
  <2>. QED
    BY <2>2, <2>3
<1>7. ASSUME NEW w \in Workers, Receive(w)
      PROVE TypeInv'
  <2>1. next \in Paths /\ next' \in 1 .. N + 1
    BY <1>7, JobsAssumption DEF Receive, TypeOK, Paths
  <2>2. TypeOK'
    BY <1>7, <2>1 DEF Receive, TypeOK
  <2>3. HandsOK'
    BY <1>7 DEF Receive, TypeOK, HandsOK
  <2>. QED
    BY <2>2, <2>3
<1>8. ASSUME NEW w \in Workers, ExitWorker(w)
      PROVE TypeInv'
  BY <1>8 DEF ExitWorker, TypeOK, HandsOK
<1>9. ASSUME NEW w \in Workers, Stat(w)
      PROVE TypeInv'
  <2>1. CASE OnDisk(job[w])
    <3>1. StatOf(job[w]) \in Stats
      BY <2>1, StatIsStat DEF TypeOK
    <3>2. TypeOK'
      BY <1>9, <2>1, <3>1 DEF Stat, TypeOK
    <3>3. HandsOK'
      BY <1>9, <2>1, <3>1 DEF Stat, TypeOK, HandsOK
    <3>. QED
      BY <3>2, <3>3
  <2>2. CASE ~OnDisk(job[w])
    BY <1>9, <2>2, ReportTypes DEF Stat, Slot, TypeOK
  <2>. QED
    BY <2>1, <2>2
<1>10. ASSUME NEW w \in Workers, Lookup(w)
       PROVE TypeInv'
  <2>1. CASE Hit(entries[job[w]], cfg, info[w])
    <3>1. entries[job[w]] \in Entries
      BY <2>1 DEF Hit, TypeOK
    <3>2. entries[job[w]].diags \in Diagnostics
      BY <3>1 DEF Entries
    <3>. QED
      BY <1>10, <2>1, <3>2, ReportTypes DEF Lookup, Slot, TypeOK
  <2>2. CASE ~Hit(entries[job[w]], cfg, info[w])
    <3>1. TypeOK'
      BY <1>10, <2>2 DEF Lookup, TypeOK
    <3>2. HandsOK'
      BY <1>10, <2>2 DEF Lookup, TypeOK, HandsOK
    <3>. QED
      BY <3>1, <3>2
  <2>. QED
    BY <2>1, <2>2
<1>11. ASSUME NEW w \in Workers, Read(w)
       PROVE TypeInv'
  <2>1. CASE OnDisk(job[w])
    <3>1. disk[job[w]].content \in Contents
      BY <2>1, StatIsStat DEF TypeOK
    <3>2. TypeOK'
      BY <1>11, <2>1, <3>1 DEF Read, TypeOK
    <3>3. HandsOK'
      BY <1>11, <2>1, <3>1 DEF Read, TypeOK, HandsOK
    <3>. QED
      BY <3>2, <3>3
  <2>2. CASE ~OnDisk(job[w])
    BY <1>11, <2>2, ReportTypes DEF Read, Slot, TypeOK
  <2>. QED
    BY <2>1, <2>2
<1>12. ASSUME NEW w \in Workers, LintSource(w)
       PROVE TypeInv'
  <2>1. CASE src[w] \in Broken
    BY <1>12, <2>1, ReportTypes DEF LintSource, Slot, TypeOK
  <2>2. CASE src[w] \notin Broken
    <3>1. TypeOK'
      BY <1>12, <2>2 DEF LintSource, TypeOK
    <3>2. HandsOK'
      BY <1>12, <2>2 DEF LintSource, TypeOK, HandsOK
    <3>. QED
      BY <3>1, <3>2
  <2>. QED
    BY <2>1, <2>2
<1>13. ASSUME NEW w \in Workers, Store(w, Lint(src[w], cfg))
       PROVE TypeInv'
  <2>1. /\ src[w] \in Contents \ Broken
        /\ info[w] \in Stats
        /\ cfg \in Configs
    BY <1>13 DEF Store, TypeOK, HandsOK
  <2>2. Lint(src[w], cfg) \in Diagnostics
    BY <2>1, LintIsDiagnostics
  <2>3. [hash |-> cfg, mtime |-> info[w].mtime, size |-> info[w].size,
         diags |-> Lint(src[w], cfg)] \in Entries
    BY <2>1, <2>2 DEF Entries, Stats
  <2>4. entries' \in [Paths -> Entries \cup {Nothing}]
    BY <1>13, <2>3 DEF Store, EntryKey, TypeOK
  <2>. QED
    BY <1>13, <2>2, <2>4, ReportTypes DEF Store, Slot, TypeOK
<1>14. CASE UNCHANGED vars
  BY <1>14 DEF vars, TypeOK, HandsOK
<1>. QED
  BY <1>1, <1>2, <1>3, <1>4, <1>5, <1>6, <1>7, <1>8, <1>9, <1>10, <1>11, <1>12, <1>13,
     <1>14 DEF Next, Editor, Run, Worker

\* The initial states have the types.
LEMMA TypeInvInit == Init => TypeInv
<1> SUFFICES ASSUME Init PROVE TypeInv
  OBVIOUS
<1>1. 1 \in Paths /\ 1 \in 1 .. N /\ 1 \in 1 .. N + 1 /\ 0 \in 0 .. MaxClock
  BY JobsAssumption, ContentsAssumption DEF Paths
<1>2. disk \in [Paths -> Versions]
  BY <1>1 DEF Init, Versions
<1>3. TypeOK
  BY <1>1, <1>2 DEF Init, TypeOK
<1>4. HandsOK
  BY DEF Init, HandsOK
<1>. QED
  BY <1>3, <1>4 DEF TypeInv

(***************************************************************************)
(* Every variable of LintFiles stays in its type: no pool is larger than   *)
(* the paths or smaller than one, no path out of range is received, and    *)
(* what is cached or reported is a list of diagnostics.                    *)
(***************************************************************************)
THEOREM TypeCorrect == Spec => []TypeOK
<1>1. Init => TypeInv
  BY TypeInvInit
<1>2. TypeInv /\ [Next]_vars => TypeInv'
  BY TypeInvInductive
<1>3. TypeInv => TypeOK
  BY DEF TypeInv
<1>. QED
  BY <1>1, <1>2, <1>3, PTL DEF Spec

-----------------------------------------------------------------------------

(***************************************************************************)
(* A report keeps the slots exclusive: it fills the slot of a worker that  *)
(* is busy no more.                                                        *)
(***************************************************************************)
LEMMA ReportSlots ==
    ASSUME TypeInv, SlotsAreExclusive, NEW w \in Workers, Busy(w),
           NEW r, Report(w, r), Slot(w) = job[w]
    PROVE  SlotsAreExclusive'
<1> USE DEF TypeInv, SlotsAreExclusive, Report
<1>1. /\ wpc' = [wpc EXCEPT ![w] = "receive"]
      /\ results' = [results EXCEPT ![job[w]] = r]
      /\ next' = next /\ job' = job
      /\ job[w] \in Paths /\ job[w] < next
  BY DEF TypeOK
<1>2. \A x \in Workers : Busy(x)' => Busy(x) /\ x # w
  BY <1>1 DEF Busy, TypeOK
<1>3. \A x \in Workers : Busy(x)' => job[x] # job[w]
  BY <1>2
<1>4. \A x, y \in Workers : Busy(x)' /\ Busy(y)' /\ job'[x] = job'[y] => x = y
  BY <1>1, <1>2
<1>5. \A x \in Workers : Busy(x)' => job'[x] < next' /\ results'[job'[x]] = Nothing
  BY <1>1, <1>2, <1>3 DEF TypeOK
<1>6. \A i \in Paths : i >= next' => results'[i] = Nothing
  BY <1>1, JobsAssumption DEF TypeOK, Paths
<1>. QED
  BY <1>4, <1>5, <1>6

\* A step after which the same workers are busy with the same paths.
LEMMA SameSlots ==
    ASSUME SlotsAreExclusive, UNCHANGED <<next, job, results>>,
           \A w \in Workers : Busy(w)' => Busy(w)
    PROVE  SlotsAreExclusive'
  BY DEF SlotsAreExclusive

\* Every step keeps the slots exclusive.
LEMMA SlotsInductive ==
    TypeInv /\ SlotsAreExclusive /\ [Next]_vars => SlotsAreExclusive'
<1> SUFFICES ASSUME TypeInv, SlotsAreExclusive, [Next]_vars
             PROVE  SlotsAreExclusive'
  OBVIOUS
<1> USE DEF diskVars, runVars, cacheVars, workerVars
<1>1. CASE Tick
  BY <1>1, SameSlots DEF Tick, Busy
<1>2. ASSUME NEW i \in Paths, NEW v \in Contents \cup {Gone}, Edit(i, v)
      PROVE SlotsAreExclusive'
  BY <1>2, SameSlots DEF Edit, Busy
<1>3. ASSUME NEW c \in Configs, NEW n \in JobChoices, Start(c, n)
      PROVE SlotsAreExclusive'
  <2>1. wpc' = [w \in Workers |-> IF w <= jobs' THEN "receive" ELSE "off"]
    BY <1>3 DEF Start
  <2>2. \A w \in Workers : ~Busy(w)'
    BY <2>1 DEF Busy
  <2>3. \A i \in Paths : results'[i] = Nothing
    BY <1>3 DEF Start
  <2>. QED
    BY <2>2, <2>3 DEF SlotsAreExclusive
<1>4. CASE Wait
  BY <1>4, SameSlots DEF Wait, Busy
<1>5. CASE Save
  BY <1>5, SameSlots DEF Save, Busy
<1>6. CASE Exit
  <2>1. \A w \in Workers : ~Busy(w)'
    BY <1>6 DEF Exit, Busy
  <2>2. \A i \in Paths : results'[i] = Nothing
    BY <1>6 DEF Exit
  <2>. QED
    BY <2>1, <2>2 DEF SlotsAreExclusive
<1>7. ASSUME NEW w \in Workers, Receive(w)
      PROVE SlotsAreExclusive'
  <2>1. /\ next \in Paths
        /\ job' = [job EXCEPT ![w] = next]
        /\ next' = next + 1
        /\ results' = results
    BY <1>7, JobsAssumption DEF Receive, TypeInv, TypeOK, Paths
  <2>2. \A x \in Workers : Busy(x)' => x = w \/ Busy(x)
    BY <1>7 DEF Receive, Busy, TypeInv, TypeOK
  <2>3. \A x \in Workers : Busy(x) => job[x] \in Paths /\ job[x] < next
    BY DEF SlotsAreExclusive, TypeInv, TypeOK
  <2>4. \A x \in Workers : job'[x] = IF x = w THEN next ELSE job[x]
    BY <2>1 DEF TypeInv, TypeOK
  <2>5. \A x, y \in Workers : Busy(x)' /\ Busy(y)' /\ job'[x] = job'[y] => x = y
    BY <2>2, <2>3, <2>4, <2>1, JobsAssumption DEF SlotsAreExclusive, Paths
  <2>6. \A x \in Workers : Busy(x)' => job'[x] < next' /\ results'[job'[x]] = Nothing
    BY <2>1, <2>2, <2>3, <2>4, JobsAssumption DEF SlotsAreExclusive, Paths
  <2>7. \A i \in Paths : i >= next' => results'[i] = Nothing
    BY <2>1, JobsAssumption DEF SlotsAreExclusive, Paths
  <2>. QED
    BY <2>5, <2>6, <2>7 DEF SlotsAreExclusive
<1>8. ASSUME NEW w \in Workers, ExitWorker(w)
      PROVE SlotsAreExclusive'
  BY <1>8, SameSlots DEF ExitWorker, Busy, TypeInv, TypeOK
<1>9. ASSUME NEW w \in Workers, Stat(w) \/ Lookup(w) \/ Read(w) \/ LintSource(w)
      PROVE SlotsAreExclusive'
  <2>1. Busy(w)
    BY <1>9 DEF Stat, Lookup, Read, LintSource, Busy
  <2>2. CASE \E r : Report(w, r)
    BY <2>1, <2>2, ReportSlots DEF Slot
  <2>3. CASE \A r : ~Report(w, r)
    <3>1. UNCHANGED <<next, job, results>>
      BY <1>9, <2>3 DEF Stat, Lookup, Read, LintSource
    <3>2. \A x \in Workers : Busy(x)' => Busy(x)
      BY <1>9, <2>1, <2>3 DEF Stat, Lookup, Read, LintSource, Busy, TypeInv, TypeOK
    <3>. QED
      BY <3>1, <3>2, SameSlots
  <2>. QED
    BY <2>2, <2>3
<1>10. ASSUME NEW w \in Workers, Store(w, Lint(src[w], cfg))
       PROVE SlotsAreExclusive'
  BY <1>10, ReportSlots DEF Store, Busy, Slot
<1>11. CASE UNCHANGED vars
  BY <1>11, SameSlots DEF vars, Busy
<1>. QED
  BY <1>1, <1>2, <1>3, <1>4, <1>5, <1>6, <1>7, <1>8, <1>9, <1>10, <1>11
     DEF Next, Editor, Run, Worker

(***************************************************************************)
(* However many workers and paths there are, no two workers have the same  *)
(* path in hand and no slot of results is written twice: LintFiles needs   *)
(* no lock for them.                                                       *)
(***************************************************************************)
THEOREM SlotsStayExclusive == Spec => []SlotsAreExclusive
<1>1. Init => TypeInv /\ SlotsAreExclusive
  <2>1. Init => SlotsAreExclusive
    BY DEF Init, SlotsAreExclusive, Busy
  <2>. QED
    BY <2>1, TypeInvInit
<1>2. TypeInv /\ SlotsAreExclusive /\ [Next]_vars => (TypeInv /\ SlotsAreExclusive)'
  BY TypeInvInductive, SlotsInductive
<1>. QED
  BY <1>1, <1>2, PTL DEF Spec

-----------------------------------------------------------------------------

(***************************************************************************)
(* Why the cache is never stale.  No time stamp is from the future, and an *)
(* edit takes a later one than the file had, so that an entry, a stat and  *)
(* a source belong to what is on disk exactly as long as the time stamps   *)
(* agree: a worker that stats before it reads can only err towards a key   *)
(* that matches nothing.                                                   *)
(***************************************************************************)
ClockOK == \A i \in Paths : disk[i].mtime <= clock

FreshEntry(e, i) ==
    /\ e.mtime <= disk[i].mtime
    /\ e.mtime = disk[i].mtime =>
          OnDisk(i) /\ e.diags = Lint(disk[i].content, e.hash)

FreshCache(cache) == \A i \in Paths : cache[i] # Nothing => FreshEntry(cache[i], i)

FreshHands ==
    \A w \in Workers :
        /\ wpc[w] \in {"lookup", "read", "lint", "store"} =>
              /\ info[w].mtime <= disk[job[w]].mtime
              /\ info[w].mtime = disk[job[w]].mtime => OnDisk(job[w])
        /\ wpc[w] \in {"lint", "store"} /\ info[w].mtime = disk[job[w]].mtime =>
              src[w] = disk[job[w]].content

FreshInv ==
    /\ TypeInv
    /\ ClockOK
    /\ FreshCache(entries)
    /\ FreshCache(saved)
    /\ FreshHands

\* A step that changes neither the files nor what is cached.
LEMMA SameCaches ==
    ASSUME FreshCache(entries), FreshCache(saved), UNCHANGED <<disk, entries, saved>>
    PROVE  FreshCache(entries)' /\ FreshCache(saved)'
  BY DEF FreshCache, FreshEntry, OnDisk

\* A report leaves the other workers with what they have in hand.
LEMMA ReportHands ==
    ASSUME TypeInv, FreshHands, NEW w \in Workers, NEW r, Report(w, r)
    PROVE  FreshHands' /\ (ClockOK => ClockOK')
<1>1. /\ disk' = disk /\ clock' = clock /\ job' = job
      /\ wpc' = [wpc EXCEPT ![w] = "receive"]
      /\ \A x \in Workers \ {w} : info'[x] = info[x] /\ src'[x] = src[x]
  BY DEF Report, diskVars, TypeInv, TypeOK
<1>2. \A x \in Workers : wpc'[x] = IF x = w THEN "receive" ELSE wpc[x]
  BY <1>1 DEF TypeInv, TypeOK
<1>3. FreshHands'
  BY <1>1, <1>2 DEF FreshHands, OnDisk
<1>. QED
  BY <1>1, <1>3 DEF ClockOK

\* The time stamps are numbers, which the comparisons below need.
LEMMA Stamps ==
    ASSUME TypeInv
    PROVE  /\ clock \in Nat
           /\ \A i \in Paths : disk[i].mtime \in Nat
           /\ \A i \in Paths : entries[i] # Nothing => entries[i].mtime \in Nat
           /\ \A i \in Paths : saved[i] # Nothing => saved[i].mtime \in Nat
           /\ \A w \in Workers : wpc[w] \in {"lookup", "read", "lint", "store"} =>
                  info[w].mtime \in Nat
<1>1. \A t \in 0 .. MaxClock : t \in Nat
  BY ContentsAssumption
<1>. QED
  BY <1>1 DEF TypeInv, TypeOK, HandsOK, Versions, Entries, Stats

\* Every step keeps the cache fresh, an edit as well as a Store.
LEMMA FreshInductive == FineClock /\ FreshInv /\ [Next]_vars => FreshInv'
<1> SUFFICES ASSUME FineClock, FreshInv, [Next]_vars
             PROVE  FreshInv'
  OBVIOUS
<1> TypeInv /\ TypeInv'
  BY TypeInvInductive DEF FreshInv
<1> USE DEF diskVars, runVars, cacheVars, workerVars
<1> SUFFICES ClockOK' /\ FreshCache(entries)' /\ FreshCache(saved)' /\ FreshHands'
  BY DEF FreshInv
<1>1. CASE Tick
  <2>1. clock' = clock + 1 /\ UNCHANGED <<disk, entries, saved, wpc, info, job, src>>
    BY <1>1 DEF Tick
  <2>2. ClockOK'
    BY <2>1, Stamps DEF FreshInv, ClockOK
  <2>3. FreshHands'
    BY <2>1 DEF FreshInv, FreshHands, OnDisk
  <2>. QED
    BY <2>1, <2>2, <2>3, SameCaches DEF FreshInv
<1>2. ASSUME NEW i \in Paths, NEW v \in Contents \cup {Gone}, Edit(i, v)
      PROVE ClockOK' /\ FreshCache(entries)' /\ FreshCache(saved)' /\ FreshHands'
  <2>1. /\ disk[i].mtime < clock
        /\ disk'[i].mtime = clock
        /\ \A j \in Paths \ {i} : disk'[j] = disk[j]
        /\ UNCHANGED <<clock, entries, saved, wpc, info, job, src>>
    BY <1>2 DEF Edit, TypeInv, TypeOK
  <2>2. ClockOK'
    BY <2>1, Stamps DEF FreshInv, ClockOK
  <2>3. FreshCache(entries)'
    BY <2>1, Stamps DEF FreshInv, FreshCache, FreshEntry, OnDisk
  <2>4. FreshCache(saved)'
    BY <2>1, Stamps DEF FreshInv, FreshCache, FreshEntry, OnDisk
  <2>5. FreshHands'
    <3>1. \A w \in Workers : job[w] \in Paths
      BY DEF TypeInv, TypeOK
    <3>. QED
      BY <2>1, <3>1, Stamps DEF FreshInv, FreshHands, OnDisk
  <2>. QED
    BY <2>2, <2>3, <2>4, <2>5
<1>3. ASSUME NEW c \in Configs, NEW n \in JobChoices, Start(c, n)
      PROVE ClockOK' /\ FreshCache(entries)' /\ FreshCache(saved)' /\ FreshHands'
  <2>1. /\ wpc' = [w \in Workers |-> IF w <= jobs' THEN "receive" ELSE "off"]
        /\ UNCHANGED <<disk, clock, saved>> /\ entries' = saved
    BY <1>3 DEF Start
  <2>. QED
    BY <2>1 DEF FreshInv, ClockOK, FreshCache, FreshEntry, FreshHands, OnDisk
<1>4. CASE Wait
  BY <1>4, SameCaches DEF Wait, FreshInv, ClockOK, FreshHands, OnDisk
<1>5. CASE Save
  <2>1. saved' = entries \/ saved' = saved
    BY <1>5 DEF Save
  <2>2. UNCHANGED <<disk, clock, entries, wpc, info, job, src>>
    BY <1>5 DEF Save
  <2>3. FreshCache(entries)' /\ FreshCache(saved)'
    BY <2>1, <2>2 DEF FreshInv, FreshCache, FreshEntry, OnDisk
  <2>. QED
    BY <2>2, <2>3 DEF FreshInv, ClockOK, FreshHands, OnDisk
<1>6. CASE Exit
  <2>1. /\ wpc' = [w \in Workers |-> "off"]
        /\ entries' = [i \in Paths |-> Nothing]
        /\ UNCHANGED <<disk, clock, saved>>
    BY <1>6 DEF Exit
  <2>. QED
    BY <2>1 DEF FreshInv, ClockOK, FreshCache, FreshEntry, FreshHands, OnDisk
<1>7. ASSUME NEW w \in Workers, Receive(w) \/ ExitWorker(w)
      PROVE ClockOK' /\ FreshCache(entries)' /\ FreshCache(saved)' /\ FreshHands'
  <2>1. /\ UNCHANGED <<disk, clock, entries, saved, info, src>>
        /\ \A x \in Workers \ {w} : wpc'[x] = wpc[x] /\ job'[x] = job[x]
        /\ wpc'[w] \in {"stat", "exited"}
    BY <1>7 DEF Receive, ExitWorker, TypeInv, TypeOK
  <2>2. FreshHands'
    BY <2>1 DEF FreshInv, FreshHands, OnDisk
  <2>. QED
    BY <2>1, <2>2, SameCaches DEF FreshInv, ClockOK
<1>8. ASSUME NEW w \in Workers, Stat(w) \/ Lookup(w) \/ Read(w) \/ LintSource(w)
      PROVE ClockOK' /\ FreshCache(entries)' /\ FreshCache(saved)' /\ FreshHands'
  <2>1. UNCHANGED <<disk, clock, entries, saved>>
    BY <1>8 DEF Stat, Lookup, Read, LintSource, Report
  <2>2. FreshCache(entries)' /\ FreshCache(saved)' /\ ClockOK'
    BY <2>1, SameCaches DEF FreshInv, ClockOK
  <2>3. CASE \E r : Report(w, r)
    BY <2>2, <2>3, ReportHands DEF FreshInv
  <2>4. CASE \A r : ~Report(w, r)
    <3>1. /\ job' = job
          /\ \A x \in Workers \ {w} :
                wpc'[x] = wpc[x] /\ info'[x] = info[x] /\ src'[x] = src[x]
          /\ job[w] \in Paths
      BY <1>8, <2>4 DEF Stat, Lookup, Read, LintSource, TypeInv, TypeOK
    <3>2. CASE Stat(w)
      <4>1. /\ OnDisk(job[w]) /\ wpc'[w] = "lookup"
            /\ info'[w].mtime = disk[job[w]].mtime
        BY <2>4, <3>2 DEF Stat, StatOf, TypeInv, TypeOK
      <4>. QED
        BY <2>1, <2>2, <3>1, <4>1, Stamps DEF FreshInv, FreshHands, OnDisk
    <3>3. CASE Lookup(w)
      <4>1. wpc[w] = "lookup" /\ wpc'[w] = "read" /\ info' = info
        BY <2>4, <3>3 DEF Lookup, TypeInv, TypeOK
      <4>. QED
        BY <2>1, <2>2, <3>1, <4>1 DEF FreshInv, FreshHands, OnDisk
    <3>4. CASE Read(w)
      <4>1. /\ wpc[w] = "read" /\ wpc'[w] = "lint" /\ info' = info
            /\ src'[w] = disk[job[w]].content
        BY <2>4, <3>4 DEF Read, TypeInv, TypeOK
      <4>. QED
        BY <2>1, <2>2, <3>1, <4>1 DEF FreshInv, FreshHands, OnDisk
    <3>5. CASE LintSource(w)
      <4>1. wpc[w] = "lint" /\ wpc'[w] = "store" /\ info' = info /\ src' = src
        BY <2>4, <3>5 DEF LintSource, TypeInv, TypeOK
      <4>. QED
        BY <2>1, <2>2, <3>1, <4>1 DEF FreshInv, FreshHands, OnDisk
    <3>. QED
      BY <1>8, <3>2, <3>3, <3>4, <3>5
  <2>. QED
    BY <2>3, <2>4
<1>9. ASSUME NEW w \in Workers, Store(w, Lint(src[w], cfg))
      PROVE ClockOK' /\ FreshCache(entries)' /\ FreshCache(saved)' /\ FreshHands'
  <2> DEFINE e == [hash |-> cfg, mtime |-> info[w].mtime,
                   size |-> info[w].size, diags |-> Lint(src[w], cfg)]
  <2>1. /\ wpc[w] = "store" /\ job[w] \in Paths
        /\ entries' = [entries EXCEPT ![job[w]] = e]
        /\ saved' = saved /\ disk' = disk
        /\ Report(w, Lint(src[w], cfg))
    BY <1>9 DEF Store, EntryKey, Report, TypeInv, TypeOK
  <2>2. FreshEntry(e, job[w])
    BY <2>1 DEF FreshInv, FreshHands, FreshEntry
  <2>3. \A i \in Paths : entries'[i] = IF i = job[w] THEN e ELSE entries[i]
    BY <2>1 DEF TypeInv, TypeOK
  <2>4. FreshCache(entries)'
    BY <2>1, <2>2, <2>3 DEF FreshInv, FreshCache, FreshEntry, OnDisk
  <2>5. FreshCache(saved)'
    BY <2>1 DEF FreshInv, FreshCache, FreshEntry, OnDisk
  <2>. QED
    BY <2>1, <2>4, <2>5, ReportHands DEF FreshInv
<1>10. CASE UNCHANGED vars
  BY <1>10, SameCaches DEF vars, FreshInv, ClockOK, FreshHands, OnDisk
<1>. QED
  BY <1>1, <1>2, <1>3, <1>4, <1>5, <1>6, <1>7, <1>8, <1>9, <1>10
     DEF Next, Editor, Run, Worker

\* The cache is empty at the start.
LEMMA FreshInit == Init => FreshInv
<1> SUFFICES ASSUME Init PROVE FreshInv
  OBVIOUS
<1>1. ClockOK
  BY DEF Init, ClockOK
<1>2. FreshCache(entries) /\ FreshCache(saved) /\ FreshHands
  BY DEF Init, FreshCache, FreshHands
<1>. QED
  BY <1>1, <1>2, TypeInvInit DEF FreshInv

(***************************************************************************)
(* When the clock of the file system tells any two versions of a file      *)
(* apart, nothing in the cache is stale, in memory or on disk: whatever    *)
(* the number of workers, and wherever an edit or a crash comes.           *)
(***************************************************************************)
THEOREM CacheStaysFresh == ASSUME FineClock PROVE Spec => []CacheNeverStale
<1>1. Init => FreshInv
  BY FreshInit
<1>2. FreshInv /\ [Next]_vars => FreshInv'
  BY FreshInductive
<1>3. FreshInv => CacheNeverStale
  <2> SUFFICES ASSUME FreshInv PROVE NotStale(entries) /\ NotStale(saved)
    BY DEF CacheNeverStale
  <2>. QED
    BY DEF FreshInv, FreshCache, FreshEntry, NotStale, Hit, StatOf
<1>. QED
  BY <1>1, <1>2, <1>3, PTL DEF Spec

-----------------------------------------------------------------------------

(***************************************************************************)
(* Why the results are current.  The history `during' always has what is   *)
(* on disk; a worker only ever holds an entry that answers for its path or *)
(* a source its path had; and a path that was received has its answer or a *)
(* worker on it, so that none is missing when every worker has left.       *)
(***************************************************************************)
AnswerFor(i, r) == \E v \in during[i] : r = Outcome(v)

SeenOnDisk == phase # "idle" => \A i \in Paths : disk[i].content \in during[i]

Answered == \A i \in Paths : results[i] # Nothing => AnswerFor(i, results[i])

HandsCurrent ==
    \A w \in Workers :
        /\ wpc[w] = "lookup" /\ Hit(entries[job[w]], cfg, info[w]) =>
              AnswerFor(job[w], entries[job[w]].diags)
        /\ wpc[w] \in {"lint", "store"} => src[w] \in during[job[w]]

HandedOut ==
    /\ \A w \in Workers : wpc[w] # "off" => phase # "idle" /\ w <= jobs
    /\ \A w \in Workers : wpc[w] = "exited" => next > N
    /\ phase \in {"waited", "done"} => AllExited
    /\ phase # "idle" =>
          \A i \in Paths : i < next /\ results[i] = Nothing =>
              \E w \in Workers : Busy(w) /\ job[w] = i

CurrentInv ==
    /\ FreshInv
    /\ SlotsAreExclusive
    /\ SeenOnDisk
    /\ Answered
    /\ HandsCurrent
    /\ HandedOut

\* A worker that has not left is a worker of a run that has not been waited for.
LEMMA AtWork ==
    ASSUME TypeInv, HandedOut, NEW w \in Workers, wpc[w] \notin {"off", "exited"}
    PROVE  phase = "running" /\ w \in 1 .. jobs
<1>1. phase # "idle" /\ w \in 1 .. jobs
  BY JobsAssumption DEF HandedOut, TypeInv, TypeOK, Workers
<1>2. ~AllExited
  BY <1>1 DEF AllExited
<1>. QED
  BY <1>1, <1>2 DEF HandedOut, TypeInv, TypeOK

\* No outcome is the mark of a slot that has none.
LEMMA OutcomeIsSomething ==
    ASSUME NEW r \in Diagnostics \cup {Failed}
    PROVE  r # Nothing
  BY ContentsAssumption DEF Diagnostics

\* A worker that reports an answer for its path, and may cache it.
LEMMA ReportCurrent ==
    ASSUME TypeInv, CurrentInv, NEW w \in Workers, Busy(w),
           NEW r \in Diagnostics \cup {Failed}, Report(w, r), Slot(w) = job[w],
           AnswerFor(job[w], r),
           \A i \in Paths \ {job[w]} : entries'[i] = entries[i]
    PROVE  SeenOnDisk' /\ Answered' /\ HandsCurrent' /\ HandedOut'
<1>1. /\ UNCHANGED <<disk, during, phase, cfg, jobs, next, job>>
      /\ job[w] \in Paths
      /\ results' = [results EXCEPT ![job[w]] = r]
      /\ wpc' = [wpc EXCEPT ![w] = "receive"]
      /\ \A x \in Workers \ {w} :
            wpc'[x] = wpc[x] /\ info'[x] = info[x] /\ src'[x] = src[x]
      /\ wpc'[w] = "receive"
  BY DEF Report, diskVars, TypeInv, TypeOK
<1>2. phase = "running" /\ w \in 1 .. jobs
  BY AtWork DEF Busy, CurrentInv
<1>3. SeenOnDisk'
  BY <1>1 DEF CurrentInv, SeenOnDisk
<1>4. \A i \in Paths : results'[i] = IF i = job[w] THEN r ELSE results[i]
  BY <1>1 DEF TypeInv, TypeOK
<1>5. Answered'
  BY <1>1, <1>4 DEF CurrentInv, Answered, AnswerFor, Outcome
<1>6. \A x \in Workers \ {w} :
          Busy(x) => job[x] \in Paths \ {job[w]} /\ entries'[job[x]] = entries[job[x]]
  BY DEF CurrentInv, SlotsAreExclusive, TypeInv, TypeOK
<1>7. \A x \in Workers : wpc'[x] \in {"lookup", "lint", "store"} => x # w /\ Busy(x)
  BY <1>1 DEF Busy
<1>8. HandsCurrent'
  BY <1>1, <1>6, <1>7 DEF CurrentInv, HandsCurrent, AnswerFor, Outcome
<1>9. HandedOut'
  <2>1. \A x \in Workers : wpc'[x] # "off" => phase' # "idle" /\ x <= jobs'
    BY <1>1, <1>2, JobsAssumption DEF CurrentInv, HandedOut, TypeInv, TypeOK, Workers
  <2>2. \A x \in Workers : wpc'[x] = "exited" => next' > N
    BY <1>1 DEF CurrentInv, HandedOut
  <2>3. \A i \in Paths : i < next' /\ results'[i] = Nothing =>
            \E x \in Workers : Busy(x)' /\ job'[x] = i
    <3> SUFFICES ASSUME NEW i \in Paths, i < next, results'[i] = Nothing
                 PROVE  \E x \in Workers : Busy(x)' /\ job[x] = i
      BY <1>1
    <3>1. i # job[w] /\ results[i] = Nothing
      BY <1>4, OutcomeIsSomething
    <3>2. PICK x \in Workers : Busy(x) /\ job[x] = i
      BY <1>2, <3>1 DEF CurrentInv, HandedOut
    <3>. QED
      BY <1>1, <3>1, <3>2 DEF Busy
  <2>. QED
    BY <1>1, <1>2, <2>1, <2>2, <2>3 DEF HandedOut
<1>. QED
  BY <1>3, <1>5, <1>8, <1>9

\* A step of worker w that neither reports nor leaves: the same path is in hand.
LEMMA CarryOn ==
    ASSUME TypeInv, CurrentInv, NEW w \in Workers, Busy(w), Busy(w)',
           UNCHANGED <<disk, during, phase, cfg, jobs, next, job, results, entries>>,
           \A x \in Workers \ {w} : wpc'[x] = wpc[x] /\ info'[x] = info[x] /\ src'[x] = src[x],
           wpc'[w] = "lookup" /\ Hit(entries[job[w]], cfg, info'[w]) =>
               AnswerFor(job[w], entries[job[w]].diags),
           wpc'[w] \in {"lint", "store"} => src'[w] \in during[job[w]]
    PROVE  SeenOnDisk' /\ Answered' /\ HandsCurrent' /\ HandedOut'
<1>1. phase = "running" /\ w \in 1 .. jobs
  BY AtWork DEF Busy, CurrentInv
<1>2. \A x \in Workers : Busy(x)' <=> Busy(x)
  BY DEF Busy
<1>3. SeenOnDisk' /\ Answered'
  BY DEF CurrentInv, SeenOnDisk, Answered, AnswerFor, Outcome
<1>4. HandsCurrent'
  BY DEF CurrentInv, HandsCurrent, AnswerFor, Outcome
<1>5. HandedOut'
  <2>1. \A x \in Workers : wpc'[x] # "off" => phase' # "idle" /\ x <= jobs'
    BY <1>1, JobsAssumption DEF CurrentInv, HandedOut, TypeInv, TypeOK, Workers
  <2>2. \A x \in Workers : wpc'[x] = "exited" => next' > N
    BY DEF CurrentInv, HandedOut, Busy
  <2>. QED
    BY <1>1, <1>2, <2>1, <2>2 DEF CurrentInv, HandedOut
<1>. QED
  BY <1>3, <1>4, <1>5

\* Every step keeps what is in hand current.
LEMMA CurrentInductive == FineClock /\ CurrentInv /\ [Next]_vars => CurrentInv'
<1> SUFFICES ASSUME FineClock, CurrentInv, [Next]_vars
             PROVE  CurrentInv'
  OBVIOUS
<1> FreshInv /\ FreshInv' /\ TypeInv
  BY FreshInductive DEF CurrentInv, FreshInv
<1> SlotsAreExclusive'
  BY SlotsInductive DEF CurrentInv
<1> USE DEF diskVars, runVars, cacheVars, workerVars
<1> SUFFICES SeenOnDisk' /\ Answered' /\ HandsCurrent' /\ HandedOut'
  BY DEF CurrentInv
<1>1. CASE Tick
  BY <1>1 DEF Tick, CurrentInv, SeenOnDisk, Answered, HandsCurrent, HandedOut, AnswerFor,
              Outcome, AllExited, Busy
<1>2. ASSUME NEW i \in Paths, NEW v \in Contents \cup {Gone}, Edit(i, v)
      PROVE SeenOnDisk' /\ Answered' /\ HandsCurrent' /\ HandedOut'
  <2>1. /\ disk'[i].content = v
        /\ \A j \in Paths \ {i} : disk'[j] = disk[j]
        /\ UNCHANGED <<phase, cfg, jobs, next, entries, wpc, info, job, src, results>>
    BY <1>2 DEF Edit, TypeInv, TypeOK
  <2>2. \A j \in Paths : during'[j] = IF j = i THEN during[j] \cup {v} ELSE during[j]
    BY <1>2 DEF Edit, TypeInv, TypeOK
  <2>3. \A j \in Paths : \A r : AnswerFor(j, r) => AnswerFor(j, r)'
    BY <2>1, <2>2 DEF AnswerFor, Outcome
  <2>4. SeenOnDisk'
    BY <2>1, <2>2 DEF CurrentInv, SeenOnDisk
  <2>5. Answered'
    BY <2>1, <2>3 DEF CurrentInv, Answered
  <2>6. HandsCurrent'
    <3>1. \A w \in Workers : job[w] \in Paths
      BY DEF TypeInv, TypeOK
    <3>. QED
      BY <2>1, <2>2, <2>3, <3>1 DEF CurrentInv, HandsCurrent
  <2>7. HandedOut'
    BY <2>1 DEF CurrentInv, HandedOut, AllExited, Busy
  <2>. QED
    BY <2>4, <2>5, <2>6, <2>7
<1>3. ASSUME NEW c \in Configs, NEW n \in JobChoices, Start(c, n)
      PROVE SeenOnDisk' /\ Answered' /\ HandsCurrent' /\ HandedOut'
  <2>1. /\ phase' = "running" /\ next' = 1 /\ disk' = disk
        /\ wpc' = [w \in Workers |-> IF w <= jobs' THEN "receive" ELSE "off"]
        /\ results' = [i \in Paths |-> Nothing]
        /\ during' = [i \in Paths |-> {disk[i].content}]
    BY <1>3 DEF Start
  <2>2. \A w \in Workers : /\ wpc'[w] \in {"receive", "off"}
                           /\ wpc'[w] = "receive" => w <= jobs'
    BY <2>1
  <2>3. SeenOnDisk' /\ Answered'
    BY <2>1 DEF SeenOnDisk, Answered
  <2>4. HandsCurrent'
    BY <2>2 DEF HandsCurrent
  <2>5. HandedOut'
    BY <2>1, <2>2, JobsAssumption DEF HandedOut, Paths
  <2>. QED
    BY <2>3, <2>4, <2>5
<1>4. CASE Wait
  BY <1>4 DEF Wait, CurrentInv, SeenOnDisk, Answered, HandsCurrent, HandedOut, AnswerFor,
              Outcome, AllExited, Busy
<1>5. CASE Save
  <2>1. /\ phase = "waited" /\ phase' = "done"
        /\ UNCHANGED <<disk, during, cfg, jobs, next, entries, wpc, info, job, src, results>>
    BY <1>5 DEF Save
  <2>. QED
    BY <2>1 DEF CurrentInv, SeenOnDisk, Answered, HandsCurrent, HandedOut, AnswerFor,
                Outcome, AllExited, Busy
<1>6. CASE Exit
  <2>1. /\ phase' = "idle"
        /\ wpc' = [w \in Workers |-> "off"]
        /\ results' = [i \in Paths |-> Nothing]
    BY <1>6 DEF Exit
  <2>. QED
    BY <2>1 DEF SeenOnDisk, Answered, HandsCurrent, HandedOut
<1>7. ASSUME NEW w \in Workers, Receive(w)
      PROVE SeenOnDisk' /\ Answered' /\ HandsCurrent' /\ HandedOut'
  <2>1. /\ UNCHANGED <<disk, during, phase, cfg, jobs, results, entries, info, src>>
        /\ wpc[w] = "receive" /\ wpc'[w] = "stat" /\ job'[w] = next /\ next' = next + 1
        /\ \A x \in Workers \ {w} : wpc'[x] = wpc[x] /\ job'[x] = job[x]
        /\ next \in Paths
    BY <1>7, JobsAssumption DEF Receive, TypeInv, TypeOK, Paths
  <2>2. phase = "running" /\ w \in 1 .. jobs
    BY <2>1, AtWork DEF CurrentInv
  <2>3. SeenOnDisk' /\ Answered'
    BY <2>1 DEF CurrentInv, SeenOnDisk, Answered, AnswerFor, Outcome
  <2>4. HandsCurrent'
    BY <2>1 DEF CurrentInv, HandsCurrent, AnswerFor, Outcome
  <2>5. \A x \in Workers : wpc'[x] # "off" => phase' # "idle" /\ x <= jobs'
    BY <2>1, <2>2, JobsAssumption DEF CurrentInv, HandedOut, TypeInv, TypeOK, Workers
  <2>6. \A x \in Workers : wpc'[x] = "exited" => next' > N
    BY <2>1, JobsAssumption DEF CurrentInv, HandedOut, Paths
  <2>7. \A i \in Paths : i < next' /\ results'[i] = Nothing =>
            \E x \in Workers : Busy(x)' /\ job'[x] = i
    <3> SUFFICES ASSUME NEW i \in Paths, i < next', results[i] = Nothing
                 PROVE  \E x \in Workers : Busy(x)' /\ job'[x] = i
      BY <2>1
    <3>1. CASE i = next
      BY <2>1, <3>1 DEF Busy
    <3>2. CASE i < next
      <4>1. PICK x \in Workers : Busy(x) /\ job[x] = i
        BY <2>2, <3>2 DEF CurrentInv, HandedOut
      <4>. QED
        BY <2>1, <4>1 DEF Busy
    <3>. QED
      BY <2>1, <3>1, <3>2, JobsAssumption DEF Paths
  <2>8. HandedOut'
    BY <2>1, <2>2, <2>5, <2>6, <2>7 DEF HandedOut
  <2>. QED
    BY <2>3, <2>4, <2>8
<1>8. ASSUME NEW w \in Workers, ExitWorker(w)
      PROVE SeenOnDisk' /\ Answered' /\ HandsCurrent' /\ HandedOut'
  <2>1. /\ UNCHANGED <<disk, during, phase, cfg, jobs, next, job, results, entries, info, src>>
        /\ wpc[w] = "receive" /\ wpc'[w] = "exited" /\ next > N
        /\ \A x \in Workers \ {w} : wpc'[x] = wpc[x]
    BY <1>8 DEF ExitWorker, Drained, TypeInv, TypeOK
  <2>2. phase = "running" /\ w \in 1 .. jobs
    BY <2>1, AtWork DEF CurrentInv
  <2>3. \A x \in Workers : Busy(x)' <=> Busy(x)
    BY <2>1 DEF Busy
  <2>4. SeenOnDisk' /\ Answered' /\ HandsCurrent'
    BY <2>1 DEF CurrentInv, SeenOnDisk, Answered, HandsCurrent, AnswerFor, Outcome
  <2>5. \A x \in Workers : wpc'[x] # "off" => phase' # "idle" /\ x <= jobs'
    BY <2>1, <2>2, JobsAssumption DEF CurrentInv, HandedOut, TypeInv, TypeOK, Workers
  <2>6. HandedOut'
    BY <2>1, <2>2, <2>3, <2>5 DEF CurrentInv, HandedOut
  <2>. QED
    BY <2>4, <2>6
<1>9. ASSUME NEW w \in Workers, Stat(w)
      PROVE SeenOnDisk' /\ Answered' /\ HandsCurrent' /\ HandedOut'
  <2>1. wpc[w] = "stat" /\ Busy(w) /\ job[w] \in Paths /\ phase = "running"
    BY <1>9, AtWork DEF Stat, Busy, CurrentInv, TypeInv, TypeOK
  <2>2. disk[job[w]].content \in during[job[w]]
    BY <2>1 DEF CurrentInv, SeenOnDisk
  <2>3. CASE OnDisk(job[w])
    <3>1. /\ UNCHANGED <<disk, during, phase, cfg, jobs, next, job, results, entries, src>>
          /\ info'[w] = StatOf(job[w]) /\ wpc'[w] = "lookup"
          /\ \A x \in Workers \ {w} : wpc'[x] = wpc[x] /\ info'[x] = info[x]
      BY <1>9, <2>3 DEF Stat, TypeInv, TypeOK
    <3>2. Hit(entries[job[w]], cfg, info'[w]) => AnswerFor(job[w], entries[job[w]].diags)
      <4> SUFFICES ASSUME Hit(entries[job[w]], cfg, StatOf(job[w]))
                   PROVE  AnswerFor(job[w], entries[job[w]].diags)
        BY <3>1
      <4>1. entries[job[w]].diags = Lint(disk[job[w]].content, cfg)
        BY <2>1 DEF Hit, StatOf, FreshInv, FreshCache, FreshEntry
      <4>2. entries[job[w]].diags \in Diagnostics
        BY <2>1 DEF Hit, TypeInv, TypeOK, Entries
      <4>3. disk[job[w]].content \notin Broken \cup {Gone}
        BY <2>3, <4>1, <4>2 DEF Lint, Diagnostics, OnDisk
      <4>. QED
        BY <2>2, <4>1, <4>3 DEF AnswerFor, Outcome
    <3>. QED
      BY <2>1, <3>1, <3>2, CarryOn DEF Busy
  <2>4. CASE ~OnDisk(job[w])
    <3>1. Report(w, Failed) /\ entries' = entries
      BY <1>9, <2>4 DEF Stat
    <3>2. AnswerFor(job[w], Failed)
      BY <2>2, <2>4 DEF AnswerFor, Outcome, OnDisk
    <3>. QED
      BY <2>1, <3>1, <3>2, ReportCurrent DEF Slot
  <2>. QED
    BY <2>3, <2>4
<1>10. ASSUME NEW w \in Workers, Lookup(w)
       PROVE SeenOnDisk' /\ Answered' /\ HandsCurrent' /\ HandedOut'
  <2>1. wpc[w] = "lookup" /\ Busy(w) /\ job[w] \in Paths
    BY <1>10 DEF Lookup, Busy, TypeInv, TypeOK
  <2>2. CASE Hit(entries[job[w]], cfg, info[w])
    <3>1. Report(w, entries[job[w]].diags) /\ entries' = entries
      BY <1>10, <2>2 DEF Lookup
    <3>2. AnswerFor(job[w], entries[job[w]].diags)
      BY <2>1, <2>2 DEF CurrentInv, HandsCurrent
    <3>3. entries[job[w]].diags \in Diagnostics
      BY <2>1, <2>2 DEF Hit, TypeInv, TypeOK, Entries
    <3>. QED
      BY <2>1, <3>1, <3>2, <3>3, ReportCurrent DEF Slot
  <2>3. CASE ~Hit(entries[job[w]], cfg, info[w])
    <3>1. /\ UNCHANGED <<disk, during, phase, cfg, jobs, next, job, results, entries, info, src>>
          /\ wpc'[w] = "read"
          /\ \A x \in Workers \ {w} : wpc'[x] = wpc[x]
      BY <1>10, <2>3 DEF Lookup, TypeInv, TypeOK
    <3>. QED
      BY <2>1, <3>1, CarryOn DEF Busy
  <2>. QED
    BY <2>2, <2>3
<1>11. ASSUME NEW w \in Workers, Read(w)
       PROVE SeenOnDisk' /\ Answered' /\ HandsCurrent' /\ HandedOut'
  <2>1. wpc[w] = "read" /\ Busy(w) /\ job[w] \in Paths /\ phase = "running"
    BY <1>11, AtWork DEF Read, Busy, CurrentInv, TypeInv, TypeOK
  <2>2. disk[job[w]].content \in during[job[w]]
    BY <2>1 DEF CurrentInv, SeenOnDisk
  <2>3. CASE OnDisk(job[w])
    <3>1. /\ UNCHANGED <<disk, during, phase, cfg, jobs, next, job, results, entries, info>>
          /\ wpc'[w] = "lint" /\ src'[w] = disk[job[w]].content
          /\ \A x \in Workers \ {w} : wpc'[x] = wpc[x] /\ src'[x] = src[x]
      BY <1>11, <2>3 DEF Read, TypeInv, TypeOK
    <3>. QED
      BY <2>1, <2>2, <3>1, CarryOn DEF Busy
  <2>4. CASE ~OnDisk(job[w])
    <3>1. Report(w, Failed) /\ entries' = entries
      BY <1>11, <2>4 DEF Read
    <3>2. AnswerFor(job[w], Failed)
      BY <2>2, <2>4 DEF AnswerFor, Outcome, OnDisk
    <3>. QED
      BY <2>1, <3>1, <3>2, ReportCurrent DEF Slot
  <2>. QED
    BY <2>3, <2>4
<1>12. ASSUME NEW w \in Workers, LintSource(w)
       PROVE SeenOnDisk' /\ Answered' /\ HandsCurrent' /\ HandedOut'
  <2>1. /\ wpc[w] = "lint" /\ Busy(w) /\ job[w] \in Paths
        /\ src[w] \in during[job[w]]
    BY <1>12 DEF LintSource, Busy, CurrentInv, HandsCurrent, TypeInv, TypeOK
  <2>2. CASE src[w] \in Broken
    <3>1. Report(w, Failed) /\ entries' = entries
      BY <1>12, <2>2 DEF LintSource
    <3>2. AnswerFor(job[w], Failed)
      BY <2>1, <2>2 DEF AnswerFor, Outcome
    <3>. QED
      BY <2>1, <3>1, <3>2, ReportCurrent DEF Slot
  <2>3. CASE src[w] \notin Broken
    <3>1. /\ UNCHANGED <<disk, during, phase, cfg, jobs, next, job, results, entries, info, src>>
          /\ wpc'[w] = "store"
          /\ \A x \in Workers \ {w} : wpc'[x] = wpc[x]
      BY <1>12, <2>3 DEF LintSource, TypeInv, TypeOK
    <3>. QED
      BY <2>1, <3>1, CarryOn DEF Busy
  <2>. QED
    BY <2>2, <2>3
<1>13. ASSUME NEW w \in Workers, Store(w, Lint(src[w], cfg))
       PROVE SeenOnDisk' /\ Answered' /\ HandsCurrent' /\ HandedOut'
  <2>1. /\ wpc[w] = "store" /\ Busy(w) /\ job[w] \in Paths
        /\ Report(w, Lint(src[w], cfg))
        /\ \A i \in Paths \ {job[w]} : entries'[i] = entries[i]
    BY <1>13 DEF Store, Busy, TypeInv, TypeOK
  <2>2. /\ src[w] \in during[job[w]]
        /\ src[w] \in Contents \ Broken
        /\ cfg \in Configs
    BY <2>1 DEF CurrentInv, HandsCurrent, TypeInv, TypeOK, HandsOK
  <2>3. AnswerFor(job[w], Lint(src[w], cfg))
    BY <2>2, ContentsAssumption DEF AnswerFor, Outcome
  <2>4. Lint(src[w], cfg) \in Diagnostics
    BY <2>2, LintIsDiagnostics
  <2>. QED
    BY <2>1, <2>3, <2>4, ReportCurrent DEF Slot
<1>14. CASE UNCHANGED vars
  BY <1>14 DEF vars, CurrentInv, SeenOnDisk, Answered, HandsCurrent, HandedOut, AnswerFor,
              Outcome, AllExited, Busy
<1>. QED
  BY <1>1, <1>2, <1>3, <1>4, <1>5, <1>6, <1>7, <1>8, <1>9, <1>10, <1>11, <1>12, <1>13, <1>14
     DEF Next, Editor, Run, Worker

\* No run has begun.
LEMMA CurrentInit == Init => CurrentInv
<1> SUFFICES ASSUME Init PROVE CurrentInv
  OBVIOUS
<1>1. SlotsAreExclusive
  BY DEF Init, SlotsAreExclusive, Busy
<1>2. SeenOnDisk /\ Answered /\ HandsCurrent /\ HandedOut
  BY DEF Init, SeenOnDisk, Answered, HandsCurrent, HandedOut
<1>. QED
  BY <1>1, <1>2, FreshInit DEF CurrentInv

\* When the workers have exited there is no path without its outcome.
LEMMA CurrentAnswers == CurrentInv => ResultsAreCurrent
<1> SUFFICES ASSUME CurrentInv, phase \in {"waited", "done"}, NEW i \in Paths
             PROVE  AnswerFor(i, results[i])
  BY DEF ResultsAreCurrent, AnswerFor
<1>1. 1 \in Workers /\ 1 \in 1 .. jobs /\ AllExited
  BY JobsAssumption DEF CurrentInv, HandedOut, FreshInv, TypeInv, TypeOK, Workers
<1>2. next > N
  BY <1>1 DEF CurrentInv, HandedOut, AllExited
<1>3. i < next
  BY <1>2, JobsAssumption DEF CurrentInv, FreshInv, TypeInv, TypeOK, Paths
<1>4. \A w \in Workers : ~Busy(w)
  <2> SUFFICES ASSUME NEW w \in Workers, Busy(w) PROVE FALSE
    OBVIOUS
  <2>. QED
    BY AtWork DEF Busy, CurrentInv, FreshInv
<1>. QED
  BY <1>3, <1>4 DEF CurrentInv, HandedOut, Answered

(***************************************************************************)
(* What LintFiles returns is complete and current, for any number of paths *)
(* and workers: every path has the outcome of a content it had during the  *)
(* run, linted under the run's configuration, be it from the cache or not  *)
(* and wherever edits come in between.                                     *)
(***************************************************************************)
THEOREM ResultsStayCurrent == ASSUME FineClock PROVE Spec => []ResultsAreCurrent
<1>1. Init => CurrentInv
  BY CurrentInit
<1>2. CurrentInv /\ [Next]_vars => CurrentInv'
  BY CurrentInductive
<1>3. CurrentInv => ResultsAreCurrent
  BY CurrentAnswers
<1>. QED
  BY <1>1, <1>2, <1>3, PTL DEF Spec

-----------------------------------------------------------------------------
(* The pooled parser: LintPooled.                                          *)

\* The theorems of ParserPool, of the parsers the workers share.
Proofs == INSTANCE ParserPool_proofs WITH
    Callers <- Workers, Retainers <- Workers, Files <- Contents,
    pc <- ppc, file <- pfile

\* --jobs 1, or one processor, or one path.
OneJob == \A n \in JobChoices : Clamp(n) = 1

(***************************************************************************)
(* Where a worker is in ParseFile follows from where it is in lintOneFile, *)
(* and what it parses or uses is the source it has read.  With one job     *)
(* only the first worker is ever at work, so it is alone with its AST.     *)
(***************************************************************************)
ParsesItsSource ==
    \A w \in Workers :
        \/ ppc[w] = "idle"
        \/ ppc[w] = "parsing" /\ wpc[w] = "lint" /\ pfile[w] = src[w]
        \/ ppc[w] = "using" /\ wpc[w] = "store" /\ pfile[w] = src[w]

OneWorker == \A w \in Workers : wpc[w] # "off" => w = 1 /\ phase # "idle"

PooledInv ==
    /\ TypeInv
    /\ Proofs!AInv
    /\ ParsesItsSource
    /\ OneWorker

\* With one worker whoever uses an AST is alone.
LEMMA OneWorkerIsAlone == ASSUME ParsesItsSource, OneWorker PROVE Proofs!Alone
  BY DEF ParsesItsSource, OneWorker, Proofs!Alone

\* The steps of the instances are the same.
LEMMA SameParserSteps ==
    /\ \A w \in Workers, v \in Contents :
           /\ Parser!GetPooled(w, v) => Proofs!GetPooled(w, v)
           /\ Parser!GetFresh(w, v) => Proofs!GetFresh(w, v)
    /\ \A w \in Workers :
           /\ Parser!Allocate(w) => Proofs!Allocate(w)
           /\ Parser!Finish(w) => Proofs!Finish(w)
           /\ Parser!Drop(w) => Proofs!Drop(w)
    /\ \A p \in Parsers : Parser!Evict(p) => Proofs!Evict(p)
<1>1. \A w \in Workers, v \in Contents : Parser!GetPooled(w, v) => Proofs!GetPooled(w, v)
  BY DEF Parser!GetPooled, Proofs!GetPooled, Parser!Take, Proofs!Take, Parser!Reset, Proofs!Reset
<1>2. \A w \in Workers, v \in Contents : Parser!GetFresh(w, v) => Proofs!GetFresh(w, v)
  BY DEF Parser!GetFresh, Proofs!GetFresh, Parser!Unreachable, Proofs!Unreachable,
         Parser!Blank, Proofs!Blank, Parser!Grown, Proofs!Grown, Parser!Cells, Proofs!Cells
<1>3. \A w \in Workers : Parser!Allocate(w) => Proofs!Allocate(w)
  BY DEF Parser!Allocate, Proofs!Allocate, Parser!ArenaAlloc, Proofs!ArenaAlloc,
         Parser!Cells, Proofs!Cells
<1>4. \A w \in Workers : Parser!Finish(w) => Proofs!Finish(w)
  BY DEF Parser!Finish, Proofs!Finish, Parser!PutBack, Proofs!PutBack,
         Parser!Parses, Proofs!Parses
<1>5. \A w \in Workers : Parser!Drop(w) => Proofs!Drop(w)
  BY DEF Parser!Drop, Proofs!Drop
<1>6. \A p \in Parsers : Parser!Evict(p) => Proofs!Evict(p)
  BY DEF Parser!Evict, Proofs!Evict
<1>. QED
  BY <1>1, <1>2, <1>3, <1>4, <1>5, <1>6

\* The invariant of the pool of parsers, carried over: LintPooled assumes of the parsers'
\* constants what ParserPool does.
LEMMA PoolInit == ASSUME Proofs!Init PROVE Proofs!AInv
  BY PooledAssumption, ContentsAssumption, Proofs!InitAInv

\* A step of the pool in which nobody is beside a goroutine that uses its AST.
LEMMA PoolStep ==
    ASSUME Proofs!Alone', Proofs!AInv, [Proofs!Next]_(Proofs!vars)
    PROVE  Proofs!AInv'
  BY PooledAssumption, ContentsAssumption, Proofs!NextAInv

-----------------------------------------------------------------------------

USE DEF diskVars, runVars, cacheVars, workerVars, parserVars

\* With one job no step of LintFiles brings a second worker to work.
LEMMA KeepsOneWorker ==
    ASSUME OneJob, TypeInv, OneWorker, [Next]_vars
    PROVE  OneWorker'
<1>1. wpc \in [Workers -> {"off", "receive", "stat", "lookup", "read", "lint", "store",
                           "exited"}]
  BY DEF TypeInv, TypeOK
<1>2. ASSUME NEW c \in Configs, NEW n \in JobChoices, Start(c, n) PROVE OneWorker'
  <2>1. jobs' = 1
    BY <1>2 DEF Start, OneJob
  <2>. QED
    BY <1>2, <2>1 DEF Start, OneWorker, Workers
<1>3. CASE Tick \/ Wait \/ Save \/ \E i \in Paths, v \in Contents \cup {Gone} : Edit(i, v)
  BY <1>3 DEF Tick, Wait, Save, Edit, OneWorker
<1>4. CASE Exit
  BY <1>4 DEF Exit, OneWorker
<1>5. ASSUME NEW w \in Workers, Worker(w) PROVE OneWorker'
  <2>1. /\ wpc[w] # "off" /\ phase' = phase
        /\ \A x \in Workers \ {w} : wpc'[x] = wpc[x]
    BY <1>1, <1>5
       DEF Worker, Receive, ExitWorker, Stat, Lookup, Read, LintSource, Store, Report
  <2>. QED
    BY <2>1 DEF OneWorker
<1>6. CASE UNCHANGED vars
  BY <1>6 DEF vars, OneWorker
<1>. QED
  BY <1>2, <1>3, <1>4, <1>5, <1>6 DEF Next, Editor, Run

\* A step that LintFiles and ParserPool both allow keeps the invariant if the registers agree.
LEMMA Together ==
    ASSUME OneJob, PooledInv, [Next]_vars, [Proofs!Next]_(Proofs!vars), ParsesItsSource'
    PROVE  PooledInv'
<1>1. TypeInv' /\ OneWorker'
  BY TypeInvInductive, KeepsOneWorker DEF PooledInv
<1>2. Proofs!Alone'
  BY <1>1 DEF ParsesItsSource, OneWorker, Proofs!Alone
<1>. QED
  BY <1>1, <1>2, PoolStep DEF PooledInv

\* What the invariant says of the registers of the workers.
LEMMA Registers ==
    ASSUME PooledInv
    PROVE  /\ ppc \in [Workers -> {"idle", "parsing", "using"}]
           /\ pfile \in [Workers -> Contents \cup {Nothing}]
           /\ wpc \in [Workers -> {"off", "receive", "stat", "lookup", "read", "lint",
                                   "store", "exited"}]
           /\ src \in [Workers -> Contents \cup {Nothing}]
           /\ \A w \in Workers : wpc[w] = "lint" => src[w] \in Contents
  BY DEF PooledInv, TypeInv, TypeOK, HandsOK, Proofs!AInv, Proofs!IInv, Proofs!TypeOK

\* A step outside ParseFile and Lint is one of LintFiles and leaves the parsers alone.
LEMMA OutsideParserStep ==
    ASSUME OneJob, PooledInv, UNCHANGED parserVars,
           \/ Editor \/ (\E c \in Configs, n \in JobChoices : Start(c, n)) \/ Wait \/ Save
           \/ \E w \in Workers : Receive(w) \/ ExitWorker(w) \/ Stat(w) \/ Lookup(w) \/ Read(w)
    PROVE  Next /\ PooledInv'
<1>1. Next
  BY DEF Next, Run, Worker
<1>2. UNCHANGED <<ppc, pfile>> /\ UNCHANGED Proofs!vars
  BY DEF Proofs!vars
<1>3. CASE Editor \/ Wait \/ Save
  <2>1. UNCHANGED <<wpc, src>>
    BY <1>3 DEF Editor, Tick, Edit, Wait, Save
  <2>2. ParsesItsSource'
    BY <1>2, <2>1 DEF PooledInv, ParsesItsSource
  <2>. QED
    BY <1>1, <1>2, <2>2, Together
<1>4. ASSUME NEW c \in Configs, NEW n \in JobChoices, Start(c, n)
      PROVE  PooledInv'
  <2>1. \A w \in Workers : ppc[w] = "idle"
    BY <1>4 DEF Start, PooledInv, OneWorker, ParsesItsSource
  <2>2. ParsesItsSource'
    BY <1>2, <2>1 DEF ParsesItsSource
  <2>. QED
    BY <1>1, <1>2, <2>2, Together
<1>5. ASSUME NEW w \in Workers,
             Receive(w) \/ ExitWorker(w) \/ Stat(w) \/ Lookup(w) \/ Read(w)
      PROVE  PooledInv'
  <2>1. /\ wpc[w] \in {"receive", "stat", "lookup", "read"}
        /\ \A x \in Workers \ {w} : wpc'[x] = wpc[x] /\ src'[x] = src[x]
    BY <1>5, Registers DEF Receive, ExitWorker, Stat, Lookup, Read, Report
  <2>2. ppc[w] = "idle"
    BY <2>1 DEF PooledInv, ParsesItsSource
  <2>3. ParsesItsSource'
    BY <1>2, <2>1, <2>2 DEF PooledInv, ParsesItsSource
  <2>. QED
    BY <1>1, <1>2, <2>3, Together
<1>. QED
  BY <1>1, <1>3, <1>4, <1>5

\* ParseFile is called on the source, or allocates a node; or a parser is evicted.
LEMMA InsideParserStep ==
    ASSUME OneJob, PooledInv, UNCHANGED vars,
           \/ \E w \in Workers : ParseBegin(w) \/ ParseNode(w)
           \/ Collect
    PROVE  PooledInv'
<1>0. UNCHANGED <<wpc, src>>
  BY DEF vars
<1>1. ASSUME NEW w \in Workers, ParseBegin(w) PROVE PooledInv'
  <2>1. wpc[w] = "lint" /\ src[w] \in Contents
    BY <1>1, Registers DEF ParseBegin
  <2>2. Proofs!GetPooled(w, src[w]) \/ Proofs!GetFresh(w, src[w])
    BY <1>1, <2>1, SameParserSteps DEF ParseBegin, Source
  <2>3. ppc' = [ppc EXCEPT ![w] = "parsing"] /\ pfile' = [pfile EXCEPT ![w] = src[w]]
    BY <2>2 DEF Proofs!GetPooled, Proofs!GetFresh
  <2>4. ParsesItsSource'
    BY <1>0, <2>1, <2>3, Registers DEF PooledInv, ParsesItsSource
  <2>5. Proofs!Next
    BY <2>1, <2>2 DEF Proofs!Next
  <2>. QED
    BY <2>4, <2>5, Together
<1>2. ASSUME NEW w \in Workers, ParseNode(w) PROVE PooledInv'
  <2>1. Proofs!Allocate(w)
    BY <1>2, SameParserSteps DEF ParseNode
  <2>2. ParsesItsSource'
    BY <1>0, <2>1 DEF Proofs!Allocate, PooledInv, ParsesItsSource
  <2>3. Proofs!Next
    BY <2>1 DEF Proofs!Next
  <2>. QED
    BY <2>2, <2>3, Together
<1>3. ASSUME NEW p \in Parsers, Parser!Evict(p) PROVE PooledInv'
  <2>1. Proofs!Evict(p)
    BY <1>3, SameParserSteps
  <2>2. ParsesItsSource'
    BY <1>0, <2>1 DEF Proofs!Evict, PooledInv, ParsesItsSource
  <2>3. Proofs!Next
    BY <2>1 DEF Proofs!Next
  <2>. QED
    BY <2>2, <2>3, Together
<1>. QED
  BY <1>1, <1>2, <1>3 DEF Collect

\* ParseFile returns the AST, or the error that ends lintOneFile.
LEMMA ParseEndStep ==
    ASSUME OneJob, PooledInv, NEW w \in Workers, ParseEnd(w)
    PROVE  Next /\ PooledInv'
<1>1. LintSource(w) /\ Proofs!Finish(w)
  BY SameParserSteps DEF ParseEnd
<1>2. Next /\ Proofs!Next
  BY <1>1 DEF Next, Worker, Proofs!Next
<1>3. ppc[w] = "parsing" /\ wpc[w] = "lint" /\ pfile[w] = src[w]
  BY <1>1 DEF PooledInv, ParsesItsSource, Proofs!Finish
<1>4. ParsesItsSource'
  <2>1. CASE src[w] \in Broken
    BY <1>1, <1>3, <2>1, Registers
       DEF PooledInv, ParsesItsSource, LintSource, Report, Proofs!Finish, Proofs!Parses
  <2>2. CASE src[w] \notin Broken
    BY <1>1, <1>3, <2>2, Registers
       DEF PooledInv, ParsesItsSource, LintSource, Proofs!Finish, Proofs!Parses
  <2>. QED
    BY <2>1, <2>2
<1>. QED
  BY <1>2, <1>4, Together

(***************************************************************************)
(* Lint walks the AST of the source that was read, since the pool kept it  *)
(* intact: what is stored is the lint of that source.                      *)
(***************************************************************************)
LEMMA CheckASTStep ==
    ASSUME OneJob, PooledInv, NEW w \in Workers, CheckAST(w)
    PROVE  Next /\ PooledInv'
<1>1. PICK node \in Parser!view[w] : Store(w, Lint(node[2], cfg))
  BY DEF CheckAST
<1>2. Proofs!Drop(w)
  BY SameParserSteps DEF CheckAST
<1>3. ppc[w] = "using" /\ wpc[w] = "store" /\ pfile[w] = src[w]
  BY <1>2 DEF PooledInv, ParsesItsSource, Proofs!Drop
<1>4. node = <<w, src[w]>>
  <2>1. PICK ptr \in ast[w] : node = Parser!Deref(ptr)
    BY <1>1, <1>3 DEF Parser!view
  <2>2. Proofs!Deref(ptr) = <<w, pfile[w]>>
    BY <1>3 DEF PooledInv, Proofs!AInv, Proofs!ASTIntact
  <2>. QED
    BY <1>3, <2>1, <2>2 DEF Parser!Deref, Proofs!Deref
<1>5. Store(w, Lint(src[w], cfg))
  BY <1>1, <1>4
<1>6. Next /\ Proofs!Next
  BY <1>2, <1>5 DEF Next, Worker, Proofs!Next
<1>7. ParsesItsSource'
  BY <1>2, <1>5, Registers DEF PooledInv, ParsesItsSource, Store, Report, Proofs!Drop
<1>. QED
  BY <1>6, <1>7, Together

\* A new process starts with an empty pool of parsers.
LEMMA PooledExitStep ==
    ASSUME OneJob, PooledInv, PooledExit
    PROVE  Next /\ (TypeInv /\ Proofs!Init /\ ParsesItsSource /\ OneWorker)'
<1>1. Next
  BY DEF PooledExit, Next, Run
<1>2. Proofs!Init'
  BY DEF PooledExit, Proofs!Init, Parser!Blank, Proofs!Blank, Parser!Grown, Proofs!Grown,
         Parser!Cells, Proofs!Cells
<1>3. TypeInv' /\ OneWorker'
  BY <1>1, TypeInvInductive, KeepsOneWorker DEF PooledInv
<1>4. ParsesItsSource'
  BY DEF PooledExit, ParsesItsSource
<1>. QED
  BY <1>1, <1>2, <1>3, <1>4

-----------------------------------------------------------------------------

\* Nothing is parsed yet and no worker runs.
LEMMA PooledInit == ASSUME InitPooled PROVE PooledInv
<1>1. TypeInv /\ OneWorker /\ ParsesItsSource
  BY TypeInvInit DEF InitPooled, Init, OneWorker, ParsesItsSource, Parser!Init
<1>2. Proofs!Init
  BY DEF InitPooled, Parser!Init, Proofs!Init, Parser!Blank, Proofs!Blank, Parser!Grown,
         Proofs!Grown, Parser!Cells, Proofs!Cells
<1>. QED
  BY <1>1, <1>2, PoolInit DEF PooledInv

\* Every step is one of LintFiles or hidden from it, and leads to a state of the invariant.
LEMMA PooledStep ==
    ASSUME OneJob, PooledInv, [NextPooled]_<<vars, parserVars>>
    PROVE  /\ [Next]_vars
           /\ PooledInv' \/ (TypeInv /\ Proofs!Init /\ ParsesItsSource /\ OneWorker)'
<1>1. CASE UNCHANGED <<vars, parserVars>>
  <2>1. UNCHANGED vars /\ UNCHANGED Proofs!vars /\ ParsesItsSource'
    BY <1>1 DEF vars, Proofs!vars, PooledInv, ParsesItsSource
  <2>. QED
    BY <2>1, Together
<1>2. CASE Editor /\ UNCHANGED parserVars
  BY <1>2, OutsideParserStep
<1>3. CASE PooledRun
  BY <1>3, OutsideParserStep, PooledExitStep DEF PooledRun
<1>4. CASE Collect
  BY <1>4, InsideParserStep DEF Collect
<1>5. ASSUME NEW w \in Workers, PooledWorker(w)
      PROVE  [Next]_vars /\ PooledInv'
  <2>1. CASE /\ Receive(w) \/ ExitWorker(w) \/ Stat(w) \/ Lookup(w) \/ Read(w)
             /\ UNCHANGED parserVars
    BY <2>1, OutsideParserStep
  <2>2. CASE ParseBegin(w) \/ ParseNode(w)
    <3>1. UNCHANGED vars
      BY <2>2 DEF ParseBegin, ParseNode
    <3>. QED
      BY <2>2, <3>1, InsideParserStep
  <2>3. CASE ParseEnd(w)
    BY <2>3, ParseEndStep
  <2>4. CASE CheckAST(w)
    BY <2>4, CheckASTStep
  <2>. QED
    BY <1>5, <2>1, <2>2, <2>3, <2>4 DEF PooledWorker
<1>. QED
  BY <1>1, <1>2, <1>3, <1>4, <1>5 DEF NextPooled

\* One behaviour at a time: from the lemmas above to the implementation.
LEMMA PooledIsLintFiles ==
    ASSUME OneJob PROVE SpecPooled => Init /\ [][Next]_vars
<1>1. InitPooled => PooledInv /\ Init
  BY PooledInit DEF InitPooled
<1>2. PooledInv /\ [NextPooled]_<<vars, parserVars>> =>
          /\ [Next]_vars
          /\ PooledInv' \/ (TypeInv /\ Proofs!Init /\ ParsesItsSource /\ OneWorker)'
  BY PooledStep
<1>3. TypeInv /\ Proofs!Init /\ ParsesItsSource /\ OneWorker => PooledInv
  BY PoolInit DEF PooledInv
<1>. QED
  BY <1>1, <1>2, <1>3, PTL DEF SpecPooled

(***************************************************************************)
(* With one job the workers of linter/, which give their parser back to    *)
(* the pool before they use the AST, are the workers of legacy/linter,     *)
(* which keep a parser of their own: every step is one of LintFiles.       *)
(***************************************************************************)
THEOREM PooledImplementsLintFiles == ASSUME OneJob PROVE SpecPooled => ImplementsLintFiles
  BY PooledIsLintFiles, PTL DEF ImplementsLintFiles

(***************************************************************************)
(* So with one job, and time stamps that tell versions apart, every path   *)
(* of a finished run has the outcome of a content it had during that run;  *)
(* with two workers the run LintPooledParallel shows that it may not.      *)
(***************************************************************************)
THEOREM PooledResultsStayCurrent ==
    ASSUME OneJob, FineClock PROVE SpecPooled => []ResultsAreCurrent
<1>1. CurrentInv /\ [Next]_vars => CurrentInv'
  BY CurrentInductive
<1>. QED
  BY <1>1, CurrentInit, CurrentAnswers, PooledIsLintFiles, PTL
============================================================================
