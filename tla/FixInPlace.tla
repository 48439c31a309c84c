----------------------------- MODULE FixInPlace -----------------------------
(***************************************************************************)
(* `gopapy lint --fix DIR`: the serial loop of lintCmd over the files of a *)
(* directory and fixOne, which writes a fixed file beside the source and   *)
(* renames it over the source, while an editor saves files and other       *)
(* processes do the same.                                                  *)
(*                                                                         *)
(* The temporary file has a name that ends in .py and begins with a dot:   *)
(* whoever collects the files of the directory finds it as well, before    *)
(* the others.                                                             *)
(***************************************************************************)
EXTENDS Integers

CONSTANTS
    Fixers,    \* the processes, each of which runs lint --fix once
    NSources,  \* source files of the directory
    NTemps,    \* bound: temporary files at a time
    MaxSaves,  \* bound: times the editor saves
    None       \* no file

\* The names of the directory as they sort.
Scripts == 1 .. NSources
Temps == (1 - NTemps) .. 0
Names == Temps \cup Scripts

\* What the parser and the fixer make of a file: it has something to fix, nothing,
\* or it does not parse.
Forms == {"fixable", "clean", "bad"}
\* A file: the save of the editor that it goes back to, its form, and whether a write
\* of it came to its end.
Contents == [save : 0 .. MaxSaves, form : Forms, whole : BOOLEAN]

FixInPlaceAssumption ==
    /\ NSources \in Nat /\ NTemps \in Nat /\ MaxSaves \in Nat
    /\ \A file \in Contents : file # None

VARIABLES
    disk,      \* disk[n]: what is under name n, or None
    saves,     \* saves of the editor so far
    fpc,       \* fpc[p]: where process p is
    todo,      \* todo[p]: the collected files still to process
    cur,       \* cur[p]: the file that is processed
    base,      \* base[p]: what was read of it
    tmp,       \* tmp[p]: the name of the temporary file
    linked,    \* linked[p]: that name still leads to the file p has open
    failed,    \* failed[p]: the files reported as FAIL
    since,     \* history: since[p] are those the editor saved after p read them
    meddled    \* history: a process has fixed the temporary file of another one

vars == <<disk, saves, fpc, todo, cur, base, tmp, linked, failed, since, meddled>>

TypeOK ==
    /\ disk \in [Names -> Contents \cup {None}]
    /\ \A f \in Scripts : disk[f] # None
    /\ saves \in 0 .. MaxSaves
    /\ fpc \in [Fixers -> {"idle", "next", "fix", "create", "write", "rest", "close",
                           "rename", "remove", "reread", "done", "dead"}]
    /\ todo \in [Fixers -> SUBSET Names]
    /\ cur \in [Fixers -> Names \cup {None}]
    /\ base \in [Fixers -> Contents \cup {None}]
    /\ tmp \in [Fixers -> Temps \cup {None}]
    /\ linked \in [Fixers -> BOOLEAN]
    /\ failed \in [Fixers -> SUBSET Names]
    /\ since \in [Fixers -> SUBSET Scripts]
    /\ meddled \in BOOLEAN

\* An editor has written every source.
Init ==
    /\ disk \in [Names -> [save : {0}, form : Forms, whole : {TRUE}] \cup {None}]
    /\ \A n \in Names : disk[n] = None <=> n \in Temps
    /\ saves = 0
    /\ fpc = [p \in Fixers |-> "idle"]
    /\ todo = [p \in Fixers |-> {}]
    /\ cur = [p \in Fixers |-> None]
    /\ base = [p \in Fixers |-> None]
    /\ tmp = [p \in Fixers |-> None]
    /\ linked = [p \in Fixers |-> FALSE]
    /\ failed = [p \in Fixers |-> {}]
    /\ since = [p \in Fixers |-> {}]
    /\ meddled = FALSE

-----------------------------------------------------------------------------

At(p, step) == fpc[p] = step
Goes(p, step) == fpc' = [fpc EXCEPT ![p] = step]
\* The loop goes on with the next file, after a report of these as failed.
Ends(p, failures) ==
    /\ Goes(p, "next")
    /\ cur' = [cur EXCEPT ![p] = None]
    /\ base' = [base EXCEPT ![p] = None]
    /\ failed' = [failed EXCEPT ![p] = @ \cup failures]
\* process goes on with the file.
GoesOn(p, step) == Goes(p, step) /\ UNCHANGED <<cur, base, failed>>
Fails(p) == Ends(p, {cur[p]})

\* collectPyPaths, sorted.
Collect(p) ==
    /\ At(p, "idle")
    /\ todo' = [todo EXCEPT ![p] = {n \in Names : disk[n] # None}]
    /\ Goes(p, "next")
    /\ UNCHANGED <<disk, saves, cur, base, tmp, linked, failed, since, meddled>>

First(names) == CHOOSE n \in names : \A m \in names : n <= m

\* ReadFile fails if the file has gone since it was collected, and may fail if not.
Read(p) ==
    /\ At(p, "next") /\ todo[p] # {}
    /\ LET n == First(todo[p])
       IN  /\ todo' = [todo EXCEPT ![p] = @ \ {n}]
           /\ \/ /\ disk[n] # None
                 /\ cur' = [cur EXCEPT ![p] = n]
                 /\ base' = [base EXCEPT ![p] = disk[n]]
                 /\ since' = [since EXCEPT ![p] = @ \ {n}]
                 /\ Goes(p, "fix")
                 /\ UNCHANGED failed
              \/ Ends(p, {n}) /\ UNCHANGED since
    /\ UNCHANGED <<disk, saves, tmp, linked, meddled>>

\* What fixOne does before it writes: parse, fix, and return if nothing was fixed.
Fix(p) ==
    /\ At(p, "fix")
    /\ \/ base[p].form = "bad" /\ Fails(p)
       \/ base[p].form = "clean" /\ GoesOn(p, "reread")
       \/ base[p].form = "fixable" /\ GoesOn(p, "create")
    /\ UNCHANGED <<disk, saves, todo, tmp, linked, since, meddled>>

\* os.CreateTemp: an empty file under a name that was free, or an error.
OneName == {0} \* mutant: os.Create of a name that is always the same
FreeNames == {t \in Temps : disk[t] = None}

CreateTemp(p) ==
    /\ At(p, "create")
    /\ \/ /\ \E t \in FreeNames :
               /\ disk' = [disk EXCEPT ![t] = [base[p] EXCEPT !.form = "clean", !.whole = FALSE]]
               /\ tmp' = [tmp EXCEPT ![p] = t]
          /\ linked' = [linked EXCEPT ![p] = TRUE]
          /\ GoesOn(p, "write")
       \/ Fails(p) /\ UNCHANGED <<disk, tmp, linked>>
    /\ UNCHANGED <<saves, todo, since, meddled>>

\* The name that what p writes is under.
TargetInPlace(p) == cur[p] \* mutant: the source itself is written
Target(p) == tmp[p]
Writes(p, content) ==
    disk' = IF linked[p] THEN [disk EXCEPT ![Target(p)] = content] ELSE disk

\* Half of what the fixer made of the file can have any form.
Write(p) ==
    /\ At(p, "write")
    /\ \/ /\ \E form \in Forms : Writes(p, [base[p] EXCEPT !.form = form, !.whole = FALSE])
          /\ GoesOn(p, "rest")
       \/ GoesOn(p, "remove") /\ UNCHANGED disk
    /\ UNCHANGED <<saves, todo, tmp, linked, since, meddled>>

\* All of it has nothing to fix any more, but does not always parse.
WriteRest(p) ==
    /\ At(p, "rest")
    /\ \/ /\ \E form \in {"clean", "bad"} : Writes(p, [base[p] EXCEPT !.form = form])
          /\ GoesOn(p, "close")
       \/ GoesOn(p, "remove") /\ UNCHANGED disk
    /\ UNCHANGED <<saves, todo, tmp, linked, since, meddled>>

Close(p) ==
    /\ At(p, "close")
    /\ \E step \in {"rename", "remove"} : GoesOn(p, step)
    /\ UNCHANGED <<disk, saves, todo, tmp, linked, since, meddled>>

\* What the name of the temporary file leads to now gets the name of the source.
OnErrorReread == "reread" \* mutant: the error of Rename is not looked at
OnError == "remove"
Rename(p) ==
    /\ At(p, "rename")
    /\ \/ /\ disk[tmp[p]] # None
          /\ disk' = [disk EXCEPT ![tmp[p]] = None, ![cur[p]] = disk[tmp[p]]]
          /\ linked' = [q \in Fixers |-> linked[q] /\ tmp[q] \notin {cur[p], tmp[p]}]
          /\ meddled' = (meddled \/ \E q \in Fixers \ {p} : linked[q] /\ tmp[q] = cur[p])
          /\ tmp' = [tmp EXCEPT ![p] = None]
          /\ GoesOn(p, "reread")
       \/ GoesOn(p, OnError) /\ UNCHANGED <<disk, tmp, linked, meddled>>
    /\ UNCHANGED <<saves, todo, since>>

\* os.Remove of the temporary file, whose error nobody looks at.
Remove(p) ==
    /\ At(p, "remove")
    /\ \E gone \in SUBSET {tmp[p]} :
          disk' = [n \in Names |-> IF n \in gone THEN None ELSE disk[n]]
    /\ tmp' = [tmp EXCEPT ![p] = None]
    /\ linked' = [linked EXCEPT ![p] = FALSE]
    /\ Fails(p)
    /\ UNCHANGED <<saves, todo, since, meddled>>

\* The file is read once more and linted.
Reread(p) ==
    /\ At(p, "reread")
    /\ \/ disk[cur[p]] # None /\ disk[cur[p]].form # "bad" /\ Ends(p, {})
       \/ Fails(p)
    /\ UNCHANGED <<disk, saves, todo, tmp, linked, since, meddled>>

Done(p) ==
    /\ At(p, "next") /\ todo[p] = {}
    /\ GoesOn(p, "done")
    /\ UNCHANGED <<disk, saves, todo, tmp, linked, since, meddled>>

\* The process is killed: its temporary file stays.
Crash(p) ==
    /\ ~At(p, "idle") /\ ~At(p, "done") /\ ~At(p, "dead")
    /\ Goes(p, "dead")
    /\ todo' = [todo EXCEPT ![p] = {}]
    /\ cur' = [cur EXCEPT ![p] = None]
    /\ base' = [base EXCEPT ![p] = None]
    /\ tmp' = [tmp EXCEPT ![p] = None]
    /\ linked' = [linked EXCEPT ![p] = FALSE]
    /\ failed' = [failed EXCEPT ![p] = {}]
    /\ since' = [since EXCEPT ![p] = {}]
    /\ UNCHANGED <<disk, saves, meddled>>

\* An editor saves a source, all of it at once.
Save ==
    /\ saves < MaxSaves
    /\ saves' = saves + 1
    /\ \E f \in Scripts, form \in Forms :
          /\ disk' = [disk EXCEPT ![f] = [save |-> saves', form |-> form, whole |-> TRUE]]
          /\ since' = [p \in Fixers |-> IF fpc[p] \in {"idle", "dead"} THEN {} ELSE since[p] \cup {f}]
    /\ UNCHANGED <<fpc, todo, cur, base, tmp, linked, failed, meddled>>

Next ==
    \/ \E p \in Fixers :
        \/ Collect(p) \/ Read(p) \/ Fix(p) \/ CreateTemp(p) \/ Write(p) \/ WriteRest(p) \/ Close(p)
        \/ Rename(p) \/ Remove(p) \/ Reread(p) \/ Done(p) \/ Crash(p)
    \/ Save

\* Every process has come to its end.
Ended == \A p \in Fixers : fpc[p] \in {"done", "dead"}

Spec == Init /\ [][Next]_vars

-----------------------------------------------------------------------------

(***************************************************************************)
(* "a crash mid-write can't truncate the source": a source is whole after  *)
(* any step, failure or crash.  Only a process that takes the temporary    *)
(* file of another one for a source, reads half of it and fixes that makes *)
(* the other one rename the half.                                          *)
(***************************************************************************)
NeverTruncated == ~meddled => \A f \in Scripts : disk[f].whole

(***************************************************************************)
(* What a run leaves to fix in a file it has reported as failed, or an     *)
(* editor has saved it after it was read.                                  *)
(***************************************************************************)
FixedOrReported ==
    \A p \in Fixers : At(p, "done") =>
        \A f \in Scripts : disk[f].form = "fixable" => f \in failed[p] \cup since[p]

(***************************************************************************)
(* A source goes back behind what an editor has saved only in the rename   *)
(* by a process that had read it before: the save that is lost is one made *)
(* while the file was being fixed, never an earlier one or one of another  *)
(* file; but for the mixture above.                                        *)
(***************************************************************************)
SavesStay ==
    [][\A f \in Scripts : disk'[f].save < disk[f].save =>
          \/ meddled
          \/ \E p \in Fixers : /\ At(p, "rename") /\ fpc'[p] = "reread"
                               /\ cur[p] = f /\ f \in since[p]]_vars
=============================================================================
