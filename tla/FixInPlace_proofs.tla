-------------------------- MODULE FixInPlace_proofs --------------------------
(***************************************************************************)
(* Theorems about FixInPlace for every number of processes, sources,       *)
(* temporary names and saves of the editor.                                *)
(***************************************************************************)
EXTENDS FixInPlace, WellFoundedInduction, TLAPS

Made == {"write", "rest", "close", "rename", "remove"}
Fixing == {"create"} \cup Made
Busy == {"fix", "reread"} \cup Fixing

\* What a process has in hand: the file it is at, what it read, its temporary name.
HandsOK ==
    \A p \in Fixers :
        /\ fpc[p] \in Busy => cur[p] \in Names /\ base[p] \in Contents
        /\ fpc[p] \in Fixing => base[p].form = "fixable"
        /\ fpc[p] \in Made => tmp[p] \in Temps
        /\ fpc[p] \notin Made => tmp[p] = None /\ ~linked[p]
        /\ fpc[p] = "done" => todo[p] = {}

TypeInv == TypeOK /\ HandsOK

(***************************************************************************)
(* Every process has a temporary name to itself, and something is under    *)
(* it.  Before the rename that is the fixed file, or one that another      *)
(* process has fixed: it has nothing to fix in either case.                *)
(***************************************************************************)
TempsOK ==
    /\ \A p, q \in Fixers : fpc[p] \in Made /\ fpc[q] \in Made /\ p # q => tmp[p] # tmp[q]
    /\ \A p \in Fixers : fpc[p] \in Made =>
           /\ disk[tmp[p]] # None
           /\ ~linked[p] \/ fpc[p] \in {"close", "rename"} => disk[tmp[p]].form # "fixable"

(***************************************************************************)
(* A file with something to fix is still to be looked at, or it is the one *)
(* that is being fixed, or it was reported or saved.                       *)
(***************************************************************************)
Excused(p, f) ==
    \/ f \in todo[p] \cup failed[p] \cup since[p]
    \/ /\ cur[p] = f
       /\ fpc[p] \in Fixing \cup {"fix"}
       /\ base[p].form = "fixable"
NothingForgotten ==
    \A p \in Fixers : fpc[p] \notin {"idle", "dead"} =>
        \A f \in Scripts : disk[f].form = "fixable" => Excused(p, f)

\* Until someone has meddled, what is under a temporary name is what its process made.
OwnTemps ==
    ~meddled => \A p \in Fixers : fpc[p] \in Made =>
        /\ linked[p]
        /\ disk[tmp[p]].save = base[p].save
        /\ fpc[p] \in {"close", "rename"} => disk[tmp[p]].whole = base[p].whole

\* A source is whole, and so is what was read of it.
SourcesWhole ==
    ~meddled =>
        /\ \A f \in Scripts : disk[f].whole
        /\ \A p \in Fixers : fpc[p] \in Busy /\ cur[p] \in Scripts => base[p].whole

\* Every version goes back to a save that was made.
SavesMade ==
    /\ \A n \in Names : disk[n] # None => disk[n].save <= saves
    /\ \A p \in Fixers : fpc[p] \in Busy => base[p].save <= saves

(***************************************************************************)
(* Only an editor puts something to fix into a source, so a source that    *)
(* has it is as the editor saved it last, and no process has read a later  *)
(* version; and what a process is fixing is the last save, or it is in     *)
(* since.                                                                  *)
(***************************************************************************)
ReadsOf(f) == {p \in Fixers : fpc[p] \in Busy /\ cur[p] = f}
LastSaves ==
    ~meddled => \A f \in Scripts :
        /\ disk[f].form = "fixable" => \A q \in ReadsOf(f) : base[q].save <= disk[f].save
        /\ \A p \in ReadsOf(f) : base[p].form = "fixable" /\ f \notin since[p] =>
               /\ disk[f].save <= base[p].save
               /\ \A q \in ReadsOf(f) : base[q].save <= base[p].save

IInv ==
    /\ TypeInv
    /\ TempsOK
    /\ NothingForgotten
    /\ OwnTemps
    /\ SourcesWhole
    /\ SavesMade
    /\ LastSaves

-----------------------------------------------------------------------------
(* The names.                                                              *)

\* The names of sources and of temporary files are numbers, and no name is both.
LEMMA NamesFacts ==
    ASSUME FixInPlaceAssumption
    PROVE  /\ Scripts \subseteq Names /\ Temps \subseteq Names /\ Scripts \cap Temps = {}
           /\ Names \subseteq Int /\ \A n \in Names : n + NTemps \in Nat
  BY DEF FixInPlaceAssumption, Scripts, Temps, Names

\* The loop takes a file that was collected.
LEMMA FirstIsOne ==
    ASSUME FixInPlaceAssumption, NEW S \in SUBSET Names, S # {}
    PROVE  First(S) \in S
<1> DEFINE T == {n + NTemps : n \in S}
<1>1. T \subseteq Nat /\ T # {}
  BY NamesFacts
<1>2. PICK x \in T : \A y \in T : <<y, x>> \notin OpToRel(<, Nat)
  BY <1>1, WFMin, NatLessThanWellFounded
<1>3. PICK n \in S : x = n + NTemps
  BY <1>2
<1>4. \A m \in S : n <= m
  <2> SUFFICES ASSUME NEW m \in S PROVE n <= m
    OBVIOUS
  <2>1. m \in Int /\ n \in Int /\ NTemps \in Nat
    BY NamesFacts DEF FixInPlaceAssumption
  <2>2. ~ m + NTemps < n + NTemps
    BY <1>1, <1>2, <1>3 DEF OpToRel
  <2>. QED
    BY <2>1, <2>2
<1>. QED
  BY <1>4 DEF First

-----------------------------------------------------------------------------
(* Every action of a process, a crash and an editor's save keep the         *)
(* invariant.                                                              *)

\* collectPyPaths: all that could be fixed is still to be looked at.
LEMMA CollectIInv == ASSUME FixInPlaceAssumption, IInv, NEW p \in Fixers, Collect(p) PROVE IInv'
<1>. Scripts \cap Temps = {} /\ Scripts \subseteq Names /\ Temps \subseteq Names
  BY NamesFacts
<1>. None \notin Contents
  BY DEF FixInPlaceAssumption
<1>1. TypeInv'
  BY DEF IInv, TypeInv, TypeOK, HandsOK, Contents, Forms, Collect, At, Goes, GoesOn, Ends,
         Fails, Busy, Fixing, Made
<1>2. TempsOK'
  BY DEF IInv, TypeInv, TypeOK, HandsOK, TempsOK, Collect, At, Goes, GoesOn, Ends, Fails, Busy,
         Fixing, Made
<1>3. NothingForgotten'
  BY DEF IInv, TypeInv, TypeOK, HandsOK, TempsOK, NothingForgotten, Excused, Collect, At, Goes,
         GoesOn, Ends, Fails, Busy, Fixing, Made
<1>4. OwnTemps'
  BY DEF IInv, TypeInv, TypeOK, HandsOK, TempsOK, OwnTemps, Collect, At, Goes, GoesOn, Ends,
         Fails, Busy, Fixing, Made
<1>5. SourcesWhole'
  BY DEF IInv, TypeInv, TypeOK, HandsOK, TempsOK, SourcesWhole, Collect, At, Goes, GoesOn, Ends,
         Fails, Busy, Fixing, Made
<1>6. SavesMade'
  BY DEF IInv, TypeInv, TypeOK, HandsOK, TempsOK, SavesMade, Collect, At, Goes, GoesOn, Ends,
         Fails, Busy, Fixing, Made
<1>7. LastSaves'
  BY DEF IInv, TypeInv, TypeOK, HandsOK, TempsOK, LastSaves, ReadsOf, Collect, At, Goes, GoesOn,
         Ends, Fails, Busy, Fixing, Made
<1>. QED
  BY <1>1, <1>2, <1>3, <1>4, <1>5, <1>6, <1>7 DEF IInv

\* What Read does with the file it takes, which is one that was collected.
LEMMA ReadEffect ==
    ASSUME FixInPlaceAssumption, IInv, NEW p \in Fixers, Read(p)
    PROVE  /\ fpc[p] = "next"
           /\ UNCHANGED <<disk, saves, tmp, linked, meddled>>
           /\ \E n \in todo[p] :
                  /\ n \in Names
                  /\ todo' = [todo EXCEPT ![p] = @ \ {n}]
                  /\ \/ /\ disk[n] \in Contents
                        /\ cur' = [cur EXCEPT ![p] = n]
                        /\ base' = [base EXCEPT ![p] = disk[n]]
                        /\ since' = [since EXCEPT ![p] = @ \ {n}]
                        /\ fpc' = [fpc EXCEPT ![p] = "fix"]
                        /\ UNCHANGED failed
                     \/ Ends(p, {n}) /\ UNCHANGED since
<1>1. todo[p] \in SUBSET Names /\ todo[p] # {}
  BY DEF IInv, TypeInv, TypeOK, Read
<1>2. First(todo[p]) \in todo[p]
  BY <1>1, FirstIsOne
<1>. QED
  BY <1>1, <1>2 DEF IInv, TypeInv, TypeOK, Read, At, Goes

\* fixOne reads the next file.
LEMMA ReadIInv == ASSUME FixInPlaceAssumption, IInv, NEW p \in Fixers, Read(p) PROVE IInv'
<1>. Scripts \cap Temps = {} /\ Scripts \subseteq Names /\ Temps \subseteq Names
  BY NamesFacts
<1>. None \notin Contents
  BY DEF FixInPlaceAssumption
<1>a. fpc[p] = "next" /\ UNCHANGED <<disk, saves, tmp, linked, meddled>>
  BY ReadEffect
<1>b. PICK n \in todo[p] :
          /\ n \in Names
          /\ todo' = [todo EXCEPT ![p] = @ \ {n}]
          /\ \/ /\ disk[n] \in Contents
                /\ cur' = [cur EXCEPT ![p] = n]
                /\ base' = [base EXCEPT ![p] = disk[n]]
                /\ since' = [since EXCEPT ![p] = @ \ {n}]
                /\ fpc' = [fpc EXCEPT ![p] = "fix"]
                /\ UNCHANGED failed
             \/ Ends(p, {n}) /\ UNCHANGED since
  BY ReadEffect
<1>c. CASE Ends(p, {n}) /\ UNCHANGED since
  <2>1. TypeInv'
    BY <1>a, <1>b, <1>c
       DEF IInv, TypeInv, TypeOK, HandsOK, Contents, Forms, Ends, Goes, Busy, Fixing, Made
  <2>2. TempsOK'
    BY <1>a, <1>b, <1>c
       DEF IInv, TypeInv, TypeOK, HandsOK, TempsOK, Ends, Goes, Busy, Fixing, Made
  <2>3. NothingForgotten'
    BY <1>a, <1>b, <1>c
       DEF IInv, TypeInv, TypeOK, NothingForgotten, Excused, Ends, Goes, Fixing, Made
  <2>4. OwnTemps'
    BY <1>a, <1>b, <1>c DEF IInv, TypeInv, OwnTemps, Ends, Goes, Made
  <2>5. SourcesWhole'
    BY <1>a, <1>b, <1>c DEF IInv, TypeInv, SourcesWhole, Ends, Goes, Busy, Fixing, Made
  <2>6. SavesMade'
    BY <1>a, <1>b, <1>c DEF IInv, TypeInv, SavesMade, Ends, Goes, Busy, Fixing, Made
  <2>7. LastSaves'
    BY <1>a, <1>b, <1>c
       DEF IInv, TypeInv, TypeOK, LastSaves, ReadsOf, Ends, Goes, Busy, Fixing, Made
  <2>. QED
    BY <2>1, <2>2, <2>3, <2>4, <2>5, <2>6, <2>7 DEF IInv
<1>d. CASE /\ disk[n] \in Contents
           /\ cur' = [cur EXCEPT ![p] = n]
           /\ base' = [base EXCEPT ![p] = disk[n]]
           /\ since' = [since EXCEPT ![p] = @ \ {n}]
           /\ fpc' = [fpc EXCEPT ![p] = "fix"]
           /\ UNCHANGED failed
  <2>1. TypeInv'
    BY <1>a, <1>b, <1>d DEF IInv, TypeInv, TypeOK, HandsOK, Fixing, Made
  <2>2. TempsOK'
    BY <1>a, <1>b, <1>d DEF IInv, TempsOK, Made
  <2>3. NothingForgotten'
    BY <1>a, <1>b, <1>d
       DEF IInv, TypeInv, TypeOK, HandsOK, NothingForgotten, Excused, Busy, Fixing, Made
  <2>4. OwnTemps'
    BY <1>a, <1>b, <1>d DEF IInv, TypeInv, TypeOK, HandsOK, OwnTemps, Busy, Fixing, Made
  <2>5. SourcesWhole'
    BY <1>a, <1>b, <1>d DEF IInv, TypeInv, TypeOK, SourcesWhole
  <2>6. SavesMade'
    BY <1>a, <1>b, <1>d DEF IInv, TypeInv, TypeOK, SavesMade
  <2>7. LastSaves'
    <3> SUFFICES ASSUME ~meddled, NEW f \in Scripts
                 PROVE  /\ disk[f].form = "fixable" => \A q \in ReadsOf(f)' : base'[q].save <= disk[f].save
                        /\ \A r \in ReadsOf(f)' : base'[r].form = "fixable" /\ f \notin since'[r] =>
                               /\ disk[f].save <= base'[r].save
                               /\ \A q \in ReadsOf(f)' : base'[q].save <= base'[r].save
      BY <1>a DEF LastSaves
    <3>1. disk[f] \in Contents /\ disk[f].save \in Int
      BY DEF IInv, TypeInv, TypeOK, Contents
    <3>2. \A q \in ReadsOf(f)' :
              \/ q = p /\ f = n /\ base'[q] = disk[f]
              \/ q # p /\ q \in ReadsOf(f) /\ base'[q] = base[q] /\ since'[q] = since[q]
      BY <1>a, <1>b, <1>d DEF IInv, TypeInv, TypeOK, ReadsOf
    <3>. QED
      BY <3>1, <3>2, <1>a DEF IInv, LastSaves
  <2>. QED
    BY <2>1, <2>2, <2>3, <2>4, <2>5, <2>6, <2>7 DEF IInv
<1>. QED
  BY <1>b, <1>c, <1>d

\* The fixer has something to write, or leaves the file.
LEMMA FixIInv == ASSUME FixInPlaceAssumption, IInv, NEW p \in Fixers, Fix(p) PROVE IInv'
<1>. Scripts \cap Temps = {} /\ Scripts \subseteq Names /\ Temps \subseteq Names
  BY NamesFacts
<1>. None \notin Contents
  BY DEF FixInPlaceAssumption
<1>1. TypeInv'
  BY DEF IInv, TypeInv, TypeOK, HandsOK, Contents, Forms, Fix, At, Goes, GoesOn, Ends, Fails,
         Busy, Fixing, Made
<1>2. TempsOK'
  BY DEF IInv, TypeInv, TypeOK, HandsOK, TempsOK, Fix, At, Goes, GoesOn, Ends, Fails, Busy,
         Fixing, Made
<1>3. NothingForgotten'
  BY DEF IInv, TypeInv, TypeOK, HandsOK, TempsOK, NothingForgotten, Excused, Fix, At, Goes,
         GoesOn, Ends, Fails, Busy, Fixing, Made
<1>4. OwnTemps'
  BY DEF IInv, TypeInv, TypeOK, HandsOK, TempsOK, OwnTemps, Fix, At, Goes, GoesOn, Ends, Fails,
         Busy, Fixing, Made
<1>5. SourcesWhole'
  BY DEF IInv, TypeInv, TypeOK, HandsOK, TempsOK, SourcesWhole, Fix, At, Goes, GoesOn, Ends,
         Fails, Busy, Fixing, Made
<1>6. SavesMade'
  BY DEF IInv, TypeInv, TypeOK, HandsOK, TempsOK, SavesMade, Fix, At, Goes, GoesOn, Ends, Fails,
         Busy, Fixing, Made
<1>7. LastSaves'
  BY DEF IInv, TypeInv, TypeOK, HandsOK, TempsOK, LastSaves, ReadsOf, Fix, At, Goes, GoesOn,
         Ends, Fails, Busy, Fixing, Made
<1>. QED
  BY <1>1, <1>2, <1>3, <1>4, <1>5, <1>6, <1>7 DEF IInv

\* Both parts of a write go to the temporary name, under the save that was read.
LEMMA CreateTempEffect ==
    ASSUME FixInPlaceAssumption, IInv, NEW p \in Fixers, CreateTemp(p)
    PROVE  /\ fpc[p] = "create"
           /\ UNCHANGED <<saves, todo, since, meddled>>
           /\ \/ /\ \E t \in Temps, c \in Contents :
                        /\ disk[t] = None
                        /\ c.save = base[p].save
                        /\ disk' = [disk EXCEPT ![t] = c]
                        /\ tmp' = [tmp EXCEPT ![p] = t]
                 /\ linked' = [linked EXCEPT ![p] = TRUE]
                 /\ fpc' = [fpc EXCEPT ![p] = "write"]
                 /\ UNCHANGED <<cur, base, failed>>
              \/ Fails(p) /\ UNCHANGED <<disk, tmp, linked>>
<1> DEFINE c == [base[p] EXCEPT !.form = "clean", !.whole = FALSE]
<1>1. base[p] \in Contents
  BY DEF IInv, TypeInv, HandsOK, CreateTemp, At, Busy, Fixing
<1>2. c \in Contents /\ c.save = base[p].save
  BY <1>1 DEF Contents, Forms
<1>3. CASE Fails(p) /\ UNCHANGED <<disk, tmp, linked>>
  BY <1>3 DEF CreateTemp, At
<1>4. CASE /\ \E t \in FreeNames : disk' = [disk EXCEPT ![t] = c] /\ tmp' = [tmp EXCEPT ![p] = t]
           /\ linked' = [linked EXCEPT ![p] = TRUE]
           /\ GoesOn(p, "write")
  BY <1>2, <1>4 DEF CreateTemp, At, FreeNames, GoesOn, Goes
<1>. QED
  BY <1>3, <1>4 DEF CreateTemp

\* What a write that succeeds leaves under the temporary name.
LEMMA WriteEffect ==
    ASSUME FixInPlaceAssumption, IInv, NEW p \in Fixers, Write(p)
    PROVE  /\ fpc[p] = "write"
           /\ UNCHANGED <<saves, todo, tmp, linked, since, meddled, cur, base, failed>>
           /\ \/ /\ \E c \in Contents : c.save = base[p].save /\ Writes(p, c)
                 /\ fpc' = [fpc EXCEPT ![p] = "rest"]
              \/ fpc' = [fpc EXCEPT ![p] = "remove"] /\ UNCHANGED disk
<1>1. base[p] \in Contents
  BY DEF IInv, TypeInv, HandsOK, Write, At, Busy, Fixing, Made
<1>2. \A form \in Forms : LET c == [base[p] EXCEPT !.form = form, !.whole = FALSE]
                          IN  c \in Contents /\ c.save = base[p].save
  BY <1>1 DEF Contents
<1>. QED
  BY <1>2 DEF Write, At, GoesOn, Goes

\* What the second part of a write leaves there.
LEMMA WriteRestEffect ==
    ASSUME FixInPlaceAssumption, IInv, NEW p \in Fixers, WriteRest(p)
    PROVE  /\ fpc[p] = "rest"
           /\ UNCHANGED <<saves, todo, tmp, linked, since, meddled, cur, base, failed>>
           /\ \/ /\ \E c \in Contents : /\ c.save = base[p].save /\ c.whole = base[p].whole
                                        /\ c.form # "fixable" /\ Writes(p, c)
                 /\ fpc' = [fpc EXCEPT ![p] = "close"]
              \/ fpc' = [fpc EXCEPT ![p] = "remove"] /\ UNCHANGED disk
<1>1. base[p] \in Contents
  BY DEF IInv, TypeInv, HandsOK, WriteRest, At, Busy, Fixing, Made
<1>2. \A form \in {"clean", "bad"} :
          LET c == [base[p] EXCEPT !.form = form]
          IN  /\ c \in Contents /\ c.save = base[p].save /\ c.whole = base[p].whole
              /\ c.form # "fixable"
  BY <1>1 DEF Contents, Forms
<1>. QED
  BY <1>2 DEF WriteRest, At, GoesOn, Goes

\* A temporary name that no file has.
LEMMA CreateTempIInv ==
  ASSUME FixInPlaceAssumption, IInv, NEW p \in Fixers, CreateTemp(p)
  PROVE  IInv'
<1>. Scripts \cap Temps = {} /\ Scripts \subseteq Names /\ Temps \subseteq Names
  BY NamesFacts
<1>. None \notin Contents
  BY DEF FixInPlaceAssumption
<1>a. fpc[p] = "create" /\ UNCHANGED <<saves, todo, since, meddled>>
  BY CreateTempEffect
<1>b. CASE Fails(p) /\ UNCHANGED <<disk, tmp, linked>>
  <2>1. TypeInv'
    BY <1>a, <1>b DEF IInv, TypeInv, TypeOK, HandsOK, Fails, Ends, Goes, Busy, Fixing, Made
  <2>2. TempsOK'
    BY <1>a, <1>b
       DEF IInv, TypeInv, TypeOK, HandsOK, TempsOK, Fails, Ends, Goes, Busy, Fixing, Made
  <2>3. NothingForgotten'
    BY <1>a, <1>b DEF IInv, TypeInv, TypeOK, HandsOK, NothingForgotten, Excused, Fails, Ends,
           Goes
  <2>4. OwnTemps'
    BY <1>a, <1>b DEF IInv, TypeInv, TypeOK, OwnTemps, Fails, Ends, Goes, Made
  <2>5. SourcesWhole'
    BY <1>a, <1>b DEF IInv, TypeInv, TypeOK, SourcesWhole, Fails, Ends, Goes, Busy, Fixing, Made
  <2>6. SavesMade'
    BY <1>a, <1>b DEF IInv, TypeInv, TypeOK, SavesMade, Fails, Ends, Goes, Busy, Fixing, Made
  <2>7. LastSaves'
    BY <1>a, <1>b
       DEF IInv, TypeInv, TypeOK, HandsOK, LastSaves, ReadsOf, Fails, Ends, Goes, Busy, Fixing,
           Made
  <2>. QED
    BY <2>1, <2>2, <2>3, <2>4, <2>5, <2>6, <2>7 DEF IInv
<1>c. ASSUME NEW t \in Temps, NEW c \in Contents, disk[t] = None, c.save = base[p].save,
             disk' = [disk EXCEPT ![t] = c],
             tmp' = [tmp EXCEPT ![p] = t],
             linked' = [linked EXCEPT ![p] = TRUE],
             fpc' = [fpc EXCEPT ![p] = "write"],
             UNCHANGED <<cur, base, failed>>
      PROVE  IInv'
  <2>1. TypeInv'
    BY <1>a, <1>c DEF IInv, TypeInv, TypeOK, HandsOK, Busy, Fixing, Made
  <2>2. TempsOK'
    BY <1>a, <1>c DEF IInv, TypeInv, TypeOK, TempsOK
  <2>3. NothingForgotten'
    BY <1>a, <1>c DEF IInv, NothingForgotten, Excused, Fixing, Made
  <2>4. OwnTemps'
    BY <1>a, <1>c DEF IInv, TypeInv, TypeOK, HandsOK, TempsOK, OwnTemps, Busy, Fixing, Made
  <2>5. SourcesWhole'
    BY <1>a, <1>c DEF IInv, TypeInv, TypeOK, HandsOK, TempsOK, SourcesWhole, Busy, Fixing, Made
  <2>6. SavesMade'
    BY <1>a, <1>c DEF IInv, TypeInv, TypeOK, HandsOK, TempsOK, SavesMade, Busy, Fixing, Made
  <2>7. LastSaves'
    BY <1>a, <1>c
       DEF IInv, TypeInv, TypeOK, HandsOK, TempsOK, LastSaves, ReadsOf, Busy, Fixing, Made
  <2>. QED
    BY <2>1, <2>2, <2>3, <2>4, <2>5, <2>6, <2>7 DEF IInv
<1>. QED
  BY <1>b, <1>c, CreateTempEffect

\* The first write, to the file under the temporary name.
LEMMA WriteIInv == ASSUME FixInPlaceAssumption, IInv, NEW p \in Fixers, Write(p) PROVE IInv'
<1>. Scripts \cap Temps = {} /\ Scripts \subseteq Names /\ Temps \subseteq Names
  BY NamesFacts
<1>. None \notin Contents
  BY DEF FixInPlaceAssumption
<1>a. fpc[p] = "write" /\ UNCHANGED <<saves, todo, tmp, linked, since, meddled, cur, base, failed>>
  BY WriteEffect
<1>b. tmp[p] \in Temps
  BY <1>a DEF IInv, TypeInv, HandsOK, Made
<1>c. ASSUME disk' = disk, fpc' = [fpc EXCEPT ![p] = "remove"] \/ (~linked[p] /\ fpc' = [fpc EXCEPT ![p] = "rest"])
      PROVE  IInv'
  <2>1. TypeInv'
    BY <1>a, <1>b, <1>c DEF IInv, TypeInv, TypeOK, HandsOK, Busy, Fixing, Made
  <2>2. TempsOK'
    BY <1>a, <1>b, <1>c DEF IInv, TypeInv, TypeOK, TempsOK, Made
  <2>3. NothingForgotten'
    BY <1>a, <1>b, <1>c
       DEF IInv, TypeInv, TypeOK, HandsOK, TempsOK, NothingForgotten, Excused, Busy, Fixing,
           Made
  <2>4. OwnTemps'
    BY <1>a, <1>b, <1>c
       DEF IInv, TypeInv, TypeOK, HandsOK, TempsOK, OwnTemps, Busy, Fixing, Made
  <2>5. SourcesWhole'
    BY <1>a, <1>b, <1>c
       DEF IInv, TypeInv, TypeOK, HandsOK, TempsOK, SourcesWhole, Busy, Fixing, Made
  <2>6. SavesMade'
    BY <1>a, <1>b, <1>c
       DEF IInv, TypeInv, TypeOK, HandsOK, TempsOK, SavesMade, Busy, Fixing, Made
  <2>7. LastSaves'
    BY <1>a, <1>b, <1>c
       DEF IInv, TypeInv, TypeOK, HandsOK, TempsOK, LastSaves, ReadsOf, Busy, Fixing, Made
  <2>. QED
    BY <2>1, <2>2, <2>3, <2>4, <2>5, <2>6, <2>7 DEF IInv
<1>d. ASSUME NEW c \in Contents, c.save = base[p].save,
             linked[p], disk' = [disk EXCEPT ![tmp[p]] = c], fpc' = [fpc EXCEPT ![p] = "rest"]
      PROVE  IInv'
  <2>1. TypeInv'
    BY <1>a, <1>b, <1>d DEF IInv, TypeInv, TypeOK, HandsOK, Busy, Fixing, Made
  <2>2. TempsOK'
    BY <1>a, <1>b, <1>d DEF IInv, TypeInv, HandsOK, TempsOK
  <2>3. NothingForgotten'
    BY <1>a, <1>b, <1>d DEF IInv, NothingForgotten, Excused, Fixing, Made
  <2>4. OwnTemps'
    BY <1>a, <1>b, <1>d
       DEF IInv, TypeInv, TypeOK, HandsOK, TempsOK, OwnTemps, Busy, Fixing, Made
  <2>5. SourcesWhole'
    BY <1>a, <1>b, <1>d
       DEF IInv, TypeInv, TypeOK, HandsOK, TempsOK, SourcesWhole, Busy, Fixing, Made
  <2>6. SavesMade'
    BY <1>a, <1>b, <1>d
       DEF IInv, TypeInv, TypeOK, HandsOK, TempsOK, SavesMade, Busy, Fixing, Made
  <2>7. LastSaves'
    BY <1>a, <1>b, <1>d
       DEF IInv, TypeInv, TypeOK, HandsOK, TempsOK, LastSaves, ReadsOf, Busy, Fixing, Made
  <2>. QED
    BY <2>1, <2>2, <2>3, <2>4, <2>5, <2>6, <2>7 DEF IInv
<1>. QED
  BY <1>c, <1>d, WriteEffect DEF Writes, Target

\* The rest of it.
LEMMA WriteRestIInv ==
  ASSUME FixInPlaceAssumption, IInv, NEW p \in Fixers, WriteRest(p)
  PROVE  IInv'
<1>. Scripts \cap Temps = {} /\ Scripts \subseteq Names /\ Temps \subseteq Names
  BY NamesFacts
<1>. None \notin Contents
  BY DEF FixInPlaceAssumption
<1>a. fpc[p] = "rest" /\ UNCHANGED <<saves, todo, tmp, linked, since, meddled, cur, base, failed>>
  BY WriteRestEffect
<1>b. tmp[p] \in Temps
  BY <1>a DEF IInv, TypeInv, HandsOK, Made
<1>c. ASSUME disk' = disk, fpc' = [fpc EXCEPT ![p] = "remove"] \/ (~linked[p] /\ fpc' = [fpc EXCEPT ![p] = "close"])
      PROVE  IInv'
  <2>1. TypeInv'
    BY <1>a, <1>b, <1>c DEF IInv, TypeInv, TypeOK, HandsOK, Busy, Fixing, Made
  <2>2. TempsOK'
    BY <1>a, <1>b, <1>c DEF IInv, TypeInv, TypeOK, TempsOK, Made
  <2>3. NothingForgotten'
    BY <1>a, <1>b, <1>c
       DEF IInv, TypeInv, TypeOK, HandsOK, TempsOK, NothingForgotten, Excused, Busy, Fixing,
           Made
  <2>4. OwnTemps'
    BY <1>a, <1>b, <1>c
       DEF IInv, TypeInv, TypeOK, HandsOK, TempsOK, OwnTemps, Busy, Fixing, Made
  <2>5. SourcesWhole'
    BY <1>a, <1>b, <1>c
       DEF IInv, TypeInv, TypeOK, HandsOK, TempsOK, SourcesWhole, Busy, Fixing, Made
  <2>6. SavesMade'
    BY <1>a, <1>b, <1>c
       DEF IInv, TypeInv, TypeOK, HandsOK, TempsOK, SavesMade, Busy, Fixing, Made
  <2>7. LastSaves'
    BY <1>a, <1>b, <1>c
       DEF IInv, TypeInv, TypeOK, HandsOK, TempsOK, LastSaves, ReadsOf, Busy, Fixing, Made
  <2>. QED
    BY <2>1, <2>2, <2>3, <2>4, <2>5, <2>6, <2>7 DEF IInv
<1>d. ASSUME NEW c \in Contents, c.save = base[p].save, c.whole = base[p].whole, c.form # "fixable",
             linked[p], disk' = [disk EXCEPT ![tmp[p]] = c], fpc' = [fpc EXCEPT ![p] = "close"]
      PROVE  IInv'
  <2>1. TypeInv'
    BY <1>a, <1>b, <1>d DEF IInv, TypeInv, TypeOK, HandsOK, Busy, Fixing, Made
  <2>2. TempsOK'
    BY <1>a, <1>b, <1>d DEF IInv, TypeInv, TypeOK, HandsOK, TempsOK
  <2>3. NothingForgotten'
    BY <1>a, <1>b, <1>d DEF IInv, NothingForgotten, Excused, Fixing, Made
  <2>4. OwnTemps'
    BY <1>a, <1>b, <1>d
       DEF IInv, TypeInv, TypeOK, HandsOK, TempsOK, OwnTemps, Busy, Fixing, Made
  <2>5. SourcesWhole'
    BY <1>a, <1>b, <1>d
       DEF IInv, TypeInv, TypeOK, HandsOK, TempsOK, SourcesWhole, Busy, Fixing, Made
  <2>6. SavesMade'
    BY <1>a, <1>b, <1>d
       DEF IInv, TypeInv, TypeOK, HandsOK, TempsOK, SavesMade, Busy, Fixing, Made
  <2>7. LastSaves'
    BY <1>a, <1>b, <1>d
       DEF IInv, TypeInv, TypeOK, HandsOK, TempsOK, LastSaves, ReadsOf, Busy, Fixing, Made
  <2>. QED
    BY <2>1, <2>2, <2>3, <2>4, <2>5, <2>6, <2>7 DEF IInv
<1>. QED
  BY <1>c, <1>d, WriteRestEffect DEF Writes, Target

\* The file under the temporary name is whole.
LEMMA CloseIInv == ASSUME FixInPlaceAssumption, IInv, NEW p \in Fixers, Close(p) PROVE IInv'
<1>. Scripts \cap Temps = {} /\ Scripts \subseteq Names /\ Temps \subseteq Names
  BY NamesFacts
<1>. None \notin Contents
  BY DEF FixInPlaceAssumption
<1>1. TypeInv'
  BY DEF IInv, TypeInv, TypeOK, HandsOK, Contents, Forms, Close, At, Goes, GoesOn, Ends, Fails,
         Busy, Fixing, Made
<1>2. TempsOK'
  BY DEF IInv, TypeInv, TypeOK, HandsOK, TempsOK, Close, At, Goes, GoesOn, Ends, Fails, Busy,
         Fixing, Made
<1>3. NothingForgotten'
  BY DEF IInv, TypeInv, TypeOK, HandsOK, TempsOK, NothingForgotten, Excused, Close, At, Goes,
         GoesOn, Ends, Fails, Busy, Fixing, Made
<1>4. OwnTemps'
  BY DEF IInv, TypeInv, TypeOK, HandsOK, TempsOK, OwnTemps, Close, At, Goes, GoesOn, Ends,
         Fails, Busy, Fixing, Made
<1>5. SourcesWhole'
  BY DEF IInv, TypeInv, TypeOK, HandsOK, TempsOK, SourcesWhole, Close, At, Goes, GoesOn, Ends,
         Fails, Busy, Fixing, Made
<1>6. SavesMade'
  BY DEF IInv, TypeInv, TypeOK, HandsOK, TempsOK, SavesMade, Close, At, Goes, GoesOn, Ends,
         Fails, Busy, Fixing, Made
<1>7. LastSaves'
  BY DEF IInv, TypeInv, TypeOK, HandsOK, TempsOK, LastSaves, ReadsOf, Close, At, Goes, GoesOn,
         Ends, Fails, Busy, Fixing, Made
<1>. QED
  BY <1>1, <1>2, <1>3, <1>4, <1>5, <1>6, <1>7 DEF IInv

\* The rename: what was fixed takes the place of the source.
LEMMA RenameIInv == ASSUME FixInPlaceAssumption, IInv, NEW p \in Fixers, Rename(p) PROVE IInv'
<1>. Scripts \cap Temps = {} /\ Scripts \subseteq Names /\ Temps \subseteq Names
  BY NamesFacts
<1>. None \notin Contents
  BY DEF FixInPlaceAssumption
<1>a. fpc[p] = "rename" /\ UNCHANGED <<saves, todo, since, cur, base, failed>>
  BY DEF Rename, At, GoesOn
<1>b. cur[p] \in Names /\ tmp[p] \in Temps /\ disk[tmp[p]] # None
  BY <1>a DEF IInv, TypeInv, HandsOK, TempsOK, Busy, Fixing, Made
<1>e. \A q \in Fixers : q # p /\ fpc[q] \in Made => tmp[q] # tmp[p]
  BY <1>a DEF IInv, TempsOK, Made
<1>c. CASE fpc' = [fpc EXCEPT ![p] = "remove"] /\ UNCHANGED <<disk, tmp, linked, meddled>>
  <2>1. TypeInv'
    BY <1>a, <1>b, <1>c DEF IInv, TypeInv, TypeOK, HandsOK, Busy, Fixing, Made
  <2>2. TempsOK'
    BY <1>a, <1>b, <1>c DEF IInv, TempsOK, Made
  <2>3. NothingForgotten'
    BY <1>a, <1>b, <1>c DEF IInv, NothingForgotten, Excused, Fixing, Made
  <2>4. OwnTemps'
    BY <1>a, <1>b, <1>c
       DEF IInv, TypeInv, TypeOK, HandsOK, TempsOK, OwnTemps, Busy, Fixing, Made
  <2>5. SourcesWhole'
    BY <1>a, <1>b, <1>c
       DEF IInv, TypeInv, TypeOK, HandsOK, TempsOK, OwnTemps, SourcesWhole, Busy, Fixing, Made
  <2>6. SavesMade'
    BY <1>a, <1>b, <1>c
       DEF IInv, TypeInv, TypeOK, HandsOK, TempsOK, SavesMade, Busy, Fixing, Made
  <2>7. LastSaves'
    BY <1>a, <1>b, <1>c
       DEF IInv, TypeInv, TypeOK, HandsOK, TempsOK, LastSaves, ReadsOf, Busy, Fixing, Made
  <2>. QED
    BY <2>1, <2>2, <2>3, <2>4, <2>5, <2>6, <2>7 DEF IInv
<1>d. CASE /\ disk' = [disk EXCEPT ![tmp[p]] = None, ![cur[p]] = disk[tmp[p]]]
           /\ linked' = [q \in Fixers |-> linked[q] /\ tmp[q] \notin {cur[p], tmp[p]}]
           /\ meddled' = (meddled \/ \E q \in Fixers \ {p} : linked[q] /\ tmp[q] = cur[p])
           /\ tmp' = [tmp EXCEPT ![p] = None]
           /\ fpc' = [fpc EXCEPT ![p] = "reread"]
  <2>1. TypeInv'
    BY <1>a, <1>b, <1>d, <1>e DEF IInv, TypeInv, TypeOK, HandsOK, Busy, Fixing, Made
  <2>2. TempsOK'
    BY <1>a, <1>b, <1>d, <1>e DEF IInv, TypeInv, TypeOK, HandsOK, TempsOK, Made
  <2>3. NothingForgotten'
    BY <1>a, <1>b, <1>d, <1>e
       DEF IInv, TypeInv, TypeOK, HandsOK, TempsOK, NothingForgotten, Excused, Busy, Fixing,
           Made
  <2>4. OwnTemps'
    BY <1>a, <1>b, <1>d, <1>e
       DEF IInv, TypeInv, TypeOK, HandsOK, TempsOK, OwnTemps, Busy, Fixing, Made
  <2>5. SourcesWhole'
    BY <1>a, <1>b, <1>d, <1>e
       DEF IInv, TypeInv, TypeOK, HandsOK, TempsOK, OwnTemps, SourcesWhole, Busy, Fixing, Made
  <2>6. SavesMade'
    BY <1>a, <1>b, <1>d, <1>e
       DEF IInv, TypeInv, TypeOK, HandsOK, TempsOK, SavesMade, Busy, Fixing, Made
  <2>7. LastSaves'
    <3> SUFFICES ASSUME ~meddled', NEW f \in Scripts
                 PROVE  /\ disk'[f].form = "fixable" => \A q \in ReadsOf(f)' : base'[q].save <= disk'[f].save
                        /\ \A r \in ReadsOf(f)' : base'[r].form = "fixable" /\ f \notin since'[r] =>
                               /\ disk'[f].save <= base'[r].save
                               /\ \A q \in ReadsOf(f)' : base'[q].save <= base'[r].save
      BY DEF LastSaves
    <3>1. ReadsOf(f)' \subseteq ReadsOf(f) /\ ~meddled
      BY <1>a, <1>d DEF IInv, TypeInv, TypeOK, ReadsOf, Busy, Fixing, Made
    <3>2. CASE f # cur[p]
      <4>1. disk'[f] = disk[f]
        BY <1>b, <1>d, <3>2 DEF IInv, TypeInv, TypeOK
      <4>. QED
        BY <1>a, <3>1, <4>1 DEF IInv, LastSaves
    <3>3. CASE f = cur[p]
      <4>1. disk'[f] = disk[tmp[p]] /\ p \in ReadsOf(f)
        BY <1>a, <1>b, <1>d, <3>3 DEF IInv, TypeInv, TypeOK, ReadsOf, Busy, Fixing, Made
      <4>2. disk'[f].form # "fixable" /\ disk'[f].save = base[p].save
        BY <1>a, <3>1, <4>1 DEF IInv, TempsOK, OwnTemps, Made
      <4>. QED
        BY <1>a, <3>1, <4>1, <4>2 DEF IInv, LastSaves
    <3>. QED
      BY <3>2, <3>3
  <2>. QED
    BY <2>1, <2>2, <2>3, <2>4, <2>5, <2>6, <2>7 DEF IInv
<1>. QED
  BY <1>c, <1>d DEF Rename, GoesOn, Goes, OnError

\* After an error the temporary name is removed, and the file reported.
LEMMA RemoveIInv == ASSUME FixInPlaceAssumption, IInv, NEW p \in Fixers, Remove(p) PROVE IInv'
<1>. Scripts \cap Temps = {} /\ Scripts \subseteq Names /\ Temps \subseteq Names
  BY NamesFacts
<1>. None \notin Contents
  BY DEF FixInPlaceAssumption
<1>1. TypeInv'
  BY DEF IInv, TypeInv, TypeOK, HandsOK, Contents, Forms, Remove, At, Goes, GoesOn, Ends, Fails,
         Busy, Fixing, Made
<1>2. TempsOK'
  BY DEF IInv, TypeInv, TypeOK, HandsOK, TempsOK, Remove, At, Goes, GoesOn, Ends, Fails, Busy,
         Fixing, Made
<1>3. NothingForgotten'
  BY DEF IInv, TypeInv, TypeOK, HandsOK, TempsOK, NothingForgotten, Excused, Remove, At, Goes,
         GoesOn, Ends, Fails, Busy, Fixing, Made
<1>4. OwnTemps'
  BY DEF IInv, TypeInv, TypeOK, HandsOK, TempsOK, OwnTemps, Remove, At, Goes, GoesOn, Ends,
         Fails, Busy, Fixing, Made
<1>5. SourcesWhole'
  BY DEF IInv, TypeInv, TypeOK, HandsOK, TempsOK, SourcesWhole, Remove, At, Goes, GoesOn, Ends,
         Fails, Busy, Fixing, Made
<1>6. SavesMade'
  BY DEF IInv, TypeInv, TypeOK, HandsOK, TempsOK, SavesMade, Remove, At, Goes, GoesOn, Ends,
         Fails, Busy, Fixing, Made
<1>7. LastSaves'
  BY DEF IInv, TypeInv, TypeOK, HandsOK, TempsOK, LastSaves, ReadsOf, Remove, At, Goes, GoesOn,
         Ends, Fails, Busy, Fixing, Made
<1>. QED
  BY <1>1, <1>2, <1>3, <1>4, <1>5, <1>6, <1>7 DEF IInv

\* The file that was fixed is read again for what remains.
LEMMA RereadIInv == ASSUME FixInPlaceAssumption, IInv, NEW p \in Fixers, Reread(p) PROVE IInv'
<1>. Scripts \cap Temps = {} /\ Scripts \subseteq Names /\ Temps \subseteq Names
  BY NamesFacts
<1>. None \notin Contents
  BY DEF FixInPlaceAssumption
<1>1. TypeInv'
  <2>1. cur[p] \in Names /\ fpc[p] = "reread"
    BY DEF IInv, TypeInv, HandsOK, Reread, At, Busy
  <2>2. CASE Ends(p, {})
    BY <2>1, <2>2 DEF IInv, TypeInv, TypeOK, HandsOK, Reread, Goes, Ends, Busy, Fixing, Made
  <2>3. CASE Fails(p)
    BY <2>1, <2>3
       DEF IInv, TypeInv, TypeOK, HandsOK, Reread, Goes, Ends, Fails, Busy, Fixing, Made
  <2>. QED
    BY <2>2, <2>3 DEF Reread
<1>2. TempsOK'
  BY DEF IInv, TypeInv, TypeOK, HandsOK, TempsOK, Reread, At, Goes, GoesOn, Ends, Fails, Busy,
         Fixing, Made
<1>3. NothingForgotten'
  BY DEF IInv, TypeInv, TypeOK, HandsOK, TempsOK, NothingForgotten, Excused, Reread, At, Goes,
         GoesOn, Ends, Fails, Busy, Fixing, Made
<1>4. OwnTemps'
  BY DEF IInv, TypeInv, TypeOK, HandsOK, TempsOK, OwnTemps, Reread, At, Goes, GoesOn, Ends,
         Fails, Busy, Fixing, Made
<1>5. SourcesWhole'
  BY DEF IInv, TypeInv, TypeOK, HandsOK, TempsOK, SourcesWhole, Reread, At, Goes, GoesOn, Ends,
         Fails, Busy, Fixing, Made
<1>6. SavesMade'
  BY DEF IInv, TypeInv, TypeOK, HandsOK, TempsOK, SavesMade, Reread, At, Goes, GoesOn, Ends,
         Fails, Busy, Fixing, Made
<1>7. LastSaves'
  BY DEF IInv, TypeInv, TypeOK, HandsOK, TempsOK, LastSaves, ReadsOf, Reread, At, Goes, GoesOn,
         Ends, Fails, Busy, Fixing, Made
<1>. QED
  BY <1>1, <1>2, <1>3, <1>4, <1>5, <1>6, <1>7 DEF IInv

\* The end of the loop: everything was looked at.
LEMMA DoneIInv == ASSUME FixInPlaceAssumption, IInv, NEW p \in Fixers, Done(p) PROVE IInv'
<1>. Scripts \cap Temps = {} /\ Scripts \subseteq Names /\ Temps \subseteq Names
  BY NamesFacts
<1>. None \notin Contents
  BY DEF FixInPlaceAssumption
<1>1. TypeInv'
  BY DEF IInv, TypeInv, TypeOK, HandsOK, Contents, Forms, Done, At, Goes, GoesOn, Ends, Fails,
         Busy, Fixing, Made
<1>2. TempsOK'
  BY DEF IInv, TypeInv, TypeOK, HandsOK, TempsOK, Done, At, Goes, GoesOn, Ends, Fails, Busy,
         Fixing, Made
<1>3. NothingForgotten'
  BY DEF IInv, TypeInv, TypeOK, HandsOK, TempsOK, NothingForgotten, Excused, Done, At, Goes,
         GoesOn, Ends, Fails, Busy, Fixing, Made
<1>4. OwnTemps'
  BY DEF IInv, TypeInv, TypeOK, HandsOK, TempsOK, OwnTemps, Done, At, Goes, GoesOn, Ends, Fails,
         Busy, Fixing, Made
<1>5. SourcesWhole'
  BY DEF IInv, TypeInv, TypeOK, HandsOK, TempsOK, SourcesWhole, Done, At, Goes, GoesOn, Ends,
         Fails, Busy, Fixing, Made
<1>6. SavesMade'
  BY DEF IInv, TypeInv, TypeOK, HandsOK, TempsOK, SavesMade, Done, At, Goes, GoesOn, Ends,
         Fails, Busy, Fixing, Made
<1>7. LastSaves'
  BY DEF IInv, TypeInv, TypeOK, HandsOK, TempsOK, LastSaves, ReadsOf, Done, At, Goes, GoesOn,
         Ends, Fails, Busy, Fixing, Made
<1>. QED
  BY <1>1, <1>2, <1>3, <1>4, <1>5, <1>6, <1>7 DEF IInv

\* A process that dies leaves its temporary file, and reports nothing.
LEMMA CrashIInv == ASSUME FixInPlaceAssumption, IInv, NEW p \in Fixers, Crash(p) PROVE IInv'
<1>. Scripts \cap Temps = {} /\ Scripts \subseteq Names /\ Temps \subseteq Names
  BY NamesFacts
<1>. None \notin Contents
  BY DEF FixInPlaceAssumption
<1>1. TypeInv'
  BY DEF IInv, TypeInv, TypeOK, HandsOK, Contents, Forms, Crash, At, Goes, GoesOn, Ends, Fails,
         Busy, Fixing, Made
<1>2. TempsOK'
  BY DEF IInv, TypeInv, TypeOK, HandsOK, TempsOK, Crash, At, Goes, GoesOn, Ends, Fails, Busy,
         Fixing, Made
<1>3. NothingForgotten'
  BY DEF IInv, TypeInv, TypeOK, HandsOK, TempsOK, NothingForgotten, Excused, Crash, At, Goes,
         GoesOn, Ends, Fails, Busy, Fixing, Made
<1>4. OwnTemps'
  BY DEF IInv, TypeInv, TypeOK, HandsOK, TempsOK, OwnTemps, Crash, At, Goes, GoesOn, Ends,
         Fails, Busy, Fixing, Made
<1>5. SourcesWhole'
  BY DEF IInv, TypeInv, TypeOK, HandsOK, TempsOK, SourcesWhole, Crash, At, Goes, GoesOn, Ends,
         Fails, Busy, Fixing, Made
<1>6. SavesMade'
  BY DEF IInv, TypeInv, TypeOK, HandsOK, TempsOK, SavesMade, Crash, At, Goes, GoesOn, Ends,
         Fails, Busy, Fixing, Made
<1>7. LastSaves'
  BY DEF IInv, TypeInv, TypeOK, HandsOK, TempsOK, LastSaves, ReadsOf, Crash, At, Goes, GoesOn,
         Ends, Fails, Busy, Fixing, Made
<1>. QED
  BY <1>1, <1>2, <1>3, <1>4, <1>5, <1>6, <1>7 DEF IInv

\* An editor saves a source that can be fixed, or one that need not be.
LEMMA SaveIInv == ASSUME FixInPlaceAssumption, IInv, Save PROVE IInv'
<1>. Scripts \cap Temps = {} /\ Scripts \subseteq Names /\ Temps \subseteq Names
  BY NamesFacts
<1>. None \notin Contents /\ MaxSaves \in Nat
  BY DEF FixInPlaceAssumption
<1>a. PICK f \in Scripts, c \in Contents :
          /\ c.save = saves + 1 /\ c.whole
          /\ disk' = [disk EXCEPT ![f] = c]
          /\ since' = [p \in Fixers |-> IF fpc[p] \in {"idle", "dead"} THEN {} ELSE since[p] \cup {f}]
  <2>1. saves + 1 \in 0 .. MaxSaves
    BY DEF IInv, TypeInv, TypeOK, Save
  <2>2. \A form \in Forms : LET c == [save |-> saves + 1, form |-> form, whole |-> TRUE]
                            IN  c \in Contents /\ c.save = saves + 1 /\ c.whole
    BY <2>1 DEF Contents
  <2>. QED
    BY <2>2 DEF Save
<1>b. /\ saves' = saves + 1 /\ saves' \in 0 .. MaxSaves
      /\ UNCHANGED <<fpc, todo, cur, base, tmp, linked, failed, meddled>>
  BY DEF IInv, TypeInv, TypeOK, Save
<1>1. TypeInv'
  BY <1>a, <1>b DEF IInv, TypeInv, TypeOK, HandsOK
<1>2. TempsOK'
  BY <1>a, <1>b DEF IInv, TypeInv, TypeOK, HandsOK, TempsOK, Contents, Busy, Fixing, Made
<1>3. NothingForgotten'
  BY <1>a, <1>b
     DEF IInv, TypeInv, TypeOK, HandsOK, TempsOK, NothingForgotten, Excused, Contents, Busy,
         Fixing, Made
<1>4. OwnTemps'
  BY <1>a, <1>b
     DEF IInv, TypeInv, TypeOK, HandsOK, TempsOK, OwnTemps, Contents, Busy, Fixing, Made
<1>5. SourcesWhole'
  BY <1>a, <1>b
     DEF IInv, TypeInv, TypeOK, HandsOK, TempsOK, SourcesWhole, Contents, Busy, Fixing, Made
<1>6. SavesMade'
  BY <1>a, <1>b
     DEF IInv, TypeInv, TypeOK, HandsOK, TempsOK, SavesMade, Contents, Busy, Fixing, Made
<1>7. LastSaves'
  BY <1>a, <1>b
     DEF IInv, TypeInv, TypeOK, HandsOK, TempsOK, SavesMade, LastSaves, ReadsOf, Contents, Busy,
         Fixing, Made
<1>. QED
  BY <1>1, <1>2, <1>3, <1>4, <1>5, <1>6, <1>7 DEF IInv

\* At the start nobody has anything in hand and nothing is under a temporary name.
LEMMA InitIInv == ASSUME FixInPlaceAssumption, Init PROVE IInv
<1>. Scripts \cap Temps = {} /\ Scripts \cup Temps = Names /\ None \notin Contents /\ MaxSaves \in Nat
  BY NamesFacts DEF FixInPlaceAssumption, Names
<1>0. 0 \in 0 .. MaxSaves
  OBVIOUS
<1>1. disk \in [Names -> [save : {0}, form : Forms, whole : {TRUE}] \cup {None}]
  BY DEF Init
<1>2. \A n \in Names : disk[n] # None =>
          disk[n] \in Contents /\ disk[n].save = 0 /\ disk[n].whole = TRUE
  <2> SUFFICES ASSUME NEW r \in [save : {0}, form : Forms, whole : {TRUE}]
               PROVE  r \in Contents /\ r.save = 0 /\ r.whole = TRUE
    BY <1>1
  <2>1. r = [save |-> 0, form |-> r.form, whole |-> TRUE] /\ r.form \in Forms
    OBVIOUS
  <2>. QED
    BY <1>0, <2>1 DEF Contents
<1>3. TypeInv
  <2>1. disk \in [Names -> Contents \cup {None}] /\ \A f \in Scripts : disk[f] # None
    BY <1>1, <1>2 DEF Init
  <2>. QED
    BY <1>0, <2>1 DEF Init, TypeInv, TypeOK, HandsOK, Busy, Fixing, Made
<1>4. TempsOK /\ NothingForgotten /\ OwnTemps /\ LastSaves
  BY DEF Init, TempsOK, NothingForgotten, OwnTemps, LastSaves, ReadsOf, Busy, Fixing, Made
<1>5. SourcesWhole /\ SavesMade
  BY <1>2 DEF Init, SourcesWhole, SavesMade, Busy, Fixing, Made
<1>. QED
  BY <1>3, <1>4, <1>5 DEF IInv

\* Every step keeps the invariant.
LEMMA NextIInv == ASSUME FixInPlaceAssumption, IInv, [Next]_vars PROVE IInv'
<1>1. CASE UNCHANGED vars
  BY <1>1
     DEF vars, IInv, TypeInv, TypeOK, HandsOK, TempsOK, NothingForgotten, Excused, OwnTemps,
              SourcesWhole, SavesMade, LastSaves, ReadsOf
<1>2. CASE Next
  BY <1>2, CollectIInv, ReadIInv, FixIInv, CreateTempIInv, WriteIInv, WriteRestIInv, CloseIInv,
     RenameIInv, RemoveIInv, RereadIInv, DoneIInv, CrashIInv, SaveIInv
     DEF Next
<1>. QED
  BY <1>1, <1>2

-----------------------------------------------------------------------------
(* What the invariant says of a state, and of a step.                      *)

\* The properties that TLC checks are parts of the invariant or follow from it.
LEMMA IInvProperties ==
    ASSUME FixInPlaceAssumption, IInv
    PROVE  TypeOK /\ NeverTruncated /\ FixedOrReported
<1>1. NeverTruncated
  BY DEF IInv, SourcesWhole, NeverTruncated
<1>2. FixedOrReported
  <2> SUFFICES ASSUME NEW p \in Fixers, fpc[p] = "done", NEW f \in Scripts, disk[f].form = "fixable"
               PROVE  f \in failed[p] \cup since[p]
    BY DEF FixedOrReported, At
  <2>1. Excused(p, f) /\ todo[p] = {}
    BY DEF IInv, NothingForgotten, TypeInv, HandsOK
  <2>. QED
    BY <2>1 DEF Excused, Fixing, Made
<1>. QED
  BY <1>1, <1>2 DEF IInv, TypeInv

\* A step that takes a source back to an earlier save.
GoesBack(f) == disk'[f].save < disk[f].save
LostWhileFixed(f) ==
    \/ meddled
    \/ \E p \in Fixers : /\ At(p, "rename") /\ fpc'[p] = "reread"
                         /\ cur[p] = f /\ f \in since[p]

\* A step that takes a source back to an earlier save is a rename over a save that came
\* after the read.
LEMMA NextSavesStay ==
    ASSUME FixInPlaceAssumption, IInv, [Next]_vars, NEW f \in Scripts, GoesBack(f)
    PROVE  LostWhileFixed(f)
<1>. Scripts \cap Temps = {} /\ Scripts \subseteq Names /\ Temps \subseteq Names
  BY NamesFacts
<1>. disk[f] \in Contents /\ disk[f].save \in Int /\ disk'[f] # disk[f]
  BY DEF IInv, TypeInv, TypeOK, Contents, GoesBack
<1>1. ASSUME NEW p \in Fixers,
             Collect(p) \/ Read(p) \/ Fix(p) \/ Close(p) \/ Reread(p) \/ Done(p) \/ Crash(p)
      PROVE  disk' = disk
  BY <1>1 DEF Collect, Read, Fix, Close, Reread, Done, Crash
<1>2. ASSUME NEW p \in Fixers, CreateTemp(p) \/ Write(p) \/ WriteRest(p) \/ Remove(p)
      PROVE  disk'[f] = disk[f]
  <2>1. Write(p) \/ WriteRest(p) \/ Remove(p) => tmp[p] \in Temps
    BY DEF IInv, TypeInv, HandsOK, Write, WriteRest, Remove, At, Made
  <2>. QED
    BY <1>2, <2>1
       DEF CreateTemp, FreeNames, Write, WriteRest, Writes, Target, Remove, IInv, TypeInv,
           TypeOK
<1>3. ASSUME NEW p \in Fixers, Rename(p)
      PROVE  LostWhileFixed(f)
  <2>1. fpc[p] = "rename" /\ tmp[p] \in Temps /\ cur[p] \in Names
    BY <1>3 DEF Rename, At, IInv, TypeInv, HandsOK, Busy, Fixing, Made
  <2>2. /\ disk' = [disk EXCEPT ![tmp[p]] = None, ![cur[p]] = disk[tmp[p]]]
        /\ fpc' = [fpc EXCEPT ![p] = "reread"]
    BY <1>3 DEF Rename, GoesOn, Goes
  <2>3. cur[p] = f /\ disk'[f] = disk[tmp[p]] /\ fpc'[p] = "reread"
    BY <2>1, <2>2 DEF IInv, TypeInv, TypeOK
  <2>4. ASSUME ~meddled, f \notin since[p] PROVE FALSE
    <3>1. p \in ReadsOf(f) /\ base[p].form = "fixable"
      BY <2>1, <2>3 DEF IInv, TypeInv, HandsOK, ReadsOf, Busy, Fixing, Made
    <3>2. disk[f].save <= base[p].save /\ disk[tmp[p]].save = base[p].save
      BY <2>1, <2>4, <3>1 DEF IInv, LastSaves, OwnTemps, Made
    <3>3. base[p].save \in Int
      BY <2>1 DEF IInv, TypeInv, HandsOK, Contents, Busy, Fixing, Made
    <3>. QED
      BY <2>3, <3>2, <3>3 DEF GoesBack
  <2>. QED
    BY <2>1, <2>3, <2>4 DEF LostWhileFixed, At
<1>4. ASSUME Save PROVE FALSE
  <2>1. disk'[f].save = saves + 1
    BY <1>4 DEF Save
  <2>2. disk[f].save <= saves /\ saves \in Int
    BY DEF IInv, SavesMade, TypeInv, TypeOK
  <2>. QED
    BY <2>1, <2>2 DEF GoesBack
<1>. QED
  BY <1>1, <1>2, <1>3, <1>4 DEF Next, vars

-----------------------------------------------------------------------------

(***************************************************************************)
(* Every variable of lint --fix stays in its type: processes, the file     *)
(* system and what an editor has saved.                                    *)
(***************************************************************************)
THEOREM TypeCorrect == ASSUME FixInPlaceAssumption PROVE Spec => []TypeOK
  BY InitIInv, NextIInv, IInvProperties, PTL DEF Spec

(***************************************************************************)
(* fixOne never leaves half of a source: whatever fails, crashes or runs   *)
(* beside it, a source is whole unless a process took another's temporary  *)
(* file for one.                                                           *)
(***************************************************************************)
THEOREM SourcesStayWhole == ASSUME FixInPlaceAssumption PROVE Spec => []NeverTruncated
  BY InitIInv, NextIInv, IInvProperties, PTL DEF Spec

(***************************************************************************)
(* A run of lint --fix that came to its end has fixed what can be fixed,   *)
(* reported it as failed, or an editor has saved it since.                 *)
(***************************************************************************)
THEOREM NothingGoesUnreported == ASSUME FixInPlaceAssumption PROVE Spec => []FixedOrReported
  BY InitIInv, NextIInv, IInvProperties, PTL DEF Spec

(***************************************************************************)
(* What an editor saved is only lost to a process that read the file       *)
(* before and renames over it now.                                         *)
(***************************************************************************)
THEOREM SavesAreKept == ASSUME FixInPlaceAssumption PROVE Spec => SavesStay
<1> DEFINE Stays == \A f \in Scripts : disk'[f].save < disk[f].save =>
                        \/ meddled
                        \/ \E p \in Fixers : /\ At(p, "rename") /\ fpc'[p] = "reread"
                                             /\ cur[p] = f /\ f \in since[p]
<1>1. IInv /\ [Next]_vars => Stays
  BY NextSavesStay DEF GoesBack, LostWhileFixed
<1>2. IInv /\ [Next]_vars => [Stays]_vars
  BY <1>1
<1>. QED
  BY <1>2, InitIInv, NextIInv, PTL DEF Spec, SavesStay
=============================================================================
