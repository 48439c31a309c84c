--------------------------- MODULE CacheFile_proofs ---------------------------
(***************************************************************************)
(* Theorems about CacheFile for every number of processes, linted files    *)
(* and inodes, of which one process at most saves the cache.               *)
(***************************************************************************)
EXTENDS CacheFile, TLAPS

\* One process saves; CacheFileTwoWriters shows what two of them do.
SoleWriter == \A p, q \in Writers : p = q

Encoding == {"types", "value", "close"}
Saving == {"create", "rename", "remove"} \cup Encoding

\* Where a process is when it has neither saved anything nor opened a file.
ReadersOK ==
    \A p \in Processes :
        /\ p \notin Writers => pc[p] \in {"idle", "lint", "saved"}
        /\ pc[p] \in {"idle", "lint"} \/ p \notin Writers => gained[p] = {}
        /\ pc[p] \notin Encoding \cup {"remove"} => fd[p] = None

\* The inode that the temporary name leads to is never the cache's own.
NamesApart == link["tmp"] # None => link["tmp"] # link["cache"]

(***************************************************************************)
(* How far the writer has come: the file it has open is the one under the  *)
(* temporary name, and before the rename it holds all the entries.         *)
(***************************************************************************)
WriterOK ==
    \A p \in Writers :
        /\ pc[p] \in Encoding => fd[p] = link["tmp"] /\ fd[p] # None
        /\ pc[p] = "value" => types[fd[p]]
        /\ pc[p] = "close" => types[fd[p]] /\ value[fd[p]] = entries[p]
        /\ pc[p] = "rename" /\ link["tmp"] # None =>
               types[link["tmp"]] /\ value[link["tmp"]] = entries[p]

\* A run adds to what it has loaded: the writer's map has all of the cache file.
WriterAdds ==
    \A p \in Writers :
        /\ pc[p] = "lint" \/ pc[p] \in Saving => Loaded \subseteq entries[p]
        /\ pc[p] \in Saving => gained[p] \subseteq entries[p]

IInv ==
    /\ TypeOK
    /\ ReadersOK /\ NamesApart /\ WriterOK /\ WriterAdds
    /\ NeverHalfWritten
    /\ SavedIsLoaded
-----------------------------------------------------------------------------
(* The invariant holds at the start, and every action of OpenCache, of the  *)
(* lint and of Save keeps it.                                              *)

\* No cache file, and nobody running.
LEMMA InitIInv == ASSUME CacheFileAssumption, Init PROVE IInv
  BY DEF CacheFileAssumption, Init, IInv, TypeOK, EntrySets, ReadersOK, NamesApart, WriterOK,
         WriterAdds,
         NeverHalfWritten, SavedIsLoaded, Loaded, Decodes, Encoding, Saving

\* Who goes through Save is the one writer.
LEMMA AtWorkIsWriter ==
    ASSUME IInv, NEW p \in Processes, pc[p] \notin {"idle", "lint", "saved"}
    PROVE  p \in Writers
  BY DEF IInv, ReadersOK

\* What is loaded depends on the cache file only.
LEMMA SameLoaded ==
    ASSUME IInv, link'["cache"] = link["cache"],
           link["cache"] # None =>
               types'[link["cache"]] = types[link["cache"]] /\ value'[link["cache"]] = value[link["cache"]]
    PROVE  Loaded' = Loaded /\ NeverHalfWritten'
  BY DEF IInv, NeverHalfWritten, Loaded, Decodes

\* Types need no assumption on the writers.
LEMMA NextTypeOK == ASSUME TypeOK, [Next]_vars PROVE TypeOK'
<1>1. CASE UNCHANGED vars
  BY <1>1 DEF vars, TypeOK
<1>2. ASSUME NEW p \in Processes, Open(p) PROVE TypeOK'
  <2>1. Loaded \in EntrySets
    BY DEF TypeOK, Loaded, Decodes, EntrySets
  <2>. QED
    BY <1>2, <2>1 DEF TypeOK, Open, Opened
<1>3. ASSUME NEW p \in Processes, LintAll(p) PROVE TypeOK'
  BY <1>3 DEF TypeOK, LintAll, EntrySets
<1>4. ASSUME NEW p \in Processes, Create(p) PROVE TypeOK'
  <2>1. CASE pc' = [pc EXCEPT ![p] = "failed"] /\ UNCHANGED <<link, types, value, fd>>
    BY <1>4, <2>1 DEF TypeOK, Create
  <2>2. ASSUME NEW n \in Inodes,
               link' = [link EXCEPT !["tmp"] = n],
               types' = [types EXCEPT ![n] = FALSE],
               value' = [value EXCEPT ![n] = None],
               fd' = [fd EXCEPT ![p] = n],
               pc' = [pc EXCEPT ![p] = "types"]
        PROVE  TypeOK'
    BY <1>4, <2>2 DEF TypeOK, Create
  <2>. QED
    BY <1>4, <2>1, <2>2 DEF Create, Target
<1>5. ASSUME NEW p \in Processes, WriteTypes(p) PROVE TypeOK'
  BY <1>5 DEF TypeOK, WriteTypes, OnError
<1>6. ASSUME NEW p \in Processes, WriteValue(p) PROVE TypeOK'
  BY <1>6 DEF TypeOK, WriteValue, OnError
<1>7. ASSUME NEW p \in Processes, Close(p) \/ Rename(p) \/ RemoveTmp(p) PROVE TypeOK'
  BY <1>7 DEF TypeOK, Close, Rename, RemoveTmp
<1>8. ASSUME NEW p \in Processes, Exit(p) PROVE TypeOK'
  BY <1>8 DEF TypeOK, Exit, EntrySets
<1>. QED
  BY <1>1, <1>2, <1>3, <1>4, <1>5, <1>6, <1>7, <1>8 DEF Next

\* OpenCache: the entries are those that the file holds.
LEMMA OpenIInv == ASSUME CacheFileAssumption, IInv, NEW p \in Processes, Open(p) PROVE IInv'
<1>1. Loaded' = Loaded /\ NeverHalfWritten'
  BY SameLoaded DEF Open
<1>2. TypeOK'
  BY NextTypeOK DEF IInv, Next
<1>3. ReadersOK' /\ NamesApart' /\ WriterOK'
  BY DEF IInv, TypeOK, Open, ReadersOK, NamesApart, WriterOK, Encoding
<1>4. WriterAdds' /\ SavedIsLoaded'
  BY <1>1, CacheFileAssumption
     DEF IInv, TypeOK, Open, Opened, WriterAdds, SavedIsLoaded, Encoding, Saving,
         CacheFileAssumption
<1>. QED
  BY <1>1, <1>2, <1>3, <1>4 DEF IInv

\* The lint adds entries to what was loaded.
LEMMA LintAllIInv ==
  ASSUME CacheFileAssumption, SoleWriter, IInv, NEW p \in Processes, LintAll(p)
  PROVE  IInv'
<1>1. Loaded' = Loaded /\ NeverHalfWritten'
  BY SameLoaded DEF LintAll
<1>2. TypeOK'
  BY NextTypeOK DEF IInv, Next
<1>3. ReadersOK' /\ NamesApart' /\ WriterOK'
  BY CacheFileAssumption
     DEF IInv, TypeOK, LintAll, ReadersOK, NamesApart, WriterOK, Encoding, CacheFileAssumption
<1>4. WriterAdds' /\ SavedIsLoaded'
  BY <1>1, CacheFileAssumption
     DEF IInv, TypeOK, LintAll, ReadersOK, WriterAdds, SavedIsLoaded, Encoding, Saving,
         EntrySets, CacheFileAssumption
<1>. QED
  BY <1>1, <1>2, <1>3, <1>4 DEF IInv

\* os.Create truncates what is under the temporary name, which is not the cache.
LEMMA CreateIInv ==
  ASSUME CacheFileAssumption, SoleWriter, IInv, NEW p \in Processes, Create(p)
  PROVE  IInv'
<1>0. p \in Writers /\ fd[p] = None
  BY AtWorkIsWriter DEF Create, IInv, ReadersOK, Encoding
<1>1. Loaded' = Loaded /\ NeverHalfWritten'
  BY SameLoaded, CacheFileAssumption
     DEF IInv, TypeOK, NamesApart, Create, Target, Free, CacheFileAssumption
<1>2. TypeOK'
  BY NextTypeOK DEF IInv, Next
<1>3. ReadersOK' /\ NamesApart' /\ WriterOK'
  BY <1>0, CacheFileAssumption, SoleWriter
     DEF IInv, TypeOK, Create, Target, Free, ReadersOK, NamesApart, WriterOK, Encoding,
         CacheFileAssumption, SoleWriter
<1>4. WriterAdds' /\ SavedIsLoaded'
  BY <1>0, <1>1, CacheFileAssumption
     DEF IInv, TypeOK, Create, ReadersOK, WriterAdds, SavedIsLoaded, Encoding, Saving,
         EntrySets, CacheFileAssumption
<1>. QED
  BY <1>1, <1>2, <1>3, <1>4 DEF IInv

\* The encoder writes the inode under the temporary name, ...
LEMMA WriteTypesIInv ==
  ASSUME CacheFileAssumption, SoleWriter, IInv, NEW p \in Processes, WriteTypes(p)
  PROVE  IInv'
<1>0. p \in Writers /\ fd[p] = link["tmp"] /\ fd[p] # None /\ fd[p] # link["cache"]
  BY AtWorkIsWriter DEF WriteTypes, IInv, WriterOK, NamesApart, Encoding
<1>1. Loaded' = Loaded /\ NeverHalfWritten'
  BY <1>0, SameLoaded DEF WriteTypes, IInv, TypeOK
<1>2. TypeOK'
  BY NextTypeOK DEF IInv, Next
<1>3. ReadersOK' /\ NamesApart' /\ WriterOK'
  BY <1>0, SoleWriter, CacheFileAssumption
     DEF IInv, TypeOK, WriteTypes, OnError, ReadersOK, NamesApart, WriterOK, Encoding,
         SoleWriter, CacheFileAssumption
<1>4. WriterAdds' /\ SavedIsLoaded'
  BY <1>0, <1>1, CacheFileAssumption
     DEF IInv, TypeOK, WriteTypes, OnError, ReadersOK, WriterAdds, SavedIsLoaded, Encoding,
         Saving, EntrySets, CacheFileAssumption
<1>. QED
  BY <1>1, <1>2, <1>3, <1>4 DEF IInv

\* ... both parts of it, ...
LEMMA WriteValueIInv ==
  ASSUME CacheFileAssumption, SoleWriter, IInv, NEW p \in Processes, WriteValue(p)
  PROVE  IInv'
<1>0. p \in Writers /\ fd[p] = link["tmp"] /\ fd[p] # None /\ fd[p] # link["cache"]
  BY AtWorkIsWriter DEF WriteValue, IInv, WriterOK, NamesApart, Encoding
<1>1. Loaded' = Loaded /\ NeverHalfWritten'
  BY <1>0, SameLoaded DEF WriteValue, IInv, TypeOK
<1>2. TypeOK'
  BY NextTypeOK DEF IInv, Next
<1>3. ReadersOK' /\ NamesApart' /\ WriterOK'
  BY <1>0, SoleWriter, CacheFileAssumption
     DEF IInv, TypeOK, WriteValue, OnError, ReadersOK, NamesApart, WriterOK, Encoding,
         SoleWriter, CacheFileAssumption
<1>4. WriterAdds' /\ SavedIsLoaded'
  BY <1>0, <1>1, CacheFileAssumption
     DEF IInv, TypeOK, WriteValue, OnError, ReadersOK, WriterAdds, SavedIsLoaded, Encoding,
         Saving, EntrySets, CacheFileAssumption
<1>. QED
  BY <1>1, <1>2, <1>3, <1>4 DEF IInv

\* ... and closing it leaves all the entries there.
LEMMA CloseIInv ==
  ASSUME CacheFileAssumption, SoleWriter, IInv, NEW p \in Processes, Close(p)
  PROVE  IInv'
<1>1. Loaded' = Loaded /\ NeverHalfWritten'
  BY SameLoaded DEF Close
<1>2. TypeOK'
  BY NextTypeOK DEF IInv, Next
<1>3. ReadersOK' /\ NamesApart' /\ WriterOK'
  BY AtWorkIsWriter DEF IInv, TypeOK, Close, ReadersOK, NamesApart, WriterOK, Encoding
<1>4. WriterAdds' /\ SavedIsLoaded'
  BY <1>1 DEF IInv, TypeOK, Close, WriterAdds, SavedIsLoaded, Encoding, Saving
<1>. QED
  BY <1>1, <1>2, <1>3, <1>4 DEF IInv

\* The rename puts a whole file in the place of the cache, with all that was in it.
LEMMA RenameReplaces ==
    ASSUME CacheFileAssumption, SoleWriter, IInv, NEW p \in Processes, Rename(p)
    PROVE  /\ p \in Writers
           /\ NeverHalfWritten'
           /\ Loaded \subseteq Loaded'
           /\ link' # link => Loaded' = entries[p]
<1>1. p \in Writers
  BY AtWorkIsWriter DEF Rename
<1>2. CASE UNCHANGED link
  BY <1>1, <1>2, SameLoaded DEF Rename
<1>3. CASE link["tmp"] # None /\ link' = [cache |-> link["tmp"], tmp |-> None]
  <2>1. types[link["tmp"]] /\ value[link["tmp"]] = entries[p] /\ entries[p] \in SUBSET Sources
    BY <1>1, <1>3 DEF Rename, IInv, WriterOK, TypeOK, EntrySets
  <2>2. Loaded' = entries[p] /\ NeverHalfWritten'
    BY <1>3, <2>1, CacheFileAssumption
       DEF Rename, Loaded, Decodes, NeverHalfWritten, CacheFileAssumption
  <2>3. Loaded \subseteq entries[p]
    BY <1>1 DEF Rename, IInv, WriterAdds, Saving
  <2>. QED
    BY <1>1, <2>2, <2>3
<1>. QED
  BY <1>2, <1>3 DEF Rename

\* The rename puts a file in place that decodes and has all that was loaded.
LEMMA RenameIInv ==
  ASSUME CacheFileAssumption, SoleWriter, IInv, NEW p \in Processes, Rename(p)
  PROVE  IInv'
<1>1. p \in Writers /\ NeverHalfWritten' /\ Loaded \subseteq Loaded' /\ (link' # link => Loaded' = entries[p])
  BY RenameReplaces
<1>2. TypeOK'
  BY NextTypeOK DEF IInv, Next
<1>3. ReadersOK' /\ NamesApart' /\ WriterOK'
  BY <1>1, SoleWriter
     DEF IInv, TypeOK, Rename, ReadersOK, NamesApart, WriterOK, Encoding, SoleWriter
<1>4. WriterAdds' /\ SavedIsLoaded'
  <2>1. pc[p] = "rename" /\ gained' = gained /\ entries' = entries /\ gained[p] \subseteq entries[p]
    BY <1>1 DEF Rename, IInv, WriterAdds, Saving
  <2>2. CASE link' = link
    <3>1. Loaded' = Loaded
      BY <2>2, SameLoaded DEF Rename
    <3>. QED
      BY <1>1, <2>1, <2>2, <3>1, CacheFileAssumption
         DEF IInv, TypeOK, Rename, WriterAdds, SavedIsLoaded, Encoding, Saving,
             CacheFileAssumption
  <2>3. CASE link' # link
    BY <1>1, <2>1, <2>3, SoleWriter
       DEF IInv, TypeOK, Rename, ReadersOK, WriterAdds, SavedIsLoaded, Encoding, Saving,
           SoleWriter
  <2>. QED
    BY <2>2, <2>3
<1>. QED
  BY <1>1, <1>2, <1>3, <1>4 DEF IInv

\* Giving up removes the temporary name only.
LEMMA RemoveTmpIInv ==
  ASSUME CacheFileAssumption, SoleWriter, IInv, NEW p \in Processes, RemoveTmp(p)
  PROVE  IInv'
<1>0. p \in Writers
  BY AtWorkIsWriter DEF RemoveTmp
<1>1. Loaded' = Loaded /\ NeverHalfWritten'
  BY SameLoaded DEF RemoveTmp, IInv, TypeOK
<1>2. TypeOK'
  BY NextTypeOK DEF IInv, Next
<1>3. ReadersOK' /\ NamesApart' /\ WriterOK'
  BY <1>0, SoleWriter
     DEF IInv, TypeOK, RemoveTmp, ReadersOK, NamesApart, WriterOK, Encoding, SoleWriter
<1>4. WriterAdds' /\ SavedIsLoaded'
  BY <1>1 DEF IInv, TypeOK, RemoveTmp, WriterAdds, SavedIsLoaded, Encoding, Saving
<1>. QED
  BY <1>1, <1>2, <1>3, <1>4 DEF IInv

\* A process that ends, or dies anywhere, takes no name along.
LEMMA ExitIInv ==
  ASSUME CacheFileAssumption, SoleWriter, IInv, NEW p \in Processes, Exit(p)
  PROVE  IInv'
<1>1. Loaded' = Loaded /\ NeverHalfWritten'
  BY SameLoaded DEF Exit
<1>2. TypeOK'
  BY NextTypeOK DEF IInv, Next
<1>3. ReadersOK' /\ NamesApart' /\ WriterOK'
  BY DEF IInv, TypeOK, Exit, ReadersOK, NamesApart, WriterOK, Encoding
<1>4. WriterAdds' /\ SavedIsLoaded'
  BY <1>1 DEF IInv, TypeOK, Exit, WriterAdds, SavedIsLoaded, Encoding, Saving
<1>. QED
  BY <1>1, <1>2, <1>3, <1>4 DEF IInv

\* Every step keeps the invariant, a crash and a failure included.
LEMMA NextIInv ==
    ASSUME CacheFileAssumption, SoleWriter, IInv, [Next]_vars
    PROVE  IInv'
<1>1. CASE UNCHANGED vars
  BY <1>1 DEF vars, IInv, TypeOK, ReadersOK, NamesApart, WriterOK, WriterAdds, NeverHalfWritten,
              SavedIsLoaded, Loaded, Decodes
<1>2. CASE Next
  BY <1>2, OpenIInv, LintAllIInv, CreateIInv, WriteTypesIInv, WriteValueIInv, CloseIInv,
     RenameIInv, RemoveTmpIInv, ExitIInv DEF Next
<1>. QED
  BY <1>1, <1>2

\* Only the rename changes what is loaded.
LEMMA NextKeepsEntries ==
    ASSUME CacheFileAssumption, SoleWriter, IInv, [Next]_vars
    PROVE  Loaded \subseteq Loaded'
<1>1. CASE UNCHANGED vars
  BY <1>1, SameLoaded DEF vars
<1>2. ASSUME NEW p \in Processes, Create(p) PROVE Loaded' = Loaded
  BY <1>2, SameLoaded, CacheFileAssumption
     DEF IInv, TypeOK, NamesApart, Create, Target, Free, CacheFileAssumption
<1>3. ASSUME NEW p \in Processes, WriteTypes(p) \/ WriteValue(p) PROVE Loaded' = Loaded
  <2>1. fd[p] # link["cache"]
    BY <1>3, AtWorkIsWriter DEF WriteTypes, WriteValue, IInv, WriterOK, NamesApart, Encoding
  <2>. QED
    BY <1>3, <2>1, SameLoaded DEF WriteTypes, WriteValue, IInv, TypeOK
<1>4. ASSUME NEW p \in Processes, Open(p) \/ LintAll(p) \/ Close(p) \/ RemoveTmp(p) \/ Exit(p)
      PROVE  Loaded' = Loaded
  BY <1>4, SameLoaded DEF Open, LintAll, Close, RemoveTmp, Exit, IInv, TypeOK
<1>. QED
  BY <1>1, <1>2, <1>3, <1>4, RenameReplaces DEF Next

-----------------------------------------------------------------------------

(***************************************************************************)
(* Every variable of the cache file, its processes and its inodes stays in *)
(* its type, whoever saves.                                                *)
(***************************************************************************)
THEOREM TypeCorrect == ASSUME CacheFileAssumption PROVE Spec => []TypeOK
<1>1. Init => TypeOK
  BY DEF Init, TypeOK, EntrySets
<1>. QED
  BY <1>1, NextTypeOK, PTL DEF Spec

(***************************************************************************)
(* The cache file of a sole writer decodes after every step, failure and   *)
(* crash of Save.                                                          *)
(***************************************************************************)
THEOREM CacheIsWhole == ASSUME CacheFileAssumption, SoleWriter PROVE Spec => []NeverHalfWritten
<1>1. IInv => NeverHalfWritten
  BY DEF IInv
<1>. QED
  BY <1>1, InitIInv, NextIInv, PTL DEF Spec

(***************************************************************************)
(* What a completed Save has added is what the next OpenCache finds.       *)
(***************************************************************************)
THEOREM SavedEntriesLoad == ASSUME CacheFileAssumption, SoleWriter PROVE Spec => []SavedIsLoaded
<1>1. IInv => SavedIsLoaded
  BY DEF IInv
<1>. QED
  BY <1>1, InitIInv, NextIInv, PTL DEF Spec

(***************************************************************************)
(* No step of Save takes an entry out of the cache file.                   *)
(***************************************************************************)
THEOREM EntriesAreKept == ASSUME CacheFileAssumption, SoleWriter PROVE Spec => EntriesStay
<1> DEFINE Stays == Loaded \subseteq Loaded'
<1>1. IInv /\ [Next]_vars => [Stays]_vars
  BY NextKeepsEntries
<1>. QED
  BY <1>1, InitIInv, NextIInv, PTL DEF Spec, EntriesStay
=============================================================================
