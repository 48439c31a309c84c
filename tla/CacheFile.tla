------------------------------ MODULE CacheFile ------------------------------
(***************************************************************************)
(* The lint cache on disk: OpenCache and Cache.Save, run by several        *)
(* gopapy processes that were given the same --cache path.                 *)
(*                                                                         *)
(* Save writes PATH.tmp and renames it to PATH.  The two names are links   *)
(* to inodes: os.Create truncates the inode PATH.tmp leads to, or makes    *)
(* one; a process that has it open goes on writing to the inode after the  *)
(* name has been renamed away.  The gob encoder writes the file in two     *)
(* parts, the type definitions, which are the same for every process, and  *)
(* the entries; a file decodes when it holds both.                         *)
(***************************************************************************)
EXTENDS Naturals

CONSTANTS
    Processes,  \* processes using the cache path
    Writers,    \* those that may have something to lint, and so to save
    Sources,    \* the linted files, which entries are about
    Inodes,     \* identities of files; bound on how many are open or linked
    None        \* no link, no file, no part written

CacheFileAssumption ==
    /\ Writers \subseteq Processes
    /\ None \notin Inodes /\ Inodes # {}
    /\ \A saved \in SUBSET Sources : saved # None

VARIABLES
    link,      \* link.cache, link.tmp: the inodes the two names lead to
    types,     \* types[n]: whether inode n has its type definitions
    value,     \* value[n]: the entries in inode n, or None
    pc,        \* pc[p]: where process p is
    fd,        \* fd[p]: the inode p has open for writing
    entries,   \* entries[p]: the entries of the open cache of p
    gained     \* gained[p]: entries p holds that it did not load

vars == <<link, types, value, pc, fd, entries, gained>>

\* An entry is known by the file it is about.
EntrySets == SUBSET Sources

TypeOK ==
    /\ link \in [{"cache", "tmp"} -> Inodes \cup {None}]
    /\ types \in [Inodes -> BOOLEAN]
    /\ value \in [Inodes -> EntrySets \cup {None}]
    /\ pc \in [Processes -> {"idle", "lint", "create", "types", "value", "close",
                             "rename", "remove", "saved", "failed"}]
    /\ fd \in [Processes -> Inodes \cup {None}]
    /\ entries \in [Processes -> EntrySets]
    /\ gained \in [Processes -> EntrySets]

Init ==
    /\ link = [name \in {"cache", "tmp"} |-> None]
    /\ types = [n \in Inodes |-> FALSE]
    /\ value = [n \in Inodes |-> None]
    /\ pc = [p \in Processes |-> "idle"]
    /\ fd = [p \in Processes |-> None]
    /\ entries = [p \in Processes |-> {}]
    /\ gained = [p \in Processes |-> {}]

-----------------------------------------------------------------------------

Decodes(n) == types[n] /\ value[n] # None

(***************************************************************************)
(* OpenCache: a missing file is an empty cache, and so is one that does    *)
(* not decode, with a warning.                                             *)
(***************************************************************************)
Loaded == IF link["cache"] # None /\ Decodes(link["cache"])
          THEN value[link["cache"]] ELSE {}

OpenedEmpty == {} \* mutant: the decoded map is not assigned to c.entries
Opened == Loaded

Open(p) ==
    /\ pc[p] = "idle"
    /\ pc' = [pc EXCEPT ![p] = "lint"]
    /\ entries' = [entries EXCEPT ![p] = Opened]
    /\ UNCHANGED <<link, types, value, fd, gained>>

\* LintFiles stores what it had to lint; if there was nothing, Save does nothing.
LintAll(p) ==
    /\ pc[p] = "lint"
    /\ \/ /\ p \in Writers
          /\ \E new \in EntrySets \ {{}} :
                /\ entries' = [entries EXCEPT ![p] = @ \cup new]
                /\ gained' = [gained EXCEPT ![p] = new]
          /\ pc' = [pc EXCEPT ![p] = "create"]
       \/ /\ pc' = [pc EXCEPT ![p] = "saved"]
          /\ UNCHANGED <<entries, gained>>
    /\ UNCHANGED <<link, types, value, fd>>

\* An inode without a name that nobody has open is free for a new file.
Free(n) ==
    /\ n # link["cache"] /\ n # link["tmp"]
    /\ \A p \in Processes : fd[p] # n

\* The file Save writes first, and that it renames afterwards.
InPlace == "cache" \* mutant: the cache file itself is rewritten
Target == "tmp"

\* os.Create: the file there is truncated, or a new one is made, or it fails.
Create(p) ==
    /\ pc[p] = "create"
    /\ \/ \E n \in Inodes :
            /\ IF link[Target] # None THEN n = link[Target] ELSE Free(n)
            /\ link' = [link EXCEPT ![Target] = n]
            /\ types' = [types EXCEPT ![n] = FALSE]
            /\ value' = [value EXCEPT ![n] = None]
            /\ fd' = [fd EXCEPT ![p] = n]
            /\ pc' = [pc EXCEPT ![p] = "types"]
       \/ /\ pc' = [pc EXCEPT ![p] = "failed"]
          /\ UNCHANGED <<link, types, value, fd>>
    /\ UNCHANGED <<entries, gained>>

OnErrorClose == "close" \* mutant: the error of Encode is not looked at
OnError == "remove"

\* Encode writes the two parts at the offset of p; a write may fail.
WriteTypes(p) ==
    /\ pc[p] = "types"
    /\ \/ /\ types' = [types EXCEPT ![fd[p]] = TRUE]
          /\ pc' = [pc EXCEPT ![p] = "value"]
       \/ /\ pc' = [pc EXCEPT ![p] = OnError]
          /\ UNCHANGED types
    /\ UNCHANGED <<link, value, fd, entries, gained>>

WriteValue(p) ==
    /\ pc[p] = "value"
    /\ \/ /\ value' = [value EXCEPT ![fd[p]] = entries[p]]
          /\ pc' = [pc EXCEPT ![p] = "close"]
       \/ /\ pc' = [pc EXCEPT ![p] = OnError]
          /\ UNCHANGED value
    /\ UNCHANGED <<link, types, fd, entries, gained>>

Close(p) ==
    /\ pc[p] = "close"
    /\ fd' = [fd EXCEPT ![p] = None]
    /\ \E step \in {"rename", "remove"} : pc' = [pc EXCEPT ![p] = step]
    /\ UNCHANGED <<link, types, value, entries, gained>>

\* rename(2) replaces the cache by whatever the name PATH.tmp leads to now;
\* it fails when the name is gone, and may fail when it is not.
Rename(p) ==
    /\ pc[p] = "rename"
    /\ \/ /\ link["tmp"] # None
          /\ link' = [cache |-> link["tmp"], tmp |-> None]
          /\ pc' = [pc EXCEPT ![p] = "saved"]
       \/ /\ pc' = [pc EXCEPT ![p] = "remove"]
          /\ UNCHANGED link
    /\ UNCHANGED <<types, value, fd, entries, gained>>

\* An error after Create removes the temporary file, if the name still exists.
RemoveTmp(p) ==
    /\ pc[p] = "remove"
    /\ link' = [link EXCEPT !["tmp"] = None]
    /\ fd' = [fd EXCEPT ![p] = None]
    /\ pc' = [pc EXCEPT ![p] = "failed"]
    /\ UNCHANGED <<types, value, entries, gained>>

\* The process ends, or dies at any point; its files are closed.
Exit(p) ==
    /\ pc[p] # "idle"
    /\ pc' = [pc EXCEPT ![p] = "idle"]
    /\ fd' = [fd EXCEPT ![p] = None]
    /\ entries' = [entries EXCEPT ![p] = {}]
    /\ gained' = [gained EXCEPT ![p] = {}]
    /\ UNCHANGED <<link, types, value>>

Next ==
    \E p \in Processes :
        \/ Open(p) \/ LintAll(p)
        \/ Create(p) \/ WriteTypes(p) \/ WriteValue(p) \/ Close(p) \/ Rename(p)
        \/ RemoveTmp(p) \/ Exit(p)

Spec == Init /\ [][Next]_vars

-----------------------------------------------------------------------------

(***************************************************************************)
(* "Atomic via tmp-then-rename so a concurrent reader never sees a         *)
(* half-written file": the cache file, when there is one, always decodes,  *)
(* between any two steps of Save and after a crash at any of them.         *)
(***************************************************************************)
NeverHalfWritten == link["cache"] # None => Decodes(link["cache"])

(***************************************************************************)
(* A cache that was saved is there: no later failure or crash of another   *)
(* Save loses the file, and a reader finds in it what this Save wrote for  *)
(* as long as no other process has completed one.                          *)
(***************************************************************************)
SavedIsLoaded ==
    \A p \in Processes : pc[p] = "saved" => gained[p] \subseteq Loaded

(***************************************************************************)
(* No step of Save, failure or crash takes an entry out of the cache file: *)
(* a run adds to what it has loaded.  It holds when only one process at a  *)
(* time saves; two of them overwrite each other's map.                     *)
(***************************************************************************)
EntriesStay == [][Loaded \subseteq Loaded']_vars
=============================================================================
