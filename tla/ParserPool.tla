----------------------------- MODULE ParserPool -----------------------------
(***************************************************************************)
(* parser.ParseFile and the pool of parsers behind it.                     *)
(*                                                                         *)
(* A parser owns an arena: one Go slice per node type from which every     *)
(* node of a parse is allocated.  ParseFile takes a parser from a          *)
(* sync.Pool, truncates the arena, parses into it and puts the parser back *)
(* BEFORE it returns the AST, whose nodes still live in the arena.         *)
(*                                                                         *)
(* The arena is modelled by one slice.  A slice has a backing array and a  *)
(* length; append writes the next cell, or, when the array is full, moves  *)
(* to a larger array, copies the cells and leaves the old array to         *)
(* whoever still points into it.  Array g of parser p is the g-th array    *)
(* the slice of p has lived in.  A cell remembers the parse that wrote it  *)
(* last, which is all the properties tell apart about a node.              *)
(***************************************************************************)
EXTENDS Naturals

CONSTANTS
    Callers,      \* goroutines that call ParseFile
    Retainers,    \* the callers that go on using the AST they were given
    Files,        \* sources that may be parsed
    Broken,       \* the sources that do not parse
    NodeCount,    \* nodes the parse of a file allocates, up to the error if any
    Parsers,      \* identities of *parser values
    MaxGrowths,   \* bound: times a slice may move to a larger array
    Capacity,     \* Capacity[g]: number of cells of a slice's g-th array
    Nothing       \* no parser, no file, a cell never written

ASSUME CallersAssumption == Retainers \subseteq Callers

ASSUME FilesAssumption ==
    /\ Broken \subseteq Files
    /\ NodeCount \in [Files -> Nat]
    \* parseModule allocates the Module node before anything else
    /\ \A f \in Files \ Broken : NodeCount[f] > 0

ASSUME ArenaAssumption ==
    /\ MaxGrowths \in Nat
    /\ Capacity \in [0 .. MaxGrowths -> Nat]
    /\ \A g \in 0 .. MaxGrowths - 1 : Capacity[g] < Capacity[g + 1]
    /\ \A f \in Files : NodeCount[f] <= Capacity[MaxGrowths]

ASSUME NothingAssumption ==
    /\ Nothing \notin Parsers
    /\ Nothing \notin Files
    /\ Nothing \notin Callers \X Files

VARIABLES
    pool,    \* stmtParserPool: the parsers Get may return
    len,     \* len[p]: length of the slice of p
    grown,   \* grown[p]: index of the array the slice of p lives in
    cell,    \* cell[p][g][i]: the parse that wrote cell i of array g of p last
    pc,      \* where each caller is
    file,    \* the file each caller is parsing, or whose AST it is using
    own,     \* the parser each caller is parsing with
    ast      \* the node pointers the AST of each caller is made of

vars == <<pool, len, grown, cell, pc, file, own, ast>>

Grown == 0 .. MaxGrowths

\* The largest array bounds the cell numbers.
Cells == 1 .. Capacity[MaxGrowths]

\* What a cell can hold: nothing yet, or a node written by caller c for file f.
CellContents == (Callers \X Files) \cup {Nothing}

\* A node pointer is a cell of an array of a parser.
Pointers == [parser : Parsers, array : Grown, index : Cells]

\* The content a pointer shows to whoever dereferences it.
Deref(ptr) == cell[ptr.parser][ptr.array][ptr.index]

TypeOK ==
    /\ pool \subseteq Parsers
    /\ len \in [Parsers -> Nat]
    /\ grown \in [Parsers -> Grown]
    /\ cell \in [Parsers -> [Grown -> [Cells -> CellContents]]]
    /\ pc \in [Callers -> {"idle", "parsing", "using"}]
    /\ file \in [Callers -> Files \cup {Nothing}]
    /\ own \in [Callers -> Parsers \cup {Nothing}]
    /\ ast \in [Callers -> SUBSET Pointers]

Blank == [g \in Grown |-> [i \in Cells |-> Nothing]]

Init ==
    /\ pool = {}
    /\ len = [p \in Parsers |-> 0]
    /\ grown = [p \in Parsers |-> 0]
    /\ cell = [p \in Parsers |-> Blank]
    /\ pc = [c \in Callers |-> "idle"]
    /\ file = [c \in Callers |-> Nothing]
    /\ own = [c \in Callers |-> Nothing]
    /\ ast = [c \in Callers |-> {}]

-----------------------------------------------------------------------------

(***************************************************************************)
(* A parser nobody can reach: not in the pool, not at work, and no AST     *)
(* points into its arrays.  Its identity may be given to a new parser.     *)
(***************************************************************************)
Unreachable(p) ==
    /\ p \notin pool
    /\ \A c \in Callers : own[c] # p
    /\ \A c \in Callers : \A ptr \in ast[c] : ptr.parser # p

\* sync.Pool.Get hands a parser to one caller and forgets it.
TakeShared(p) == UNCHANGED pool \* mutant: the parser stays in the pool
Take(p) == pool' = pool \ {p}

\* reset: the slices are cut to length 0 and keep their arrays and cells.
Reset(p) ==
    /\ len' = [len EXCEPT ![p] = 0]
    /\ UNCHANGED <<grown, cell>>

\* Get found a parser: its arena is reset and the parse begins.
GetPooled(c, f) ==
    /\ pc[c] = "idle"
    /\ \E p \in pool :
        /\ Take(p)
        /\ Reset(p)
        /\ own' = [own EXCEPT ![c] = p]
    /\ pc' = [pc EXCEPT ![c] = "parsing"]
    /\ file' = [file EXCEPT ![c] = f]
    /\ ast' = [ast EXCEPT ![c] = {}]

\* Get returned nil, which it may do whatever other goroutines have put.
GetFresh(c, f) ==
    /\ pc[c] = "idle"
    /\ \E p \in Parsers :
        /\ Unreachable(p)
        /\ own' = [own EXCEPT ![c] = p]
        /\ len' = [len EXCEPT ![p] = 0]
        /\ grown' = [grown EXCEPT ![p] = 0]
        /\ cell' = [cell EXCEPT ![p] = Blank]
    /\ pc' = [pc EXCEPT ![c] = "parsing"]
    /\ file' = [file EXCEPT ![c] = f]
    /\ ast' = [ast EXCEPT ![c] = {}]
    /\ UNCHANGED pool

(***************************************************************************)
(* arenaAlloc: append one node and take its address.  Full arrays grow     *)
(* first; the cells in use are copied to the new array.                    *)
(***************************************************************************)
ArenaAllocLost(p, content) == \* mutant: the node that needs a larger array is not written
    /\ cell' = IF len[p] = Capacity[grown[p]]
               THEN [cell EXCEPT ![p][grown[p] + 1] = cell[p][grown[p]]]
               ELSE [cell EXCEPT ![p][grown[p]][len[p] + 1] = content]
    /\ grown' = [grown EXCEPT ![p] = IF len[p] = Capacity[@] THEN @ + 1 ELSE @]
    /\ len' = [len EXCEPT ![p] = len[p] + 1]
ArenaAlloc(p, content) ==
    LET full  == len[p] = Capacity[grown[p]]
        array == IF full THEN grown[p] + 1 ELSE grown[p]
        base  == IF full
                 THEN [i \in Cells |-> IF i <= len[p] THEN cell[p][grown[p]][i]
                                                      ELSE Nothing]
                 ELSE cell[p][grown[p]]
    IN  /\ cell' = [cell EXCEPT ![p][array] =
                        [base EXCEPT ![len[p] + 1] = content]]
        /\ grown' = [grown EXCEPT ![p] = array]
        /\ len' = [len EXCEPT ![p] = len[p] + 1]

Allocate(c) ==
    /\ pc[c] = "parsing"
    /\ len[own[c]] < NodeCount[file[c]]
    /\ ArenaAlloc(own[c], <<c, file[c]>>)
    /\ ast' = [ast EXCEPT ![c] = @ \cup {[parser |-> own[c],
                                          array  |-> grown'[own[c]],
                                          index  |-> len'[own[c]]]}]
    /\ UNCHANGED <<pool, pc, file, own>>

(***************************************************************************)
(* The parse ends.  The parser goes back to the pool in every case; then   *)
(* a failed parse returns an error and no AST, a good one returns the AST, *)
(* which a retaining caller goes on using and any other drops at once.     *)
(***************************************************************************)
PutBackCleared(c) == \* mutant: the register is cleared before the Put
    /\ own' = [own EXCEPT ![c] = Nothing]
    /\ pool' = pool \cup {own'[c]}
PutBack(c) ==
    /\ pool' = pool \cup {own[c]}
    /\ own' = [own EXCEPT ![c] = Nothing]

ParsesAnyway(c) == TRUE \* mutant: the error of parseModule is not looked at
Parses(c) == file[c] \notin Broken

Finish(c) ==
    /\ pc[c] = "parsing"
    /\ len[own[c]] = NodeCount[file[c]]
    /\ PutBack(c)
    /\ IF Parses(c) /\ c \in Retainers
       THEN /\ pc' = [pc EXCEPT ![c] = "using"]
            /\ UNCHANGED <<file, ast>>
       ELSE /\ pc' = [pc EXCEPT ![c] = "idle"]
            /\ file' = [file EXCEPT ![c] = Nothing]
            /\ ast' = [ast EXCEPT ![c] = {}]
    /\ UNCHANGED <<len, grown, cell>>

\* The caller is done with the AST: Lint, dump or symbols has returned.
Drop(c) ==
    /\ pc[c] = "using"
    /\ pc' = [pc EXCEPT ![c] = "idle"]
    /\ file' = [file EXCEPT ![c] = Nothing]
    /\ ast' = [ast EXCEPT ![c] = {}]
    /\ UNCHANGED <<pool, len, grown, cell, own>>

\* The garbage collector may empty a sync.Pool at any time.
Evict(p) ==
    /\ p \in pool
    /\ pool' = pool \ {p}
    /\ UNCHANGED <<len, grown, cell, pc, file, own, ast>>

Next ==
    \/ \E c \in Callers : \/ \E f \in Files : GetPooled(c, f) \/ GetFresh(c, f)
                          \/ Allocate(c)
                          \/ Finish(c)
                          \/ Drop(c)
    \/ \E p \in Parsers : Evict(p)

Spec == Init /\ [][Next]_vars

-----------------------------------------------------------------------------

(***************************************************************************)
(* A parser is in at most one place: at work for one caller, or in the     *)
(* pool.  arenaAlloc relies on it ("the caller owns the arena and no       *)
(* concurrent mutations occur").                                           *)
(***************************************************************************)
ExclusiveParser ==
    /\ \A c \in Callers : own[c] \notin pool
    /\ \A c, d \in Callers : own[c] = own[d] /\ own[c] # Nothing => c = d

(***************************************************************************)
(* While a parse is under way every node it has allocated still holds what *)
(* it wrote: neither another parse nor the growth of the slice under an    *)
(* earlier pointer changes a node of the tree being built.                 *)
(***************************************************************************)
ParseIntact ==
    \A c \in Callers : pc[c] = "parsing" =>
        \A ptr \in ast[c] : Deref(ptr) = <<c, file[c]>>

(***************************************************************************)
(* What the caller of ParseFile is promised (changelog/0.6.4.md): the AST  *)
(* it was given is valid until the same goroutine calls ParseFile again.   *)
(***************************************************************************)
ASTIntact ==
    \A c \in Callers : pc[c] = "using" =>
        \A ptr \in ast[c] : Deref(ptr) = <<c, file[c]>>

\* The program keeps the promise when a caller that keeps an AST is alone.
SoleRetainer == Retainers = {} \/ \E c \in Callers : Callers = {c}

(***************************************************************************)
(* The promise as a specification: what a caller sees through the pointers *)
(* of the AST it is using.  ParserPool implements ParseCalls when          *)
(* SoleRetainer holds.                                                     *)
(***************************************************************************)
view == [c \in Callers |->
            IF pc[c] = "using" THEN {Deref(ptr) : ptr \in ast[c]} ELSE {}]

Promise == INSTANCE ParseCalls
ImplementsParseCalls == Promise!Spec
=============================================================================
