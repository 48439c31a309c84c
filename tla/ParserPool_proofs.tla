-------------------------- MODULE ParserPool_proofs --------------------------
(***************************************************************************)
(* Theorems about ParserPool for every number of callers, files, parsers   *)
(* and growths.                                                            *)
(***************************************************************************)
EXTENDS ParserPool, TLAPS

(***************************************************************************)
(* The inductive invariant.  PcOK ties a caller's registers to where it    *)
(* is; LenOK bounds the slices; OwnAST says that the pointers of a parse   *)
(* under way lead into the part of its own parser's arrays that append     *)
(* will not write again, which is what makes ParseIntact inductive.        *)
(***************************************************************************)
PcOK ==
    \A c \in Callers :
        /\ pc[c] = "parsing" <=> own[c] # Nothing
        /\ pc[c] # "idle" => file[c] \in Files
        /\ pc[c] = "idle" => ast[c] = {}
        /\ pc[c] = "using" => c \in Retainers /\ file[c] \notin Broken

LenOK ==
    /\ \A p \in Parsers : len[p] <= Capacity[grown[p]]
    /\ \A c \in Callers : pc[c] = "parsing" => len[own[c]] <= NodeCount[file[c]]

OwnAST ==
    \A c \in Callers : pc[c] = "parsing" =>
        \A ptr \in ast[c] : /\ ptr.parser = own[c]
                            /\ ptr.array <= grown[own[c]]
                            /\ ptr.index <= len[own[c]]

IInv ==
    /\ TypeOK
    /\ ExclusiveParser
    /\ PcOK
    /\ LenOK
    /\ OwnAST
    /\ ParseIntact

USE DEF Grown, Cells, CellContents, Pointers

(***************************************************************************)
(* Appending never runs out of arrays: a caller with a node left to        *)
(* allocate has room in the slice or a larger array to move it to.         *)
(***************************************************************************)
LEMMA RoomToGrow ==
    ASSUME IInv, NEW c \in Callers, pc[c] = "parsing",
           len[own[c]] < NodeCount[file[c]]
    PROVE  /\ own[c] \in Parsers
           /\ file[c] \in Files
           /\ len[own[c]] + 1 \in Cells
           /\ len[own[c]] = Capacity[grown[own[c]]] =>
                  /\ grown[own[c]] + 1 \in Grown
                  /\ len[own[c]] + 1 <= Capacity[grown[own[c]] + 1]
           /\ len[own[c]] # Capacity[grown[own[c]]] =>
                  len[own[c]] + 1 <= Capacity[grown[own[c]]]
<1>1. own[c] \in Parsers /\ file[c] \in Files
  BY DEF IInv, TypeOK, PcOK
<1>2. /\ len[own[c]] \in Nat
      /\ grown[own[c]] \in Grown
      /\ len[own[c]] <= Capacity[grown[own[c]]]
  BY <1>1 DEF IInv, TypeOK, LenOK
<1>3. NodeCount[file[c]] \in Nat /\ NodeCount[file[c]] <= Capacity[MaxGrowths]
  BY <1>1, FilesAssumption, ArenaAssumption
<1>4. Capacity[grown[own[c]]] \in Nat /\ Capacity[MaxGrowths] \in Nat
  BY <1>2, ArenaAssumption
<1>5. len[own[c]] + 1 \in Cells
  BY <1>2, <1>3, <1>4
<1>6. ASSUME len[own[c]] = Capacity[grown[own[c]]]
      PROVE  /\ grown[own[c]] + 1 \in Grown
             /\ len[own[c]] + 1 <= Capacity[grown[own[c]] + 1]
  <2>1. grown[own[c]] # MaxGrowths
    BY <1>2, <1>3, <1>4, <1>6
  <2>2. grown[own[c]] \in 0 .. MaxGrowths - 1 /\ grown[own[c]] + 1 \in Grown
    BY <1>2, <2>1, ArenaAssumption
  <2>3. /\ Capacity[grown[own[c]]] < Capacity[grown[own[c]] + 1]
        /\ Capacity[grown[own[c]] + 1] \in Nat
    BY <2>2, ArenaAssumption
  <2>. QED
    BY <1>2, <1>4, <1>6, <2>2, <2>3
<1>7. len[own[c]] # Capacity[grown[own[c]]] =>
          len[own[c]] + 1 <= Capacity[grown[own[c]]]
  BY <1>2, <1>4
<1>. QED
  BY <1>1, <1>5, <1>6, <1>7

(***************************************************************************)
(* One append, seen from outside: it writes one cell, past the length of   *)
(* the slice or in a new array, and touches no other parser.               *)
(***************************************************************************)
LEMMA AppendWrites ==
    ASSUME IInv, NEW c \in Callers, Allocate(c)
    PROVE  LET p == own[c]
           IN  /\ p \in Parsers
               /\ pc[c] = "parsing" /\ file[c] \in Files
               /\ cell' \in [Parsers -> [Grown -> [Cells -> CellContents]]]
               /\ grown' \in [Parsers -> Grown]
               /\ len' \in [Parsers -> Nat]
               /\ len'[p] = len[p] + 1 /\ len'[p] \in Cells
               /\ grown'[p] \in {grown[p], grown[p] + 1}
               /\ len'[p] <= Capacity[grown'[p]]
               /\ cell'[p][grown'[p]][len'[p]] = <<c, file[c]>>
               /\ \A g \in Grown, i \in Cells : g <= grown[p] /\ i <= len[p]
                      => cell'[p][g][i] = cell[p][g][i]
               /\ \A q \in Parsers \ {p} :
                      /\ cell'[q] = cell[q]
                      /\ len'[q] = len[q]
                      /\ grown'[q] = grown[q]
<1> DEFINE p == own[c]
           full == len[p] = Capacity[grown[p]]
           array == IF full THEN grown[p] + 1 ELSE grown[p]
           base == IF full
                   THEN [i \in Cells |-> IF i <= len[p] THEN cell[p][grown[p]][i]
                                                        ELSE Nothing]
                   ELSE cell[p][grown[p]]
           written == [base EXCEPT ![len[p] + 1] = <<c, file[c]>>]
<1>1. pc[c] = "parsing" /\ len[p] < NodeCount[file[c]]
  BY DEF Allocate
<1>2. /\ p \in Parsers /\ file[c] \in Files
      /\ len[p] + 1 \in Cells
      /\ full => grown[p] + 1 \in Grown /\ len[p] + 1 <= Capacity[grown[p] + 1]
      /\ ~full => len[p] + 1 <= Capacity[grown[p]]
  BY <1>1, RoomToGrow
<1>3. /\ cell' = [cell EXCEPT ![p][array] = written]
      /\ grown' = [grown EXCEPT ![p] = array]
      /\ len' = [len EXCEPT ![p] = len[p] + 1]
  BY DEF Allocate, ArenaAlloc
<1>4. /\ len \in [Parsers -> Nat] /\ grown \in [Parsers -> Grown]
      /\ cell \in [Parsers -> [Grown -> [Cells -> CellContents]]]
  BY DEF IInv, TypeOK
<1>5. len[p] \in Nat /\ grown[p] \in Grown /\ array \in Grown
  BY <1>2, <1>4
<1>6. base \in [Cells -> CellContents]
  <2>1. cell[p][grown[p]] \in [Cells -> CellContents]
    BY <1>2, <1>4, <1>5
  <2>. QED
    BY <2>1
<1>7. <<c, file[c]>> \in CellContents
  BY <1>2
<1> HIDE DEF array, base
<1>8. written \in [Cells -> CellContents] /\ written[len[p] + 1] = <<c, file[c]>>
  BY <1>2, <1>6, <1>7
<1> HIDE DEF written
<1>9. /\ cell'[p][array] = written
      /\ cell' \in [Parsers -> [Grown -> [Cells -> CellContents]]]
      /\ \A q \in Parsers \ {p} : cell'[q] = cell[q]
      /\ \A g \in Grown \ {array} : cell'[p][g] = cell[p][g]
  BY <1>2, <1>3, <1>4, <1>5, <1>8
<1>10. /\ grown'[p] = array /\ len'[p] = len[p] + 1
       /\ grown' \in [Parsers -> Grown] /\ len' \in [Parsers -> Nat]
       /\ \A q \in Parsers \ {p} : len'[q] = len[q] /\ grown'[q] = grown[q]
  BY <1>2, <1>3, <1>4, <1>5
<1>11. ASSUME NEW g \in Grown, NEW i \in Cells, g <= grown[p], i <= len[p]
       PROVE  cell'[p][g][i] = cell[p][g][i]
  <2>1. CASE g # array
    BY <1>9, <2>1
  <2>2. CASE g = array
    <3>1. ~full /\ array = grown[p]
      BY <1>5, <1>11, <2>2 DEF array
    <3>2. base = cell[p][grown[p]]
      BY <3>1 DEF base
    <3>3. written[i] = base[i]
      BY <1>5, <1>6, <1>11 DEF written
    <3>. QED
      BY <1>9, <2>2, <3>1, <3>2, <3>3
  <2>. QED
    BY <2>1, <2>2
<1>12. array \in {grown[p], grown[p] + 1} /\ len[p] + 1 <= Capacity[array]
  BY <1>2 DEF array
<1>. QED
  BY <1>1, <1>2, <1>8, <1>9, <1>10, <1>11, <1>12

-----------------------------------------------------------------------------

\* An empty pool.
LEMMA InitIInv == Init => IInv
<1>. SUFFICES ASSUME Init PROVE IInv
  OBVIOUS
<1>1. TypeOK
  <2>1. 0 \in Grown
    BY ArenaAssumption
  <2>. QED
    BY <2>1 DEF Init, TypeOK, Blank
<1>2. ExclusiveParser /\ PcOK /\ OwnAST /\ ParseIntact
  BY DEF Init, ExclusiveParser, PcOK, OwnAST, ParseIntact
<1>3. LenOK
  <2>1. Capacity[0] \in Nat
    BY ArenaAssumption
  <2>. QED
    BY <2>1 DEF Init, LenOK
<1>. QED
  BY <1>1, <1>2, <1>3 DEF IInv

\* A parse begun with a pooled parser: no cell changes, the slice is empty.
LEMMA GetPooledIInv ==
    ASSUME IInv, NEW c \in Callers, NEW f \in Files, GetPooled(c, f)
    PROVE  IInv'
<1>1. PICK p \in pool : /\ pool' = pool \ {p}
                        /\ own' = [own EXCEPT ![c] = p]
                        /\ len' = [len EXCEPT ![p] = 0]
                        /\ UNCHANGED <<grown, cell>>
  BY DEF GetPooled, Take, Reset
<1>2. /\ pc[c] = "idle"
      /\ pc' = [pc EXCEPT ![c] = "parsing"]
      /\ file' = [file EXCEPT ![c] = f]
      /\ ast' = [ast EXCEPT ![c] = {}]
  BY DEF GetPooled
<1>3. p \in Parsers /\ p # Nothing
  BY NothingAssumption DEF IInv, TypeOK
<1>4. \A d \in Callers : own[d] # p
  BY DEF IInv, ExclusiveParser
<1>5. TypeOK'
  BY <1>1, <1>2, <1>3 DEF IInv, TypeOK
<1>6. ExclusiveParser'
  BY <1>1, <1>3, <1>4 DEF IInv, TypeOK, ExclusiveParser
<1>7. PcOK'
  BY <1>1, <1>2, <1>3 DEF IInv, TypeOK, PcOK
<1>8. LenOK'
  <2>1. \A q \in Parsers : Capacity[grown[q]] \in Nat
    BY ArenaAssumption DEF IInv, TypeOK
  <2>2. NodeCount[f] \in Nat
    BY FilesAssumption
  <2>. QED
    BY <1>1, <1>2, <1>3, <1>4, <2>1, <2>2 DEF IInv, TypeOK, LenOK
<1>9. OwnAST'
  BY <1>1, <1>2, <1>4 DEF IInv, TypeOK, OwnAST, PcOK
<1>10. ParseIntact'
  BY <1>1, <1>2 DEF IInv, TypeOK, ParseIntact, Deref
<1>. QED
  BY <1>5, <1>6, <1>7, <1>8, <1>9, <1>10 DEF IInv

\* A parse begun with a new parser: nobody had a pointer into its arrays.
LEMMA GetFreshIInv ==
    ASSUME IInv, NEW c \in Callers, NEW f \in Files, GetFresh(c, f)
    PROVE  IInv'
<1>1. PICK p \in Parsers : /\ Unreachable(p)
                           /\ own' = [own EXCEPT ![c] = p]
                           /\ len' = [len EXCEPT ![p] = 0]
                           /\ grown' = [grown EXCEPT ![p] = 0]
                           /\ cell' = [cell EXCEPT ![p] = Blank]
  BY DEF GetFresh
<1>2. /\ pc[c] = "idle"
      /\ pc' = [pc EXCEPT ![c] = "parsing"]
      /\ file' = [file EXCEPT ![c] = f]
      /\ ast' = [ast EXCEPT ![c] = {}]
      /\ UNCHANGED pool
  BY DEF GetFresh
<1>3. p # Nothing /\ p \notin pool
  BY <1>1, NothingAssumption DEF Unreachable
<1>4. \A d \in Callers : own[d] # p /\ \A ptr \in ast[d] : ptr.parser # p
  BY <1>1 DEF Unreachable
<1>5. 0 \in Grown /\ Capacity[0] \in Nat
  BY ArenaAssumption
<1>6. TypeOK'
  BY <1>1, <1>2, <1>5 DEF IInv, TypeOK, Blank
<1>7. ExclusiveParser'
  BY <1>1, <1>2, <1>3, <1>4 DEF IInv, TypeOK, ExclusiveParser
<1>8. PcOK'
  BY <1>1, <1>2, <1>3 DEF IInv, TypeOK, PcOK
<1>9. LenOK'
  <2>1. NodeCount[f] \in Nat
    BY FilesAssumption
  <2>. QED
    BY <1>1, <1>2, <1>4, <1>5, <2>1 DEF IInv, TypeOK, LenOK
<1>10. OwnAST'
  BY <1>1, <1>2, <1>4 DEF IInv, TypeOK, OwnAST
<1>11. ParseIntact'
  <2>1. SUFFICES ASSUME NEW d \in Callers, pc'[d] = "parsing", NEW ptr \in ast'[d]
                 PROVE  Deref(ptr)' = <<d, file'[d]>>
    BY DEF ParseIntact
  <2>2. d # c /\ ptr \in ast[d] /\ pc[d] = "parsing" /\ file'[d] = file[d]
    BY <1>2, <2>1 DEF IInv, TypeOK
  <2>3. ptr \in Pointers /\ ptr.parser # p
    BY <1>4, <2>2 DEF IInv, TypeOK
  <2>4. cell'[ptr.parser] = cell[ptr.parser]
    BY <1>1, <2>3 DEF IInv, TypeOK
  <2>. QED
    BY <2>2, <2>4 DEF IInv, ParseIntact, Deref
<1>. QED
  BY <1>6, <1>7, <1>8, <1>9, <1>10, <1>11 DEF IInv

\* One node allocated: the pointers taken before still show what they showed.
LEMMA AllocateIInv ==
    ASSUME IInv, NEW c \in Callers, Allocate(c)
    PROVE  IInv'
<1> DEFINE p == own[c]
           new == [parser |-> p, array |-> grown'[p], index |-> len'[p]]
<1>1. /\ len[p] < NodeCount[file[c]]
      /\ ast' = [ast EXCEPT ![c] = @ \cup {new}]
      /\ UNCHANGED <<pool, pc, file, own>>
  BY DEF Allocate
<1>2. /\ p \in Parsers
      /\ pc[c] = "parsing" /\ file[c] \in Files
      /\ cell' \in [Parsers -> [Grown -> [Cells -> CellContents]]]
      /\ grown' \in [Parsers -> Grown]
      /\ len' \in [Parsers -> Nat]
      /\ len'[p] = len[p] + 1 /\ len'[p] \in Cells
      /\ grown'[p] \in {grown[p], grown[p] + 1}
      /\ len'[p] <= Capacity[grown'[p]]
      /\ cell'[p][grown'[p]][len'[p]] = <<c, file[c]>>
      /\ \A g \in Grown, i \in Cells : g <= grown[p] /\ i <= len[p]
             => cell'[p][g][i] = cell[p][g][i]
      /\ \A q \in Parsers \ {p} :
             /\ cell'[q] = cell[q]
             /\ len'[q] = len[q]
             /\ grown'[q] = grown[q]
  BY AppendWrites
<1>3. new \in Pointers
  BY <1>2
<1>4. \A d \in Callers \ {c} : own[d] # p /\ ast'[d] = ast[d]
  BY <1>1, <1>2, NothingAssumption DEF IInv, TypeOK, ExclusiveParser
<1>5. len[p] \in Nat /\ grown[p] \in Grown
  BY <1>2 DEF IInv, TypeOK
<1>6. ast'[c] = ast[c] \cup {new}
  BY <1>1 DEF IInv, TypeOK
<1> HIDE DEF new
<1>7. TypeOK'
  BY <1>1, <1>2, <1>3 DEF IInv, TypeOK
<1>8. ExclusiveParser'
  BY <1>1 DEF IInv, ExclusiveParser
<1>9. PcOK'
  BY <1>1, <1>2, <1>4 DEF IInv, TypeOK, PcOK
<1>10. LenOK'
  <2>1. ASSUME NEW q \in Parsers PROVE len'[q] <= Capacity[grown'[q]]
    BY <1>2 DEF IInv, LenOK
  <2>2. ASSUME NEW d \in Callers, pc'[d] = "parsing"
        PROVE  len'[own'[d]] <= NodeCount[file'[d]]
    <3>1. CASE d = c
      <4>1. NodeCount[file[c]] \in Nat
        BY <1>2, FilesAssumption
      <4>. QED
        BY <1>1, <1>2, <1>5, <3>1, <4>1
    <3>2. CASE d # c
      <4>1. own[d] \in Parsers \ {p} /\ own'[d] = own[d] /\ pc[d] = "parsing"
        BY <1>1, <1>4, <2>2, <3>2 DEF IInv, TypeOK, PcOK
      <4>2. len'[own[d]] = len[own[d]]
        BY <1>2, <4>1
      <4>. QED
        BY <1>1, <4>1, <4>2 DEF IInv, LenOK
    <3>. QED
      BY <3>1, <3>2
  <2>. QED
    BY <2>1, <2>2 DEF LenOK
<1>11. OwnAST' /\ ParseIntact'
  <2>1. SUFFICES ASSUME NEW d \in Callers, pc'[d] = "parsing", NEW ptr \in ast'[d]
                 PROVE  /\ ptr.parser = own'[d]
                        /\ ptr.array <= grown'[own'[d]]
                        /\ ptr.index <= len'[own'[d]]
                        /\ Deref(ptr)' = <<d, file'[d]>>
    BY DEF OwnAST, ParseIntact
  <2>2. pc[d] = "parsing" /\ own'[d] = own[d] /\ file'[d] = file[d]
    BY <1>1, <2>1
  <2>3. CASE ptr \in ast[d]
    <3>1. /\ ptr \in Pointers
          /\ ptr.parser = own[d] /\ own[d] \in Parsers
          /\ ptr.array <= grown[own[d]]
          /\ ptr.index <= len[own[d]]
          /\ cell[ptr.parser][ptr.array][ptr.index] = <<d, file[d]>>
      BY <2>2, <2>3 DEF IInv, TypeOK, PcOK, OwnAST, ParseIntact, Deref
    <3>2. CASE own[d] = p
      <4>1. ptr.array \in Grown /\ ptr.index \in Cells
        BY <3>1
      <4>2. cell'[p][ptr.array][ptr.index] = cell[p][ptr.array][ptr.index]
        BY <1>2, <3>1, <3>2, <4>1
      <4>3. ptr.array <= grown'[p] /\ ptr.index <= len'[p]
        BY <1>2, <1>5, <3>1, <3>2, <4>1
      <4>. QED
        BY <2>2, <3>1, <3>2, <4>2, <4>3 DEF Deref
    <3>3. CASE own[d] # p
      BY <1>2, <2>2, <3>1, <3>3 DEF Deref
    <3>. QED
      BY <3>2, <3>3
  <2>4. CASE ptr \notin ast[d]
    <3>1. d = c /\ ptr = new
      BY <1>4, <1>6, <2>1, <2>4
    <3>2. ptr.parser = p /\ own'[d] = p
      BY <2>2, <3>1 DEF new
    <3>3. ptr.array <= grown'[p] /\ ptr.index <= len'[p]
      BY <1>2, <3>1 DEF new
    <3>4. cell'[ptr.parser][ptr.array][ptr.index] = <<d, file'[d]>>
      BY <1>2, <2>2, <3>1 DEF new
    <3>. QED
      BY <3>2, <3>3, <3>4 DEF Deref
  <2>. QED
    BY <2>3, <2>4
<1>. QED
  BY <1>7, <1>8, <1>9, <1>10, <1>11 DEF IInv

\* The parser returns to the pool, and its caller no longer owns it.
LEMMA FinishIInv ==
    ASSUME IInv, NEW c \in Callers, Finish(c)
    PROVE  IInv'
<1>1. /\ pc[c] = "parsing"
      /\ pool' = pool \cup {own[c]}
      /\ own' = [own EXCEPT ![c] = Nothing]
      /\ UNCHANGED <<len, grown, cell>>
  BY DEF Finish, PutBack, Parses
<1>2. \/ /\ file[c] \notin Broken /\ c \in Retainers
         /\ pc' = [pc EXCEPT ![c] = "using"]
         /\ UNCHANGED <<file, ast>>
      \/ /\ pc' = [pc EXCEPT ![c] = "idle"]
         /\ file' = [file EXCEPT ![c] = Nothing]
         /\ ast' = [ast EXCEPT ![c] = {}]
  BY DEF Finish, PutBack, Parses
<1>3. own[c] \in Parsers /\ file[c] \in Files
  BY <1>1 DEF IInv, TypeOK, PcOK
<1>4. TypeOK'
  BY <1>1, <1>2, <1>3 DEF IInv, TypeOK
<1>5. ExclusiveParser'
  BY <1>1, <1>3, NothingAssumption DEF IInv, TypeOK, ExclusiveParser
<1>6. PcOK'
  BY <1>1, <1>2, <1>3 DEF IInv, TypeOK, PcOK
<1>7. \A d \in Callers : pc'[d] = "parsing" =>
          /\ d # c /\ pc[d] = "parsing" /\ own'[d] = own[d]
          /\ file'[d] = file[d] /\ ast'[d] = ast[d]
  BY <1>1, <1>2 DEF IInv, TypeOK
<1>8. LenOK' /\ OwnAST'
  BY <1>1, <1>7 DEF IInv, LenOK, OwnAST
<1>9. ParseIntact'
  BY <1>1, <1>7 DEF IInv, ParseIntact, Deref
<1>. QED
  BY <1>4, <1>5, <1>6, <1>8, <1>9 DEF IInv

\* A caller that is done with its AST.
LEMMA DropIInv ==
    ASSUME IInv, NEW c \in Callers, Drop(c)
    PROVE  IInv'
<1>1. TypeOK'
  BY DEF IInv, TypeOK, Drop
<1>2. ExclusiveParser'
  BY DEF IInv, ExclusiveParser, Drop
<1>3. PcOK'
  BY DEF IInv, TypeOK, PcOK, Drop
<1>4. LenOK' /\ OwnAST'
  BY DEF IInv, TypeOK, LenOK, OwnAST, Drop
<1>5. ParseIntact'
  BY DEF IInv, TypeOK, ParseIntact, Deref, Drop
<1>. QED
  BY <1>1, <1>2, <1>3, <1>4, <1>5 DEF IInv

\* The garbage collector empties the pool.
LEMMA EvictIInv ==
    ASSUME IInv, NEW p \in Parsers, Evict(p)
    PROVE  IInv'
BY DEF IInv, TypeOK, ExclusiveParser, PcOK, LenOK, OwnAST, ParseIntact, Deref, Evict

\* Every step keeps the invariant.
LEMMA NextIInv == IInv /\ [Next]_vars => IInv'
<1>. SUFFICES ASSUME IInv, [Next]_vars PROVE IInv'
  OBVIOUS
<1>1. ASSUME NEW c \in Callers, NEW f \in Files, GetPooled(c, f) PROVE IInv'
  BY <1>1, GetPooledIInv
<1>2. ASSUME NEW c \in Callers, NEW f \in Files, GetFresh(c, f) PROVE IInv'
  BY <1>2, GetFreshIInv
<1>3. ASSUME NEW c \in Callers, Allocate(c) PROVE IInv'
  BY <1>3, AllocateIInv
<1>4. ASSUME NEW c \in Callers, Finish(c) PROVE IInv'
  BY <1>4, FinishIInv
<1>5. ASSUME NEW c \in Callers, Drop(c) PROVE IInv'
  BY <1>5, DropIInv
<1>6. ASSUME NEW p \in Parsers, Evict(p) PROVE IInv'
  BY <1>6, EvictIInv
<1>7. CASE UNCHANGED vars
  BY <1>7 DEF IInv, TypeOK, ExclusiveParser, PcOK, LenOK, OwnAST, ParseIntact,
              Deref, vars
<1>. QED
  BY <1>1, <1>2, <1>3, <1>4, <1>5, <1>6, <1>7 DEF Next

(***************************************************************************)
(* Type correctness of the pool, of every arena and of every caller.       *)
(***************************************************************************)
THEOREM TypeCorrect == Spec => []TypeOK
<1>1. IInv => TypeOK
  BY DEF IInv
<1>. QED
  BY <1>1, InitIInv, NextIInv, PTL DEF Spec

(***************************************************************************)
(* No parser is ever at work for two goroutines, or at work and in the     *)
(* pool: ParseFile needs no lock, as changelog/0.6.1.md says.              *)
(***************************************************************************)
THEOREM ParserIsExclusive == Spec => []ExclusiveParser
<1>1. IInv => ExclusiveParser
  BY DEF IInv
<1>. QED
  BY <1>1, InitIInv, NextIInv, PTL DEF Spec

(***************************************************************************)
(* The nodes of a parse under way are never overwritten, whatever other    *)
(* goroutines parse and however often the arena grows.                     *)
(***************************************************************************)
THEOREM ParseStaysIntact == Spec => []ParseIntact
<1>1. IInv => ParseIntact
  BY DEF IInv
<1>. QED
  BY <1>1, InitIInv, NextIInv, PTL DEF Spec

-----------------------------------------------------------------------------

(***************************************************************************)
(* A caller that keeps its AST is safe while nobody else parses or uses    *)
(* one: the AST in use is complete and intact.                             *)
(***************************************************************************)
Alone == \A c, d \in Callers : pc[c] = "using" /\ pc[d] # "idle" => d = c

WholeAST == \A c \in Callers : pc[c] = "using" => ast[c] # {}
PartialAST == \A c \in Callers : pc[c] = "parsing" =>
                  (len[own[c]] > 0 => ast[c] # {})

AInv == IInv /\ ASTIntact /\ WholeAST /\ PartialAST

\* SoleRetainer is one way to be alone: nobody else calls ParseFile at all.
LEMMA SoleIsAlone == ASSUME SoleRetainer, IInv PROVE Alone
<1>. SUFFICES ASSUME NEW c \in Callers, pc[c] = "using", NEW d \in Callers
              PROVE  d = c
  BY DEF Alone
<1>1. c \in Retainers
  BY DEF IInv, PcOK
<1>2. PICK e \in Callers : Callers = {e}
  BY <1>1 DEF SoleRetainer
<1>. QED
  BY ONLY <1>2, c \in Callers, d \in Callers

\* A step after which whoever uses an AST is alone changes no AST in use.
LEMMA NextAInv == ASSUME Alone', AInv, [Next]_vars PROVE AInv'
<1>. SUFFICES ASTIntact' /\ WholeAST' /\ PartialAST'
  BY NextIInv DEF AInv
<1>. IInv /\ IInv' /\ TypeOK
  BY NextIInv DEF AInv, IInv
<1>1. ASSUME NEW c \in Callers, NEW f \in Files, GetPooled(c, f)
      PROVE  ASTIntact' /\ WholeAST' /\ PartialAST'
  <2>1. PICK p \in pool : /\ own' = [own EXCEPT ![c] = p]
                          /\ len' = [len EXCEPT ![p] = 0]
                          /\ UNCHANGED cell
    BY <1>1 DEF GetPooled, Reset
  <2>2. \A d \in Callers : own[d] # p /\ p \in Parsers
    BY DEF IInv, ExclusiveParser, TypeOK
  <2>3. /\ pc[c] = "idle" /\ pc' = [pc EXCEPT ![c] = "parsing"]
        /\ file' = [file EXCEPT ![c] = f] /\ ast' = [ast EXCEPT ![c] = {}]
    BY <1>1 DEF GetPooled
  <2>4. ASTIntact' /\ WholeAST'
    BY <2>1, <2>3 DEF AInv, TypeOK, ASTIntact, WholeAST, Deref
  <2>5. PartialAST'
    BY <2>1, <2>2, <2>3 DEF AInv, IInv, PcOK, TypeOK, PartialAST
  <2>. QED
    BY <2>4, <2>5
<1>2. ASSUME NEW c \in Callers, NEW f \in Files, GetFresh(c, f)
      PROVE  ASTIntact' /\ WholeAST' /\ PartialAST'
  <2>1. PICK p \in Parsers : Unreachable(p) /\ own' = [own EXCEPT ![c] = p]
                             /\ len' = [len EXCEPT ![p] = 0]
    BY <1>2 DEF GetFresh
  <2>2. \A d \in Callers : own[d] # p
    BY <2>1 DEF Unreachable
  <2>3. /\ pc[c] = "idle" /\ pc' = [pc EXCEPT ![c] = "parsing"]
        /\ ast' = [ast EXCEPT ![c] = {}]
    BY <1>2 DEF GetFresh
  <2>4. \A d \in Callers : pc'[d] # "using"
    BY <2>3 DEF TypeOK, Alone
  <2>5. ASTIntact' /\ WholeAST'
    BY <2>4 DEF ASTIntact, WholeAST
  <2>6. PartialAST'
    BY <2>1, <2>2, <2>3 DEF AInv, IInv, PcOK, TypeOK, PartialAST
  <2>. QED
    BY <2>5, <2>6
<1>3. ASSUME NEW c \in Callers, Allocate(c)
      PROVE  ASTIntact' /\ WholeAST' /\ PartialAST'
  <2>1. /\ pc[c] = "parsing" /\ UNCHANGED <<pc, own>>
        /\ \A d \in Callers \ {c} : ast'[d] = ast[d]
        /\ ast'[c] # {}
    BY <1>3 DEF Allocate, TypeOK
  <2>2. \A d \in Callers : pc'[d] # "using"
    BY <2>1 DEF Alone
  <2>3. ASTIntact' /\ WholeAST'
    BY <2>2 DEF ASTIntact, WholeAST
  <2>4. PartialAST'
    <3>1. SUFFICES ASSUME NEW d \in Callers \ {c}, pc[d] = "parsing", len'[own[d]] > 0
                   PROVE  ast[d] # {}
      BY <2>1 DEF PartialAST
    <3>2. own[d] \in Parsers \ {own[c]}
      BY <2>1, <3>1 DEF IInv, TypeOK, PcOK, ExclusiveParser
    <3>3. len'[own[d]] = len[own[d]]
      BY <1>3, <3>2, AppendWrites
    <3>. QED
      BY <3>1, <3>3 DEF AInv, PartialAST
  <2>. QED
    BY <2>3, <2>4
<1>4. ASSUME NEW c \in Callers, Finish(c)
      PROVE  ASTIntact' /\ WholeAST' /\ PartialAST'
  <2>1. /\ pc[c] = "parsing" /\ len[own[c]] = NodeCount[file[c]]
        /\ own' = [own EXCEPT ![c] = Nothing]
        /\ UNCHANGED <<len, grown, cell>>
    BY <1>4 DEF Finish, PutBack, Parses
  <2>2. \/ /\ file[c] \notin Broken /\ c \in Retainers
           /\ pc' = [pc EXCEPT ![c] = "using"]
           /\ UNCHANGED <<file, ast>>
        \/ /\ pc' = [pc EXCEPT ![c] = "idle"]
           /\ file' = [file EXCEPT ![c] = Nothing]
           /\ ast' = [ast EXCEPT ![c] = {}]
    BY <1>4 DEF Finish, PutBack, Parses
  <2>3. ASTIntact'
    <3>1. SUFFICES ASSUME NEW d \in Callers, pc'[d] = "using", NEW ptr \in ast'[d]
                   PROVE  Deref(ptr)' = <<d, file'[d]>>
      BY DEF ASTIntact
    <3>2. /\ ptr \in ast[d] /\ file'[d] = file[d]
          /\ pc[d] \in {"parsing", "using"}
      BY <2>1, <2>2, <3>1 DEF TypeOK
    <3>3. Deref(ptr) = <<d, file[d]>>
      BY <3>2 DEF AInv, IInv, ASTIntact, ParseIntact
    <3>. QED
      BY <2>1, <3>2, <3>3 DEF Deref
  <2>4. WholeAST'
    <3>1. file[c] \in Files \ Broken => NodeCount[file[c]] > 0
      BY FilesAssumption
    <3>2. file[c] \in Files
      BY <2>1 DEF IInv, PcOK
    <3>3. file[c] \notin Broken => ast[c] # {}
      BY <2>1, <3>1, <3>2 DEF AInv, PartialAST
    <3>. QED
      BY <2>1, <2>2, <3>3 DEF AInv, TypeOK, WholeAST
  <2>5. PartialAST'
    BY <2>1, <2>2 DEF AInv, TypeOK, PartialAST
  <2>. QED
    BY <2>3, <2>4, <2>5
<1>5. ASSUME NEW c \in Callers, Drop(c)
      PROVE  ASTIntact' /\ WholeAST' /\ PartialAST'
  BY <1>5 DEF AInv, TypeOK, ASTIntact, WholeAST, PartialAST, Deref, Drop
<1>6. ASSUME NEW p \in Parsers, Evict(p)
      PROVE  ASTIntact' /\ WholeAST' /\ PartialAST'
  BY <1>6 DEF AInv, ASTIntact, WholeAST, PartialAST, Deref, Evict
<1>7. CASE UNCHANGED vars
  BY <1>7 DEF AInv, ASTIntact, WholeAST, PartialAST, Deref, vars
<1>. QED
  BY <1>1, <1>2, <1>3, <1>4, <1>5, <1>6, <1>7 DEF Next

\* No AST is in use.
LEMMA InitAInv == ASSUME Init PROVE AInv
  BY InitIInv DEF AInv, Init, ASTIntact, WholeAST, PartialAST

(***************************************************************************)
(* With SoleRetainer the AST a caller uses is never changed under it: the  *)
(* "parse -> process -> discard" rule of the comment on stmtParserPool, with *)
(* its silent condition (nobody else parses meanwhile) made explicit.      *)
(***************************************************************************)
THEOREM ASTStaysIntact == ASSUME SoleRetainer PROVE Spec => []ASTIntact
<1>1. AInv => ASTIntact
  BY DEF AInv
<1>2. AInv => IInv
  BY DEF AInv
<1>3. IInv => Alone
  BY SoleIsAlone
<1>4. AInv /\ [Next]_vars => AInv'
  BY <1>2, <1>3, NextIInv, NextAInv, PTL
<1>. QED
  BY <1>1, <1>4, InitAInv, PTL DEF Spec

\* Every step of the pool is a step of ParseCalls or changes nothing it shows.
LEMMA StepRefines ==
    ASSUME Alone', AInv, [Next]_vars
    PROVE  [Promise!Next]_(Promise!vars)
<1>. AInv' /\ IInv /\ TypeOK
  BY NextAInv DEF AInv, IInv
<1>. USE DEF Promise!Next, Promise!vars
<1>1. ASSUME NEW c \in Callers, NEW f \in Files, GetPooled(c, f) \/ GetFresh(c, f)
      PROVE  Promise!Call(c, f)
  <2>1. /\ pc[c] = "idle" /\ pc' = [pc EXCEPT ![c] = "parsing"]
        /\ file' = [file EXCEPT ![c] = f]
    BY <1>1 DEF GetPooled, GetFresh
  <2>2. UNCHANGED view
    <3>1. CASE GetPooled(c, f)
      <4>1. /\ UNCHANGED cell
            /\ \A d \in Callers :
                   \/ pc[d] = "using" /\ pc'[d] = "using" /\ ast'[d] = ast[d]
                   \/ pc[d] # "using" /\ pc'[d] # "using"
        BY <2>1, <3>1 DEF GetPooled, Reset, TypeOK
      <4>2. \A d \in Callers : view'[d] = view[d]
        <5>. TAKE d \in Callers
        <5>1. CASE pc[d] = "using"
          BY <4>1, <5>1 DEF view, Deref
        <5>2. CASE pc[d] # "using"
          BY <4>1, <5>2 DEF view
        <5>. QED
          BY <5>1, <5>2
      <4>. QED
        BY <4>2 DEF view
    <3>2. CASE GetFresh(c, f)
      <4>1. \A d \in Callers : pc[d] # "using" /\ pc'[d] # "using"
        BY <2>1 DEF TypeOK, Alone
      <4>. QED
        BY <4>1 DEF view
    <3>. QED
      BY <1>1, <3>1, <3>2
  <2>. QED
    BY <2>1, <2>2 DEF Promise!Call
<1>2. ASSUME NEW c \in Callers, Allocate(c)
      PROVE  UNCHANGED <<pc, file, view>>
  <2>1. pc[c] = "parsing" /\ UNCHANGED <<pc, file>>
    BY <1>2 DEF Allocate
  <2>2. \A d \in Callers : pc[d] # "using" /\ pc'[d] # "using"
    BY <2>1 DEF Alone
  <2>. QED
    BY <2>1, <2>2 DEF view
<1>3. ASSUME NEW c \in Callers, Finish(c)
      PROVE  Promise!ReturnNone(c) \/ Promise!ReturnAST(c)
  <2>1. /\ pc[c] = "parsing" /\ UNCHANGED cell
        /\ pc \in [Callers -> {"idle", "parsing", "using"}]
    BY <1>3 DEF Finish, PutBack, TypeOK
  <2>2. CASE file[c] \notin Broken /\ c \in Retainers
    <3>1. pc' = [pc EXCEPT ![c] = "using"] /\ UNCHANGED <<file, ast>>
      BY <1>3, <2>2 DEF Finish, PutBack, Parses
    <3>2. view'[c] = {<<c, file[c]>>}
      <4>1. pc'[c] = "using" /\ file'[c] = file[c]
        BY <2>1, <3>1
      <4>2. ast'[c] # {} /\ \A ptr \in ast'[c] : Deref(ptr)' = <<c, file[c]>>
        BY <4>1 DEF AInv, ASTIntact, WholeAST
      <4>. QED
        BY <4>1, <4>2 DEF view
    <3>3. \A d \in Callers \ {c} : view'[d] = view[d]
      BY <2>1, <3>1 DEF view, Deref
    <3>4. view' = [view EXCEPT ![c] = {<<c, file[c]>>}]
      BY <3>2, <3>3 DEF view
    <3>. QED
      BY <2>1, <2>2, <3>1, <3>4 DEF Promise!ReturnAST
  <2>3. CASE ~(file[c] \notin Broken /\ c \in Retainers)
    <3>1. /\ pc' = [pc EXCEPT ![c] = "idle"]
          /\ file' = [file EXCEPT ![c] = Nothing]
          /\ ast' = [ast EXCEPT ![c] = {}]
      BY <1>3, <2>3 DEF Finish, PutBack, Parses
    <3>2. UNCHANGED view
      BY <2>1, <3>1 DEF TypeOK, view, Deref
    <3>. QED
      BY <2>1, <2>3, <3>1, <3>2 DEF Promise!ReturnNone
  <2>. QED
    BY <2>2, <2>3
<1>4. ASSUME NEW c \in Callers, Drop(c)
      PROVE  Promise!Drop(c)
  <2>1. /\ pc[c] = "using" /\ pc' = [pc EXCEPT ![c] = "idle"]
        /\ file' = [file EXCEPT ![c] = Nothing]
        /\ ast' = [ast EXCEPT ![c] = {}]
        /\ UNCHANGED cell
    BY <1>4 DEF Drop
  <2>2. view' = [view EXCEPT ![c] = {}]
    BY <2>1 DEF TypeOK, view, Deref
  <2>. QED
    BY <2>1, <2>2 DEF Promise!Drop
<1>5. ASSUME NEW p \in Parsers, Evict(p)
      PROVE  UNCHANGED <<pc, file, view>>
  BY <1>5 DEF Evict, view, Deref
<1>6. CASE UNCHANGED vars
  BY <1>6 DEF vars, view, Deref
<1>. QED
  BY <1>1, <1>2, <1>3, <1>4, <1>5, <1>6 DEF Next

(***************************************************************************)
(* ParseFile with its pool implements ParseCalls for every number of       *)
(* goroutines that drop their ASTs, and for one that keeps them: the shape *)
(* of check, bench, dump, symbols, diag, the LSP and lint --jobs 1.        *)
(***************************************************************************)
THEOREM PoolImplementsParseCalls ==
    ASSUME SoleRetainer PROVE Spec => ImplementsParseCalls
<1>1. Init => Promise!Init
  BY DEF Init, Promise!Init, view
<1>2. AInv => IInv
  BY DEF AInv
<1>3. IInv => Alone
  BY SoleIsAlone
<1>4. AInv /\ [Next]_vars => AInv'
  BY <1>2, <1>3, NextIInv, NextAInv, PTL
<1>5. Alone' /\ AInv /\ [Next]_vars => [Promise!Next]_(Promise!vars)
  BY StepRefines
<1>6. AInv /\ [Next]_vars => [Promise!Next]_(Promise!vars)
  BY <1>2, <1>3, <1>5, NextIInv, PTL
<1>. QED
  BY <1>1, <1>4, <1>6, InitAInv, PTL DEF Spec, ImplementsParseCalls, Promise!Spec
=============================================================================
