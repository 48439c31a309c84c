---------------------------- MODULE Blocks_proofs ----------------------------
(***************************************************************************)
(* Theorems about Blocks for every file, of any length and depth.          *)
(***************************************************************************)
EXTENDS Blocks, FiniteSetTheorems, SequenceTheorems, WellFoundedInduction, TLAPS

-----------------------------------------------------------------------------
(* Recursion.                                                              *)

\* A set of numbers has a first one.
LEMMA FirstOf ==
    ASSUME NEW T, T \subseteq Nat, T # {}
    PROVE  \E s \in T : \A t \in T : s <= t
<1>1. PICK s \in T : \A t \in T : <<t, s>> \notin OpToRel(<, Nat)
  BY WFMin, NatLessThanWellFounded
<1>2. \A t \in T : t \in Nat /\ s \in Nat /\ ~(t < s)
  BY <1>1 DEF OpToRel
<1>. QED
  BY <1>2

(***************************************************************************)
(* The loops of the scanners are functions of one kind: where a loop stops *)
(* the value is given, elsewhere it is the value at up[s], which is nearer *)
(* to the end of the file.  Such a function exists.                        *)
(***************************************************************************)
Descends(S, stop, up, size) ==
    /\ size \in [S -> Nat]
    /\ \A s \in S : s \notin stop => up[s] \in S /\ size[up[s]] < size[s]

Loops(f, S, stop, value, up) ==
    f = [s \in S |-> IF s \in stop THEN value[s] ELSE f[up[s]]]

\* What holds where a loop stops, and after a round if it does before, holds everywhere.
LEMMA LoopInduction ==
    ASSUME NEW S, NEW stop, NEW up, NEW size, Descends(S, stop, up, size),
           NEW T, \A s \in S : (s \in stop \/ up[s] \in T) => s \in T
    PROVE  \A s \in S : s \in T
<1> DEFINE B == {size[s] : s \in S \ T}
<1>1. SUFFICES ASSUME B # {} PROVE FALSE
  OBVIOUS
<1>2. PICK k \in B : \A j \in B : k <= j
  <2>1. B \subseteq Nat
    BY DEF Descends
  <2> HIDE DEF B
  <2>. QED
    BY <1>1, <2>1, FirstOf
<1>3. PICK s \in S \ T : k = size[s]
  OBVIOUS
<1>4. s \notin stop /\ up[s] \notin T
  BY <1>3
<1>5. up[s] \in S \ T /\ size[up[s]] < size[s]
  BY <1>3, <1>4 DEF Descends
<1>6. size[up[s]] \in B
  BY <1>5
<1>7. k <= size[up[s]] /\ size[up[s]] \in Nat /\ size[s] \in Nat
  BY <1>2, <1>3, <1>5, <1>6 DEF Descends
<1>. QED
  BY <1>3, <1>5, <1>7

\* By the first size up to which there is none.
LEMMA LoopExists ==
    ASSUME NEW S, NEW stop, NEW value, NEW up, NEW size, Descends(S, stop, up, size)
    PROVE  \E f : Loops(f, S, stop, value, up)
<1> DEFINE Upto(k) == {s \in S : size[s] <= k}
           Solves(f, k) ==
               \A s \in Upto(k) : f[s] = IF s \in stop THEN value[s] ELSE f[up[s]]
           T == {k \in Nat : ~ \E f : Solves(f, k)}
<1>0. \A s \in S : size[s] \in Nat
  BY DEF Descends
<1>1. ASSUME NEW s \in S, s \notin stop PROVE up[s] \in S /\ size[up[s]] < size[s]
  BY <1>1 DEF Descends
<1>2. T = {}
  <2>1. SUFFICES ASSUME T # {} PROVE FALSE
    OBVIOUS
  <2>2. PICK k \in T : \A j \in T : k <= j
    <3>1. T \subseteq Nat
      OBVIOUS
    <3> HIDE DEF T
    <3>. QED
      BY <2>1, <3>1, FirstOf
  <2>3. k \in Nat /\ \A f : ~Solves(f, k)
    OBVIOUS
  <2>4. PICK f : \A s \in Upto(k) : size[s] < k => f[s] = IF s \in stop THEN value[s] ELSE f[up[s]]
    <3>1. CASE k = 0
      BY <1>0, <3>1
    <3>2. CASE k # 0
      <4>1. k - 1 \in Nat /\ k - 1 < k
        BY <2>3, <3>2
      <4>2. PICK f : Solves(f, k - 1)
        BY <2>2, <4>1
      <4>3. \A s \in Upto(k) : size[s] < k => s \in Upto(k - 1)
        BY <1>0, <2>3, <4>1
      <4>. QED
        BY <4>2, <4>3
    <3>. QED
      BY <3>1, <3>2
  <2> DEFINE g == [s \in S |-> IF size[s] < k THEN f[s]
                               ELSE IF s \in stop THEN value[s] ELSE f[up[s]]]
  <2>5. ASSUME NEW s \in Upto(k) PROVE g[s] = IF s \in stop THEN value[s] ELSE g[up[s]]
    <3>1. s \in S /\ size[s] <= k /\ size[s] \in Nat
      BY <1>0
    <3>2. s \notin stop => up[s] \in S /\ size[up[s]] < size[s] /\ size[up[s]] \in Nat
      BY <1>0, <1>1, <3>1
    <3>3. s \notin stop => g[up[s]] = f[up[s]]
      BY <2>3, <3>1, <3>2
    <3>4. g[s] = IF s \in stop THEN value[s] ELSE f[up[s]]
      BY <2>4, <3>1
    <3>. QED
      BY <3>3, <3>4
  <2>. QED
    BY <2>3, <2>5
<1>3. \A k \in Nat : \E f : Solves(f, k)
  BY <1>2
\* The solutions up to each size agree.
<1>4. ASSUME NEW j \in Nat, NEW k \in Nat, j <= k, NEW f, NEW g, Solves(f, j), Solves(g, k)
      PROVE  \A s \in Upto(j) : f[s] = g[s]
  <2> DEFINE E == {s \in S : size[s] <= j => f[s] = g[s]}
  <2>1. ASSUME NEW s \in S, s \in stop \/ up[s] \in E PROVE s \in E
    <3>1. CASE ~(size[s] <= j)
      BY <3>1
    <3>2. CASE size[s] <= j
      <4>1. size[s] <= k /\ (s \notin stop => size[up[s]] <= j)
        BY <1>0, <1>1, <1>4, <3>2
      <4>2. s \in Upto(j) /\ s \in Upto(k)
        BY <3>2, <4>1
      <4>3. /\ f[s] = IF s \in stop THEN value[s] ELSE f[up[s]]
            /\ g[s] = IF s \in stop THEN value[s] ELSE g[up[s]]
        BY <1>4, <4>2
      <4>. QED
        BY <2>1, <4>1, <4>3
    <3>. QED
      BY <3>1, <3>2
  <2> HIDE DEF E
  <2>2. \A s \in S : s \in E
    BY <2>1, LoopInduction
  <2>. QED
    BY <2>2 DEF E
<1> DEFINE sol == [k \in Nat |-> CHOOSE f : Solves(f, k)]
           F == [s \in S |-> sol[size[s]][s]]
<1>5. \A k \in Nat : Solves(sol[k], k)
  BY <1>3
<1> HIDE DEF sol, Solves
<1>6. ASSUME NEW s \in S PROVE F[s] = IF s \in stop THEN value[s] ELSE F[up[s]]
  <2>1. size[s] \in Nat /\ Solves(sol[size[s]], size[s]) /\ s \in Upto(size[s])
    BY <1>0, <1>5
  <2>2. F[s] = IF s \in stop THEN value[s] ELSE sol[size[s]][up[s]]
    BY <2>1 DEF Solves
  <2>3. ASSUME s \notin stop PROVE F[up[s]] = sol[size[s]][up[s]]
    <3>1. /\ up[s] \in S /\ size[up[s]] \in Nat /\ size[up[s]] <= size[s]
          /\ up[s] \in Upto(size[up[s]])
      BY <1>0, <1>1, <2>3
    <3>2. sol[size[up[s]]][up[s]] = sol[size[s]][up[s]]
      BY <1>4, <1>5, <2>1, <3>1
    <3>. QED
      BY <3>1, <3>2
  <2>. QED
    BY <2>2, <2>3
<1> HIDE DEF F
<1>7. F = [s \in S |-> F[s]]
  BY DEF F
<1>8. Loops(F, S, stop, value, up)
  BY <1>6, <1>7 DEF Loops
<1>. QED
  BY <1>8

-----------------------------------------------------------------------------
(* Offsets.                                                                *)

Ends == Len(src) + 1
Text == src \in Seq(Chars)

\* A name or a bracket that is not in a comment.
Significant(i) == src[i] \in {"x", "(", ")"} /\ ~InComment(i)

\* No comment that begins before offset i goes on there.
Clear(i) == \A j \in 1 .. i - 1 : src[j] = "h" => EndOfLine(j) <= i

(***************************************************************************)
(* From offset i a scanner may go on at k: it passes over nothing that     *)
(* counts, and does not end up in a comment.                               *)
(***************************************************************************)
Skips(i, k) ==
    /\ i \in 1 .. Ends /\ k \in i .. Ends
    /\ \A j \in i .. k - 1 : ~Significant(j)
    /\ Clear(i) => Clear(k)

\* What is at an offset.
LEMMA AtIs ==
    ASSUME Text
    PROVE  /\ Len(src) \in Nat /\ Ends \in Nat
           /\ \A i \in 1 .. Len(src) : At(i) = src[i] /\ src[i] \in Chars /\ At(i) # "eof"
           /\ \A i \in Nat : At(i) \in Chars \cup {"eof"}
           /\ \A i \in 1 .. Ends : At(i) = "eof" <=> i = Ends
           /\ \A i \in 1 .. Ends : At(i) # "eof" => i \in 1 .. Len(src) /\ i + 1 \in 1 .. Ends
           /\ \A i \in Nat : i >= Ends => At(i) = "eof"
  BY DEF Text, At, Ends, Chars

\* A line ends at its first end of line or at the end of the file.
LEMMA EndOfLineIs ==
    ASSUME Text, NEW i \in 1 .. Ends
    PROVE  /\ EndOfLine(i) \in i .. Ends
           /\ At(EndOfLine(i)) \in {"n", "eof"}
           /\ \A k \in i .. EndOfLine(i) - 1 : At(k) \notin {"n", "eof"}
<1> DEFINE E == {j \in i .. Ends : At(j) \in {"n", "eof"}}
<1>1. E \subseteq Nat /\ E # {}
  BY AtIs
<1>2. PICK e \in E : \A j \in E : e <= j
  BY <1>1, FirstOf
<1>3. EndOfLine(i) \in E /\ \A j \in E : EndOfLine(i) <= j
  BY <1>2 DEF EndOfLine, Min, Ends
<1>4. ASSUME NEW k \in i .. EndOfLine(i) - 1 PROVE At(k) \notin {"n", "eof"}
  BY <1>3, AtIs
<1>. QED
  BY <1>3, <1>4

\* It is the end of the line of every offset on the way.
LEMMA EndOfLineSame ==
    ASSUME Text, NEW i \in 1 .. Ends, NEW k \in i .. EndOfLine(i)
    PROVE  EndOfLine(k) = EndOfLine(i)
<1>1. k \in 1 .. Ends /\ EndOfLine(i) \in Nat
  BY EndOfLineIs, AtIs
<1>2. EndOfLine(k) \in k .. Ends /\ EndOfLine(i) \in i .. Ends
  BY <1>1, EndOfLineIs
<1>3. ASSUME EndOfLine(k) < EndOfLine(i) PROVE FALSE
  <2>1. EndOfLine(k) \in i .. EndOfLine(i) - 1
    BY <1>1, <1>2, <1>3, AtIs
  <2>2. At(EndOfLine(k)) \in {"n", "eof"}
    BY <1>1, EndOfLineIs
  <2>. QED
    BY <2>1, <2>2, EndOfLineIs
<1>4. ~(EndOfLine(i) < EndOfLine(k))
  BY <1>1, <1>2, EndOfLineIs, AtIs
<1>. QED
  BY <1>2, <1>3, <1>4, AtIs

\* Going on is transitive.
LEMMA SkipsOn == ASSUME Text, NEW i, NEW j, NEW k, Skips(i, j), Skips(j, k) PROVE Skips(i, k)
<1>1. i \in Nat /\ j \in Nat /\ k \in Nat /\ Ends \in Nat
  BY AtIs DEF Skips
<1>. QED
  BY <1>1 DEF Skips

\* Where no comment begins, none goes on.
LEMMA ClearOn ==
    ASSUME Text, NEW i \in 1 .. Ends, NEW k \in i .. Ends, \A j \in i .. k - 1 : src[j] # "h",
           Clear(i)
    PROVE  Clear(k)
<1>1. ASSUME NEW j \in 1 .. k - 1, src[j] = "h" PROVE EndOfLine(j) <= k
  <2>1. j \in 1 .. i - 1 /\ j \in 1 .. Ends
    BY <1>1, AtIs
  <2>2. EndOfLine(j) \in j .. Ends /\ EndOfLine(j) <= i
    BY <1>1, <2>1, EndOfLineIs DEF Clear
  <2>. QED
    BY <2>2, AtIs
<1>. QED
  BY <1>1 DEF Clear

\* White space, the end of a line, a continued line and a comment are passed over.
LEMMA PastSkips ==
    ASSUME Text, NEW i \in 1 .. Ends,
           At(i) \in {"s", "t", "f", "n", "h"} \/ Continued(i)
    PROVE  Skips(i, Past(i)) /\ Past(i) > i
<1>1. i \in 1 .. Len(src) /\ i + 1 \in 1 .. Ends /\ At(i) = src[i]
  BY AtIs DEF Continued
<1>2. CASE Continued(i)
  <2>1. i + 1 \in 1 .. Len(src) /\ src[i] = "b" /\ src[i + 1] = "n" /\ Past(i) = i + 2
    BY <1>1, <1>2, AtIs DEF Continued, Past
  <2>2. Clear(i) => Clear(i + 2)
    BY <1>1, <2>1, AtIs, ClearOn
  <2>. QED
    BY <1>1, <2>1, <2>2, AtIs DEF Skips, Significant, Ends
<1>3. CASE At(i) = "h"
  <2> DEFINE e == EndOfLine(i)
  <2>1. Past(i) = e /\ e \in i .. Ends /\ e # i
    BY <1>3, EndOfLineIs DEF Past, Continued
  <2>2. \A j \in i .. e - 1 : ~Significant(j)
    BY <1>1, <1>3, <2>1, AtIs DEF Significant, InComment
  <2>3. ASSUME Clear(i) PROVE Clear(e)
    <3>1. ASSUME NEW j \in 1 .. e - 1, src[j] = "h" PROVE EndOfLine(j) <= e
      <4>1. CASE j < i
        <5>1. j \in 1 .. i - 1 /\ j \in 1 .. Ends
          BY <1>1, <2>1, <3>1, <4>1, AtIs
        <5>2. EndOfLine(j) \in j .. Ends /\ EndOfLine(j) <= i
          BY <2>3, <3>1, <5>1, EndOfLineIs DEF Clear
        <5>. QED
          BY <2>1, <5>2, AtIs
      <4>2. CASE ~(j < i)
        <5>1. j \in i .. e
          BY <2>1, <3>1, <4>2, AtIs
        <5>2. EndOfLine(j) = e
          BY <5>1, EndOfLineSame
        <5>. QED
          BY <2>1, <5>2, AtIs
      <4>. QED
        BY <4>1, <4>2
    <3>. QED
      BY <3>1 DEF Clear
  <2>. QED
    BY <2>1, <2>2, <2>3, AtIs DEF Skips
<1>4. CASE At(i) \in {"s", "t", "f", "n"}
  <2>1. Past(i) = i + 1
    BY <1>4 DEF Past, Continued
  <2>2. Clear(i) => Clear(i + 1)
    BY <1>1, <1>4, AtIs, ClearOn
  <2>. QED
    BY <1>1, <1>4, <2>1, <2>2, AtIs DEF Skips, Significant
<1>. QED
  BY <1>2, <1>3, <1>4

\* A name or a bracket outside of comments is significant, and the offset after it is clear.
LEMMA TokenCounts ==
    ASSUME Text, NEW i \in 1 .. Ends, At(i) \in {"x", "(", ")"}, Clear(i)
    PROVE  Significant(i) /\ Clear(i + 1) /\ src[i] = At(i) /\ i \in 1 .. Len(src)
<1>1. i \in 1 .. Len(src) /\ At(i) = src[i]
  BY AtIs
<1>2. Clear(i + 1)
  BY <1>1, AtIs, ClearOn
<1>3. ASSUME NEW j \in 1 .. i, src[j] = "h", EndOfLine(j) > i PROVE FALSE
  <2>1. j \in 1 .. i - 1 /\ j \in 1 .. Ends
    BY <1>1, <1>3, AtIs
  <2>2. EndOfLine(j) \in j .. Ends /\ EndOfLine(j) <= i
    BY <1>3, <2>1, EndOfLineIs DEF Clear
  <2>. QED
    BY <1>1, <1>3, <2>2, AtIs
<1>. QED
  BY <1>1, <1>2, <1>3 DEF Significant, InComment

-----------------------------------------------------------------------------
(* The loops: each of them ends, past what does not count.                 *)

\* What is left of the file from offset i on.
Left(i) == IF i < Ends THEN Ends - i ELSE 0

\* It goes down with every step.
LEMMA LeftIs ==
    ASSUME Text
    PROVE  /\ \A i \in Nat : Left(i) \in Nat
           /\ \A i \in 1 .. Ends, k \in 1 .. Ends : i < k => Left(k) < Left(i)
  BY AtIs DEF Left

\* Whatever is not past the end is nearer to it after a step.
LEMMA LeftLess ==
    ASSUME Text, NEW i \in Nat, At(i) # "eof", NEW k \in Nat, i < k
    PROVE  Left(i) \in Nat /\ Left(k) \in Nat /\ Left(k) < Left(i)
<1>1. i < Ends
  BY AtIs
<1>. QED
  BY <1>1, AtIs DEF Left

\* The white space before a line.
LEMMA MeasureIs ==
    ASSUME Text
    PROVE  /\ \A m \in Leading :
                  Measure[m] =
                      IF At(m.off) \in {"s", "t", "f"} THEN Measure[Widened(m)] ELSE m
           /\ \A m \in Leading : m.off \in 1 .. Ends =>
                  /\ Measure[m] \in Leading
                  /\ Skips(m.off, Measure[m].off)
                  /\ At(Measure[m].off) \notin {"s", "t", "f"}
<1> DEFINE stop == {m \in Leading : At(m.off) \notin {"s", "t", "f"}}
           value == [m \in Leading |-> m]
           up == [m \in Leading |-> Widened(m)]
           size == [m \in Leading |-> Left(m.off)]
<1>1. \A m \in Leading : Widened(m) \in Leading /\ Widened(m).off = m.off + 1 /\ m.off \in Nat
  BY DEF Leading, Widened, TabStop
<1>2. Descends(Leading, stop, up, size)
  <2>1. \A m \in Leading : Left(m.off) \in Nat
    BY <1>1, LeftIs
  <2>2. ASSUME NEW m \in Leading, m \notin stop PROVE Left(Widened(m).off) < Left(m.off)
    BY <1>1, <2>2, LeftLess
  <2>. QED
    BY <1>1, <2>1, <2>2 DEF Descends
<1>3. Measure = [m \in Leading |-> IF At(m.off) \in {"s", "t", "f"} THEN Measure[Widened(m)] ELSE m]
  <2>1. PICK f : Loops(f, Leading, stop, value, up)
    <3> HIDE DEF stop, value, up, size
    <3>. QED
      BY <1>2, LoopExists
  <2>2. f = [m \in Leading |-> IF At(m.off) \in {"s", "t", "f"} THEN f[Widened(m)] ELSE m]
    BY <2>1 DEF Loops
  <2>. QED
    BY <2>2 DEF Measure
<1>4. \A m \in Leading :
          Measure[m] = IF At(m.off) \in {"s", "t", "f"} THEN Measure[Widened(m)] ELSE m
  BY <1>3
<1> DEFINE T == {m \in Leading : m.off \in 1 .. Ends =>
                     /\ Measure[m] \in Leading
                     /\ Skips(m.off, Measure[m].off)
                     /\ At(Measure[m].off) \notin {"s", "t", "f"}}
<1>5. ASSUME NEW m \in Leading, m \in stop \/ up[m] \in T PROVE m \in T
  <2>1. CASE m \in stop
    BY <1>1, <1>4, <2>1 DEF Skips
  <2>2. CASE m \notin stop
    <3> SUFFICES ASSUME m.off \in 1 .. Ends
                 PROVE  /\ Measure[m] \in Leading
                        /\ Skips(m.off, Measure[m].off)
                        /\ At(Measure[m].off) \notin {"s", "t", "f"}
      OBVIOUS
    <3>1. Past(m.off) = m.off + 1 /\ Skips(m.off, m.off + 1)
      BY <2>2, PastSkips DEF Past, Continued
    <3>2. Widened(m) \in T /\ Widened(m).off \in 1 .. Ends
      BY <1>1, <1>5, <2>2, <3>1 DEF Skips
    <3>3. Skips(m.off + 1, Measure[m].off) /\ Measure[m] = Measure[Widened(m)]
      BY <1>1, <1>4, <2>2, <3>2
    <3>. QED
      BY <3>1, <3>2, <3>3, SkipsOn
  <2>. QED
    BY <2>1, <2>2
<1> HIDE DEF T, stop, up, size, value
<1>6. \A m \in Leading : m \in T
  BY <1>2, <1>5, LoopInduction
<1>. QED
  BY <1>4, <1>6 DEF T

\* What is at the offset is past, or it stays.
Passes(i) == At(i) \in {"s", "t", "f", "n", "h"} \/ Continued(i)

\* Past leads on.
LEMMA PastIs ==
    ASSUME Text, NEW i \in Nat, Passes(i)
    PROVE  /\ At(i) # "eof" /\ i \in 1 .. Len(src)
           /\ Past(i) \in 1 .. Ends /\ i < Past(i) /\ Skips(i, Past(i))
           /\ Left(i) \in Nat /\ Left(Past(i)) \in Nat /\ Left(Past(i)) < Left(i)
<1>1. At(i) # "eof" /\ i \in 1 .. Len(src)
  BY DEF Passes, Continued, At
<1>2. i \in 1 .. Ends
  BY <1>1, AtIs
<1>3. Skips(i, Past(i)) /\ i < Past(i)
  BY <1>2, PastSkips DEF Passes
<1>4. Past(i) \in Nat /\ Past(i) \in 1 .. Ends
  BY <1>2, <1>3, AtIs DEF Skips
<1>. QED
  BY <1>1, <1>3, <1>4, LeftLess

\* The white space in front of the first character of a line.
LEMMA IndentationIs ==
    ASSUME Text, NEW i \in 1 .. Ends
    PROVE  LET m == Measure[[off |-> i, width |-> 0]]
           IN  /\ m \in Leading /\ Skips(i, m.off) /\ m.off \in i .. Ends
               /\ At(m.off) \notin {"s", "t", "f"}
<1>1. [off |-> i, width |-> 0] \in Leading /\ [off |-> i, width |-> 0].off = i
  BY AtIs DEF Leading
<1> DEFINE b == [off |-> i, width |-> 0]
<1> HIDE DEF b
<1>2. b \in Leading /\ b.off = i
  BY <1>1 DEF b
<1>3. /\ Measure[b] \in Leading /\ Skips(i, Measure[b].off)
      /\ At(Measure[b].off) \notin {"s", "t", "f"}
  BY <1>2, MeasureIs
<1>. QED
  BY <1>3 DEF b, Skips

\* Something that a line has, or the end of the file.
IsContent(i) == ~Passes(i)

\* The first line that is not blank.
LEMMA FirstContentIs ==
    ASSUME Text, NEW i \in 1 .. Ends
    PROVE  /\ FirstContent[i] \in Leading
           /\ Skips(i, FirstContent[i].off) /\ FirstContent[i].off \in i .. Ends
           /\ IsContent(FirstContent[i].off)
           /\ LET m == Measure[[off |-> i, width |-> 0]]
              IN  FirstContent[i] =
                      IF At(m.off) \in {"n", "h"} \/ Continued(m.off)
                      THEN FirstContent[Past(m.off)] ELSE m
<1> DEFINE first(j) == Measure[[off |-> j, width |-> 0]]
           blank(j) == At(first(j).off) \in {"n", "h"} \/ Continued(first(j).off)
           stop == {j \in Nat : ~blank(j)}
           value == [j \in Nat |-> first(j)]
           up == [j \in Nat |-> Past(first(j).off)]
           size == [j \in Nat |-> Left(j)]
<1>1. ASSUME NEW j \in Nat
      PROVE  /\ first(j) \in Leading /\ first(j).off \in Nat /\ first(j).off >= j
             /\ j \in 1 .. Ends => Skips(j, first(j).off) /\ At(first(j).off) \notin {"s", "t", "f"}
  <2>1. CASE j \in 1 .. Ends
    <3>1. first(j) \in Leading /\ Skips(j, first(j).off) /\ first(j).off \in j .. Ends
          /\ At(first(j).off) \notin {"s", "t", "f"}
      BY <2>1, IndentationIs
    <3>. QED
      BY <2>1, <3>1, AtIs
  <2>2. CASE j \notin 1 .. Ends
    <3>1. At(j) = "eof"
      BY <2>2, AtIs DEF At
    <3>2. [off |-> j, width |-> 0] \in Leading
      BY DEF Leading
    <3>3. first(j) = [off |-> j, width |-> 0]
      BY <3>1, <3>2, MeasureIs
    <3>. QED
      BY <2>2, <3>2, <3>3
  <2>. QED
    BY <2>1, <2>2
<1> HIDE DEF first
<1>2. ASSUME NEW j \in Nat, blank(j)
      PROVE  /\ Past(first(j).off) \in Nat /\ Past(first(j).off) \in 1 .. Ends
             /\ Skips(first(j).off, Past(first(j).off))
             /\ Left(j) \in Nat /\ Left(Past(first(j).off)) < Left(j)
  <2>1. Passes(first(j).off)
    BY <1>2 DEF Passes
  <2>2. /\ first(j).off \in 1 .. Len(src) /\ first(j).off >= j /\ first(j).off \in Nat
        /\ Past(first(j).off) \in 1 .. Ends /\ first(j).off < Past(first(j).off)
        /\ Skips(first(j).off, Past(first(j).off))
    BY <1>1, <2>1, PastIs
  <2>3. j < Ends /\ j < Past(first(j).off)
    BY <2>2, AtIs
  <2>. QED
    BY <2>2, <2>3, AtIs DEF Left
<1> HIDE DEF blank
<1>3. Descends(Nat, stop, up, size)
  BY <1>2, LeftIs DEF Descends
<1>4. FirstContent = [j \in Nat |-> IF blank(j) THEN FirstContent[Past(first(j).off)] ELSE first(j)]
  <2>1. PICK f : Loops(f, Nat, stop, value, up)
    <3> HIDE DEF stop, value, up, size
    <3>. QED
      BY <1>3, LoopExists
  <2>2. f = [j \in Nat |-> IF blank(j) THEN f[Past(first(j).off)] ELSE first(j)]
    BY <2>1 DEF Loops
  <2>. QED
    BY <2>2 DEF FirstContent, first, blank
<1>5. \A j \in Nat :
          FirstContent[j] = IF blank(j) THEN FirstContent[Past(first(j).off)] ELSE first(j)
  BY <1>4
<1> DEFINE Good(j) == /\ FirstContent[j] \in Leading
                      /\ Skips(j, FirstContent[j].off)
                      /\ IsContent(FirstContent[j].off)
           T == {j \in Nat : j \in 1 .. Ends => Good(j)}
<1>6. ASSUME NEW j \in Nat, j \in stop \/ up[j] \in T PROVE j \in T
  <2> SUFFICES ASSUME j \in 1 .. Ends PROVE Good(j)
    OBVIOUS
  <2>1. CASE ~blank(j)
    BY <1>1, <1>5, <2>1 DEF blank, IsContent, Passes
  <2>2. CASE blank(j)
    <3>1. Past(first(j).off) \in T /\ Past(first(j).off) \in 1 .. Ends
      BY <1>2, <1>6, <2>2
    <3>2. FirstContent[j] = FirstContent[Past(first(j).off)]
      BY <1>5, <2>2
    <3>3. Skips(j, first(j).off) /\ Skips(first(j).off, Past(first(j).off))
      BY <1>1, <1>2, <2>2
    <3>4. Skips(Past(first(j).off), FirstContent[j].off)
      BY <3>1, <3>2
    <3>. QED
      BY <3>1, <3>2, <3>3, <3>4, SkipsOn
  <2>. QED
    BY <2>1, <2>2
<1> HIDE DEF T, stop, up, size, value
<1>7. \A j \in Nat : j \in T
  BY <1>3, <1>6, LoopInduction
<1>8. Good(i)
  BY <1>7, AtIs DEF T
<1>9. FirstContent[i] = IF blank(i) THEN FirstContent[Past(first(i).off)] ELSE first(i)
  BY <1>5, AtIs
<1>. QED
  BY <1>8, <1>9 DEF Skips, blank, first

\* skipSpace leaves the end of a line alone outside of brackets, and what a line has.
LEMMA SkipSpaceIs ==
    ASSUME Text, NEW i \in 1 .. Ends, NEW d \in Nat
    PROVE  LET k == SkipSpace[[off |-> i, depth |-> d]]
           IN  /\ Skips(i, k) /\ k \in i .. Ends
               /\ IsContent(k) \/ (At(k) = "n" /\ d = 0 /\ ~Continued(k))
               /\ IsContent(i) \/ (At(i) = "n" /\ d = 0) => k = i
               /\ Passes(i) /\ ~(At(i) = "n" /\ d = 0) =>
                      k = SkipSpace[[off |-> Past(i), depth |-> d]]
<1> DEFINE goes(p) == Passes(p.off) /\ ~(At(p.off) = "n" /\ p.depth = 0)
           next(p) == [off |-> Past(p.off), depth |-> p.depth]
           stop == {p \in Place : ~goes(p)}
           value == [p \in Place |-> p.off]
           up == [p \in Place |-> next(p)]
           size == [p \in Place |-> Left(p.off)]
<1>0. \A p \in Place : p.off \in Nat /\ p.depth \in Nat
  BY DEF Place
<1>1. ASSUME NEW p \in Place
      PROVE  goes(p) <=> \/ At(p.off) \in {"s", "t", "f", "h"} \/ Continued(p.off)
                         \/ At(p.off) = "n" /\ p.depth > 0
  BY <1>0 DEF Passes, Continued
<1>2. ASSUME NEW p \in Place, goes(p)
      PROVE  /\ next(p) \in Place /\ next(p).off = Past(p.off)
             /\ Past(p.off) \in 1 .. Ends /\ Skips(p.off, Past(p.off))
             /\ Left(p.off) \in Nat /\ Left(next(p).off) < Left(p.off)
  <2>1. /\ Past(p.off) \in 1 .. Ends /\ Skips(p.off, Past(p.off))
        /\ Left(p.off) \in Nat /\ Left(Past(p.off)) < Left(p.off)
    BY <1>0, <1>2, PastIs
  <2>2. Past(p.off) \in Nat
    BY <2>1, AtIs
  <2>. QED
    BY <1>0, <2>1, <2>2 DEF Place
<1>3. Descends(Place, stop, up, size)
  <2>1. \A p \in Place : Left(p.off) \in Nat
    BY <1>0, LeftIs
  <2>2. ASSUME NEW p \in Place, p \notin stop
        PROVE  up[p] \in Place /\ size[up[p]] < size[p]
    <3>1. goes(p) /\ up[p] = next(p) /\ size[p] = Left(p.off)
      BY <2>2
    <3>2. next(p) \in Place /\ Left(next(p).off) < Left(p.off)
      BY <1>2, <3>1
    <3> HIDE DEF next
    <3>. QED
      BY <3>1, <3>2
  <2>. QED
    BY <2>1, <2>2 DEF Descends
<1>4. SkipSpace = [p \in Place |-> IF goes(p) THEN SkipSpace[next(p)] ELSE p.off]
  <2>1. PICK f : Loops(f, Place, stop, value, up)
    <3> HIDE DEF stop, value, up, size
    <3>. QED
      BY <1>3, LoopExists
  <2>2. f = [p \in Place |-> IF goes(p) THEN f[next(p)] ELSE p.off]
    BY <2>1 DEF Loops
  <2>3. f = [p \in Place |->
                 IF \/ At(p.off) \in {"s", "t", "f", "h"} \/ Continued(p.off)
                    \/ At(p.off) = "n" /\ p.depth > 0
                 THEN f[[p EXCEPT !.off = Past(@)]] ELSE p.off]
    <3>1. \A p \in Place : next(p) = [p EXCEPT !.off = Past(@)]
      BY DEF Place
    <3> HIDE DEF goes, next
    <3>. QED
      BY <1>1, <2>2, <3>1
  <2>4. SkipSpace = [p \in Place |->
                 IF \/ At(p.off) \in {"s", "t", "f", "h"} \/ Continued(p.off)
                    \/ At(p.off) = "n" /\ p.depth > 0
                 THEN SkipSpace[[p EXCEPT !.off = Past(@)]] ELSE p.off]
    BY <2>3 DEF SkipSpace, Place
  <2>. QED
    <3>1. \A p \in Place : next(p) = [p EXCEPT !.off = Past(@)]
      BY DEF Place
    <3> HIDE DEF goes, next
    <3>. QED
      BY <1>1, <2>4, <3>1
<1>5. \A p \in Place : SkipSpace[p] = IF goes(p) THEN SkipSpace[next(p)] ELSE p.off
  BY <1>4
<1> DEFINE Good(p) == /\ Skips(p.off, SkipSpace[p])
                      /\ IsContent(SkipSpace[p]) \/ (At(SkipSpace[p]) = "n" /\ p.depth = 0)
           T == {p \in Place : p.off \in 1 .. Ends => Good(p)}
<1>6. ASSUME NEW p \in Place, p \in stop \/ up[p] \in T PROVE p \in T
  <2> SUFFICES ASSUME p.off \in 1 .. Ends PROVE Good(p)
    OBVIOUS
  <2>1. CASE ~goes(p)
    <3>1. SkipSpace[p] = p.off
      BY <1>5, <2>1
    <3>2. IsContent(p.off) \/ (At(p.off) = "n" /\ p.depth = 0)
      BY <2>1 DEF IsContent
    <3>3. Skips(p.off, p.off)
      BY <1>0, AtIs DEF Skips
    <3>. QED
      BY <3>1, <3>2, <3>3
  <2>2. CASE goes(p)
    <3>1. next(p) \in T /\ next(p).off = Past(p.off) /\ next(p).off \in 1 .. Ends
          /\ Skips(p.off, Past(p.off)) /\ next(p).depth = p.depth
      BY <1>2, <1>6, <2>2
    <3>2. SkipSpace[p] = SkipSpace[next(p)]
      BY <1>5, <2>2
    <3> HIDE DEF next
    <3>3. Good(next(p))
      BY <3>1
    <3>. QED
      BY <3>1, <3>2, <3>3, SkipsOn
  <2>. QED
    BY <2>1, <2>2
<1> HIDE DEF T, stop, up, size, value
<1>7. \A p \in Place : p \in T
  BY <1>3, <1>6, LoopInduction
<1> DEFINE q == [off |-> i, depth |-> d]
<1>8. q \in Place /\ q.off = i /\ q.depth = d
  BY AtIs DEF Place
<1>9. Good(q) /\ SkipSpace[q] = IF goes(q) THEN SkipSpace[next(q)] ELSE q.off
  BY <1>5, <1>7, <1>8 DEF T
<1>10. next(q) = [off |-> Past(i), depth |-> d]
  OBVIOUS
<1>. QED
  BY <1>8, <1>9, <1>10 DEF Skips, IsContent, Continued

\* The white space that lex.Scanner passes over.
LEMMA SkipBlanksIs ==
    ASSUME Text
    PROVE  /\ \A c \in Scanner :
                  SkipBlanks[c] = IF At(c.pos) \in {"s", "t", "f"} \/ Continued(c.pos)
                                  THEN SkipBlanks[Advanced(c)] ELSE c
           /\ \A c \in Scanner : c.pos \in 1 .. Ends =>
                  /\ SkipBlanks[c] \in Scanner
                  /\ Skips(c.pos, SkipBlanks[c].pos) /\ SkipBlanks[c].pos \in 1 .. Ends
                  /\ IsContent(SkipBlanks[c].pos) \/ At(SkipBlanks[c].pos) \in {"n", "h"}
                  /\ ~Continued(SkipBlanks[c].pos)
<1> DEFINE goes(c) == At(c.pos) \in {"s", "t", "f"} \/ Continued(c.pos)
           stop == {c \in Scanner : ~goes(c)}
           value == [c \in Scanner |-> c]
           up == [c \in Scanner |-> Advanced(c)]
           size == [c \in Scanner |-> Left(c.pos)]
<1>0. \A c \in Scanner : c.pos \in Nat /\ c.col \in Nat
  BY DEF Scanner
<1>1. ASSUME NEW c \in Scanner, goes(c)
      PROVE  /\ Advanced(c) \in Scanner /\ Advanced(c).pos = Past(c.pos)
             /\ Past(c.pos) \in 1 .. Ends /\ Skips(c.pos, Past(c.pos))
             /\ Left(c.pos) \in Nat /\ Left(Past(c.pos)) < Left(c.pos)
  <2>1. /\ Past(c.pos) \in 1 .. Ends /\ Skips(c.pos, Past(c.pos))
        /\ Left(c.pos) \in Nat /\ Left(Past(c.pos)) < Left(c.pos)
    BY <1>0, <1>1, PastIs DEF Passes
  <2>2. Past(c.pos) = IF Continued(c.pos) THEN c.pos + 2 ELSE c.pos + 1
    BY <1>1 DEF Past, Continued
  <2>3. /\ Advanced(c) \in Scanner
        /\ Advanced(c).pos = IF Continued(c.pos) THEN c.pos + 2 ELSE c.pos + 1
    <3>1. CASE Continued(c.pos)
      BY <3>1 DEF Scanner, Advanced
    <3>2. CASE ~Continued(c.pos)
      <4> DEFINE col == IF At(c.pos) = "f" /\ c.lineStart THEN 0 ELSE c.col + 1
      <4>1. col \in Nat
        BY <1>0
      <4>2. Advanced(c) = [pos |-> c.pos + 1, col |-> col, lineStart |-> c.lineStart]
        BY <3>2 DEF Scanner, Advanced
      <4> HIDE DEF col
      <4>. QED
        BY <3>2, <4>1, <4>2 DEF Scanner
    <3>. QED
      BY <3>1, <3>2
  <2>. QED
    BY <2>1, <2>2, <2>3
<1>2. Descends(Scanner, stop, up, size)
  <2>1. \A c \in Scanner : Left(c.pos) \in Nat
    BY <1>0, LeftIs
  <2>2. ASSUME NEW c \in Scanner, c \notin stop
        PROVE  up[c] \in Scanner /\ size[up[c]] < size[c]
    <3>1. goes(c) /\ up[c] = Advanced(c) /\ size[c] = Left(c.pos)
      BY <2>2
    <3>. QED
      BY <1>1, <3>1
  <2>. QED
    BY <2>1, <2>2 DEF Descends
<1>3. SkipBlanks = [c \in Scanner |-> IF goes(c) THEN SkipBlanks[Advanced(c)] ELSE c]
  <2>1. PICK f : Loops(f, Scanner, stop, value, up)
    <3> HIDE DEF stop, value, up, size
    <3>. QED
      BY <1>2, LoopExists
  <2>2. f = [c \in Scanner |-> IF goes(c) THEN f[Advanced(c)] ELSE c]
    BY <2>1 DEF Loops
  <2>. QED
    BY <2>2 DEF SkipBlanks
<1>4. \A c \in Scanner : SkipBlanks[c] = IF goes(c) THEN SkipBlanks[Advanced(c)] ELSE c
  BY <1>3
<1> DEFINE Good(c) == /\ SkipBlanks[c] \in Scanner
                      /\ Skips(c.pos, SkipBlanks[c].pos)
                      /\ ~goes(SkipBlanks[c])
           T == {c \in Scanner : c.pos \in 1 .. Ends => Good(c)}
<1>5. ASSUME NEW c \in Scanner, c \in stop \/ up[c] \in T PROVE c \in T
  <2> SUFFICES ASSUME c.pos \in 1 .. Ends PROVE Good(c)
    OBVIOUS
  <2>1. CASE ~goes(c)
    BY <1>0, <1>4, <2>1, AtIs DEF Skips
  <2>2. CASE goes(c)
    <3>1. Advanced(c) \in T /\ Advanced(c).pos \in 1 .. Ends /\ Skips(c.pos, Advanced(c).pos)
      BY <1>1, <1>5, <2>2
    <3>2. SkipBlanks[c] = SkipBlanks[Advanced(c)]
      BY <1>4, <2>2
    <3>. QED
      BY <3>1, <3>2, SkipsOn
  <2>. QED
    BY <2>1, <2>2
<1> HIDE DEF T, stop, up, size, value
<1>6. \A c \in Scanner : c \in T
  BY <1>2, <1>5, LoopInduction
<1>7. \A c \in Scanner : c.pos \in 1 .. Ends => Good(c) /\ SkipBlanks[c].pos \in 1 .. Ends
  BY <1>6 DEF T, Skips
<1>. QED
  BY <1>4, <1>7 DEF IsContent, Passes

\* What Scan, and the loop over it, have found from offset i on.
Found(i, tok) ==
    /\ tok.at \in 1 .. Ends /\ tok.kind = At(tok.at) /\ tok.col \in Nat
    /\ Skips(i, tok.at)
    /\ tok.kind \in {"eof", "n", "h", "b", "x", "(", ")"}
    /\ tok.scan \in Scanner
    /\ tok.scan.pos = IF tok.kind = "eof" THEN tok.at ELSE Past(tok.at)
    /\ tok.kind \in {"b", "x", "(", ")"} => Past(tok.at) = tok.at + 1
    /\ tok.scan.pos \in 1 .. Ends
    /\ tok.kind = "n" => tok.scan = [pos |-> Past(tok.at), col |-> 0, lineStart |-> TRUE]

\* A physical token.
LEMMA ScanIs ==
    ASSUME Text, NEW c \in Scanner, c.pos \in 1 .. Ends
    PROVE  Found(c.pos, Scan(c))
<1> DEFINE u == SkipBlanks[c]
           k == At(u.pos)
           to == Past(u.pos)
           after == CASE k = "eof" -> u
                      [] k = "n" -> [pos |-> to, col |-> 0, lineStart |-> TRUE]
                      [] OTHER -> [pos |-> to, col |-> u.col + (to - u.pos), lineStart |-> FALSE]
<1>1. /\ u \in Scanner /\ Skips(c.pos, u.pos) /\ u.pos \in 1 .. Ends /\ ~Continued(u.pos)
      /\ IsContent(u.pos) \/ k \in {"n", "h"}
  BY SkipBlanksIs
<1>2. u.pos \in Nat /\ u.col \in Nat /\ k \in Chars \cup {"eof"}
  BY <1>1, AtIs DEF Scanner
<1>3. k \in {"eof", "n", "h", "b", "x", "(", ")"}
  BY <1>1, <1>2 DEF IsContent, Passes, Chars
<1>4. k # "eof" => to \in 1 .. Ends /\ to >= u.pos /\ to \in Nat
  <2>1. CASE k \in {"n", "h"}
    <3>1. Past(u.pos) \in 1 .. Ends /\ u.pos < Past(u.pos)
      BY <1>2, <2>1, PastIs DEF Passes
    <3>. QED
      BY <1>2, <3>1, AtIs
  <2>2. CASE k \notin {"n", "h", "eof"}
    <3>1. to = u.pos + 1
      BY <1>1, <2>2 DEF Past
    <3>. QED
      BY <1>1, <1>2, <2>2, <3>1, AtIs
  <2>. QED
    BY <2>1, <2>2
<1>5. k \in {"b", "x", "(", ")"} => to = u.pos + 1
  BY <1>1 DEF Past
<1>6. Scan(c) = [kind |-> k, at |-> u.pos, col |-> u.col, scan |-> after]
  BY DEF Scan
<1>7. /\ after \in Scanner /\ after.pos = (IF k = "eof" THEN u.pos ELSE to)
      /\ k = "n" => after = [pos |-> to, col |-> 0, lineStart |-> TRUE]
  <2> HIDE DEF to, k, u
  <2>1. CASE k = "eof"
    BY <1>1, <2>1
  <2>2. CASE k = "n"
    <3>1. after = [pos |-> to, col |-> 0, lineStart |-> TRUE]
      BY <2>2
    <3>. QED
      BY <1>4, <2>2, <3>1 DEF Scanner
  <2>3. CASE k \notin {"eof", "n"}
    <3>1. after = [pos |-> to, col |-> u.col + (to - u.pos), lineStart |-> FALSE]
      BY <2>3
    <3>2. u.col + (to - u.pos) \in Nat
      BY <1>2, <1>4, <2>3
    <3> HIDE DEF after
    <3>. QED
      BY <1>4, <2>3, <3>1, <3>2 DEF Scanner
  <2>. QED
    BY <2>1, <2>2, <2>3
<1> DEFINE tok == Scan(c)
<1>8. tok.kind = k /\ tok.at = u.pos /\ tok.col = u.col /\ tok.scan = after
  BY <1>6
<1> HIDE DEF after, tok
<1>9. Found(c.pos, tok)
  BY <1>1, <1>2, <1>3, <1>4, <1>5, <1>7, <1>8 DEF Found
<1>. QED
  BY <1>9 DEF tok

\* Comments, and the ends of lines if they are to be ignored, are passed over.
LEMMA PhysicalIs ==
    ASSUME Text, NEW c \in Scanner, c.pos \in 1 .. Ends, NEW ignores \in BOOLEAN
    PROVE  LET tok == Physical[[scan |-> c, ignores |-> ignores]]
           IN  /\ Found(c.pos, tok)
               /\ tok.kind # "h" /\ ~(tok.kind = "n" /\ ignores)
               /\ tok = IF Scan(c).kind = "h" \/ (Scan(c).kind = "n" /\ ignores)
                        THEN Physical[[scan |-> Scan(c).scan, ignores |-> ignores]] ELSE Scan(c)
<1> DEFINE goes(p) == Scan(p.scan).kind = "h" \/ (Scan(p.scan).kind = "n" /\ p.ignores)
           next(p) == [scan |-> Scan(p.scan).scan, ignores |-> p.ignores]
           In == {p \in Reader : p.scan.pos \in 1 .. Ends}
           stop == {p \in Reader : ~goes(p)}
           value == [p \in Reader |-> Scan(p.scan)]
           up == [p \in Reader |-> next(p)]
           size == [p \in Reader |-> Left(p.scan.pos)]
<1>0. \A p \in Reader : p.scan \in Scanner /\ p.scan.pos \in Nat /\ p.ignores \in BOOLEAN
  BY DEF Reader, Scanner
\* The file ends where it does for Scan too.
<1>1. ASSUME NEW p \in Reader, goes(p)
      PROVE  p \in In
  <2>1. CASE p.scan.pos \in 1 .. Ends
    BY <2>1
  <2>2. CASE p.scan.pos \notin 1 .. Ends
    <3>1. At(p.scan.pos) = "eof" /\ p.scan.pos \in Nat
      BY <1>0, <2>2, AtIs DEF At
    <3>2. SkipBlanks[p.scan] = p.scan
      BY <1>0, <3>1, SkipBlanksIs DEF Continued
    <3>3. Scan(p.scan).kind = "eof"
      BY <3>1, <3>2 DEF Scan
    <3>. QED
      BY <1>1, <3>3
  <2>. QED
    BY <2>1, <2>2
<1>2. ASSUME NEW p \in Reader, goes(p)
      PROVE  /\ next(p) \in Reader /\ next(p).scan.pos \in 1 .. Ends
             /\ Skips(p.scan.pos, next(p).scan.pos)
             /\ Left(p.scan.pos) \in Nat /\ Left(next(p).scan.pos) < Left(p.scan.pos)
  <2> DEFINE tok == Scan(p.scan)
  <2>1. p.scan \in Scanner /\ p.scan.pos \in 1 .. Ends /\ p.scan.pos \in Nat
    BY <1>0, <1>1, <1>2
  <2>2. Found(p.scan.pos, tok)
    BY <2>1, ScanIs
  <2>3. tok.kind \in {"n", "h"}
    BY <1>2
  <2>4. next(p).scan = tok.scan /\ next(p).ignores = p.ignores
    OBVIOUS
  <2>5. next(p) \in Reader
    BY <1>0, <2>2 DEF Found, Reader
  <2> HIDE DEF tok, next
  <2>6. /\ tok.at \in 1 .. Ends /\ tok.at \in Nat /\ At(tok.at) \in {"n", "h"}
        /\ Skips(p.scan.pos, tok.at) /\ p.scan.pos <= tok.at
    BY <2>1, <2>2, <2>3, AtIs DEF Found, Skips
  <2>7. tok.scan.pos = Past(tok.at) /\ tok.scan.pos \in 1 .. Ends
    BY <2>2, <2>3 DEF Found
  <2>8. Skips(tok.at, Past(tok.at)) /\ tok.at < Past(tok.at)
    BY <2>6, PastIs DEF Passes
  <2>9. Skips(p.scan.pos, tok.scan.pos) /\ p.scan.pos < tok.scan.pos
    BY <2>1, <2>6, <2>7, <2>8, SkipsOn, AtIs
  <2>. QED
    BY <2>1, <2>4, <2>5, <2>7, <2>9, LeftIs
<1>3. Descends(Reader, stop, up, size)
  <2>1. \A p \in Reader : Left(p.scan.pos) \in Nat
    BY <1>0, LeftIs
  <2>2. ASSUME NEW p \in Reader, p \notin stop
        PROVE  up[p] \in Reader /\ size[up[p]] < size[p]
    <3>1. goes(p) /\ up[p] = next(p) /\ size[p] = Left(p.scan.pos)
      BY <2>2
    <3>2. next(p) \in Reader /\ Left(next(p).scan.pos) < Left(p.scan.pos)
      BY <1>2, <3>1
    <3> HIDE DEF next
    <3>. QED
      BY <3>1, <3>2
  <2>. QED
    BY <2>1, <2>2 DEF Descends
<1>4. Physical = [p \in Reader |-> IF goes(p) THEN Physical[next(p)] ELSE Scan(p.scan)]
  <2>0. \A p \in Reader : next(p) = [p EXCEPT !.scan = Scan(p.scan).scan]
    BY DEF Reader
  <2>1. PICK f : Loops(f, Reader, stop, value, up)
    <3> HIDE DEF stop, value, up, size
    <3>. QED
      BY <1>3, LoopExists
  <2>2. f = [p \in Reader |-> IF goes(p) THEN f[next(p)] ELSE Scan(p.scan)]
    BY <2>1 DEF Loops
  <2>3. f = [p \in Reader |-> IF goes(p) THEN f[[p EXCEPT !.scan = Scan(p.scan).scan]]
                              ELSE Scan(p.scan)]
    <3> HIDE DEF goes, next
    <3>. QED
      BY <2>0, <2>2
  <2>4. Physical = [p \in Reader |-> IF goes(p) THEN Physical[[p EXCEPT !.scan = Scan(p.scan).scan]]
                                     ELSE Scan(p.scan)]
    BY <2>3 DEF Physical, Reader
  <2> HIDE DEF goes, next
  <2>. QED
    BY <2>0, <2>4
<1>5. \A p \in Reader : Physical[p] = IF goes(p) THEN Physical[next(p)] ELSE Scan(p.scan)
  BY <1>4
<1> DEFINE Good(p) == /\ Found(p.scan.pos, Physical[p])
                      /\ Physical[p].kind # "h" /\ ~(Physical[p].kind = "n" /\ p.ignores)
           T == {p \in Reader : p.scan.pos \in 1 .. Ends => Good(p)}
<1>6. ASSUME NEW p \in Reader, p \in stop \/ up[p] \in T PROVE p \in T
  <2> SUFFICES ASSUME p.scan.pos \in 1 .. Ends PROVE Good(p)
    OBVIOUS
  <2>1. CASE ~goes(p)
    <3>1. Physical[p] = Scan(p.scan) /\ Found(p.scan.pos, Scan(p.scan))
      BY <1>0, <1>5, <2>1, ScanIs
    <3>. QED
      BY <2>1, <3>1
  <2>2. CASE goes(p)
    <3>1. next(p) \in T /\ next(p).scan.pos \in 1 .. Ends /\ Skips(p.scan.pos, next(p).scan.pos)
          /\ next(p).ignores = p.ignores
      BY <1>2, <1>6, <2>2
    <3>2. Physical[p] = Physical[next(p)]
      BY <1>5, <2>2
    <3> HIDE DEF next
    <3>3. Good(next(p))
      BY <3>1
    <3>4. Skips(p.scan.pos, Physical[p].at)
      BY <3>1, <3>2, <3>3, SkipsOn DEF Found
    <3>. QED
      BY <3>1, <3>2, <3>3, <3>4 DEF Found
  <2>. QED
    BY <2>1, <2>2
<1> HIDE DEF T, stop, up, size, value
<1>7. \A p \in Reader : p \in T
  BY <1>3, <1>6, LoopInduction
<1> DEFINE q == [scan |-> c, ignores |-> ignores]
<1>8. q \in Reader /\ q.scan = c /\ q.ignores = ignores
  BY DEF Reader
<1>9. Good(q)
  BY <1>7, <1>8 DEF T
<1>10. Physical[q] = IF goes(q) THEN Physical[next(q)] ELSE Scan(c)
  BY <1>5, <1>8
<1>11. next(q) = [scan |-> Scan(c).scan, ignores |-> ignores]
  OBVIOUS
<1>. QED
  BY <1>8, <1>9, <1>10, <1>11

-----------------------------------------------------------------------------
(* What is emitted.                                                        *)

Last(out) == out[Len(out)]

\* More INDENTs than DEDENTs, by so many.
Opened(out) == Count(out, Len(out), "INDENT") - Count(out, Len(out), "DEDENT")

\* The tokens are those before offset k.
Read(out, k) ==
    LET read == {i \in 1 .. Len(out) : ~IsStructure(out[i])}
    IN  /\ {out[i] : i \in read} = {<<src[j], j>> : j \in {l \in 1 .. k - 1 : Significant(l)}}
        /\ \A i, j \in read : i < j => out[i][2] < out[j][2]

NoEnd(out) == \A i \in 1 .. Len(out) : out[i] # Tok("END")

(***************************************************************************)
(* What a scanner has emitted when it is at offset k with so many blocks   *)
(* open.                                                                   *)
(***************************************************************************)
Built(out, open, k) ==
    /\ out \in Seq(Tokens)
    /\ WellFormed(out)
    /\ open \in Nat /\ Opened(out) = open
    /\ k \in 1 .. Ends /\ Clear(k)
    /\ Read(out, k) /\ NoEnd(out)

\* A count is a number.
LEMMA CountIs ==
    ASSUME NEW out \in Seq(Tokens), NEW n \in 0 .. Len(out), NEW kind
    PROVE  Count(out, n, kind) \in Nat
<1>1. IsFiniteSet(1 .. n) /\ {i \in 1 .. n : out[i] = Tok(kind)} \subseteq 1 .. n
  BY FS_Interval
<1>. QED
  BY <1>1, FS_Subset, FS_CardinalityType DEF Count

\* What is counted when out is followed by tok.
Counts(new, out, tok, kind) ==
    /\ \A n \in 0 .. Len(out) : Count(new, n, kind) = Count(out, n, kind)
    /\ Count(new, Len(new), kind) =
          Count(out, Len(out), kind) + (IF tok = Tok(kind) THEN 1 ELSE 0)

\* One more token counts for its kind.
LEMMA CountAppend ==
    ASSUME NEW out \in Seq(Tokens), NEW tok \in Tokens, NEW kind
    PROVE  Counts(Append(out, tok), out, tok, kind)
<1> DEFINE new == Append(out, tok)
           S(s, n) == {i \in 1 .. n : s[i] = Tok(kind)}
<1>1. /\ new \in Seq(Tokens) /\ Len(new) = Len(out) + 1 /\ new[Len(new)] = tok
      /\ \A i \in 1 .. Len(out) : new[i] = out[i]
  OBVIOUS
<1>2. Len(out) \in Nat
  OBVIOUS
<1> HIDE DEF new
<1>3. ASSUME NEW n \in 0 .. Len(out) PROVE Count(new, n, kind) = Count(out, n, kind)
  <2>1. S(new, n) = S(out, n)
    BY <1>1, <1>2
  <2>. QED
    BY <2>1 DEF Count
<1>4. Count(new, Len(new), kind) = Count(out, Len(out), kind) + (IF tok = Tok(kind) THEN 1 ELSE 0)
  <2>1. IsFiniteSet(S(out, Len(out))) /\ Len(new) \notin S(out, Len(out))
    <3>1. IsFiniteSet(1 .. Len(out)) /\ S(out, Len(out)) \subseteq 1 .. Len(out)
      BY <1>2, FS_Interval
    <3>. QED
      BY <1>1, <1>2, <3>1, FS_Subset
  <2>2. Cardinality(S(out, Len(out))) \in Nat
    BY <2>1, FS_CardinalityType
  <2>3. CASE tok = Tok(kind)
    <3>1. S(new, Len(new)) = S(out, Len(out)) \cup {Len(new)}
      BY <1>1, <1>2, <2>3
    <3>2. Cardinality(S(new, Len(new))) = Cardinality(S(out, Len(out))) + 1
      BY <2>1, <3>1, FS_AddElement
    <3>. QED
      BY <2>3, <3>2 DEF Count
  <2>4. CASE tok # Tok(kind)
    <3>1. S(new, Len(new)) = S(out, Len(out))
      BY <1>1, <1>2, <2>4
    <3>2. Count(new, Len(new), kind) = Cardinality(S(out, Len(out)))
      BY <3>1 DEF Count
    <3>3. Count(out, Len(out), kind) = Cardinality(S(out, Len(out)))
      BY DEF Count
    <3> HIDE DEF S
    <3>. QED
      BY <2>2, <2>4, <3>2, <3>3
  <2>. QED
    BY <2>3, <2>4
<1>5. Counts(new, out, tok, kind)
  BY <1>3, <1>4 DEF Counts
<1>. QED
  BY <1>5 DEF new

\* What the token that is added has to satisfy.
Fits(out, tok) ==
    /\ tok = Tok("DEDENT") => Opened(out) > 0
    /\ tok = Tok("END") => Opened(out) = 0
    /\ tok \in {Tok("INDENT"), Tok("DEDENT")} =>
          out = <<>> \/ Last(out) \in {Tok("NEWLINE"), Tok("DEDENT")}
    /\ tok = Tok("NEWLINE") => out # <<>> /\ ~IsStructure(Last(out))

\* A token that fits keeps the blocks in order.
LEMMA WellFormedAppend ==
    ASSUME NEW out \in Seq(Tokens), NEW tok \in Tokens, WellFormed(out), Fits(out, tok)
    PROVE  LET new == Append(out, tok)
           IN  /\ WellFormed(new)
               /\ Opened(out) \in Int
               /\ Opened(new) = Opened(out) + (IF tok = Tok("INDENT") THEN 1 ELSE 0)
                                           - (IF tok = Tok("DEDENT") THEN 1 ELSE 0)
<1> DEFINE new == Append(out, tok)
           n == Len(out)
<1>1. /\ new \in Seq(Tokens) /\ Len(new) = n + 1 /\ new[n + 1] = tok /\ n \in Nat
      /\ \A i \in 1 .. n : new[i] = out[i]
  OBVIOUS
<1>2. ASSUME NEW kind \in {"INDENT", "DEDENT"}
      PROVE  /\ \A i \in 0 .. n :
                    Count(new, i, kind) = Count(out, i, kind) /\ Count(out, i, kind) \in Nat
             /\ Count(new, n + 1, kind) = Count(out, n, kind) + (IF tok = Tok(kind) THEN 1 ELSE 0)
  <2>1. Counts(new, out, tok, kind)
    BY CountAppend
  <2>2. \A i \in 0 .. Len(out) : Count(out, i, kind) \in Nat
    BY CountIs
  <2> HIDE DEF new
  <2>. QED
    BY <1>1, <2>1, <2>2 DEF Counts
<1>3. Tok("INDENT") # Tok("DEDENT") /\ Tok("END") # Tok("DEDENT") /\ Tok("END") # Tok("INDENT")
  BY DEF Tok
<1>4. Count(out, n, "DEDENT") <= Count(out, n, "INDENT")
  <2>1. CASE n = 0
    <3>1. Count(out, 0, "DEDENT") = 0 /\ Count(out, 0, "INDENT") = 0
      BY FS_EmptySet DEF Count
    <3>. QED
      BY <2>1, <3>1
  <2>2. CASE n # 0
    BY <1>1, <2>2 DEF WellFormed
  <2>. QED
    BY <2>1, <2>2
<1>5. Opened(out) = Count(out, n, "INDENT") - Count(out, n, "DEDENT")
  BY DEF Opened
<1>6. Opened(new) = Count(new, n + 1, "INDENT") - Count(new, n + 1, "DEDENT")
  BY <1>1 DEF Opened
<1> HIDE DEF new, n
<1>7. ASSUME NEW i \in 1 .. Len(new)
      PROVE  /\ Count(new, i, "DEDENT") <= Count(new, i, "INDENT")
             /\ new[i] = Tok("END") => Count(new, i, "DEDENT") = Count(new, i, "INDENT")
             /\ new[i] \in {Tok("INDENT"), Tok("DEDENT")} =>
                   i = 1 \/ new[i - 1] \in {Tok("NEWLINE"), Tok("DEDENT")}
             /\ new[i] = Tok("NEWLINE") => i > 1 /\ ~IsStructure(new[i - 1])
  <2>1. CASE i \in 1 .. n
    <3>1. /\ new[i] = out[i] /\ (i > 1 => new[i - 1] = out[i - 1])
          /\ Count(new, i, "DEDENT") = Count(out, i, "DEDENT")
          /\ Count(new, i, "INDENT") = Count(out, i, "INDENT")
      BY <1>1, <1>2, <2>1
    <3>2. /\ Count(out, i, "DEDENT") <= Count(out, i, "INDENT")
          /\ out[i] = Tok("END") => Count(out, i, "DEDENT") = Count(out, i, "INDENT")
          /\ out[i] \in {Tok("INDENT"), Tok("DEDENT")} =>
                i = 1 \/ out[i - 1] \in {Tok("NEWLINE"), Tok("DEDENT")}
          /\ out[i] = Tok("NEWLINE") => i > 1 /\ ~IsStructure(out[i - 1])
      BY <2>1 DEF WellFormed, n
    <3>. QED
      BY <1>1, <2>1, <3>1, <3>2
  <2>2. CASE i = n + 1
    <3>1. new[i] = tok /\ i \in Nat
      BY <1>1, <2>2
    <3>2. /\ Count(new, i, "DEDENT") <= Count(new, i, "INDENT")
          /\ tok = Tok("END") => Count(new, i, "DEDENT") = Count(new, i, "INDENT")
      BY <1>1, <1>2, <1>3, <1>4, <1>5, <2>2 DEF Fits
    <3>3. out = <<>> => n = 0
      BY DEF n
    <3>4. n # 0 => new[i - 1] = Last(out) /\ i > 1
      BY <1>1, <2>2 DEF Last, n
    <3>5. out # <<>> => n # 0
      BY DEF n
    <3>. QED
      BY <1>1, <2>2, <3>1, <3>2, <3>3, <3>4, <3>5 DEF Fits
  <2>. QED
    BY <1>1, <2>1, <2>2
<1>8. WellFormed(new)
  BY <1>7 DEF WellFormed
<1>9. Opened(out) \in Int /\ Opened(new) = Opened(out) + (IF tok = Tok("INDENT") THEN 1 ELSE 0)
                                           - (IF tok = Tok("DEDENT") THEN 1 ELSE 0)
  BY <1>1, <1>2, <1>3, <1>5, <1>6
<1>. QED
  BY <1>8, <1>9 DEF new

\* What a scanner has emitted that has ended.
Complete(out) ==
    /\ out \in Seq(Tokens) /\ WellFormed(out) /\ HasAll(out)
    /\ out # <<>> /\ Last(out) = Tok("END")
    /\ \A i \in 1 .. Len(out) - 1 : out[i] # Tok("END")

\* Nothing is emitted twice, and only what is in order.
LEMMA AppendIs ==
    ASSUME NEW out \in Seq(Tokens), NEW tok \in Tokens
    PROVE  LET new == Append(out, tok)
           IN  /\ new \in Seq(Tokens) /\ Len(new) = Len(out) + 1 /\ Len(out) \in Nat
               /\ new[Len(out) + 1] = tok /\ Last(new) = tok /\ new # <<>>
               /\ \A i \in 1 .. Len(out) : new[i] = out[i]
  BY DEF Last

\* Structure leaves what is read as it is.
LEMMA ReadStructure ==
    ASSUME NEW out \in Seq(Tokens), NEW tok \in Structure, NEW k \in Nat, Read(out, k)
    PROVE  Read(Append(out, tok), k)
<1> DEFINE new == Append(out, tok)
           N == {i \in 1 .. Len(out) : ~IsStructure(out[i])}
           M == {i \in 1 .. Len(new) : ~IsStructure(new[i])}
<1>1. /\ Len(new) = Len(out) + 1 /\ Len(out) \in Nat /\ new[Len(out) + 1] = tok
      /\ \A i \in 1 .. Len(out) : new[i] = out[i]
  BY AppendIs DEF Tokens
<1> HIDE DEF new
<1>2. M = N /\ \A i \in N : new[i] = out[i]
  BY <1>1 DEF IsStructure
<1>3. {new[i] : i \in M} = {out[i] : i \in N}
  BY <1>2
<1>4. \A i, j \in M : i < j => new[i][2] < new[j][2]
  BY <1>2 DEF Read
<1> HIDE DEF M, N
<1>5. {new[i] : i \in M} = {<<src[j], j>> : j \in {l \in 1 .. k - 1 : Significant(l)}}
  BY <1>3 DEF Read, N
<1>. QED
  BY <1>4, <1>5 DEF Read, M, new

\* A name or a bracket is the next one.
LEMMA ReadToken ==
    ASSUME NEW out \in Seq(Tokens), NEW k \in Nat \ {0}, Read(out, k), Significant(k),
           <<src[k], k>> \in Tokens \ Structure
    PROVE  Read(Append(out, <<src[k], k>>), k + 1)
<1> DEFINE tok == <<src[k], k>>
           new == Append(out, tok)
           n == Len(out)
           N == {i \in 1 .. n : ~IsStructure(out[i])}
           M == {i \in 1 .. Len(new) : ~IsStructure(new[i])}
           T == {<<src[j], j>> : j \in {l \in 1 .. k - 1 : Significant(l)}}
<1>1. /\ Len(new) = n + 1 /\ n \in Nat /\ new[n + 1] = tok
      /\ \A i \in 1 .. n : new[i] = out[i]
  BY AppendIs
<1>a. tok[2] = k /\ ~IsStructure(tok)
  BY DEF IsStructure
<1> HIDE DEF new, n, tok
<1>2. M = N \cup {n + 1} /\ \A i \in N : new[i] = out[i] /\ i <= n
  BY <1>1, <1>a
<1>3. {out[i] : i \in N} = T /\ \A i, j \in N : i < j => out[i][2] < out[j][2]
  BY DEF Read, n
<1>4. {new[i] : i \in M} = T \cup {tok}
  BY <1>1, <1>2, <1>3
<1>5. T \cup {tok} = {<<src[j], j>> : j \in {l \in 1 .. (k + 1) - 1 : Significant(l)}}
  BY DEF tok
<1>6. \A i \in N : out[i][2] < k
  <2> SUFFICES ASSUME NEW i \in N PROVE out[i][2] < k
    OBVIOUS
  <2>1. out[i] \in T
    BY <1>3
  <2>2. PICK j \in 1 .. k - 1 : out[i] = <<src[j], j>>
    BY <2>1
  <2>. QED
    BY <2>2
<1>7. ASSUME NEW i \in M, NEW j \in M, i < j PROVE new[i][2] < new[j][2]
  <2>1. i \in N
    BY <1>1, <1>2, <1>7
  <2>2. CASE j \in N
    BY <1>2, <1>3, <1>7, <2>1, <2>2
  <2>3. CASE j = n + 1
    BY <1>1, <1>2, <1>6, <1>a, <2>1, <2>3
  <2>. QED
    BY <1>2, <2>2, <2>3
<1> HIDE DEF M, N, T
<1>8. {new[i] : i \in M} = {<<src[j], j>> : j \in {l \in 1 .. (k + 1) - 1 : Significant(l)}}
  BY <1>4, <1>5
<1>. QED
  BY <1>7, <1>8 DEF Read, M, new, tok

\* A token of the structure.
LEMMA BuiltStructure ==
    ASSUME Text, NEW out, NEW open, NEW k, Built(out, open, k),
           NEW tok \in Structure \ {Tok("END")}, Fits(out, tok)
    PROVE  /\ Built(Append(out, tok),
                    open + (IF tok = Tok("INDENT") THEN 1 ELSE 0)
                         - (IF tok = Tok("DEDENT") THEN 1 ELSE 0), k)
           /\ Last(Append(out, tok)) = tok /\ Append(out, tok) # <<>>
<1> DEFINE new == Append(out, tok)
<1>1. out \in Seq(Tokens) /\ tok \in Tokens /\ WellFormed(out) /\ k \in Nat /\ Opened(out) = open
      /\ open \in Nat
  BY AtIs DEF Built, Tokens
<1>2. Read(new, k)
  BY <1>1, ReadStructure DEF Built
<1>3. /\ WellFormed(new)
      /\ Opened(new) = open + (IF tok = Tok("INDENT") THEN 1 ELSE 0)
                            - (IF tok = Tok("DEDENT") THEN 1 ELSE 0)
  BY <1>1, WellFormedAppend
<1>4. /\ Len(new) = Len(out) + 1 /\ Len(out) \in Nat
      /\ new[Len(out) + 1] = tok /\ new \in Seq(Tokens)
      /\ \A i \in 1 .. Len(out) : new[i] = out[i]
      /\ Last(new) = tok /\ new # <<>>
  BY <1>1, AppendIs
<1> HIDE DEF new
<1>5. NoEnd(new)
  BY <1>4 DEF Built, NoEnd
<1>6. tok = Tok("DEDENT") => open > 0
  BY <1>1 DEF Fits
<1>7. Opened(new) \in Nat
  BY <1>1, <1>3, <1>6
<1>8. Built(new, Opened(new), k)
  BY <1>2, <1>3, <1>4, <1>5, <1>7 DEF Built
<1>. QED
  BY <1>3, <1>4, <1>8 DEF new

\* A name or a bracket.
LEMMA BuiltToken ==
    ASSUME Text, NEW out, NEW open, NEW k, Built(out, open, k), At(k) \in {"x", "(", ")"}
    PROVE  /\ Built(Append(out, <<At(k), k>>), open, k + 1)
           /\ Last(Append(out, <<At(k), k>>)) = <<At(k), k>>
           /\ <<At(k), k>> \in Tokens \ Structure
<1> DEFINE tok == <<At(k), k>>
           new == Append(out, tok)
<1>1. k \in 1 .. Ends /\ Clear(k) /\ out \in Seq(Tokens) /\ WellFormed(out)
  BY DEF Built
<1>2. Significant(k) /\ Clear(k + 1) /\ src[k] = At(k) /\ k \in 1 .. Len(src) /\ k + 1 \in 1 .. Ends
      /\ k \in Nat \ {0}
  BY <1>1, TokenCounts, AtIs
<1>3. tok \in Tokens \ Structure
  BY <1>1, <1>2 DEF Tokens, Structure, Tok, Chars
<1>4. Read(new, k + 1)
  BY <1>1, <1>2, <1>3, ReadToken DEF Built
<1> HIDE DEF tok
<1>5. Fits(out, tok)
  BY <1>3 DEF Fits, Structure
<1>6. WellFormed(new) /\ Opened(out) \in Int /\ Opened(new) = Opened(out)
  <2>1. tok # Tok("INDENT") /\ tok # Tok("DEDENT")
    BY <1>3 DEF Structure
  <2>2. /\ WellFormed(new)
        /\ Opened(out) \in Int
        /\ Opened(new) = Opened(out) + (IF tok = Tok("INDENT") THEN 1 ELSE 0)
                                     - (IF tok = Tok("DEDENT") THEN 1 ELSE 0)
    BY <1>1, <1>3, <1>5, WellFormedAppend
  <2> HIDE DEF new
  <2>. QED
    BY <2>1, <2>2
<1>7. /\ Len(new) = Len(out) + 1 /\ Len(out) \in Nat
      /\ new[Len(out) + 1] = tok /\ new \in Seq(Tokens)
      /\ \A i \in 1 .. Len(out) : new[i] = out[i]
      /\ Last(new) = tok
  BY <1>1, <1>3, AppendIs
<1> HIDE DEF new
<1>8. NoEnd(new)
  BY <1>3, <1>7 DEF Built, NoEnd, Structure
<1>9. Built(new, open, k + 1)
  BY <1>2, <1>4, <1>6, <1>7, <1>8 DEF Built
<1>. QED
  BY <1>3, <1>7, <1>9 DEF new, tok

\* What does not count is passed over.
LEMMA BuiltOn ==
    ASSUME Text, NEW out, NEW open, NEW i, NEW k, Built(out, open, i), Skips(i, k)
    PROVE  Built(out, open, k)
<1>1. i \in 1 .. Ends /\ k \in i .. Ends /\ Clear(k) /\ Ends \in Nat
  BY AtIs DEF Built, Skips
<1>2. {l \in 1 .. k - 1 : Significant(l)} = {l \in 1 .. i - 1 : Significant(l)}
  BY <1>1 DEF Skips
<1>3. Read(out, k)
  BY <1>2 DEF Built, Read
<1>. QED
  BY <1>1, <1>3 DEF Built

\* The end of the file.
LEMMA BuiltEnd ==
    ASSUME Text, NEW out, Built(out, 0, Ends)
    PROVE  Complete(Append(out, Tok("END")))
<1> DEFINE tok == Tok("END")
           new == Append(out, tok)
<1>1. out \in Seq(Tokens) /\ tok \in Structure /\ tok \in Tokens /\ WellFormed(out) /\ Ends \in Nat
  BY AtIs DEF Built, Tokens, Structure
<1>2. Read(new, Ends)
  BY <1>1, ReadStructure DEF Built
<1>3. Fits(out, tok)
  BY DEF Built, Fits, Tok
<1>4. WellFormed(new)
  BY <1>1, <1>3, WellFormedAppend
<1>5. /\ Len(new) = Len(out) + 1 /\ Len(out) \in Nat
      /\ new[Len(out) + 1] = tok /\ new \in Seq(Tokens)
      /\ \A i \in 1 .. Len(out) : new[i] = out[i]
      /\ Last(new) = tok /\ new # <<>>
  BY <1>1, AppendIs
<1> HIDE DEF new
<1>6. Written = {<<src[j], j>> : j \in {l \in 1 .. Ends - 1 : Significant(l)}}
  BY AtIs DEF Written, Significant, Ends
<1>7. HasAll(new)
  BY <1>2, <1>6 DEF HasAll, Read
<1>8. \A i \in 1 .. Len(new) - 1 : new[i] # Tok("END")
  BY <1>5 DEF Built, NoEnd
<1>9. Complete(new)
  BY <1>4, <1>5, <1>7, <1>8 DEF Complete
<1>. QED
  BY <1>9 DEF new

-----------------------------------------------------------------------------
(* The scanner of parser/.                                                 *)

Kinds == Chars \cup {"none", "NEWLINE", "INDENT", "DEDENT", "END", "error"}
Stmt ==
    [off : Nat, stack : Seq(Nat), depth : Nat, atLineStart : BOOLEAN, pending : Nat,
     eofNewlineDone : BOOLEAN, eofDedentsDone : BOOLEAN, last : Kinds,
     state : {"on", "ended", "failed"}]

\* The indentations of the open blocks, under that of the file.
Stack(stack) == stack \in Seq(Nat) /\ stack # <<>> /\ stack[1] = 0

\* The stack is as deep as blocks are open, and the fields tell what was emitted last.
Emitted2(s, out) ==
    /\ Built(out, Len(s.stack) - 1, s.off)
    /\ s.last = IF out = <<>> THEN "none" ELSE Last(out)[1]

(***************************************************************************)
(* The flags go together: at the start of a line no bracket is open and    *)
(* the last line was ended, DEDENTs are owed right after one, what follows *)
(* a block's INDENT or DEDENT is not passed over, and the file ends with a *)
(* NEWLINE, then all the DEDENTs.                                          *)
(***************************************************************************)
Flags2(s) ==
    /\ s.atLineStart => s.depth = 0
    /\ s.atLineStart /\ ~s.eofDedentsDone => s.last \in {"none", "NEWLINE"}
    /\ s.pending > 0 => s.last = "DEDENT"
    /\ s.last \in {"INDENT", "DEDENT"} /\ ~s.eofDedentsDone =>
          IsContent(s.off) /\ At(s.off) # "eof"
    /\ s.eofNewlineDone => s.off = Ends
    /\ s.eofNewlineDone /\ ~s.eofDedentsDone => s.last = "NEWLINE"
    /\ s.eofDedentsDone => s.eofNewlineDone /\ s.pending = Len(s.stack) - 1

On2(s, out) ==
    /\ s \in Stmt /\ s.state = "on"
    /\ Stack(s.stack) /\ s.pending < Len(s.stack)
    /\ Emitted2(s, out)
    /\ Flags2(s)

\* The scanner in any state.
Inv2(s, out) ==
    /\ s \in Stmt /\ s.off \in 1 .. Ends /\ s.pending < Len(s.stack)
    /\ out \in Seq(Tokens) /\ WellFormed(out)
    /\ s.state = "on" => On2(s, out)
    /\ s.state = "ended" => Complete(out)

\* What one call leaves behind.
Step2(r, out) == Inv2(r.s, Append(out, r.tok))

\* A level is added on top or taken from there.
LEMMA StackIs ==
    ASSUME NEW stack, Stack(stack)
    PROVE  /\ Len(stack) \in Nat /\ Len(stack) >= 1 /\ Top(stack) \in Nat
           /\ Len(stack) > 1 => Stack(Pop(stack)) /\ Len(Pop(stack)) = Len(stack) - 1
           /\ \A w \in Nat : /\ Stack(Append(stack, w))
                             /\ Len(Append(stack, w)) = Len(stack) + 1
<1>1. stack \in Seq(Nat) /\ Len(stack) \in Nat /\ Len(stack) >= 1 /\ stack[1] = 0
  BY DEF Stack
<1>2. Top(stack) \in Nat
  BY <1>1 DEF Top
<1>3. ASSUME Len(stack) > 1 PROVE Stack(Pop(stack)) /\ Len(Pop(stack)) = Len(stack) - 1
  <2>1. \A i \in 1 .. Len(stack) - 1 : stack[i] \in Nat
    BY <1>1, <1>3
  <2>2. /\ Pop(stack) \in Seq(Nat) /\ Len(Pop(stack)) = Len(stack) - 1
        /\ \A i \in 1 .. Len(stack) - 1 : Pop(stack)[i] = stack[i]
    BY <1>1, <1>3, <2>1, SubSeqProperties DEF Pop
  <2>3. Pop(stack) # <<>> /\ Pop(stack)[1] = 0
    BY <1>1, <1>3, <2>2
  <2>. QED
    BY <2>2, <2>3 DEF Stack
<1>4. ASSUME NEW w \in Nat PROVE Stack(Append(stack, w)) /\ Len(Append(stack, w)) = Len(stack) + 1
  BY <1>1 DEF Stack
<1>. QED
  BY <1>1, <1>2, <1>3, <1>4

\* A narrower line closes a level, and never that of the file.
LEMMA ClosesIs ==
    ASSUME NEW stack, Stack(stack), NEW w \in Nat
    PROVE  /\ Closes(stack, w) \in 0 .. Len(stack) - 1
           /\ w < Top(stack) => Closes(stack, w) > 0
<1> DEFINE S == {k \in 2 .. Len(stack) : \A j \in k .. Len(stack) : stack[j] > w}
           n == Len(stack)
<1>1. stack \in Seq(Nat) /\ n \in Nat /\ n >= 1 /\ stack[1] = 0
  BY DEF Stack
<1>2. IsFiniteSet(2 .. n) /\ Cardinality(2 .. n) = n - 1
  BY <1>1, FS_Interval
<1>3. S \subseteq 2 .. n
  OBVIOUS
<1> HIDE DEF S
<1>4. IsFiniteSet(S) /\ Cardinality(S) \in Nat /\ Cardinality(S) <= n - 1
  BY <1>2, <1>3, FS_Subset, FS_CardinalityType
<1>5. ASSUME w < Top(stack) PROVE Cardinality(S) > 0
  <2>1. n >= 2 /\ n \in S
    <3>1. n # 1
      BY <1>1, <1>5 DEF Top
    <3>. QED
      BY <1>1, <1>5, <3>1 DEF S, Top
  <2>2. Cardinality(S) # 0
    BY <1>4, <2>1, FS_EmptySet
  <2>. QED
    BY <1>4, <2>2
<1>6. Closes(stack, w) = Cardinality(S)
  BY DEF Closes, S
<1>. QED
  BY <1>1, <1>4, <1>5, <1>6

\* A token that fits is emitted, and the scanner goes on.
LEMMA StructureOn2 ==
    ASSUME Text, NEW s, NEW t, NEW out, NEW k, NEW kind \in {"NEWLINE", "INDENT", "DEDENT"},
           Built(out, k, t.off), Fits(out, Tok(kind)),
           s = [t EXCEPT !.last = kind], t \in Stmt, t.state = "on",
           Stack(t.stack), t.pending < Len(t.stack),
           Len(t.stack) - 1 = k + (IF kind = "INDENT" THEN 1 ELSE 0)
                                - (IF kind = "DEDENT" THEN 1 ELSE 0),
           Flags2(s)
    PROVE  Step2([tok |-> Tok(kind), s |-> s], out)
<1> DEFINE new == Append(out, Tok(kind))
<1>1. Tok(kind) \in Structure \ {Tok("END")} /\ Tok(kind)[1] = kind
      /\ (Tok(kind) = Tok("INDENT") <=> kind = "INDENT")
      /\ (Tok(kind) = Tok("DEDENT") <=> kind = "DEDENT")
  BY DEF Structure, Tok
<1>2. Built(new, Len(t.stack) - 1, t.off) /\ Last(new) = Tok(kind) /\ new # <<>>
  <2>1. /\ Built(new, k + (IF Tok(kind) = Tok("INDENT") THEN 1 ELSE 0)
                        - (IF Tok(kind) = Tok("DEDENT") THEN 1 ELSE 0), t.off)
        /\ Last(new) = Tok(kind) /\ new # <<>>
    BY <1>1, BuiltStructure
  <2> HIDE DEF new
  <2>. QED
    BY <1>1, <2>1
<1> HIDE DEF new
<1>3. s \in Stmt /\ s.off = t.off /\ s.stack = t.stack /\ s.state = "on" /\ s.pending = t.pending
      /\ s.last = kind
  BY DEF Stmt, Kinds
<1>4. On2(s, new)
  BY <1>1, <1>2, <1>3 DEF On2, Emitted2
<1>5. Inv2(s, new)
  BY <1>2, <1>3, <1>4 DEF Inv2, Built
<1>. QED
  BY <1>5 DEF Step2, new

\* After an error what was emitted stands.
LEMMA Failed2 ==
    ASSUME Text, NEW s, NEW out, On2(s, out)
    PROVE  Step2(Fail2(s), out)
<1> DEFINE new == Append(out, Tok("error"))
           f == [s EXCEPT !.state = "failed"]
<1>1. out \in Seq(Tokens) /\ WellFormed(out) /\ s.off \in 1 .. Ends
  BY DEF On2, Emitted2, Built
<1>2. Tok("error") \in Tokens /\ Fits(out, Tok("error"))
  BY DEF Tokens, Fits, Tok
<1>3. new \in Seq(Tokens) /\ WellFormed(new)
  BY <1>1, <1>2, WellFormedAppend
<1>4. /\ f \in Stmt /\ f.state = "failed" /\ f.off = s.off
      /\ f.pending = s.pending /\ f.stack = s.stack
  BY DEF Stmt, On2
<1>5. s.pending < Len(s.stack)
  BY DEF On2
<1> HIDE DEF new, f
<1>6. Inv2(f, new)
  BY <1>1, <1>3, <1>4, <1>5 DEF Inv2
<1>7. Fail2(s).s = f /\ Fail2(s).tok = Tok("error")
  BY DEF Fail2, f
<1>. QED
  BY <1>6, <1>7 DEF Step2, new

\* What is passed over changes no field but the offset.
LEMMA Moved2 ==
    ASSUME Text, NEW s, NEW out, On2(s, out), NEW k, Skips(s.off, k),
           s.last \in {"INDENT", "DEDENT"} /\ ~s.eofDedentsDone => k = s.off
    PROVE  On2([s EXCEPT !.off = k], out)
<1> DEFINE t == [s EXCEPT !.off = k]
<1>1. s.off \in 1 .. Ends /\ k \in s.off .. Ends /\ Ends \in Nat /\ s \in Stmt
  BY AtIs DEF On2, Emitted2, Built, Skips
<1>2. /\ t \in Stmt /\ t.off = k /\ t.stack = s.stack /\ t.state = s.state /\ t.last = s.last
      /\ t.pending = s.pending /\ t.depth = s.depth /\ t.atLineStart = s.atLineStart
      /\ t.eofNewlineDone = s.eofNewlineDone /\ t.eofDedentsDone = s.eofDedentsDone
  <2>1. k \in Nat
    BY <1>1
  <2>. QED
    BY <1>1, <2>1 DEF Stmt
<1> HIDE DEF t
<1>3. Emitted2(t, out)
  BY <1>2, BuiltOn DEF On2, Emitted2
<1>4. s.eofNewlineDone => k = Ends
  BY <1>1 DEF On2, Flags2
<1>5. Flags2(t)
  BY <1>2, <1>4 DEF On2, Flags2
<1>6. On2(t, out)
  BY <1>2, <1>3, <1>5 DEF On2
<1>. QED
  BY <1>6 DEF t

\* The field that tells what was emitted last does.
LEMMA LastIs ==
    ASSUME NEW s, NEW out, On2(s, out)
    PROVE  /\ s.last = "none" => out = <<>>
           /\ out = <<>> => s.last = "none"
           /\ \A kind \in {"NEWLINE", "INDENT", "DEDENT"} :
                  s.last = kind => out # <<>> /\ Last(out) = Tok(kind)
           /\ s.last \notin {"none", "NEWLINE", "INDENT", "DEDENT"} =>
                  out # <<>> /\ ~IsStructure(Last(out))
<1>1. out \in Seq(Tokens) /\ NoEnd(out) /\ s.last = IF out = <<>> THEN "none" ELSE Last(out)[1]
  BY DEF On2, Emitted2, Built
<1>2. ASSUME out # <<>> PROVE Last(out) \in Tokens /\ Last(out) # Tok("END")
  <2>1. Len(out) \in 1 .. Len(out)
    BY <1>1, <1>2
  <2>. QED
    BY <1>1, <2>1 DEF Last, NoEnd
<1>3. \A tok \in Tokens : /\ tok[1] # "none"
                          /\ \A kind \in {"NEWLINE", "INDENT", "DEDENT"} :
                                 tok[1] = kind <=> tok = Tok(kind)
  BY DEF Tokens, Structure, Tok, Chars
<1>. QED
  BY <1>1, <1>2, <1>3 DEF IsStructure, Structure

\* A NEWLINE is due after the tokens of a line only.
LEMMA NewlineFits ==
    ASSUME NEW s, NEW out, On2(s, out), NewlineDue(s),
           s.last \notin {"INDENT", "DEDENT"}
    PROVE  Fits(out, Tok("NEWLINE"))
<1>1. out # <<>> /\ ~IsStructure(Last(out))
  BY LastIs DEF NewlineDue
<1>. QED
  BY <1>1 DEF Fits, Tok

\* An INDENT or a DEDENT comes at the start of a line.
LEMMA DedentFits ==
    ASSUME NEW s, NEW out, On2(s, out), s.last \in {"none", "NEWLINE", "DEDENT"}
    PROVE  /\ Fits(out, Tok("INDENT"))
           /\ Len(s.stack) > 1 => Fits(out, Tok("DEDENT"))
<1>1. out = <<>> \/ Last(out) \in {Tok("NEWLINE"), Tok("DEDENT")}
  BY LastIs
<1>2. Opened(out) = Len(s.stack) - 1 /\ Len(s.stack) \in Nat
  BY StackIs DEF On2, Emitted2, Built
<1>. QED
  BY <1>1, <1>2 DEF Fits, Tok

\* A DEDENT that is owed.
LEMMA EmitDedentIs ==
    ASSUME Text, NEW s, NEW out, On2(s, out), NEW n \in Nat, n + 1 < Len(s.stack),
           NEW t \in Stmt, t.state = "on", t.stack = s.stack, Skips(s.off, t.off),
           s.last \in {"none", "NEWLINE", "DEDENT"},
           Flags2(EmitDedent(t, n).s)
    PROVE  Step2(EmitDedent(t, n), out)
<1> DEFINE u == [t EXCEPT !.stack = Pop(@), !.pending = n]
           v == [u EXCEPT !.last = "DEDENT"]
<1>1. Stack(s.stack) /\ Len(s.stack) \in Nat /\ Len(s.stack) > 1
  BY StackIs DEF On2
<1>2. Stack(Pop(t.stack)) /\ Len(Pop(t.stack)) = Len(s.stack) - 1 /\ Pop(t.stack) \in Seq(Nat)
  BY <1>1, StackIs DEF Stack
<1>3. u \in Stmt /\ u.off = t.off /\ u.stack = Pop(t.stack) /\ u.pending = n /\ u.state = "on"
  BY <1>2 DEF Stmt
<1>4. EmitDedent(t, n) = [tok |-> Tok("DEDENT"), s |-> v]
  BY DEF EmitDedent, Emit2, Tok
<1>5. Built(out, Len(s.stack) - 1, t.off)
  BY BuiltOn DEF On2, Emitted2
<1>6. Fits(out, Tok("DEDENT"))
  BY <1>1, DedentFits
<1>7. Flags2(v)
  BY <1>4
<1> HIDE DEF u
<1>8. Step2([tok |-> Tok("DEDENT"), s |-> v], out)
  <2>1. Len(u.stack) - 1 = (Len(s.stack) - 1) + (IF "DEDENT" = "INDENT" THEN 1 ELSE 0)
                                              - (IF "DEDENT" = "DEDENT" THEN 1 ELSE 0)
    BY <1>1, <1>2, <1>3
  <2>2. u.pending < Len(u.stack) /\ Stack(u.stack) /\ u.off = t.off
    BY <1>1, <1>2, <1>3
  <2>. QED
    BY <1>3, <1>5, <1>6, <1>7, <2>1, <2>2, StructureOn2
<1>. QED
  BY <1>4, <1>8

\* The end of the file.
LEMMA AtEOFIs ==
    ASSUME Text, NEW s, NEW out, On2(s, out), s.pending = 0, s.off = Ends
    PROVE  Step2(AtEOF(s), out)
<1>1. At(Ends) = "eof" /\ Ends \in Nat
  BY AtIs
<1>2. s \in Stmt /\ s.state = "on" /\ Stack(s.stack) /\ Len(s.stack) \in Nat /\ Len(s.stack) >= 1
      /\ Built(out, Len(s.stack) - 1, Ends)
  BY StackIs DEF On2, Emitted2
<1>3. s.last \in {"INDENT", "DEDENT"} => s.eofDedentsDone /\ s.eofNewlineDone
  BY <1>1 DEF On2, Flags2
<1>a. s.eofDedentsDone \/ ~(Len(s.stack) > 1) => Len(s.stack) = 1
  <2> DEFINE n == Len(s.stack)
  <2>1. s.eofDedentsDone => 0 = n - 1
    BY DEF On2, Flags2
  <2>2. n \in Nat /\ n >= 1
    BY <1>2
  <2> HIDE DEF n
  <2>3. s.eofDedentsDone \/ ~(n > 1) => n = 1
    BY <2>1, <2>2
  <2>. QED
    BY <2>3 DEF n
<1> DEFINE nl == [s EXCEPT !.eofNewlineDone = TRUE]
           de == [nl EXCEPT !.eofDedentsDone = TRUE]
<1>4. /\ nl \in Stmt /\ nl.off = Ends /\ nl.stack = s.stack /\ nl.state = "on" /\ nl.pending = 0
      /\ de \in Stmt /\ de.off = Ends /\ de.stack = s.stack /\ de.state = "on" /\ de.pending = 0
  BY <1>2 DEF Stmt
<1>5. CASE ~s.eofNewlineDone /\ NewlineDue(s)
  <2>1. Fits(out, Tok("NEWLINE"))
    BY <1>3, <1>5, NewlineFits
  <2> DEFINE v == [nl EXCEPT !.last = "NEWLINE"]
  <2>2. AtEOF(s) = [tok |-> Tok("NEWLINE"), s |-> v]
    <3>1. AtEOF(s) = Emit2(nl, Tok("NEWLINE"))
      BY <1>5 DEF AtEOF
    <3>2. Tok("NEWLINE")[1] = "NEWLINE"
      BY DEF Tok
    <3> HIDE DEF nl
    <3>. QED
      BY <3>1, <3>2 DEF Emit2
  <2>3. Flags2(v)
    <3>1. /\ v.atLineStart = s.atLineStart /\ v.depth = s.depth /\ v.pending = 0 /\ v.off = Ends
          /\ v.last = "NEWLINE" /\ v.eofNewlineDone = TRUE /\ v.eofDedentsDone = s.eofDedentsDone
      BY <1>2 DEF Stmt
    <3>2. ~s.eofDedentsDone /\ (s.atLineStart => s.depth = 0)
      BY <1>5 DEF On2, Flags2
    <3> HIDE DEF v
    <3>. QED
      BY <3>1, <3>2 DEF Flags2
  <2> HIDE DEF nl
  <2>4. Step2([tok |-> Tok("NEWLINE"), s |-> v], out)
    <3>1. nl.pending < Len(nl.stack) /\ Stack(nl.stack)
          /\ Len(nl.stack) - 1 = (Len(s.stack) - 1) + (IF "NEWLINE" = "INDENT" THEN 1 ELSE 0)
                                                    - (IF "NEWLINE" = "DEDENT" THEN 1 ELSE 0)
      BY <1>2, <1>4
    <3>. QED
      BY <1>2, <1>4, <2>1, <2>3, <3>1, StructureOn2
  <2>. QED
    BY <2>2, <2>4
<1>6. CASE ~(~s.eofNewlineDone /\ NewlineDue(s)) /\ ~s.eofDedentsDone /\ Len(s.stack) > 1
  <2>1. AtEOF(s) = EmitDedent(de, Len(s.stack) - 2)
    BY <1>6 DEF AtEOF
  <2>2. s.last \in {"none", "NEWLINE", "DEDENT"}
    BY <1>6 DEF On2, Flags2, NewlineDue
  <2>3. Skips(s.off, de.off)
    BY <1>2, <1>4 DEF Built, Skips
  <2> DEFINE v == EmitDedent(de, Len(s.stack) - 2).s
  <2>4. Flags2(v)
    <3>1. /\ v.atLineStart = s.atLineStart /\ v.depth = s.depth /\ v.pending = Len(s.stack) - 2
          /\ v.off = Ends /\ v.last = "DEDENT" /\ v.eofNewlineDone = TRUE /\ v.eofDedentsDone = TRUE
          /\ v.stack = Pop(s.stack)
      BY <1>2 DEF Stmt, EmitDedent, Emit2, Tok
    <3>2. s.atLineStart => s.depth = 0
      BY DEF On2, Flags2
    <3>3. Len(Pop(s.stack)) = Len(s.stack) - 1
      BY <1>2, <1>6, StackIs
    <3> HIDE DEF v
    <3>. QED
      BY <1>2, <1>6, <3>1, <3>2, <3>3 DEF Flags2
  <2>5. Len(s.stack) - 2 \in Nat /\ (Len(s.stack) - 2) + 1 < Len(s.stack)
    BY <1>2, <1>6
  <2> HIDE DEF de
  <2>6. Step2(EmitDedent(de, Len(s.stack) - 2), out)
    BY <1>4, <2>2, <2>3, <2>4, <2>5, EmitDedentIs
  <2>. QED
    BY <2>1, <2>6
<1>7. CASE ~(~s.eofNewlineDone /\ NewlineDue(s)) /\ (s.eofDedentsDone \/ ~(Len(s.stack) > 1))
  <2> DEFINE v == [[de EXCEPT !.state = "ended"] EXCEPT !.last = "END"]
  <2>1. AtEOF(s) = [tok |-> Tok("END"), s |-> v]
    BY <1>7 DEF AtEOF, Emit2, Tok
  <2>2. Len(s.stack) = 1
    BY <1>7, <1>a
  <2>3. Complete(Append(out, Tok("END")))
    BY <1>2, <2>2, BuiltEnd
  <2>4. v \in Stmt /\ v.off = Ends /\ v.pending = 0 /\ v.stack = s.stack /\ v.state = "ended"
    BY <1>2 DEF Stmt, Kinds
  <2>5. Ends \in 1 .. Ends
    BY <1>2 DEF Built
  <2> DEFINE new == Append(out, Tok("END"))
  <2>6. [tok |-> Tok("END"), s |-> v].s = v
    OBVIOUS
  <2> HIDE DEF v
  <2>7. v.pending < Len(v.stack)
    <3>1. v.pending = 0 /\ Len(v.stack) = 1
      BY <2>2, <2>4
    <3>. QED
      BY <3>1
  <2>8. Complete(new) /\ new \in Seq(Tokens) /\ WellFormed(new)
    BY <2>3 DEF Complete
  <2> HIDE DEF new
  <2>9. Inv2(v, new)
    BY <2>4, <2>5, <2>7, <2>8 DEF Inv2
  <2>. QED
    BY <2>1, <2>9 DEF Step2, new
<1>. QED
  BY <1>5, <1>6, <1>7

\* The brackets that are open are counted.
LEMMA DepthIs == ASSUME NEW d \in Nat, NEW c PROVE Depth(d, c) \in Nat
<1>1. CASE c = "("
  BY <1>1 DEF Depth
<1>2. CASE c = ")" /\ d > 0
  BY <1>2 DEF Depth
<1>3. CASE c # "(" /\ ~(c = ")" /\ d > 0)
  BY <1>3 DEF Depth
<1>. QED
  BY <1>1, <1>2, <1>3

\* The end of the file, an error, or a name or a bracket.
LEMMA InLineIs ==
    ASSUME Text, NEW s, NEW out, On2(s, out), s.pending = 0, IsContent(s.off),
           At(s.off) = "eof" \/ ~s.atLineStart
    PROVE  Step2(InLine(s), out)
<1>1. s \in Stmt /\ s.off \in 1 .. Ends /\ Built(out, Len(s.stack) - 1, s.off) /\ s.state = "on"
  BY DEF On2, Emitted2, Built
<1>2. At(s.off) \in {"eof", "b", "x", "(", ")"}
  BY <1>1, AtIs DEF IsContent, Passes, Chars
<1>3. CASE At(s.off) = "eof"
  <2>1. InLine(s) = AtEOF(s) /\ s.off = Ends
    BY <1>1, <1>3, AtIs DEF InLine
  <2>. QED
    BY <2>1, AtEOFIs
<1>4. CASE At(s.off) = "b"
  <2>1. InLine(s) = Fail2(s)
    BY <1>4 DEF InLine
  <2>. QED
    BY <2>1, Failed2
<1>5. CASE At(s.off) \in {"x", "(", ")"}
  <2> DEFINE t == [s EXCEPT !.off = @ + 1, !.depth = Depth(@, At(s.off))]
             tok == <<At(s.off), s.off>>
             v == [t EXCEPT !.last = At(s.off)]
             new == Append(out, tok)
  <2>1. InLine(s) = [tok |-> tok, s |-> v]
    <3>1. InLine(s) = Emit2(t, tok)
      BY <1>5 DEF InLine
    <3>2. tok[1] = At(s.off)
      OBVIOUS
    <3> HIDE DEF t, tok
    <3>. QED
      BY <3>1, <3>2 DEF Emit2
  <2>2. Built(new, Len(s.stack) - 1, s.off + 1) /\ Last(new) = tok
    BY <1>1, <1>5, BuiltToken
  <2>3. s.off + 1 \in Nat /\ Depth(s.depth, At(s.off)) \in Nat /\ s.off # Ends
    BY <1>1, <1>5, DepthIs, AtIs DEF Stmt
  <2>4. /\ v \in Stmt /\ v.off = s.off + 1 /\ v.stack = s.stack /\ v.state = "on" /\ v.pending = 0
        /\ v.atLineStart = s.atLineStart /\ v.last = At(s.off)
        /\ v.eofNewlineDone = s.eofNewlineDone /\ v.eofDedentsDone = s.eofDedentsDone
    BY <1>1, <1>5, <2>3 DEF Stmt, Kinds, Chars
  <2>5. ~s.atLineStart /\ ~s.eofNewlineDone /\ ~s.eofDedentsDone
    BY <1>5, <2>3 DEF On2, Flags2
  <2>6. tok[1] = At(s.off) /\ [tok |-> tok, s |-> v].tok = tok /\ [tok |-> tok, s |-> v].s = v
    OBVIOUS
  <2>7. new # <<>>
    <3>1. out \in Seq(Tokens) /\ tok \in Tokens
      BY <1>1, <1>5, BuiltToken DEF Built
    <3>. QED
      BY <3>1, AppendIs
  <2>8. Stack(s.stack) /\ 0 < Len(s.stack)
    BY DEF On2
  <2> HIDE DEF v, new, tok
  <2>9. v.last \notin {"INDENT", "DEDENT"}
    BY <1>5, <2>4
  <2>10. Flags2(v)
    BY <2>4, <2>5, <2>9 DEF Flags2
  <2>11. Emitted2(v, new)
    BY <2>2, <2>4, <2>6, <2>7 DEF Emitted2
  <2>12. On2(v, new)
    BY <2>4, <2>8, <2>10, <2>11 DEF On2
  <2>13. Inv2(v, new)
    BY <2>2, <2>4, <2>8, <2>12 DEF Inv2, Built
  <2>. QED
    BY <2>1, <2>6, <2>13 DEF Step2, new
<1>. QED
  BY <1>2, <1>3, <1>4, <1>5

\* The start of a line that is not blank.
LEMMA AtLineStartIs ==
    ASSUME Text, NEW s, NEW out, On2(s, out), s.pending = 0, s.atLineStart
    PROVE  Step2(AtLineStart(s), out)
<1> DEFINE m == FirstContent[s.off]
           t == [s EXCEPT !.off = m.off]
           begun == [t EXCEPT !.atLineStart = FALSE]
           n == Closes(s.stack, m.width)
<1>1. s \in Stmt /\ s.off \in 1 .. Ends /\ Stack(s.stack)
  BY DEF On2, Emitted2, Built
<1>2. m \in Leading /\ Skips(s.off, m.off) /\ m.off \in s.off .. Ends /\ IsContent(m.off)
  BY <1>1, FirstContentIs
<1>3. m.off \in Nat /\ m.width \in Nat
  BY <1>2 DEF Leading
<1> HIDE DEF m
<1>4. s.last \in {"none", "NEWLINE"} \/ s.eofDedentsDone
  BY DEF On2, Flags2
<1>5. On2(t, out)
  BY <1>2, <1>4, Moved2
<1>6. /\ t \in Stmt /\ t.off = m.off /\ t.stack = s.stack /\ t.state = "on" /\ t.last = s.last
      /\ t.pending = 0 /\ t.eofNewlineDone = s.eofNewlineDone /\ t.eofDedentsDone = s.eofDedentsDone
      /\ t.depth = s.depth
  BY <1>1, <1>3 DEF Stmt, On2
<1>7. CASE At(m.off) = "eof"
  <2>1. AtLineStart(s) = InLine(t)
    BY <1>7 DEF AtLineStart, m
  <2>2. IsContent(t.off) /\ At(t.off) = "eof"
    BY <1>2, <1>6, <1>7
  <2> HIDE DEF t
  <2>. QED
    BY <1>5, <1>6, <2>1, <2>2, InLineIs
<1>8. CASE At(m.off) # "eof"
  <2>1. ~s.eofNewlineDone /\ ~s.eofDedentsDone /\ s.last \in {"none", "NEWLINE"} /\ m.off # Ends
    <3>1. m.off # Ends
      BY <1>1, <1>8, AtIs
    <3>2. s.eofNewlineDone => s.off = Ends
      BY DEF On2, Flags2
    <3>3. ~s.eofNewlineDone
      BY <1>1, <1>2, <3>1, <3>2, AtIs
    <3>4. s.eofDedentsDone => s.eofNewlineDone
      BY DEF On2, Flags2
    <3>. QED
      BY <1>4, <3>1, <3>3, <3>4
  <2>2. /\ begun \in Stmt /\ begun.off = m.off /\ begun.stack = s.stack /\ begun.state = "on"
        /\ begun.last = s.last /\ begun.pending = 0 /\ begun.atLineStart = FALSE
        /\ ~begun.eofNewlineDone /\ ~begun.eofDedentsDone
    BY <1>1, <1>3, <1>6, <2>1 DEF Stmt
  <2>3. Top(s.stack) \in Nat /\ Len(s.stack) \in Nat /\ Len(s.stack) >= 1
    BY <1>1, StackIs
  <2>4. On2(begun, out)
    <3>1. Emitted2(begun, out)
      BY <1>5, <1>6, <2>2 DEF On2, Emitted2
    <3> HIDE DEF begun
    <3>2. Flags2(begun)
      BY <2>1, <2>2 DEF Flags2
    <3>. QED
      BY <1>1, <2>2, <2>3, <3>1, <3>2 DEF On2
  <2>5. CASE m.width > Top(s.stack)
    <3> DEFINE u == [begun EXCEPT !.stack = Append(@, m.width)]
               v == [u EXCEPT !.last = "INDENT"]
    <3>1. AtLineStart(s) = [tok |-> Tok("INDENT"), s |-> v]
      <4>1. AtLineStart(s) = Emit2(u, Tok("INDENT"))
        BY <1>3, <1>8, <2>3, <2>5 DEF AtLineStart, m
      <4>2. Tok("INDENT")[1] = "INDENT"
        BY DEF Tok
      <4> HIDE DEF u
      <4>. QED
        BY <4>1, <4>2 DEF Emit2
    <3>2. Stack(Append(s.stack, m.width)) /\ Len(Append(s.stack, m.width)) = Len(s.stack) + 1
      BY <1>1, <1>3, StackIs
    <3>3. /\ u \in Stmt /\ u.off = m.off /\ u.stack = Append(s.stack, m.width) /\ u.state = "on"
          /\ u.pending = 0 /\ u.atLineStart = FALSE /\ ~u.eofNewlineDone /\ ~u.eofDedentsDone
      <4> HIDE DEF begun
      <4>1. Append(s.stack, m.width) \in Seq(Nat)
        BY <3>2 DEF Stack
      <4>. QED
        BY <2>2, <4>1 DEF Stmt
    <3> HIDE DEF u
    <3>4. Flags2(v)
      <4>1. /\ v.last = "INDENT" /\ v.off = m.off /\ v.pending = 0 /\ v.atLineStart = FALSE
            /\ ~v.eofNewlineDone /\ ~v.eofDedentsDone
        BY <3>3 DEF Stmt
      <4> HIDE DEF v
      <4>. QED
        BY <1>2, <1>8, <4>1 DEF Flags2
    <3>5. Fits(out, Tok("INDENT")) /\ Built(out, Len(s.stack) - 1, u.off)
      BY <1>5, <1>6, <2>1, <3>3, DedentFits DEF On2, Emitted2
    <3>6. Stack(u.stack) /\ u.pending < Len(u.stack)
          /\ Len(u.stack) - 1 = (Len(s.stack) - 1) + (IF "INDENT" = "INDENT" THEN 1 ELSE 0)
                                                   - (IF "INDENT" = "DEDENT" THEN 1 ELSE 0)
      BY <2>3, <3>2, <3>3
    <3>7. Step2([tok |-> Tok("INDENT"), s |-> v], out)
      BY <3>3, <3>4, <3>5, <3>6, StructureOn2
    <3>. QED
      BY <3>1, <3>7
  <2>6. CASE m.width = Top(s.stack)
    <3>1. AtLineStart(s) = InLine(begun)
      BY <1>3, <1>8, <2>3, <2>6 DEF AtLineStart, m
    <3> HIDE DEF begun
    <3>. QED
      BY <1>2, <2>2, <2>4, <3>1, InLineIs
  <2>7. CASE m.width < Top(s.stack) /\ s.stack[Len(s.stack) - n] # m.width
    <3>1. AtLineStart(s) = Fail2(begun)
      BY <1>3, <1>8, <2>3, <2>7 DEF AtLineStart, m
    <3> HIDE DEF begun
    <3>. QED
      BY <2>4, <3>1, Failed2
  <2>8. CASE m.width < Top(s.stack) /\ s.stack[Len(s.stack) - n] = m.width
    <3>1. AtLineStart(s) = EmitDedent(begun, n - 1)
      BY <1>3, <1>8, <2>3, <2>8 DEF AtLineStart, m
    <3>2. n - 1 \in Nat /\ (n - 1) + 1 < Len(s.stack)
      <4>1. n \in 0 .. Len(s.stack) - 1 /\ n > 0
        BY <1>1, <1>3, <2>8, ClosesIs
      <4> HIDE DEF n
      <4>. QED
        BY <2>3, <4>1
    <3> DEFINE k == n - 1
    <3> HIDE DEF n, begun
    <3>3. Flags2(EmitDedent(begun, k).s)
      <4> DEFINE v == EmitDedent(begun, k).s
      <4>1. /\ v.last = "DEDENT" /\ v.off = m.off /\ v.pending = k /\ v.atLineStart = FALSE
            /\ ~v.eofNewlineDone /\ ~v.eofDedentsDone
        BY <2>2 DEF EmitDedent, Emit2, Tok, Stmt
      <4> HIDE DEF v
      <4>2. Flags2(v)
        BY <1>2, <1>8, <4>1 DEF Flags2
      <4>. QED
        BY <4>2 DEF v
    <3>4. Step2(EmitDedent(begun, k), out)
      <4>1. k \in Nat /\ k + 1 < Len(s.stack)
        BY <3>2
      <4> HIDE DEF k
      <4>. QED
        BY <1>2, <2>1, <2>2, <3>3, <4>1, EmitDedentIs
    <3>. QED
      BY <3>1, <3>4
  <2>. QED
    BY <1>3, <2>3, <2>5, <2>6, <2>7, <2>8
<1>. QED
  BY <1>7, <1>8

\* A call of nextInternal, in any state of the scanner.
LEMMA NextInternalIs ==
    ASSUME Text, NEW s, NEW out, On2(s, out)
    PROVE  Step2(NextInternal(s), out)
<1> DEFINE k == SkipSpace[[off |-> s.off, depth |-> s.depth]]
           t == [s EXCEPT !.off = SkipSpace[[off |-> @, depth |-> s.depth]]]
           line == [t EXCEPT !.off = @ + 1, !.atLineStart = TRUE]
<1>1. s \in Stmt /\ s.off \in 1 .. Ends /\ Stack(s.stack) /\ s.pending \in Nat /\ s.depth \in Nat
  BY DEF On2, Emitted2, Built, Stmt
<1>2. CASE s.pending > 0
  <2>1. NextInternal(s) = EmitDedent(s, s.pending - 1)
    BY <1>2 DEF NextInternal
  <2> DEFINE n == s.pending - 1
             v == EmitDedent(s, n).s
  <2>2. n \in Nat /\ n + 1 < Len(s.stack) /\ s.last = "DEDENT" /\ s.state = "on"
    <3>1. s.pending < Len(s.stack) /\ Len(s.stack) \in Nat /\ s.last = "DEDENT"
      BY <1>1, <1>2, StackIs DEF On2, Flags2
    <3>. QED
      BY <1>1, <1>2, <3>1 DEF On2
  <2>3. Skips(s.off, s.off)
    BY <1>1, AtIs DEF Skips
  <2>4. Flags2(v)
    <3>1. /\ v.last = "DEDENT" /\ v.off = s.off /\ v.pending = n /\ v.atLineStart = s.atLineStart
          /\ v.depth = s.depth /\ v.eofNewlineDone = s.eofNewlineDone
          /\ v.eofDedentsDone = s.eofDedentsDone /\ v.stack = Pop(s.stack)
      BY <1>1 DEF Stmt, EmitDedent, Emit2, Tok
    <3>2. Len(Pop(s.stack)) = Len(s.stack) - 1 /\ Len(s.stack) \in Nat
      BY <1>1, <2>2, StackIs
    <3> HIDE DEF v
    <3>3. v.eofDedentsDone => v.pending = Len(v.stack) - 1
      <4>1. s.eofDedentsDone => s.pending = Len(s.stack) - 1
        BY DEF On2, Flags2
      <4>. QED
        BY <1>1, <3>1, <3>2, <4>1
    <3>. QED
      BY <2>2, <3>1, <3>3 DEF On2, Flags2
  <2> HIDE DEF n
  <2>5. Step2(EmitDedent(s, n), out)
    BY <1>1, <2>2, <2>3, <2>4, EmitDedentIs
  <2>. QED
    BY <2>1, <2>5 DEF n
<1>3. CASE s.pending = 0 /\ s.atLineStart /\ s.depth = 0
  <2>1. NextInternal(s) = AtLineStart(s)
    BY <1>3 DEF NextInternal
  <2>. QED
    BY <1>3, <2>1, AtLineStartIs
<1>4. CASE s.pending = 0 /\ ~(s.atLineStart /\ s.depth = 0)
  <2>1. NextInternal(s) =
            CASE At(t.off) = "n" /\ NewlineDue(s) -> Emit2(line, Tok("NEWLINE"))
              [] At(t.off) = "n" /\ ~NewlineDue(s) -> AtLineStart(line)
              [] At(t.off) # "n" -> InLine(t)
    BY <1>4 DEF NextInternal
  <2>2. ~s.atLineStart
    BY <1>4 DEF On2, Flags2
  <2>3. /\ Skips(s.off, k) /\ k \in s.off .. Ends
        /\ IsContent(k) \/ (At(k) = "n" /\ s.depth = 0 /\ ~Continued(k))
        /\ IsContent(s.off) => k = s.off
    BY <1>1, SkipSpaceIs
  <2>4. t = [s EXCEPT !.off = k]
    BY <1>1 DEF Stmt
  <2>5. k \in Nat /\ k \in 1 .. Ends
    BY <1>1, <2>3, AtIs
  <2> HIDE DEF k
  <2>6. On2(t, out)
    <3>1. s.last \in {"INDENT", "DEDENT"} /\ ~s.eofDedentsDone => k = s.off
      BY <2>3 DEF On2, Flags2
    <3>. QED
      BY <2>3, <2>4, <3>1, Moved2
  <2>7. /\ t \in Stmt /\ t.off = k /\ t.stack = s.stack /\ t.state = "on" /\ t.last = s.last
        /\ t.pending = 0 /\ t.atLineStart = s.atLineStart /\ t.depth = s.depth
        /\ t.eofNewlineDone = s.eofNewlineDone /\ t.eofDedentsDone = s.eofDedentsDone
    BY <1>1, <1>4, <2>4, <2>5 DEF Stmt, On2
  <2> HIDE DEF t
  <2>8. CASE At(k) # "n"
    <3>1. NextInternal(s) = InLine(t)
      BY <2>1, <2>7, <2>8
    <3>. QED
      BY <2>2, <2>3, <2>6, <2>7, <2>8, <3>1, InLineIs
  <2>9. CASE At(k) = "n"
    <3>1. s.depth = 0 /\ ~Continued(k) /\ ~IsContent(k)
      BY <2>3, <2>9 DEF IsContent, Passes
    <3>2. Past(k) = k + 1 /\ Skips(k, k + 1) /\ k # Ends
      <4>1. Past(k) = k + 1
        BY <2>9, <3>1 DEF Past
      <4>2. Skips(k, Past(k))
        BY <2>5, <3>1, PastIs DEF IsContent
      <4>. QED
        BY <2>5, <2>9, <4>1, <4>2, AtIs
    <3>3. Built(out, Len(s.stack) - 1, k + 1)
      BY <2>6, <2>7, <3>2, BuiltOn DEF On2, Emitted2
    <3>4. /\ line \in Stmt /\ line.off = k + 1 /\ line.stack = s.stack /\ line.state = "on"
          /\ line.last = s.last /\ line.pending = 0 /\ line.depth = 0 /\ line.atLineStart = TRUE
          /\ line.eofNewlineDone = s.eofNewlineDone /\ line.eofDedentsDone = s.eofDedentsDone
      <4>1. line = [t EXCEPT !.off = k + 1, !.atLineStart = TRUE]
        BY <2>7 DEF Stmt
      <4>2. k + 1 \in Nat
        BY <2>5
      <4> HIDE DEF line
      <4>. QED
        BY <2>7, <3>1, <4>1, <4>2 DEF Stmt
    <3>5. ~s.eofNewlineDone /\ ~s.eofDedentsDone
      <4>1. s.eofNewlineDone => k = Ends
        BY <2>6, <2>7 DEF On2, Flags2
      <4>2. s.eofDedentsDone => s.eofNewlineDone
        BY DEF On2, Flags2
      <4>. QED
        BY <3>2, <4>1, <4>2
    <3>6. s.last \notin {"INDENT", "DEDENT"}
      <4>1. s.last \in {"INDENT", "DEDENT"} => IsContent(k)
        BY <2>6, <2>7, <3>5 DEF On2, Flags2
      <4>. QED
        BY <3>1, <4>1
    <3> HIDE DEF line
    <3>7. CASE NewlineDue(s)
      <4> DEFINE v == [line EXCEPT !.last = "NEWLINE"]
      <4>1. NextInternal(s) = [tok |-> Tok("NEWLINE"), s |-> v]
        <5>1. NextInternal(s) = Emit2(line, Tok("NEWLINE"))
          BY <2>1, <2>7, <2>9, <3>7 DEF line
        <5>2. Tok("NEWLINE")[1] = "NEWLINE"
          BY DEF Tok
        <5>. QED
          BY <5>1, <5>2 DEF Emit2
      <4>2. Flags2(v)
        <5>1. /\ v.last = "NEWLINE" /\ v.pending = 0 /\ v.depth = 0
              /\ ~v.eofNewlineDone /\ ~v.eofDedentsDone
          BY <3>4, <3>5 DEF Stmt
        <5> HIDE DEF v
        <5>. QED
          BY <5>1 DEF Flags2
      <4>3. Fits(out, Tok("NEWLINE"))
        BY <3>6, <3>7, NewlineFits
      <4>4. Stack(line.stack) /\ line.pending < Len(line.stack)
            /\ Len(line.stack) - 1 = (Len(s.stack) - 1) + (IF "NEWLINE" = "INDENT" THEN 1 ELSE 0)
                                                        - (IF "NEWLINE" = "DEDENT" THEN 1 ELSE 0)
        <5>1. Len(s.stack) \in Nat /\ Len(s.stack) >= 1
          BY <1>1, StackIs
        <5>. QED
          BY <1>1, <3>4, <5>1
      <4>5. Built(out, Len(s.stack) - 1, line.off)
        BY <3>3, <3>4
      <4>6. Step2([tok |-> Tok("NEWLINE"), s |-> v], out)
        BY <3>4, <4>2, <4>3, <4>4, <4>5, StructureOn2
      <4>. QED
        BY <4>1, <4>6
    <3>8. CASE ~NewlineDue(s)
      <4>1. NextInternal(s) = AtLineStart(line)
        BY <2>1, <2>7, <2>9, <3>8 DEF line
      <4>2. Flags2(line)
        BY <3>4, <3>5, <3>8 DEF Flags2, NewlineDue
      <4>3. Emitted2(line, out)
        BY <3>3, <3>4 DEF Emitted2, On2
      <4>4. On2(line, out)
        BY <1>1, <3>4, <4>2, <4>3 DEF On2
      <4>. QED
        BY <3>4, <4>1, <4>4, AtLineStartIs
    <3>. QED
      BY <3>7, <3>8
  <2>. QED
    BY <2>8, <2>9
<1>. QED
  BY <1>1, <1>2, <1>3, <1>4

-----------------------------------------------------------------------------
(* The scanner of lex/ and the wrapper over it.                            *)

Indenter ==
    [scan : Scanner, indents : Seq(Nat), pending : Seq(Tokens), bracket : Nat,
     lineStart : BOOLEAN, state : {"on", "ended", "failed"}]

\* What has been emitted and what waits in the queue, where the file is not at its end.
Building(t, q) ==
    /\ Built(q, Len(t.indents) - 1, t.scan.pos)
    /\ t.lineStart => q = <<>> \/ Last(q) = Tok("NEWLINE")
    /\ ~t.lineStart => q # <<>> /\ ~IsStructure(Last(q))

On1(t, out) ==
    /\ t \in Indenter /\ t.state = "on" /\ Stack(t.indents) /\ t.scan.pos \in 1 .. Ends
    /\ \/ Building(t, out \o t.pending)
       \/ t.pending # <<>> /\ Complete(out \o t.pending)

\* The wrapper in any state.
Inv1(t, out) ==
    /\ t \in Indenter /\ t.scan.pos \in 1 .. Ends
    /\ out \in Seq(Tokens) /\ WellFormed(out)
    /\ t.state = "on" => On1(t, out)
    /\ t.state = "ended" => Complete(out)

\* What one call leaves behind.
Step1(r, out) ==
    Inv1(IF r.tok = Tok("END") THEN [r.t EXCEPT !.state = "ended"] ELSE r.t, Append(out, r.tok))

\* The queue q, of what was emitted and toks, and its first token on the move.
Splits(q, out, toks, tok, rest, new) ==
    /\ tok \in Tokens /\ rest \in Seq(Tokens) /\ new \o rest = q
    /\ q \in Seq(Tokens) /\ Len(q) = Len(out) + Len(toks) /\ q[Len(out) + 1] = tok
    /\ Len(out) \in Nat /\ Len(toks) \in Nat /\ Len(toks) >= 1
    /\ rest = <<>> <=> Len(toks) = 1

\* The first of the queue moves to the end of what was emitted.
LEMMA HeadMoves ==
    ASSUME NEW out \in Seq(Tokens), NEW toks \in Seq(Tokens), toks # <<>>
    PROVE  Splits(out \o toks, out, toks, Head(toks), Tail(toks), Append(out, Head(toks)))
<1> DEFINE h == Head(toks)
           rest == Tail(toks)
<1>1. /\ h \in Tokens /\ rest \in Seq(Tokens) /\ Len(rest) = Len(toks) - 1
      /\ \A i \in 1 .. Len(rest) : rest[i] = toks[i + 1]
  BY HeadTailProperties
<1>2. h = toks[1] /\ Len(toks) \in Nat /\ Len(toks) >= 1
  OBVIOUS
<1>3. /\ out \o toks \in Seq(Tokens) /\ Len(out \o toks) = Len(out) + Len(toks)
      /\ \A i \in 1 .. Len(out) + Len(toks) :
             (out \o toks)[i] = IF i <= Len(out) THEN out[i] ELSE toks[i - Len(out)]
  BY ConcatProperties
<1> HIDE DEF h, rest
<1>4. rest = <<>> <=> Len(toks) = 1
  BY <1>1, <1>2
<1>5. (out \o toks)[Len(out) + 1] = h
  <2>1. Len(out) \in Nat
    OBVIOUS
  <2>. QED
    BY <1>2, <1>3, <2>1
<1>6. Append(out, h) \o rest = out \o toks
  <2>1. /\ Append(out, h) \in Seq(Tokens) /\ Len(Append(out, h)) = Len(out) + 1 /\ Len(out) \in Nat
        /\ \A i \in 1 .. Len(out) : Append(out, h)[i] = out[i]
        /\ Append(out, h)[Len(out) + 1] = h
    BY <1>1
  <2> DEFINE a == Append(out, h)
  <2> HIDE DEF a
  <2>2. /\ a \o rest \in Seq(Tokens) /\ Len(a \o rest) = Len(a) + Len(rest)
        /\ \A i \in 1 .. Len(a) + Len(rest) :
               (a \o rest)[i] = IF i <= Len(a) THEN a[i] ELSE rest[i - Len(a)]
    BY <1>1, <2>1, ConcatProperties DEF a
  <2> DEFINE l == a \o rest
             r == out \o toks
  <2>3. Len(l) = Len(r) /\ l \in Seq(Tokens) /\ r \in Seq(Tokens)
    BY <1>1, <1>2, <1>3, <2>1, <2>2 DEF a
  <2>4. ASSUME NEW i \in 1 .. Len(l) PROVE l[i] = r[i]
    <3>1. i \in 1 .. Len(out) + Len(toks) /\ i \in 1 .. Len(a) + Len(rest) /\ Len(a) = Len(out) + 1
          /\ Len(rest) = Len(toks) - 1 /\ i \in Nat
      BY <1>1, <1>2, <2>1, <2>2 DEF a
    <3>2. l[i] = IF i <= Len(a) THEN a[i] ELSE rest[i - Len(a)]
      BY <2>2, <3>1
    <3>3. r[i] = IF i <= Len(out) THEN out[i] ELSE toks[i - Len(out)]
      BY <1>3, <3>1
    <3> HIDE DEF l, r
    <3>4. CASE i <= Len(out)
      BY <2>1, <3>1, <3>2, <3>3, <3>4 DEF a
    <3>5. CASE i = Len(out) + 1
      BY <1>2, <2>1, <3>1, <3>2, <3>3, <3>5 DEF a
    <3>6. CASE i > Len(out) + 1
      <4>1. i - Len(a) \in 1 .. Len(rest) /\ (i - Len(a)) + 1 = i - Len(out)
        BY <1>2, <2>1, <3>1, <3>6
      <4>2. rest[i - Len(a)] = toks[i - Len(out)]
        BY <1>1, <4>1
      <4>. QED
        BY <2>1, <3>1, <3>2, <3>3, <3>6, <4>2
    <3>. QED
      BY <2>1, <3>1, <3>4, <3>5, <3>6
  <2> HIDE DEF l, r
  <2>5. l = r
    BY <2>3, <2>4, SeqEqual
  <2>. QED
    BY <2>5 DEF l, r, a
<1>7. Len(out) \in Nat
  OBVIOUS
<1> DEFINE q == out \o toks
           new == Append(out, h)
<1> HIDE DEF q, new
<1>8. Splits(q, out, toks, h, rest, new)
  BY <1>1, <1>2, <1>3, <1>4, <1>5, <1>6, <1>7 DEF Splits, q, new
<1>. QED
  BY <1>8 DEF h, rest, q, new

\* What a well-formed sequence begins with is well-formed.
LEMMA WellFormedPrefix ==
    ASSUME NEW out \in Seq(Tokens), NEW rest \in Seq(Tokens), WellFormed(out \o rest)
    PROVE  WellFormed(out)
<1> DEFINE q == out \o rest
<1>1. q \in Seq(Tokens) /\ Len(out) \in Nat /\ Len(q) >= Len(out)
      /\ \A i \in 1 .. Len(out) : q[i] = out[i]
  OBVIOUS
<1>2. WellFormed(q)
  OBVIOUS
<1> HIDE DEF q
<1>3. ASSUME NEW i \in 1 .. Len(out), NEW kind PROVE Count(out, i, kind) = Count(q, i, kind)
  <2>1. {j \in 1 .. i : out[j] = Tok(kind)} = {j \in 1 .. i : q[j] = Tok(kind)}
    BY <1>1
  <2>. QED
    BY <2>1 DEF Count
<1>4. ASSUME NEW i \in 1 .. Len(out)
      PROVE  /\ Count(out, i, "DEDENT") <= Count(out, i, "INDENT")
             /\ out[i] = Tok("END") => Count(out, i, "DEDENT") = Count(out, i, "INDENT")
             /\ out[i] \in {Tok("INDENT"), Tok("DEDENT")} =>
                   i = 1 \/ out[i - 1] \in {Tok("NEWLINE"), Tok("DEDENT")}
             /\ out[i] = Tok("NEWLINE") => i > 1 /\ ~IsStructure(out[i - 1])
  <2>1. /\ q[i] = out[i] /\ (i # 1 => q[i - 1] = out[i - 1])
        /\ Count(out, i, "DEDENT") = Count(q, i, "DEDENT")
        /\ Count(out, i, "INDENT") = Count(q, i, "INDENT")
    BY <1>1, <1>3
  <2>2. /\ Count(q, i, "DEDENT") <= Count(q, i, "INDENT")
        /\ q[i] = Tok("END") => Count(q, i, "DEDENT") = Count(q, i, "INDENT")
        /\ q[i] \in {Tok("INDENT"), Tok("DEDENT")} =>
              i = 1 \/ q[i - 1] \in {Tok("NEWLINE"), Tok("DEDENT")}
        /\ q[i] = Tok("NEWLINE") => i > 1 /\ ~IsStructure(q[i - 1])
    BY <1>1, <1>2 DEF WellFormed
  <2>. QED
    BY <1>1, <2>1, <2>2
<1>. QED
  BY <1>4 DEF WellFormed

\* A token is taken from the queue.
LEMMA DequeueIs ==
    ASSUME Text, NEW u \in Indenter, u.state = "on", Stack(u.indents), u.scan.pos \in 1 .. Ends,
           NEW out \in Seq(Tokens), NEW toks \in Seq(Tokens), toks # <<>>,
           Building(u, out \o toks) \/ Complete(out \o toks)
    PROVE  Step1(Dequeue(u, toks), out)
<1> DEFINE q == out \o toks
           tok == Head(toks)
           rest == Tail(toks)
           new == Append(out, tok)
           v == [u EXCEPT !.pending = rest]
<1>1. /\ tok \in Tokens /\ rest \in Seq(Tokens) /\ new \o rest = q
      /\ q \in Seq(Tokens) /\ Len(q) = Len(out) + Len(toks) /\ q[Len(out) + 1] = tok
      /\ Len(out) \in Nat /\ Len(toks) \in Nat /\ Len(toks) >= 1
      /\ (rest = <<>> <=> Len(toks) = 1)
  <2>1. Splits(q, out, toks, tok, rest, new)
    BY HeadMoves
  <2> HIDE DEF q, tok, rest, new
  <2>. QED
    BY <2>1 DEF Splits
<1>2. new \in Seq(Tokens) /\ (rest = <<>> => new = q)
  BY <1>1
<1>3. WellFormed(q)
  BY DEF Building, Built, Complete
<1>4. Building(u, q) \/ Complete(q)
  OBVIOUS
<1>5. Dequeue(u, toks).tok = tok /\ Dequeue(u, toks).t = v
  BY DEF Dequeue
<1> HIDE DEF q, tok, rest, new
<1>6. WellFormed(new)
  BY <1>1, <1>2, <1>3, WellFormedPrefix
<1>7. /\ v \in Indenter /\ v.pending = rest /\ v.state = "on" /\ v.indents = u.indents
      /\ v.scan = u.scan /\ v.lineStart = u.lineStart
  BY <1>1 DEF Indenter
<1>8. CASE tok = Tok("END")
  <2>1. ~Building(u, q)
    <3>1. Len(out) + 1 \in 1 .. Len(q)
      BY <1>1
    <3>. QED
      BY <1>1, <1>8, <3>1 DEF Building, Built, NoEnd
  <2>2. Complete(q) /\ Len(toks) = 1
    <3>1. Complete(q)
      BY <1>4, <2>1
    <3>2. ~(Len(out) + 1 \in 1 .. Len(q) - 1)
      BY <1>1, <1>8, <3>1 DEF Complete
    <3>3. Len(toks) \in Nat /\ Len(toks) >= 1 /\ Len(out) \in Nat /\ Len(q) = Len(out) + Len(toks)
      BY <1>1
    <3> DEFINE a == Len(toks)
               b == Len(out)
               c == Len(q)
    <3> HIDE DEF a, b, c
    <3>4. a = 1
      <4>1. a \in Nat /\ a >= 1 /\ b \in Nat /\ c = b + a /\ ~(b + 1 \in 1 .. c - 1)
        BY <3>2, <3>3 DEF a, b, c
      <4>. QED
        BY <4>1
    <3>. QED
      BY <3>1, <3>4 DEF a
  <2>3. Complete(new)
    BY <1>1, <1>2, <2>2
  <2> DEFINE w == [v EXCEPT !.state = "ended"]
  <2> HIDE DEF v
  <2>4. w \in Indenter /\ w.state = "ended" /\ w.scan = u.scan
    BY <1>7 DEF Indenter
  <2> HIDE DEF w
  <2>5. Inv1(w, new)
    BY <1>2, <1>6, <2>3, <2>4 DEF Inv1
  <2>. QED
    BY <1>5, <1>8, <2>5 DEF Step1, new, w
<1>9. CASE tok # Tok("END")
  <2> HIDE DEF v
  <2>1. Building(u, q) => Building(v, q)
    BY <1>7 DEF Building
  <2>2. Complete(q) => rest # <<>>
    <3>1. Complete(q) => q[Len(q)] = Tok("END")
      BY DEF Complete, Last
    <3>. QED
      BY <1>1, <1>9, <3>1
  <2>3. On1(v, new)
    BY <1>1, <1>4, <1>7, <2>1, <2>2 DEF On1
  <2>4. Inv1(v, new)
    BY <1>2, <1>6, <1>7, <2>3 DEF Inv1
  <2>. QED
    BY <1>5, <1>9, <2>4 DEF Step1, new
<1>. QED
  BY <1>8, <1>9

\* Several DEDENTs in a row.
LEMMA BuiltTimes ==
    ASSUME Text, NEW out, NEW open, NEW k, Built(out, open, k),
           out = <<>> \/ Last(out) = Tok("NEWLINE"), NEW n \in 0 .. open
    PROVE  LET q == out \o Times(n, Tok("DEDENT"))
           IN  /\ Built(q, open - n, k)
               /\ q = <<>> \/ Last(q) \in {Tok("NEWLINE"), Tok("DEDENT")}
<1> DEFINE Q(m) == out \o Times(m, Tok("DEDENT"))
           P(m) == /\ Built(Q(m), open - m, k)
                   /\ Q(m) = <<>> \/ Last(Q(m)) \in {Tok("NEWLINE"), Tok("DEDENT")}
           T == {m \in 0 .. open : ~P(m)}
<1>1. out \in Seq(Tokens) /\ open \in Nat /\ Tok("DEDENT") \in Tokens
  BY DEF Built, Tokens, Structure
<1>2. \A m \in Nat : Times(m, Tok("DEDENT")) \in Seq(Tokens)
  BY <1>1 DEF Times
<1>3. P(0)
  <2>1. Times(0, Tok("DEDENT")) = <<>>
    BY DEF Times
  <2>2. Q(0) = out
    BY <1>1, <2>1
  <2> HIDE DEF Q
  <2>. QED
    BY <1>1, <2>2
<1>4. ASSUME NEW m \in Nat, m < open, P(m) PROVE P(m + 1)
  <2>1. Q(m + 1) = Append(Q(m), Tok("DEDENT"))
    <3>1. Times(m + 1, Tok("DEDENT")) = Append(Times(m, Tok("DEDENT")), Tok("DEDENT"))
      BY DEF Times
    <3>2. Times(m, Tok("DEDENT")) \in Seq(Tokens)
      BY <1>2
    <3> DEFINE x == Times(m, Tok("DEDENT"))
               d == Tok("DEDENT")
    <3> HIDE DEF x, d
    <3>3. /\ Append(x, d) = x \o <<d>> /\ Append(out \o x, d) = (out \o x) \o <<d>>
          /\ (out \o x) \o <<d>> = out \o (x \o <<d>>)
      <4>1. out \o x \in Seq(Tokens) /\ <<d>> \in Seq(Tokens) /\ x \in Seq(Tokens) /\ d \in Tokens
        BY <1>1, <3>2 DEF x, d
      <4>. QED
        BY <1>1, <4>1, AppendIsConcat, ConcatAssociative
    <3>. QED
      BY <3>1, <3>3 DEF x, d
  <2> HIDE DEF Q
  <2>2. Built(Q(m), open - m, k) /\ open - m > 0
    BY <1>1, <1>4
  <2>3. Fits(Q(m), Tok("DEDENT"))
    BY <1>4, <2>2 DEF Fits, Built, Tok
  <2>4. Tok("DEDENT") \in Structure \ {Tok("END")} /\ Tok("DEDENT") # Tok("INDENT")
    BY DEF Structure, Tok
  <2>5. /\ Built(Append(Q(m), Tok("DEDENT")),
                 (open - m) + (IF Tok("DEDENT") = Tok("INDENT") THEN 1 ELSE 0)
                            - (IF Tok("DEDENT") = Tok("DEDENT") THEN 1 ELSE 0), k)
        /\ Last(Append(Q(m), Tok("DEDENT"))) = Tok("DEDENT")
    BY <2>2, <2>3, <2>4, BuiltStructure
  <2>6. (open - m) + (IF Tok("DEDENT") = Tok("INDENT") THEN 1 ELSE 0)
                   - (IF Tok("DEDENT") = Tok("DEDENT") THEN 1 ELSE 0) = open - (m + 1)
    BY <1>1, <1>4, <2>4
  <2>. QED
    BY <2>1, <2>5, <2>6
<1> HIDE DEF P
<1>5. T = {}
  <2>1. SUFFICES ASSUME T # {} PROVE FALSE
    OBVIOUS
  <2>2. PICK m \in T : \A j \in T : m <= j
    <3>1. T \subseteq Nat
      BY <1>1
    <3> HIDE DEF T
    <3>. QED
      BY <2>1, <3>1, FirstOf
  <2>3. m \in 0 .. open /\ ~P(m) /\ m # 0
    BY <1>3
  <2>4. P(m - 1) /\ m - 1 \in Nat /\ m - 1 < open
    BY <1>1, <2>2, <2>3
  <2>. QED
    BY <1>4, <2>3, <2>4
<1>6. P(n)
  BY <1>5
<1>. QED
  BY <1>6 DEF P

\* After an error what was emitted stands.
LEMMA Failed1 ==
    ASSUME NEW t \in Indenter, t.scan.pos \in 1 .. Ends, NEW out \in Seq(Tokens), WellFormed(out)
    PROVE  Step1(Fail1(t), out)
<1> DEFINE new == Append(out, Tok("error"))
           f == [t EXCEPT !.state = "failed"]
<1>1. Tok("error") \in Tokens /\ Fits(out, Tok("error")) /\ Tok("error") # Tok("END")
  BY DEF Tokens, Fits, Tok
<1>2. new \in Seq(Tokens) /\ WellFormed(new)
  BY <1>1, WellFormedAppend
<1>3. f \in Indenter /\ f.state = "failed" /\ f.scan = t.scan
  BY DEF Indenter
<1>4. Fail1(t).tok = Tok("error") /\ Fail1(t).t = f
  BY DEF Fail1
<1> HIDE DEF new, f
<1>5. Inv1(f, new)
  BY <1>2, <1>3 DEF Inv1
<1>. QED
  BY <1>1, <1>4, <1>5 DEF Step1, new

\* The end of the file.
LEMMA FlushAtEndIs ==
    ASSUME Text, NEW t \in Indenter, t.state = "on", Stack(t.indents), t.scan.pos = Ends,
           NEW out \in Seq(Tokens), Building(t, out)
    PROVE  Step1(FlushAtEnd(t), out)
<1> DEFINE nl == FinalNewline(t)
           n == Len(t.indents) - 1
           de == Times(n, Tok("DEDENT"))
           q1 == out \o nl
           q2 == q1 \o de
           q3 == Append(q2, Tok("END"))
           toks == nl \o de \o <<Tok("END")>>
           u == [t EXCEPT !.lineStart = TRUE, !.indents = <<0>>]
<1>1. n \in Nat /\ Ends \in 1 .. Ends
  BY StackIs DEF Building, Built
<1>2. Tok("NEWLINE") \in Tokens /\ Tok("DEDENT") \in Tokens /\ Tok("END") \in Tokens
  BY DEF Tokens, Structure
<1>3. nl \in Seq(Tokens)
  BY <1>2 DEF FinalNewline
<1>4. de \in Seq(Tokens)
  BY <1>1, <1>2 DEF Times
<1>5. Built(q1, n, Ends) /\ (q1 = <<>> \/ Last(q1) = Tok("NEWLINE"))
  <2>1. CASE t.lineStart
    <3>1. q1 = out
      BY <2>1 DEF FinalNewline
    <3> HIDE DEF q1
    <3>. QED
      BY <2>1, <3>1 DEF Building
  <2>2. CASE ~t.lineStart
    <3>1. q1 = Append(out, Tok("NEWLINE"))
      BY <1>2, <2>2, AppendIsConcat DEF FinalNewline
    <3>2. Built(out, n, Ends) /\ Fits(out, Tok("NEWLINE"))
      BY <2>2 DEF Building, Fits, Tok
    <3>3. Tok("NEWLINE") \in Structure \ {Tok("END")} /\ Tok("NEWLINE") # Tok("INDENT")
          /\ Tok("NEWLINE") # Tok("DEDENT")
      BY DEF Structure, Tok
    <3> HIDE DEF q1, n
    <3>4. /\ Built(Append(out, Tok("NEWLINE")),
                   n + (IF Tok("NEWLINE") = Tok("INDENT") THEN 1 ELSE 0)
                     - (IF Tok("NEWLINE") = Tok("DEDENT") THEN 1 ELSE 0), Ends)
          /\ Last(Append(out, Tok("NEWLINE"))) = Tok("NEWLINE")
      BY <3>2, <3>3, BuiltStructure
    <3>5. n + (IF Tok("NEWLINE") = Tok("INDENT") THEN 1 ELSE 0)
            - (IF Tok("NEWLINE") = Tok("DEDENT") THEN 1 ELSE 0) = n
      BY <1>1, <3>3
    <3>. QED
      BY <3>1, <3>4, <3>5
  <2>. QED
    BY <2>1, <2>2
<1>6. out \o toks = q3 /\ toks \in Seq(Tokens) /\ toks # <<>>
  <2> DEFINE e == <<Tok("END")>>
  <2>1. e \in Seq(Tokens) /\ e # <<>>
    BY <1>2
  <2>2. q3 = q2 \o e
    <3>1. q2 \in Seq(Tokens)
      BY <1>3, <1>4
    <3> HIDE DEF q2
    <3>. QED
      BY <1>2, <3>1, AppendIsConcat
  <2> HIDE DEF nl, de, e
  <2>3. q2 = out \o (nl \o de) /\ nl \o de \in Seq(Tokens)
    BY <1>3, <1>4, ConcatAssociative
  <2> DEFINE z == nl \o de
  <2> HIDE DEF z
  <2>4. (out \o z) \o e = out \o (z \o e) /\ z \o e \in Seq(Tokens) /\ z \o e # <<>>
    <3>1. z \in Seq(Tokens)
      BY <2>3 DEF z
    <3>. QED
      BY <2>1, <3>1, ConcatAssociative, ConcatProperties, ConcatEqualIffEmpty
  <2>5. toks = z \o e
    BY DEF z, e
  <2> HIDE DEF toks, q3, q2
  <2>. QED
    BY <2>2, <2>3, <2>4, <2>5 DEF z
<1>7. /\ u \in Indenter /\ u.state = "on" /\ u.indents = <<0>> /\ u.scan = t.scan
      /\ Stack(u.indents) /\ u.scan.pos \in 1 .. Ends
  <2>1. <<0>> \in Seq(Nat) /\ Stack(<<0>>)
    BY DEF Stack
  <2>2. u \in Indenter /\ u.state = "on" /\ u.indents = <<0>> /\ u.scan = t.scan
    BY <2>1 DEF Indenter
  <2> HIDE DEF u
  <2>. QED
    BY <1>1, <2>1, <2>2
<1>8. FlushAtEnd(t) = Dequeue(u, toks)
  BY DEF FlushAtEnd
<1> HIDE DEF nl, u, toks
<1>9. Complete(q3)
  <2> HIDE DEF q1, n
  <2>1. Built(q2, n - n, Ends)
    <3>1. n \in 0 .. n
      BY <1>1
    <3>. QED
      BY <1>5, <3>1, BuiltTimes
  <2>2. n - n = 0
    BY <1>1
  <2> HIDE DEF q2
  <2>. QED
    BY <2>1, <2>2, BuiltEnd
<1> HIDE DEF q3
<1>10. Step1(Dequeue(u, toks), out)
  <2>1. Complete(out \o toks)
    BY <1>6, <1>9
  <2>. QED
    BY <1>6, <1>7, <2>1, DequeueIs
<1>. QED
  BY <1>8, <1>10

\* Three parts of what is emitted.
LEMMA ConcatThree ==
    ASSUME NEW a \in Seq(Tokens), NEW b \in Seq(Tokens), NEW c \in Seq(Tokens), c # <<>>
    PROVE  /\ a \o (b \o c) = (a \o b) \o c
           /\ b \o c \in Seq(Tokens) /\ b \o c # <<>>
<1>1. (a \o b) \o c = a \o (b \o c)
  BY ConcatAssociative
<1>2. b \o c \in Seq(Tokens)
  BY ConcatProperties
<1>3. b \o c # <<>>
  BY ConcatEqualIffEmpty
<1>. QED
  BY <1>1, <1>2, <1>3

\* A name or a bracket after the INDENT or the DEDENTs of its line.
LEMMA FirstOfLineIs ==
    ASSUME Text, NEW t \in Indenter, t.state = "on", Stack(t.indents), ~t.lineStart,
           NEW i \in Nat, At(i) \in {"x", "(", ")"}, t.scan.pos = i + 1,
           NEW out, Built(out, Len(t.indents) - 1, i),
           out = <<>> \/ Last(out) = Tok("NEWLINE"), NEW col \in Nat
    PROVE  Step1(FirstOfLine(t, col, <<At(i), i>>), out)
<1> DEFINE tok == <<At(i), i>>
           top == Len(t.indents) - 1
<1>1. /\ out \in Seq(Tokens) /\ WellFormed(out) /\ tok \in Tokens \ Structure /\ top \in Nat
      /\ t.scan.pos \in 1 .. Ends
  <2>1. Built(Append(out, tok), top, i + 1)
    BY BuiltToken
  <2>2. i + 1 \in 1 .. Ends
    BY <2>1 DEF Built
  <2>. QED
    BY <2>2, BuiltToken DEF Built
<1>2. Len(t.indents) \in Nat /\ Len(t.indents) >= 1 /\ Top(t.indents) \in Nat
      /\ t.indents \in Seq(Nat) /\ t.indents[1] = 0
  BY StackIs DEF Stack
\* Whatever is put before the token.
<1>3. ASSUME NEW u \in Indenter, u.state = "on", Stack(u.indents), u.scan = t.scan, ~u.lineStart,
             NEW front \in Seq(Tokens), Built(out \o front, Len(u.indents) - 1, i)
      PROVE  Step1(Dequeue(u, front \o <<tok>>), out)
  <2> DEFINE e == <<tok>>
             q == out \o front
             new == Append(q, tok)
             toks == front \o e
  <2>1. e \in Seq(Tokens) /\ e # <<>> /\ q \in Seq(Tokens)
    BY <1>1
  <2>2. Built(new, Len(u.indents) - 1, i + 1) /\ Last(new) = tok
    <3> HIDE DEF q
    <3>. QED
      BY <1>3, BuiltToken DEF q
  <2>3. new # <<>>
    <3> HIDE DEF q
    <3>. QED
      BY <1>1, <2>1, AppendIs
  <2>4. out \o toks = new /\ toks \in Seq(Tokens) /\ toks # <<>>
    <3>1. new = q \o e
      <4> HIDE DEF q
      <4>. QED
        BY <1>1, <2>1, AppendIsConcat
    <3> HIDE DEF e, new
    <3>2. toks = front \o e
      OBVIOUS
    <3>3. out \in Seq(Tokens) /\ front \in Seq(Tokens) /\ e \in Seq(Tokens) /\ e # <<>>
      BY <1>1, <2>1
    <3> HIDE DEF toks, q
    <3>4. out \o (front \o e) = (out \o front) \o e
          /\ front \o e \in Seq(Tokens) /\ front \o e # <<>>
      BY <3>3, ConcatThree
    <3>. QED
      BY <3>1, <3>2, <3>4 DEF q
  <2> HIDE DEF toks, new, q
  <2>5. Building(u, new)
    BY <1>1, <1>3, <2>2, <2>3 DEF Building, IsStructure
  <2>6. Step1(Dequeue(u, toks), out)
    <3>1. Building(u, out \o toks) /\ u.scan.pos \in 1 .. Ends
      BY <1>1, <1>3, <2>4, <2>5
    <3>. QED
      BY <1>1, <1>3, <2>4, <3>1, DequeueIs
  <2>. QED
    BY <2>6 DEF toks
<1> DEFINE n == Closes(t.indents, col)
           kept == SubSeq(t.indents, 1, Len(t.indents) - n)
<1>4. n \in 0 .. Len(t.indents) - 1
  BY ClosesIs
<1>5. CASE col > Top(t.indents)
  <2> DEFINE u == [t EXCEPT !.indents = Append(@, col)]
             front == <<Tok("INDENT")>>
             tail == <<tok>>
  <2>1. FirstOfLine(t, col, tok) = Dequeue(u, <<Tok("INDENT"), tok>>)
    BY <1>2, <1>5 DEF FirstOfLine
  <2>2. <<Tok("INDENT"), tok>> = front \o tail /\ front \in Seq(Tokens)
    <3>1. Tok("INDENT") \in Tokens
      BY DEF Tokens, Structure
    <3>. QED
      BY <1>1, <3>1
  <2>3. /\ u \in Indenter /\ u.state = "on" /\ Stack(u.indents) /\ u.scan = t.scan /\ ~u.lineStart
        /\ Len(u.indents) = Len(t.indents) + 1
    <3> DEFINE s == Append(t.indents, col)
    <3>1. Stack(s) /\ Len(s) = Len(t.indents) + 1
      BY StackIs
    <3> HIDE DEF s
    <3>2. s \in Seq(Nat)
      BY <3>1 DEF Stack
    <3>3. u = [t EXCEPT !.indents = s]
      BY DEF s, Indenter
    <3>. QED
      BY <3>1, <3>2, <3>3 DEF Indenter
  <2>4. Built(out \o front, top + 1, i)
    <3>1. out \o front = Append(out, Tok("INDENT"))
      <4>1. Tok("INDENT") \in Tokens
        BY DEF Tokens, Structure
      <4>. QED
        BY <1>1, <4>1, AppendIsConcat
    <3>2. Fits(out, Tok("INDENT"))
      BY DEF Fits, Tok
    <3>3. Tok("INDENT") \in Structure \ {Tok("END")} /\ Tok("INDENT") # Tok("DEDENT")
      BY DEF Structure, Tok
    <3> HIDE DEF front, top
    <3>4. Built(Append(out, Tok("INDENT")),
                top + (IF Tok("INDENT") = Tok("INDENT") THEN 1 ELSE 0)
                    - (IF Tok("INDENT") = Tok("DEDENT") THEN 1 ELSE 0), i)
      BY <3>2, <3>3, BuiltStructure DEF top
    <3>5. top + (IF Tok("INDENT") = Tok("INDENT") THEN 1 ELSE 0)
              - (IF Tok("INDENT") = Tok("DEDENT") THEN 1 ELSE 0) = top + 1
      BY <1>1, <3>3 DEF top
    <3>. QED
      BY <3>1, <3>4, <3>5
  <2>5. Len(u.indents) - 1 = top + 1
    BY <1>2, <2>3
  <2> HIDE DEF u, front, top
  <2>6. Step1(Dequeue(u, front \o <<tok>>), out)
    BY <1>3, <2>2, <2>3, <2>4, <2>5
  <2>. QED
    BY <2>1, <2>2, <2>6
<1>6. CASE col <= Top(t.indents) /\ Top(kept) # col
  <2>1. FirstOfLine(t, col, tok) = Fail1(t)
    BY <1>2, <1>6 DEF FirstOfLine
  <2>. QED
    BY <1>1, <2>1, Failed1
<1>7. CASE col <= Top(t.indents) /\ Top(kept) = col
  <2> DEFINE u == [t EXCEPT !.indents = kept]
             front == Times(n, Tok("DEDENT"))
             tail == <<tok>>
  <2>1. FirstOfLine(t, col, tok) = Dequeue(u, front \o tail)
    BY <1>2, <1>7 DEF FirstOfLine
  <2>2. front \in Seq(Tokens)
    <3>1. Tok("DEDENT") \in Tokens
      BY DEF Tokens, Structure
    <3> HIDE DEF n
    <3>. QED
      BY <1>4, <3>1 DEF Times
  <2>3. Stack(kept) /\ Len(kept) = Len(t.indents) - n
    <3> HIDE DEF n
    <3>1. \A j \in 1 .. Len(t.indents) - n : t.indents[j] \in Nat
      <4>1. ASSUME NEW j \in 1 .. Len(t.indents) - n PROVE j \in 1 .. Len(t.indents)
        BY <1>2, <1>4
      <4>. QED
        BY <1>2, <4>1
    <3>2. /\ kept \in Seq(Nat) /\ Len(kept) = Len(t.indents) - n
          /\ \A j \in 1 .. Len(t.indents) - n : kept[j] = t.indents[j]
      BY <1>2, <1>4, <3>1, SubSeqProperties
    <3> HIDE DEF kept
    <3>3. kept # <<>> /\ kept[1] = 0
      BY <1>2, <1>4, <3>2
    <3>. QED
      BY <3>2, <3>3 DEF Stack
  <2> HIDE DEF kept
  <2>4. u \in Indenter /\ u.state = "on" /\ u.indents = kept /\ u.scan = t.scan /\ ~u.lineStart
    <3>1. kept \in Seq(Nat)
      BY <2>3 DEF Stack
    <3>. QED
      BY <3>1 DEF Indenter
  <2>5. Built(out \o front, top - n, i)
    <3> HIDE DEF n, top
    <3>1. n \in 0 .. top
      BY <1>4 DEF top
    <3>. QED
      BY <3>1, BuiltTimes DEF top
  <2>6. Len(u.indents) - 1 = top - n
    <3> HIDE DEF n, u
    <3>. QED
      BY <1>2, <1>4, <2>3, <2>4
  <2> HIDE DEF u, front, top, n
  <2>7. Step1(Dequeue(u, front \o <<tok>>), out)
    BY <1>3, <2>2, <2>3, <2>4, <2>5, <2>6
  <2>. QED
    BY <2>1, <2>7
<1>. QED
  BY <1>2, <1>5, <1>6, <1>7

\* A call that finds the queue empty.
LEMMA LogicalIs ==
    ASSUME Text, NEW t, NEW out, Inv1(t, out), t.state = "on", t.pending = <<>>
    PROVE  Step1(Logical(t), out)
<1> DEFINE p == Physical[[scan |-> t.scan, ignores |-> t.bracket > 0 \/ t.lineStart]]
           u == [t EXCEPT !.scan = p.scan, !.bracket = Depth(@, p.kind)]
           begun == [u EXCEPT !.lineStart = FALSE]
           tok == <<p.kind, p.at>>
           top == Len(t.indents) - 1
<1>1. /\ t \in Indenter /\ out \in Seq(Tokens) /\ WellFormed(out) /\ Stack(t.indents)
      /\ t.scan \in Scanner /\ t.scan.pos \in 1 .. Ends /\ t.bracket \in Nat
      /\ t.lineStart \in BOOLEAN
  BY DEF Inv1, On1, Indenter
<1>2. Building(t, out)
  <2>1. out \o t.pending = out
    BY <1>1
  <2>. QED
    BY <2>1 DEF Inv1, On1
<1>3. /\ Found(t.scan.pos, p)
      /\ p.kind # "h" /\ ~(p.kind = "n" /\ (t.bracket > 0 \/ t.lineStart))
  <2>1. (t.bracket > 0 \/ t.lineStart) \in BOOLEAN
    OBVIOUS
  <2>. QED
    BY <1>1, <2>1, PhysicalIs
<1>4. /\ p.at \in 1 .. Ends /\ p.kind = At(p.at) /\ p.col \in Nat /\ Skips(t.scan.pos, p.at)
      /\ p.kind \in {"eof", "n", "b", "x", "(", ")"} /\ p.scan \in Scanner
      /\ p.scan.pos = (IF p.kind = "eof" THEN p.at ELSE Past(p.at)) /\ p.scan.pos \in 1 .. Ends
      /\ (p.kind \in {"b", "x", "(", ")"} => Past(p.at) = p.at + 1)
  BY <1>3 DEF Found
<1>5. Built(out, top, p.at)
  BY <1>2, <1>4, BuiltOn DEF Building
<1>6. Logical(t) =
          CASE p.kind = "b" -> Fail1(u)
            [] p.kind = "eof" -> FlushAtEnd(u)
            [] p.kind = "n" -> [tok |-> Tok("NEWLINE"), t |-> [u EXCEPT !.lineStart = TRUE]]
            [] p.kind \in {"x", "(", ")"} ->
                  IF t.lineStart /\ t.bracket = 0 THEN FirstOfLine(begun, p.col, tok)
                  ELSE [tok |-> tok, t |-> begun]
  BY DEF Logical
<1> HIDE DEF p
<1>7. Depth(t.bracket, p.kind) \in Nat
  BY <1>1, DepthIs
<1>8. /\ u \in Indenter /\ u.state = "on" /\ u.indents = t.indents /\ u.scan = p.scan
      /\ u.lineStart = t.lineStart /\ u.pending = <<>>
  BY <1>1, <1>4, <1>7 DEF Indenter
<1>9. /\ begun \in Indenter /\ begun.state = "on"
      /\ begun.indents = t.indents /\ begun.scan = p.scan
      /\ ~begun.lineStart /\ begun.pending = <<>>
  BY <1>8 DEF Indenter
<1> HIDE DEF u
\* A token that does not go through the queue.
<1>10. ASSUME NEW v \in Indenter, v.state = "on", v.indents = t.indents, v.scan = p.scan,
              v.pending = <<>>, NEW a \in Tokens \ {Tok("END")}, Building(v, Append(out, a))
       PROVE  Step1([tok |-> a, t |-> v], out)
  <2> DEFINE new == Append(out, a)
  <2>1. new \in Seq(Tokens) /\ WellFormed(new)
    BY <1>1, <1>10 DEF Building, Built
  <2>2. new \o v.pending = new
    BY <1>10, <2>1
  <2>3. v.scan.pos \in 1 .. Ends
    BY <1>4, <1>10
  <2> HIDE DEF new
  <2>4. On1(v, new)
    BY <1>1, <1>10, <2>2, <2>3 DEF On1, new
  <2>5. Inv1(v, new)
    BY <1>10, <2>1, <2>3, <2>4 DEF Inv1
  <2>. QED
    BY <1>10, <2>5 DEF Step1, new
<1>11. CASE p.kind = "b"
  <2>1. Logical(t) = Fail1(u)
    BY <1>6, <1>11
  <2>. QED
    BY <1>1, <1>4, <1>8, <2>1, Failed1
<1>12. CASE p.kind = "eof"
  <2>1. Logical(t) = FlushAtEnd(u)
    BY <1>6, <1>12
  <2>2. p.at = Ends /\ u.scan.pos = Ends
    BY <1>4, <1>8, <1>12, AtIs
  <2>3. Building(u, out)
    BY <1>2, <1>5, <1>8, <2>2 DEF Building
  <2>. QED
    BY <1>1, <1>8, <2>1, <2>2, <2>3, FlushAtEndIs
<1>13. CASE p.kind = "n"
  <2> DEFINE v == [u EXCEPT !.lineStart = TRUE]
             a == Tok("NEWLINE")
             new == Append(out, a)
  <2>1. Logical(t) = [tok |-> a, t |-> v]
    BY <1>6, <1>13
  <2>2. a \in Structure \ {Tok("END")} /\ a # Tok("INDENT") /\ a # Tok("DEDENT")
    BY DEF Structure, Tok
  <2>3. Fits(out, a)
    BY <1>1, <1>2, <1>3, <1>13 DEF Fits, Building, Tok
  <2>4. Built(out, top, Past(p.at))
    <3>1. Skips(p.at, Past(p.at))
      <4>1. p.at \in Nat /\ Passes(p.at)
        BY <1>4, <1>13 DEF Passes
      <4>. QED
        BY <4>1, PastIs
    <3>. QED
      BY <1>5, <3>1, BuiltOn
  <2>5. Built(new, top, Past(p.at)) /\ Last(new) = a
    <3> HIDE DEF a, top
    <3>1. /\ Built(Append(out, a), top + (IF a = Tok("INDENT") THEN 1 ELSE 0)
                                       - (IF a = Tok("DEDENT") THEN 1 ELSE 0), Past(p.at))
          /\ Last(Append(out, a)) = a
      BY <2>2, <2>3, <2>4, BuiltStructure
    <3>2. top + (IF a = Tok("INDENT") THEN 1 ELSE 0) - (IF a = Tok("DEDENT") THEN 1 ELSE 0) = top
      <4>1. top \in Nat
        BY <1>5 DEF Built
      <4>. QED
        BY <2>2, <4>1
    <3>. QED
      BY <3>1, <3>2
  <2>6. /\ v \in Indenter /\ v.state = "on" /\ v.indents = t.indents /\ v.scan = p.scan
        /\ v.pending = <<>> /\ v.lineStart
    BY <1>8 DEF Indenter
  <2> HIDE DEF v, new
  <2>7. Building(v, new)
    BY <1>4, <1>13, <2>5, <2>6 DEF Building
  <2>8. a \in Tokens
    BY <2>2 DEF Tokens
  <2> HIDE DEF a
  <2>9. Step1([tok |-> a, t |-> v], out)
    BY <1>10, <2>2, <2>6, <2>7, <2>8 DEF new
  <2>. QED
    BY <2>1, <2>9
<1>14. CASE p.kind \in {"x", "(", ")"} /\ t.lineStart /\ t.bracket = 0
  <2>1. Logical(t) = FirstOfLine(begun, p.col, tok)
    BY <1>6, <1>14
  <2>2. out = <<>> \/ Last(out) = Tok("NEWLINE")
    BY <1>2, <1>14 DEF Building
  <2>3. At(p.at) \in {"x", "(", ")"} /\ begun.scan.pos = p.at + 1 /\ tok = <<At(p.at), p.at>>
    BY <1>4, <1>9, <1>14
  <2>4. Built(out, Len(begun.indents) - 1, p.at) /\ Stack(begun.indents)
    BY <1>1, <1>5, <1>9
  <2> HIDE DEF begun, tok
  <2>5. begun \in Indenter /\ begun.state = "on" /\ ~begun.lineStart /\ p.col \in Nat
    BY <1>4, <1>9
  <2> DEFINE i == p.at
             col == p.col
  <2>6. i \in Nat /\ At(i) \in {"x", "(", ")"} /\ begun.scan.pos = i + 1 /\ col \in Nat
        /\ Built(out, Len(begun.indents) - 1, i)
    BY <1>4, <2>3, <2>4, <2>5
  <2> HIDE DEF i, col
  <2>7. Step1(FirstOfLine(begun, col, <<At(i), i>>), out)
    BY <2>2, <2>4, <2>5, <2>6, FirstOfLineIs
  <2>. QED
    BY <2>1, <2>3, <2>7 DEF i, col
<1>15. CASE p.kind \in {"x", "(", ")"} /\ ~(t.lineStart /\ t.bracket = 0)
  <2> DEFINE new == Append(out, tok)
  <2>1. Logical(t) = [tok |-> tok, t |-> begun]
    BY <1>6, <1>15
  <2>2. At(p.at) \in {"x", "(", ")"} /\ tok = <<At(p.at), p.at>>
    BY <1>4, <1>15
  <2>3. Built(new, top, p.at + 1) /\ Last(new) = tok /\ tok \in Tokens \ Structure
    BY <1>5, <2>2, BuiltToken
  <2>4. new # <<>> /\ tok # Tok("END")
    BY <1>1, <2>3, AppendIs DEF Structure
  <2> HIDE DEF new, begun
  <2>5. Building(begun, new)
    BY <1>4, <1>9, <1>15, <2>3, <2>4 DEF Building, IsStructure
  <2> HIDE DEF tok
  <2>6. Step1([tok |-> tok, t |-> begun], out)
    BY <1>9, <1>10, <2>3, <2>4, <2>5 DEF new
  <2>. QED
    BY <2>1, <2>6
<1>. QED
  BY <1>4, <1>11, <1>12, <1>13, <1>14, <1>15

\* A call of Indent.Next, in any state of the wrapper.
LEMMA Next1Is ==
    ASSUME Text, NEW t, NEW out, Inv1(t, out), t.state = "on"
    PROVE  Step1(Next1(t), out)
<1>1. CASE t.pending = <<>>
  BY <1>1, LogicalIs DEF Next1
<1>2. CASE t.pending # <<>>
  <2>1. Next1(t) = Dequeue(t, t.pending)
    BY <1>2 DEF Next1
  <2>2. /\ t \in Indenter /\ Stack(t.indents) /\ t.scan.pos \in 1 .. Ends
        /\ out \in Seq(Tokens) /\ t.pending \in Seq(Tokens)
        /\ Building(t, out \o t.pending) \/ Complete(out \o t.pending)
    BY DEF Inv1, On1, Indenter
  <2>. QED
    BY <1>2, <2>1, <2>2, DequeueIs
<1>. QED
  BY <1>1, <1>2

-----------------------------------------------------------------------------
(* The source stays as it is, and so does what is said of it.              *)

\* What is at an offset.
LEMMA SameAt == ASSUME src' = src PROVE \A i : At(i)' = At(i)
  BY DEF At

\* The end of the file.
LEMMA SameEnds == ASSUME src' = src PROVE Ends' = Ends
  BY DEF Ends

\* The ends of its lines.
LEMMA SameEndOfLine == ASSUME src' = src PROVE \A i : EndOfLine(i)' = EndOfLine(i)
  BY SameAt DEF EndOfLine

\* What counts in it.
LEMMA SameSignificant ==
    ASSUME src' = src PROVE \A i : Significant(i)' = Significant(i) /\ Clear(i)' = Clear(i)
  BY SameEndOfLine DEF Significant, Clear, InComment

\* What is not passed over.
LEMMA SameContent == ASSUME src' = src PROVE \A i : IsContent(i)' = IsContent(i)
  BY SameAt DEF IsContent, Passes, Continued

\* What has been read of it.
LEMMA SameRead == ASSUME src' = src PROVE \A out, k : Read(out, k)' = Read(out, k)
  BY SameSignificant DEF Read

\* What a scanner has emitted at an offset.
LEMMA SameBuilt ==
    ASSUME src' = src PROVE \A out, open, k : Built(out, open, k)' = Built(out, open, k)
  BY SameRead, SameEnds, SameSignificant DEF Built

\* What a scanner has emitted that has ended.
LEMMA SameComplete == ASSUME src' = src PROVE \A out : Complete(out)' = Complete(out)
<1>1. Written' = Written
  BY SameEndOfLine DEF Written, InComment
<1>2. \A out : HasAll(out)' = HasAll(out)
  BY <1>1 DEF HasAll
<1>. QED
  BY <1>2 DEF Complete

\* The invariant of the scanner of parser/.
LEMMA SameInv2 == ASSUME src' = src PROVE \A s, out : Inv2(s, out)' = Inv2(s, out)
<1>1. \A s, out : Emitted2(s, out)' = Emitted2(s, out)
  BY SameBuilt DEF Emitted2
<1>2. \A s : Flags2(s)' = Flags2(s)
  BY SameContent, SameAt, SameEnds DEF Flags2
<1>3. \A s, out : On2(s, out)' = On2(s, out)
  BY <1>1, <1>2 DEF On2
<1>. QED
  BY <1>3, SameComplete, SameEnds DEF Inv2

\* The invariant of the wrapper of lex/.
LEMMA SameInv1 == ASSUME src' = src PROVE \A t, out : Inv1(t, out)' = Inv1(t, out)
<1>1. \A t, out : Building(t, out)' = Building(t, out)
  BY SameBuilt DEF Building
<1>2. \A t, out : On1(t, out)' = On1(t, out)
  BY <1>1, SameComplete, SameEnds DEF On1
<1>. QED
  BY <1>2, SameComplete, SameEnds DEF Inv1

-----------------------------------------------------------------------------
(* The two layers.                                                         *)

(***************************************************************************)
(* The inductive invariant: for either layer, what it has emitted, with    *)
(* what waits in its queue, is every token before its offset, as many      *)
(* blocks are open as its stack has levels, and its flags tell what the    *)
(* last token was.                                                         *)
(***************************************************************************)
Inv == Text /\ Inv2(v2, out2) /\ Inv1(v1, out1)

\* The layers are put before a file with the invariant.
LEMMA InitInv == Init => Inv
<1> SUFFICES ASSUME Init PROVE Inv
  OBVIOUS
<1>1. src \in Seq(Chars) /\ v2 = NewStmtScanner /\ out2 = <<>> /\ v1 = NewIndent /\ out1 = <<>>
  BY SourcesAssumption DEF Init, Opens
<1>2. Text /\ 1 \in 1 .. Ends /\ Ends \in Nat
  BY <1>1, AtIs DEF Text, Ends
<1>3. out2 \in Seq(Tokens) /\ WellFormed(out2) /\ out1 = out2
  BY <1>1 DEF WellFormed
<1>4. Built(<<>>, 0, 1)
  <2>1. Opened(<<>>) = 0
    <3>1. Count(<<>>, 0, "INDENT") = 0 /\ Count(<<>>, 0, "DEDENT") = 0
      BY FS_EmptySet DEF Count
    <3>. QED
      BY <3>1 DEF Opened
  <2>2. Clear(1) /\ NoEnd(<<>>) /\ Read(<<>>, 1)
    BY DEF Clear, NoEnd, Read
  <2>. QED
    BY <1>1, <1>2, <1>3, <2>1, <2>2 DEF Built
<1>5. Stack(<<0>>) /\ Len(<<0>>) = 1 /\ <<0>> \in Seq(Nat)
  BY DEF Stack
<1>6. Inv2(v2, out2)
  <2>1. /\ v2 \in Stmt /\ v2.off = 1 /\ v2.stack = <<0>> /\ v2.depth = 0 /\ v2.pending = 0
        /\ v2.eofNewlineDone = FALSE /\ v2.eofDedentsDone = FALSE /\ v2.last = "none"
        /\ v2.state = "on"
    BY <1>1, <1>5 DEF NewStmtScanner, Stmt, Kinds
  <2>2. Emitted2(v2, out2)
    BY <1>1, <1>4, <1>5, <2>1 DEF Emitted2
  <2>3. Flags2(v2)
    BY <2>1 DEF Flags2
  <2>4. On2(v2, out2)
    BY <1>5, <2>1, <2>2, <2>3 DEF On2
  <2>. QED
    BY <1>2, <1>3, <1>5, <2>1, <2>4 DEF Inv2
<1>7. Inv1(v1, out1)
  <2>1. /\ v1 \in Indenter /\ v1.scan.pos = 1 /\ v1.indents = <<0>> /\ v1.pending = <<>>
        /\ v1.lineStart = TRUE /\ v1.state = "on"
    <3>1. <<>> \in Seq(Tokens) /\ [pos |-> 1, col |-> 0, lineStart |-> TRUE] \in Scanner
      BY DEF Scanner
    <3>. QED
      BY <1>1, <1>5, <3>1 DEF NewIndent, Indenter
  <2>2. out1 \o v1.pending = <<>>
    BY <1>1, <2>1
  <2>3. Building(v1, <<>>)
    BY <1>4, <1>5, <2>1 DEF Building
  <2>4. On1(v1, out1)
    BY <1>2, <1>5, <2>1, <2>2, <2>3 DEF On1
  <2>. QED
    BY <1>2, <1>3, <2>1, <2>4 DEF Inv1
<1>. QED
  BY <1>2, <1>6, <1>7 DEF Inv

\* A call of either layer keeps it.
LEMMA NextInv == Inv /\ [Next \/ Done]_vars => Inv'
<1> SUFFICES ASSUME Inv, [Next \/ Done]_vars PROVE Inv'
  OBVIOUS
<1>1. Text /\ Inv2(v2, out2) /\ Inv1(v1, out1)
  BY DEF Inv
<1>2. src' = src
  BY DEF Next, Scan2, Scan1, Done, vars
<1>3. Text'
  BY <1>1, <1>2 DEF Text
<1>4. CASE Scan2
  <2>1. v2.state = "on" /\ v1' = v1 /\ out1' = out1
        /\ v2' = NextInternal(v2).s /\ out2' = Append(out2, NextInternal(v2).tok)
    BY <1>4 DEF Scan2
  <2>2. Inv2(v2', out2')
    <3>1. Step2(NextInternal(v2), out2)
      BY <1>1, <2>1, NextInternalIs DEF Inv2
    <3>. QED
      BY <2>1, <3>1 DEF Step2
  <2>3. Inv1(v1', out1')
    BY <1>1, <2>1
  <2>4. Inv2(v2, out2)' /\ Inv1(v1, out1)'
    BY <1>2, <2>2, <2>3, SameInv2, SameInv1
  <2>. QED
    BY <1>3, <2>4 DEF Inv
<1>5. CASE Scan1
  <2> DEFINE r == Next1(v1)
  <2>1. v1.state = "on" /\ v2' = v2 /\ out2' = out2
        /\ v1' = (IF r.tok = Tok("END") THEN [r.t EXCEPT !.state = "ended"] ELSE r.t)
        /\ out1' = Append(out1, r.tok)
    BY <1>5 DEF Scan1
  <2>2. Inv1(v1', out1')
    <3>1. Step1(r, out1)
      BY <1>1, <2>1, Next1Is
    <3> HIDE DEF r
    <3>. QED
      BY <2>1, <3>1 DEF Step1
  <2>3. Inv2(v2', out2')
    BY <1>1, <2>1
  <2>4. Inv2(v2, out2)' /\ Inv1(v1, out1)'
    BY <1>2, <2>2, <2>3, SameInv2, SameInv1
  <2>. QED
    BY <1>3, <2>4 DEF Inv
<1>6. CASE UNCHANGED vars
  <2>1. v2' = v2 /\ out2' = out2 /\ v1' = v1 /\ out1' = out1
    BY <1>6 DEF vars
  <2>2. Inv2(v2', out2') /\ Inv1(v1', out1')
    BY <1>1, <2>1
  <2>3. Inv2(v2, out2)' /\ Inv1(v1, out1)'
    BY <1>2, <2>2, SameInv2, SameInv1
  <2>. QED
    BY <1>3, <2>3 DEF Inv
<1>. QED
  BY <1>4, <1>5, <1>6 DEF Next, Done

\* The inductive invariant holds of every file, however long and deep.
THEOREM Invariant == Spec => []Inv
<1>. QED
  BY InitInv, NextInv, PTL DEF Spec

\* The offsets of both layers stay in the file, and an owed DEDENT always has a level to close.
THEOREM TypeCorrect == Spec => []TypeOK
<1>1. Inv => TypeOK
  BY DEF Inv, Text, Inv2, Inv1, TypeOK, Ends
<1>. QED
  BY <1>1, Invariant, PTL

(***************************************************************************)
(* Whatever the file, each layer emits blocks that nest: no DEDENT without *)
(* its INDENT, every block closed by the end, INDENT and DEDENT only where *)
(* a line begins, and no empty logical line, also in what stands before an *)
(* error.                                                                  *)
(***************************************************************************)
THEOREM BlocksNest == Spec => []BlocksWellFormed
<1>1. Inv => BlocksWellFormed
  BY DEF Inv, Inv2, Inv1, BlocksWellFormed
<1>. QED
  BY <1>1, Invariant, PTL

(***************************************************************************)
(* A layer that reaches the end of the file has emitted each of its names  *)
(* and brackets outside of comments once, in order.                        *)
(***************************************************************************)
THEOREM NoTokenIsLost == Spec => []NoTokenLost
<1>1. Inv => NoTokenLost
  BY DEF Inv, Inv2, Inv1, Complete, NoTokenLost
<1>. QED
  BY <1>1, Invariant, PTL

-----------------------------------------------------------------------------
(* The layers side by side: they pass over the same, and they give a line  *)
(* indentations that stand for each other.                                 *)

\* What follows of an offset when it holds of every later one holds of every offset.
LEMMA OffsetInduction ==
    ASSUME Text, NEW T, \A i \in 1 .. Ends : (\A k \in i + 1 .. Ends : k \in T) => i \in T
    PROVE  \A i \in 1 .. Ends : i \in T
<1> DEFINE B == {Ends - i : i \in (1 .. Ends) \ T}
<1>1. SUFFICES ASSUME B # {} PROVE FALSE
  OBVIOUS
<1>2. PICK d \in B : \A e \in B : d <= e
  <2>1. B \subseteq Nat
    BY AtIs
  <2> HIDE DEF B
  <2>. QED
    BY <1>1, <2>1, FirstOf
<1>3. PICK i \in (1 .. Ends) \ T : d = Ends - i
  OBVIOUS
<1>4. PICK k \in i + 1 .. Ends : k \notin T
  BY <1>3
<1>5. k \in (1 .. Ends) \ T /\ Ends - k < Ends - i
  BY <1>3, <1>4, AtIs
<1>6. d <= Ends - k
  BY <1>2, <1>5
<1>. QED
  BY <1>3, <1>5, <1>6, AtIs

\* The next byte of white space, in the count of bytes.
NextByte(m) == [off |-> m.off + 1, width |-> IF At(m.off) = "f" THEN 0 ELSE m.width + 1]

\* The count of bytes has a value, the one that is handed on.
LEMMA BytesIs ==
    ASSUME Text
    PROVE  \A m \in Leading :
               Bytes[m] = IF At(m.off) \in {"s", "t", "f"} THEN Bytes[NextByte(m)] ELSE m.width
<1> DEFINE stop == {m \in Leading : At(m.off) \notin {"s", "t", "f"}}
           value == [m \in Leading |-> m.width]
           up == [m \in Leading |-> NextByte(m)]
           size == [m \in Leading |-> Left(m.off)]
<1>1. \A m \in Leading : m.off \in Nat /\ m.width \in Nat /\ NextByte(m) \in Leading
                         /\ NextByte(m).off = m.off + 1
  BY DEF Leading, NextByte
<1>2. Descends(Leading, stop, up, size)
  <2>1. \A m \in Leading : Left(m.off) \in Nat
    BY <1>1, LeftIs
  <2>2. ASSUME NEW m \in Leading, m \notin stop
        PROVE  up[m] \in Leading /\ size[up[m]] < size[m]
    <3>1. At(m.off) # "eof" /\ m.off \in Nat /\ m.off + 1 \in Nat /\ m.off < m.off + 1
      BY <1>1, <2>2
    <3>2. Left(m.off + 1) < Left(m.off)
      BY <3>1, LeftLess
    <3>. QED
      BY <1>1, <3>2
  <2>. QED
    BY <2>1, <2>2 DEF Descends
<1>3. PICK f : Loops(f, Leading, stop, value, up)
  <2> HIDE DEF stop, value, up, size
  <2>. QED
    BY <1>2, LoopExists
<1>4. f = [m \in Leading |-> IF At(m.off) \in {"s", "t", "f"} THEN f[NextByte(m)] ELSE m.width]
  BY <1>3 DEF Loops
<1>5. Bytes = [m \in Leading |-> IF At(m.off) \in {"s", "t", "f"} THEN Bytes[NextByte(m)]
                                 ELSE m.width]
  BY <1>4 DEF Bytes, NextByte
<1>. QED
  BY <1>5

White(i, w) == [off |-> i, width |-> w]
Fresh(i, col) == [pos |-> i, col |-> col, lineStart |-> TRUE]

(***************************************************************************)
(* The white space from offset i on, by both counts: one of them is zero   *)
(* where the other is, and lex.Scanner comes by where parser/ stops, with  *)
(* the column that is counted in bytes.                                    *)
(***************************************************************************)
BothCounts(i, w, col) ==
    LET m == Measure[White(i, w)]
        bytes == Bytes[White(i, col)]
    IN  /\ bytes \in Nat
        /\ (w = 0 <=> col = 0) => (m.width = 0 <=> bytes = 0)
        /\ SkipBlanks[Fresh(i, col)] = SkipBlanks[Fresh(m.off, bytes)]

\* Byte by byte.
LEMMA BothCountsAre ==
    ASSUME Text
    PROVE  \A i \in 1 .. Ends : \A w, col \in Nat : BothCounts(i, w, col)
<1> DEFINE T == {i \in 1 .. Ends : \A w, col \in Nat : BothCounts(i, w, col)}
<1>1. ASSUME NEW i \in 1 .. Ends, \A k \in i + 1 .. Ends : k \in T,
             NEW w \in Nat, NEW col \in Nat
      PROVE  BothCounts(i, w, col)
  <2> DEFINE a == White(i, w)
             b == White(i, col)
             c == Fresh(i, col)
  <2>1. /\ a \in Leading /\ a.off = i /\ a.width = w /\ b \in Leading /\ b.off = i /\ b.width = col
        /\ c \in Scanner /\ c.pos = i /\ c.col = col /\ c.lineStart = TRUE /\ i \in Nat
    BY <1>1, AtIs DEF White, Fresh, Leading, Scanner
  <2>2. CASE At(i) \notin {"s", "t", "f"}
    <3>1. Measure[a] = a /\ Bytes[b] = col
      BY <2>1, <2>2, MeasureIs, BytesIs
    <3>2. Fresh(a.off, col) = c
      BY <2>1
    <3>. QED
      BY <2>1, <3>1, <3>2 DEF BothCounts
  <2>3. CASE At(i) \in {"s", "t", "f"}
    <3> DEFINE v == Widened(a).width
               col2 == IF At(i) = "f" THEN 0 ELSE col + 1
    <3>1. i + 1 \in i + 1 .. Ends
      BY <1>1, <2>3, AtIs
    <3>2. Widened(a) = White(i + 1, v) /\ NextByte(b) = White(i + 1, col2)
      BY <2>1 DEF Widened, NextByte, White
    <3>3. v \in Nat /\ col2 \in Nat /\ ((w = 0 <=> col = 0) => (v = 0 <=> col2 = 0))
      <4>1. v = CASE At(i) = "s" -> w + 1 [] At(i) = "t" -> TabStop(w) [] OTHER -> 0
        BY <2>1 DEF Widened
      <4>2. TabStop(w) \in Nat /\ TabStop(w) > 0
        BY <1>1 DEF TabStop
      <4> HIDE DEF v
      <4>3. CASE At(i) = "s"
        BY <1>1, <4>1, <4>3
      <4>4. CASE At(i) = "t"
        BY <1>1, <4>1, <4>2, <4>4
      <4>5. CASE At(i) = "f"
        BY <1>1, <4>1, <4>5
      <4>. QED
        BY <2>3, <4>3, <4>4, <4>5
    <3>4. BothCounts(i + 1, v, col2)
      <4> HIDE DEF v, col2
      <4>. QED
        BY <1>1, <3>1, <3>3
    <3>5. Measure[a] = Measure[White(i + 1, v)] /\ Bytes[b] = Bytes[White(i + 1, col2)]
      <4>1. Measure[a] = Measure[Widened(a)]
        BY <2>1, <2>3, MeasureIs
      <4>2. Bytes[b] = Bytes[NextByte(b)]
        BY <2>1, <2>3, BytesIs
      <4>. QED
        BY <3>2, <4>1, <4>2
    <3>6. SkipBlanks[c] = SkipBlanks[Fresh(i + 1, col2)]
      <4>1. ~Continued(i)
        BY <2>3 DEF Continued
      <4>2. Advanced(c) = Fresh(i + 1, col2)
        BY <2>1, <4>1 DEF Advanced, Fresh
      <4>. QED
        BY <2>1, <2>3, <4>2, SkipBlanksIs
    <3> HIDE DEF v, col2, a, b, c
    <3>. QED
      BY <3>3, <3>4, <3>5, <3>6 DEF BothCounts, a, b, c
  <2>. QED
    BY <2>2, <2>3
<1>2. \A i \in 1 .. Ends : i \in T
  <2>1. \A i \in 1 .. Ends : (\A k \in i + 1 .. Ends : k \in T) => i \in T
    BY <1>1
  <2> HIDE DEF T
  <2>. QED
    BY <2>1, OffsetInduction
<1>. QED
  BY <1>2

\* A line begins at offset i, or the file ends there.
Begins(i) == i = Ends \/ i \in LineStarts

\* The end of a line is followed by another.
LEMMA NextLine ==
    ASSUME Text, NEW i \in 1 .. Ends, At(i) = "n"
    PROVE  i + 1 \in i + 1 .. Ends /\ Begins(i + 1) /\ Past(i) = i + 1
<1>1. i \in 1 .. Len(src) /\ src[i] = "n" /\ Len(src) \in Nat
  BY AtIs
<1>2. Past(i) = i + 1
  BY DEF Past, Continued
<1>3. i + 1 = Ends \/ i + 1 \in 2 .. Len(src)
  BY <1>1 DEF Ends
<1>4. (i + 1) - 1 = i
  BY <1>1
<1>. QED
  BY <1>1, <1>2, <1>3, <1>4 DEF Begins, LineStarts, Ends

\* A scanner finds what another does that comes by the same character.
LEMMA SameToken ==
    ASSUME Text, NEW c \in Scanner, c.pos \in 1 .. Ends, NEW d \in Scanner, d.pos \in 1 .. Ends,
           SkipBlanks[c] = SkipBlanks[d], NEW ignores \in BOOLEAN
    PROVE  /\ Scan(c) = Scan(d)
           /\ Physical[[scan |-> c, ignores |-> ignores]]
                  = Physical[[scan |-> d, ignores |-> ignores]]
<1>1. Scan(c) = Scan(d)
  BY DEF Scan
<1>. QED
  BY <1>1, PhysicalIs

\* What lex.Scanner finds where it is.
FoundHere(d, tok) ==
    /\ tok.kind = At(d.pos) /\ tok.at = d.pos /\ tok.col = d.col
    /\ At(d.pos) = "n" => tok.scan = Fresh(Past(d.pos), 0)
    /\ At(d.pos) \notin {"n", "eof"} =>
          tok.scan = [pos |-> Past(d.pos), col |-> d.col + (Past(d.pos) - d.pos),
                      lineStart |-> FALSE]

\* There is no white space to pass over.
LEMMA ScanHere ==
    ASSUME Text, NEW d \in Scanner, d.pos \in 1 .. Ends, At(d.pos) \notin {"s", "t", "f"},
           ~Continued(d.pos)
    PROVE  FoundHere(d, Scan(d)) /\ SkipBlanks[d] = d
<1>1. SkipBlanks[d] = d
  BY SkipBlanksIs
<1>. QED
  BY <1>1 DEF Scan, FoundHere, Fresh

\* An indentation as both layers count it: that of some line, or that of the file.
Level(width, col) ==
    \/ width = 0 /\ col = 0
    \/ \E j \in LineStarts : width = Width(j) /\ col = Column(j)

(***************************************************************************)
(* From the start of a line both layers come to the same character, behind *)
(* the same white space.                                                   *)
(***************************************************************************)
SameContentFrom(i) ==
    LET tok == Physical[[scan |-> Fresh(i, 0), ignores |-> TRUE]]
        m == FirstContent[i]
    IN  tok.at = m.off /\ (At(m.off) # "eof" => Level(m.width, tok.col))

\* A line is blank, or it is the one.
LEMMA LinesAgree ==
    ASSUME Text
    PROVE  \A i \in 1 .. Ends : Begins(i) => SameContentFrom(i)
<1> DEFINE T == {i \in 1 .. Ends : Begins(i) => SameContentFrom(i)}
<1>1. ASSUME NEW i \in 1 .. Ends, \A k \in i + 1 .. Ends : k \in T, Begins(i)
      PROVE  SameContentFrom(i)
  <2> DEFINE m == Measure[White(i, 0)]
             c == Fresh(i, 0)
             bytes == Bytes[White(i, 0)]
             d == Fresh(m.off, bytes)
             P(x) == Physical[[scan |-> x, ignores |-> TRUE]]
  <2>1. /\ m \in Leading /\ m.off \in i .. Ends /\ At(m.off) \notin {"s", "t", "f"}
        /\ m.off \in Nat /\ m.off \in 1 .. Ends /\ i \in Nat
    <3>1. /\ m \in Leading /\ m.off \in i .. Ends /\ At(m.off) \notin {"s", "t", "f"}
      BY IndentationIs DEF White
    <3>. QED
      BY <1>1, <3>1, AtIs
  <2>2. bytes \in Nat /\ SkipBlanks[c] = SkipBlanks[d]
    <3>1. BothCounts(i, 0, 0)
      BY BothCountsAre
    <3>. QED
      BY <3>1 DEF BothCounts
  <2>3. FirstContent[i] = IF At(m.off) \in {"n", "h"} \/ Continued(m.off)
                          THEN FirstContent[Past(m.off)] ELSE m
    BY FirstContentIs DEF White
  <2> HIDE DEF m, bytes
  <2>4. /\ c \in Scanner /\ c.pos = i /\ d \in Scanner /\ d.pos = m.off /\ d.col = bytes
        /\ d.lineStart = TRUE
    BY <2>1, <2>2 DEF Fresh, Scanner
  <2>5. Scan(c) = Scan(d) /\ P(c) = P(d)
    BY <1>1, <2>1, <2>2, <2>4, SameToken
  <2> DEFINE k == m.off
             f == FirstContent[i]
             tok == P(c)
  <2> HIDE DEF d
  <2>6. CASE Continued(k)
    <3> DEFINE e == Fresh(k + 2, 0)
    <3>1. /\ k + 2 \in 1 .. Ends /\ k + 2 \in i + 1 .. Ends /\ Past(k) = k + 2 /\ Begins(k + 2)
      <4>1. At(k + 1) = "n" /\ At(k) = "b" /\ k + 1 \in 1 .. Ends
        BY <2>1, <2>6, AtIs DEF Continued
      <4>2. Past(k) = k + 2
        BY <2>6 DEF Past, Continued
      <4>3. (k + 1) + 1 = k + 2
        BY <2>1
      <4>. QED
        BY <2>1, <4>1, <4>2, <4>3, NextLine, AtIs
    <3>2. SkipBlanks[d] = SkipBlanks[e]
      <4>1. Advanced(d) = e
        BY <2>4, <2>6 DEF Advanced, Fresh
      <4>. QED
        BY <2>4, <2>6, <4>1, SkipBlanksIs
    <3>3. e \in Scanner /\ e.pos = k + 2
      BY <2>1 DEF Fresh, Scanner
    <3> HIDE DEF e
    <3>4. tok = P(e)
      <4>1. P(d) = P(e)
        BY <2>1, <2>4, <3>1, <3>2, <3>3, SameToken
      <4>. QED
        BY <2>5, <4>1
    <3>5. f = FirstContent[k + 2]
      BY <2>3, <2>6, <3>1
    <3>6. SameContentFrom(k + 2)
      BY <1>1, <3>1
    <3>. QED
      BY <3>4, <3>5, <3>6 DEF SameContentFrom, e
  <2>7. CASE At(k) = "n"
    <3> DEFINE e == Fresh(k + 1, 0)
    <3>1. /\ k + 1 \in 1 .. Ends /\ k + 1 \in i + 1 .. Ends /\ Past(k) = k + 1 /\ Begins(k + 1)
      BY <2>1, <2>7, NextLine, AtIs
    <3>2. FoundHere(d, Scan(d))
      BY <2>1, <2>4, <2>7, ScanHere DEF Continued
    <3>3. Scan(d).kind = "n" /\ Scan(d).scan = e
      BY <2>4, <2>7, <3>1, <3>2 DEF FoundHere
    <3> HIDE DEF e
    <3>4. tok = P(e)
      <4>1. P(d) = P(e)
        BY <2>1, <2>4, <3>3, PhysicalIs
      <4>. QED
        BY <2>5, <4>1
    <3>5. f = FirstContent[k + 1]
      BY <2>3, <2>7, <3>1
    <3>6. SameContentFrom(k + 1)
      BY <1>1, <3>1
    <3>. QED
      BY <3>4, <3>5, <3>6 DEF SameContentFrom, e
  <2>8. CASE At(k) = "h"
    <3> DEFINE l == EndOfLine(k)
               g == [pos |-> l, col |-> d.col + (l - k), lineStart |-> FALSE]
    <3>1. l \in k .. Ends /\ At(l) \in {"n", "eof"} /\ Past(k) = l /\ l \in 1 .. Ends /\ l \in Nat
      <4>1. l \in k .. Ends /\ At(l) \in {"n", "eof"}
        BY <2>1, EndOfLineIs
      <4>2. Past(k) = l
        BY <2>8 DEF Past, Continued
      <4> HIDE DEF l
      <4>. QED
        BY <2>1, <4>1, <4>2, AtIs
    <3> HIDE DEF l
    <3>2. FoundHere(d, Scan(d))
      BY <2>1, <2>4, <2>8, ScanHere DEF Continued
    <3>3. Scan(d).kind = "h" /\ Scan(d).scan = g
      BY <2>4, <2>8, <3>1, <3>2 DEF FoundHere
    <3>4. g \in Scanner /\ g.pos = l
      <4>1. d.col + (l - k) \in Nat
        BY <2>1, <2>2, <2>4, <3>1
      <4>. QED
        BY <3>1, <4>1 DEF Scanner
    <3> HIDE DEF g
    <3>5. tok = P(g)
      <4>1. P(d) = P(g)
        BY <2>1, <2>4, <3>3, PhysicalIs
      <4>. QED
        BY <2>5, <4>1
    <3>6. FoundHere(g, Scan(g))
      BY <3>1, <3>4, ScanHere DEF Continued
    <3>7. f = FirstContent[l] /\ Measure[White(l, 0)] = White(l, 0)
      <4>1. White(l, 0) \in Leading /\ White(l, 0).off = l
        BY <3>1 DEF White, Leading
      <4>. QED
        BY <2>3, <2>8, <3>1, <4>1, MeasureIs
    <3>8. FirstContent[l] = IF At(l) \in {"n", "h"} \/ Continued(l)
                            THEN FirstContent[Past(l)] ELSE White(l, 0)
      <4>1. White(l, 0).off = l
        BY DEF White
      <4>. QED
        BY <3>1, <3>7, <4>1, FirstContentIs DEF White
    <3>9. CASE At(l) = "n"
      <4> DEFINE e == Fresh(l + 1, 0)
      <4>1. /\ l + 1 \in 1 .. Ends /\ l + 1 \in i + 1 .. Ends /\ Past(l) = l + 1 /\ Begins(l + 1)
        BY <2>1, <3>1, <3>9, NextLine, AtIs
      <4>2. Scan(g).kind = "n" /\ Scan(g).scan = e
        BY <3>4, <3>6, <3>9, <4>1 DEF FoundHere
      <4> HIDE DEF e
      <4>3. P(g) = P(e)
        BY <3>1, <3>4, <4>2, PhysicalIs
      <4>4. f = FirstContent[l + 1]
        BY <3>7, <3>8, <3>9, <4>1
      <4>5. SameContentFrom(l + 1)
        BY <1>1, <4>1
      <4>. QED
        BY <3>5, <4>3, <4>4, <4>5 DEF SameContentFrom, e
    <3>10. CASE At(l) = "eof"
      <4>1. f = White(l, 0) /\ f.off = l
        BY <3>7, <3>8, <3>10 DEF Continued, White
      <4>2. P(g) = Scan(g) /\ Scan(g).at = l
        BY <3>1, <3>4, <3>6, <3>10, PhysicalIs DEF FoundHere
      <4>. QED
        BY <3>5, <3>10, <4>1, <4>2 DEF SameContentFrom
    <3>. QED
      BY <3>1, <3>9, <3>10
  <2>9. CASE At(k) \notin {"n", "h"} /\ ~Continued(k)
    <3>1. FoundHere(d, Scan(d))
      BY <2>1, <2>4, <2>9, ScanHere
    <3>2. P(d) = Scan(d) /\ Scan(d).at = k /\ Scan(d).col = bytes
      BY <2>1, <2>4, <2>9, <3>1, PhysicalIs DEF FoundHere
    <3>3. f = m
      BY <2>3, <2>9
    <3>4. At(k) # "eof" => i \in LineStarts
      BY <1>1, <2>1, AtIs DEF Begins
    <3>5. m.width = Width(i) /\ bytes = Column(i)
      BY DEF Width, Column, White, m, bytes
    <3>. QED
      BY <2>5, <3>2, <3>3, <3>4, <3>5 DEF SameContentFrom, Level
  <2>. QED
    BY <2>6, <2>7, <2>8, <2>9
<1>2. \A i \in 1 .. Ends : i \in T
  <2>1. \A i \in 1 .. Ends : (\A k \in i + 1 .. Ends : k \in T) => i \in T
    BY <1>1
  <2> HIDE DEF T
  <2>. QED
    BY <2>1, OffsetInduction
<1>. QED
  BY <1>2

\* In a line, or in brackets, the layers come to the same character.
SamePlace(c, depth) ==
    Physical[[scan |-> c, ignores |-> depth > 0]].at = SkipSpace[[off |-> c.pos, depth |-> depth]]

\* Each passes over what the other does.
LEMMA PlacesAgree ==
    ASSUME Text
    PROVE  \A c \in Scanner : c.pos \in 1 .. Ends => \A depth \in Nat : SamePlace(c, depth)
<1> DEFINE T == {i \in 1 .. Ends :
                    \A c \in Scanner : c.pos = i => \A depth \in Nat : SamePlace(c, depth)}
<1>1. ASSUME NEW i \in 1 .. Ends, \A k \in i + 1 .. Ends : k \in T,
             NEW c \in Scanner, c.pos = i, NEW depth \in Nat
      PROVE  SamePlace(c, depth)
  <2> DEFINE ig == depth > 0
             P(x) == Physical[[scan |-> x, ignores |-> ig]]
             S(x) == SkipSpace[[off |-> x, depth |-> depth]]
  <2>1. i \in Nat /\ ig \in BOOLEAN /\ Ends \in Nat
    BY AtIs
  <2>2. ASSUME Passes(i) PROVE Past(i) \in i + 1 .. Ends /\ Past(i) \in 1 .. Ends
    BY <2>1, <2>2, PastIs
  <2>3. ASSUME NEW e \in Scanner, e.pos = Past(i), Passes(i) PROVE P(e).at = S(Past(i))
    <3>1. SamePlace(e, depth)
      BY <1>1, <2>2, <2>3
    <3>. QED
      BY <2>3, <3>1 DEF SamePlace
  <2>4. CASE At(i) \in {"s", "t", "f"} \/ Continued(i)
    <3> DEFINE e == Advanced(c)
    <3>1. Passes(i) /\ ~(At(i) = "n" /\ depth = 0)
      BY <2>4 DEF Passes, Continued
    <3>2. e \in Scanner /\ e.pos = Past(i)
      <4>1. c \in Scanner /\ c.pos \in Nat /\ c.col \in Nat
        BY DEF Scanner
      <4>2. CASE Continued(i)
        <5>1. e = [pos |-> i + 2, col |-> 0, lineStart |-> TRUE]
          BY <1>1, <4>2 DEF Advanced
        <5>2. Past(i) = i + 2 /\ i + 2 \in Nat
          BY <2>1, <4>2 DEF Past, Continued
        <5> HIDE DEF e
        <5>. QED
          BY <5>1, <5>2 DEF Scanner
      <4>3. CASE ~Continued(i)
        <5>1. At(i) # "h"
          BY <2>4, <4>3
        <5> DEFINE col == IF At(i) = "f" /\ c.lineStart THEN 0 ELSE c.col + 1
        <5>2. e = [c EXCEPT !.pos = i + 1, !.col = col]
          BY <1>1, <4>3 DEF Advanced
        <5>3. Past(i) = i + 1 /\ i + 1 \in Nat /\ col \in Nat
          BY <2>1, <4>1, <4>3, <5>1 DEF Past
        <5> HIDE DEF e, col
        <5>. QED
          BY <4>1, <5>2, <5>3 DEF Scanner
      <4>. QED
        BY <4>2, <4>3
    <3>3. SkipBlanks[c] = SkipBlanks[e]
      BY <1>1, <2>4, SkipBlanksIs
    <3> HIDE DEF e
    <3>4. P(c) = P(e)
      BY <1>1, <2>1, <2>2, <3>1, <3>2, <3>3, SameToken
    <3>5. S(i) = S(Past(i))
      BY <3>1, SkipSpaceIs
    <3>. QED
      BY <1>1, <2>3, <3>1, <3>2, <3>4, <3>5 DEF SamePlace
  <2>5. CASE ~(At(i) \in {"s", "t", "f"} \/ Continued(i))
    <3>1. FoundHere(c, Scan(c))
      BY <1>1, <2>5, ScanHere
    <3>2. Scan(c).kind = At(i) /\ Scan(c).at = i
      BY <1>1, <3>1 DEF FoundHere
    <3>3. CASE At(i) = "h" \/ (At(i) = "n" /\ ig)
      <4> DEFINE e == Scan(c).scan
      <4>1. Passes(i) /\ ~(At(i) = "n" /\ depth = 0) /\ At(i) # "eof"
        BY <3>3 DEF Passes
      <4>2. e \in Scanner /\ e.pos = Past(i)
        <5>1. Found(i, Scan(c))
          BY <1>1, ScanIs
        <5>. QED
          BY <3>2, <4>1, <5>1 DEF Found
      <4>3. P(c) = P(e)
        BY <1>1, <2>1, <3>2, <3>3, PhysicalIs
      <4>4. S(i) = S(Past(i))
        BY <4>1, SkipSpaceIs
      <4> HIDE DEF e
      <4>. QED
        BY <1>1, <2>3, <4>1, <4>2, <4>3, <4>4 DEF SamePlace
    <3>4. CASE ~(At(i) = "h" \/ (At(i) = "n" /\ ig))
      <4>1. P(c) = Scan(c)
        BY <1>1, <2>1, <3>2, <3>4, PhysicalIs
      <4>2. IsContent(i) \/ (At(i) = "n" /\ depth = 0)
        BY <2>5, <3>4 DEF IsContent, Passes
      <4>3. S(i) = i
        BY <4>2, SkipSpaceIs
      <4>. QED
        BY <1>1, <3>2, <4>1, <4>3 DEF SamePlace
    <3>. QED
      BY <3>3, <3>4
  <2>. QED
    BY <2>4, <2>5
<1>2. \A i \in 1 .. Ends : i \in T
  <2>1. \A i \in 1 .. Ends : (\A k \in i + 1 .. Ends : k \in T) => i \in T
    BY <1>1
  <2> HIDE DEF T
  <2>. QED
    BY <2>1, OffsetInduction
<1>. QED
  BY <1>2

-----------------------------------------------------------------------------
(* Levels.                                                                 *)

\* A level is a number by both counts.
LEMMA LevelIs ==
    ASSUME Text, NEW w, NEW c, Level(w, c)
    PROVE  w \in Nat /\ c \in Nat
<1>1. ASSUME NEW j \in LineStarts PROVE Width(j) \in Nat /\ Column(j) \in Nat
  <2>1. j \in 1 .. Ends
    BY AtIs DEF LineStarts, Ends
  <2>2. Measure[White(j, 0)] \in Leading
    BY <2>1, IndentationIs DEF White
  <2>3. Bytes[White(j, 0)] \in Nat
    BY <2>1, BothCountsAre DEF BothCounts
  <2>. QED
    BY <2>2, <2>3 DEF Width, Column, White, Leading
<1>. QED
  BY <1>1 DEF Level

\* Where no white space is ambiguous, both counts order the levels alike.
LEMMA LevelsAgree ==
    ASSUME Text, TabConsistent, NEW w, NEW c, Level(w, c), NEW x, NEW d, Level(x, d)
    PROVE  (w < x <=> c < d) /\ (w = x <=> c = d)
<1>1. ASSUME NEW j \in LineStarts
      PROVE  /\ Width(j) \in Nat /\ Column(j) \in Nat /\ (Width(j) = 0 <=> Column(j) = 0)
  <2>1. j \in 1 .. Ends
    BY AtIs DEF LineStarts, Ends
  <2>2. Measure[White(j, 0)] \in Leading
    BY <2>1, IndentationIs DEF White
  <2>3. BothCounts(j, 0, 0)
    BY <2>1, BothCountsAre
  <2>. QED
    BY <2>2, <2>3 DEF BothCounts, Width, Column, White, Leading
<1>2. w \in Nat /\ c \in Nat /\ x \in Nat /\ d \in Nat
  BY LevelIs
<1>3. w < x <=> c < d
  BY <1>1, <1>2 DEF Level, TabConsistent
<1>4. x < w <=> d < c
  BY <1>1, <1>2 DEF Level, TabConsistent
<1>. QED
  BY <1>2, <1>3, <1>4

\* Stacks whose levels are the same.
Paired(stack, indents) ==
    /\ Stack(stack) /\ Stack(indents) /\ Len(stack) = Len(indents)
    /\ \A k \in 1 .. Len(stack) : Level(stack[k], indents[k])

\* A line closes as many levels for either layer.
LEMMA ClosesAgree ==
    ASSUME Text, TabConsistent, NEW stack, NEW indents, Paired(stack, indents),
           NEW w, NEW c, Level(w, c)
    PROVE  Closes(stack, w) = Closes(indents, c)
<1>1. Len(stack) \in Nat /\ Len(indents) = Len(stack) /\ stack \in Seq(Nat) /\ indents \in Seq(Nat)
  BY DEF Paired, Stack
<1>2. \A k \in 1 .. Len(stack) : stack[k] > w <=> indents[k] > c
  <2>1. ASSUME NEW k \in 1 .. Len(stack) PROVE stack[k] > w <=> indents[k] > c
    <3>1. w < stack[k] <=> c < indents[k]
      BY LevelsAgree DEF Paired
    <3>2. w \in Nat /\ c \in Nat /\ stack[k] \in Nat /\ indents[k] \in Nat
      BY <1>1, LevelIs
    <3>. QED
      BY <3>1, <3>2
  <2>. QED
    BY <2>1
<1>3. {k \in 2 .. Len(stack) : \A j \in k .. Len(stack) : stack[j] > w}
          = {k \in 2 .. Len(indents) : \A j \in k .. Len(indents) : indents[j] > c}
  BY <1>1, <1>2
<1>. QED
  BY <1>3 DEF Closes

\* The stacks stay paired when a level is added to both, or all above one are closed.
LEMMA PairedIs ==
    ASSUME Text, NEW stack, NEW indents, Paired(stack, indents)
    PROVE  /\ \A w, c : Level(w, c) => Paired(Append(stack, w), Append(indents, c))
           /\ \A n \in 1 .. Len(stack) : /\ Paired(SubSeq(stack, 1, n), SubSeq(indents, 1, n))
                                         /\ Len(SubSeq(indents, 1, n)) = n
                                         /\ Top(SubSeq(indents, 1, n)) = indents[n]
           /\ Level(Top(stack), Top(indents))
<1>1. /\ Len(stack) \in Nat /\ Len(stack) >= 1 /\ Len(indents) = Len(stack)
      /\ stack \in Seq(Nat) /\ indents \in Seq(Nat) /\ stack[1] = 0 /\ indents[1] = 0
  BY StackIs DEF Paired, Stack
<1>2. ASSUME NEW w, NEW c, Level(w, c) PROVE Paired(Append(stack, w), Append(indents, c))
  <2>1. w \in Nat /\ c \in Nat
    BY <1>2, LevelIs
  <2> DEFINE a == Append(stack, w)
             b == Append(indents, c)
  <2>2. Stack(a) /\ Stack(b) /\ Len(a) = Len(stack) + 1 /\ Len(b) = Len(stack) + 1
    BY <1>1, <2>1, StackIs DEF Paired
  <2>3. /\ a[Len(stack) + 1] = w /\ b[Len(stack) + 1] = c
        /\ \A k \in 1 .. Len(stack) : a[k] = stack[k] /\ b[k] = indents[k]
    BY <1>1, <2>1
  <2> HIDE DEF a, b
  <2>4. ASSUME NEW k \in 1 .. Len(a) PROVE Level(a[k], b[k])
    <3>1. CASE k = Len(stack) + 1
      BY <1>2, <2>3, <3>1
    <3>2. CASE k # Len(stack) + 1
      <4>1. k \in 1 .. Len(stack)
        BY <1>1, <2>2, <3>2
      <4>. QED
        BY <2>3, <4>1 DEF Paired
    <3>. QED
      BY <3>1, <3>2
  <2>5. Paired(a, b)
    BY <2>2, <2>4 DEF Paired
  <2>. QED
    BY <2>5 DEF a, b
<1>3. ASSUME NEW n \in 1 .. Len(stack)
      PROVE  /\ Paired(SubSeq(stack, 1, n), SubSeq(indents, 1, n))
             /\ Len(SubSeq(indents, 1, n)) = n
             /\ Top(SubSeq(indents, 1, n)) = indents[n]
  <2> DEFINE a == SubSeq(stack, 1, n)
             b == SubSeq(indents, 1, n)
  <2>1. /\ a \in Seq(Nat) /\ Len(a) = n /\ \A k \in 1 .. n : a[k] = stack[k]
        /\ b \in Seq(Nat) /\ Len(b) = n /\ \A k \in 1 .. n : b[k] = indents[k]
    <3>1. \A k \in 1 .. n : stack[k] \in Nat /\ indents[k] \in Nat
      BY <1>1
    <3>. QED
      BY <1>1, <3>1, SubSeqProperties
  <2> HIDE DEF a, b
  <2>2. a # <<>> /\ b # <<>> /\ 1 \in 1 .. n /\ n \in 1 .. n
    BY <1>1, <2>1
  <2>3. Paired(a, b)
    <3>1. Stack(a) /\ Stack(b)
      BY <1>1, <2>1, <2>2 DEF Stack
    <3>2. \A k \in 1 .. Len(a) : Level(a[k], b[k])
      BY <1>1, <2>1 DEF Paired
    <3>. QED
      BY <2>1, <3>1, <3>2 DEF Paired
  <2>. QED
    BY <2>1, <2>2, <2>3 DEF a, b, Top
<1>4. Level(Top(stack), Top(indents))
  BY <1>1 DEF Paired, Top
<1>. QED
  BY <1>2, <1>3, <1>4

-----------------------------------------------------------------------------
(* The scanner of parser/, from call to call.                              *)

(***************************************************************************)
(* Pairs of a state of the scanner and what it has emitted by then: with   *)
(* any of them the ones it comes to next are in the set.                   *)
(***************************************************************************)
Run(R) ==
    \A p \in R : /\ Inv2(p[1], p[2])
                 /\ p[1].state = "on" =>
                       LET r == NextInternal(p[1]) IN <<r.s, Append(p[2], r.tok)>> \in R

\* A call.
LEMMA RunOn ==
    ASSUME NEW R, Run(R), NEW s, NEW out, <<s, out>> \in R, s.state = "on"
    PROVE  /\ On2(s, out) /\ s \in Stmt /\ out \in Seq(Tokens)
           /\ <<NextInternal(s).s, Append(out, NextInternal(s).tok)>> \in R
<1> DEFINE p == <<s, out>>
<1>1. p \in R /\ p[1] = s /\ p[2] = out
  OBVIOUS
<1>2. Inv2(s, out)
  BY <1>1 DEF Run
<1>3. <<NextInternal(s).s, Append(out, NextInternal(s).tok)>> \in R
  BY <1>1 DEF Run
<1>. QED
  BY <1>2, <1>3 DEF Inv2

\* One more token in front of several of its kind.
LEMMA TimesMore ==
    ASSUME NEW out \in Seq(Tokens), NEW tok \in Tokens, NEW n \in Nat
    PROVE  /\ Append(out, tok) \o Times(n, tok) = out \o Times(n + 1, tok)
           /\ Times(n, tok) \in Seq(Tokens) /\ out \o Times(0, tok) = out
<1> DEFINE a == Append(out, tok)
           b == Times(n, tok)
           c == Times(n + 1, tok)
           l == a \o b
           r == out \o c
<1>1. /\ b \in Seq(Tokens) /\ Len(b) = n /\ \A i \in 1 .. n : b[i] = tok
      /\ c \in Seq(Tokens) /\ Len(c) = n + 1 /\ \A i \in 1 .. n + 1 : c[i] = tok
  BY DEF Times
<1>2. /\ a \in Seq(Tokens) /\ Len(a) = Len(out) + 1 /\ Len(out) \in Nat
      /\ a[Len(out) + 1] = tok /\ \A i \in 1 .. Len(out) : a[i] = out[i]
  BY AppendIs
<1> HIDE DEF a, b, c
<1>3. /\ l \in Seq(Tokens) /\ Len(l) = Len(a) + Len(b)
      /\ \A i \in 1 .. Len(a) + Len(b) : l[i] = IF i <= Len(a) THEN a[i] ELSE b[i - Len(a)]
      /\ r \in Seq(Tokens) /\ Len(r) = Len(out) + Len(c)
      /\ \A i \in 1 .. Len(out) + Len(c) : r[i] = IF i <= Len(out) THEN out[i] ELSE c[i - Len(out)]
  BY <1>1, <1>2, ConcatProperties
<1> HIDE DEF l, r
<1>4. ASSUME NEW i \in 1 .. Len(l) PROVE l[i] = r[i]
  <2>1. i \in 1 .. Len(a) + Len(b) /\ i \in 1 .. Len(out) + Len(c) /\ i \in Nat
    BY <1>1, <1>2, <1>3
  <2>2. l[i] = (IF i <= Len(a) THEN a[i] ELSE b[i - Len(a)])
        /\ r[i] = IF i <= Len(out) THEN out[i] ELSE c[i - Len(out)]
    BY <1>3, <2>1
  <2>3. CASE i <= Len(out)
    BY <1>2, <2>1, <2>2, <2>3
  <2>4. CASE i = Len(out) + 1
    <3>1. i - Len(out) = 1 /\ 1 \in 1 .. n + 1
      BY <1>2, <2>4
    <3>. QED
      BY <1>1, <1>2, <2>1, <2>2, <2>4, <3>1
  <2>5. CASE i > Len(out) + 1
    <3>1. i - Len(out) \in 1 .. n + 1 /\ i - Len(a) \in 1 .. n
      BY <1>1, <1>2, <2>1, <2>5
    <3>. QED
      BY <1>1, <1>2, <2>1, <2>2, <2>5, <3>1
  <2>. QED
    BY <1>2, <2>1, <2>3, <2>4, <2>5
<1>5. Len(l) = Len(r)
  BY <1>1, <1>2, <1>3
<1>6. l = r
  BY <1>3, <1>4, <1>5, SeqEqual
<1>7. out \o Times(0, tok) = out
  <2>1. Times(0, tok) = <<>>
    BY DEF Times
  <2>. QED
    BY <2>1
<1>. QED
  BY <1>1, <1>6, <1>7 DEF l, r, a, b, c

\* A level is popped, and then several.
LEMMA PopMore ==
    ASSUME NEW stack \in Seq(Nat), NEW n \in 1 .. Len(stack), NEW k \in Nat, k + 1 = n
    PROVE  SubSeq(Pop(stack), 1, Len(Pop(stack)) - k) = SubSeq(stack, 1, Len(stack) - n)
<1> DEFINE l == Len(stack)
           a == Pop(stack)
           b == SubSeq(a, 1, Len(a) - k)
           c == SubSeq(stack, 1, l - n)
<1>1. l \in Nat /\ l - 1 \in Nat /\ l - n \in Nat /\ n <= l /\ l - n <= l - 1 /\ (l - 1) - k = l - n
  OBVIOUS
<1>2. \A i \in 1 .. l : stack[i] \in Nat
  OBVIOUS
<1> HIDE DEF l
<1>3. a \in Seq(Nat) /\ Len(a) = l - 1 /\ \A i \in 1 .. l - 1 : a[i] = stack[i]
  <2>1. a = SubSeq(stack, 1, l - 1)
    BY DEF Pop, l
  <2>2. \A i \in 1 .. l - 1 : stack[i] \in Nat
    BY <1>1, <1>2
  <2> HIDE DEF a
  <2>. QED
    BY <1>1, <2>1, <2>2, SubSeqProperties
<1>4. c \in Seq(Nat) /\ Len(c) = l - n /\ \A i \in 1 .. l - n : c[i] = stack[i]
  <2>1. \A i \in 1 .. l - n : stack[i] \in Nat
    BY <1>1, <1>2
  <2>. QED
    BY <1>1, <2>1, SubSeqProperties
<1> HIDE DEF a
<1>5. b \in Seq(Nat) /\ Len(b) = l - n /\ \A i \in 1 .. l - n : b[i] = a[i]
  BY <1>1, <1>3, SubSeqProperties
<1> HIDE DEF b, c
<1>6. ASSUME NEW i \in 1 .. l - n PROVE b[i] = c[i]
  <2>1. i \in 1 .. l - 1
    BY <1>1
  <2>. QED
    BY <1>3, <1>4, <1>5, <2>1
<1>7. b = c
  BY <1>1, <1>4, <1>5, <1>6, SeqEqual
<1>. QED
  BY <1>7 DEF a, b, c, l

\* The scanner has emitted the DEDENTs it owed, and nothing else has changed.
Paid(s, u, n) ==
    /\ u \in Stmt /\ u.state = "on" /\ u.pending = 0 /\ u.off = s.off
    /\ u.stack = SubSeq(s.stack, 1, Len(s.stack) - n)
    /\ u.depth = s.depth /\ u.atLineStart = s.atLineStart
    /\ u.eofNewlineDone = s.eofNewlineDone /\ u.eofDedentsDone = s.eofDedentsDone

\* Call by call.
LEMMA OwedRun ==
    ASSUME Text, NEW R, Run(R)
    PROVE  \A n \in Nat : \A s, out : <<s, out>> \in R /\ s.state = "on" /\ s.pending = n =>
               \E u : Paid(s, u, n) /\ <<u, out \o Times(n, Tok("DEDENT"))>> \in R
<1> DEFINE D == Tok("DEDENT")
           Pays(s, out, n) == \E u : Paid(s, u, n) /\ <<u, out \o Times(n, D)>> \in R
           Owes(s, out, n) == <<s, out>> \in R /\ s.state = "on" /\ s.pending = n
           T == {n \in Nat : \E s, out : Owes(s, out, n) /\ ~Pays(s, out, n)}
<1>1. SUFFICES ASSUME T # {} PROVE FALSE
  <2> HIDE DEF Owes, Pays
  <2>1. \A n \in Nat : \A s, out : Owes(s, out, n) => Pays(s, out, n)
    BY <1>1
  <2>. QED
    BY <2>1 DEF Owes, Pays
<1>2. PICK n \in T : \A m \in T : n <= m
  <2>1. T \subseteq Nat
    OBVIOUS
  <2> HIDE DEF T
  <2>. QED
    BY <1>1, <2>1, FirstOf
<1>3. PICK s, out : Owes(s, out, n) /\ ~Pays(s, out, n)
  BY <1>2
<1>4. D \in Tokens /\ n \in Nat
  BY <1>2 DEF Tokens, Structure
<1>5. <<s, out>> \in R /\ s.state = "on" /\ s.pending = n
  BY <1>3
<1>6. /\ s \in Stmt /\ out \in Seq(Tokens) /\ On2(s, out)
      /\ Stack(s.stack) /\ n < Len(s.stack) /\ Len(s.stack) \in Nat /\ s.stack \in Seq(Nat)
  BY <1>5, RunOn, StackIs DEF On2, Stack
<1> HIDE DEF Owes, T
<1>7. CASE n = 0
  <2>1. SubSeq(s.stack, 1, Len(s.stack) - 0) = s.stack
    <3> DEFINE a == SubSeq(s.stack, 1, Len(s.stack) - 0)
    <3>1. Len(s.stack) - 0 = Len(s.stack) /\ \A i \in 1 .. Len(s.stack) : s.stack[i] \in Nat
      BY <1>6
    <3>2. a \in Seq(Nat) /\ Len(a) = Len(s.stack) /\ \A i \in 1 .. Len(s.stack) : a[i] = s.stack[i]
      BY <1>6, <3>1, SubSeqProperties
    <3> HIDE DEF a
    <3>3. a = s.stack
      BY <1>6, <3>2, SeqEqual
    <3>. QED
      BY <3>3 DEF a
  <2>2. out \o Times(0, D) = out
    BY <1>4, <1>6, TimesMore
  <2>3. Paid(s, s, 0)
    BY <1>5, <1>6, <1>7, <2>1 DEF Paid
  <2>. QED
    BY <1>3, <1>5, <1>7, <2>2, <2>3
<1>8. CASE n > 0
  <2> DEFINE k == n - 1
             v == EmitDedent(s, k).s
             new == Append(out, D)
  <2>1. k \in Nat /\ k + 1 = n /\ k < n /\ n <= Len(s.stack)
    BY <1>4, <1>6, <1>8
  <2>2. NextInternal(s) = EmitDedent(s, s.pending - 1)
    BY <1>5, <1>8 DEF NextInternal
  <2>3. EmitDedent(s, k).tok = D
    BY DEF EmitDedent, Emit2, Tok
  <2>4. <<v, new>> \in R
    BY <1>5, <2>2, <2>3, RunOn
  <2> HIDE DEF k
  <2>5. /\ v.state = "on" /\ v.pending = k /\ v.off = s.off /\ v.stack = Pop(s.stack)
        /\ v.depth = s.depth /\ v.atLineStart = s.atLineStart
        /\ v.eofNewlineDone = s.eofNewlineDone /\ v.eofDedentsDone = s.eofDedentsDone
    BY <1>5, <1>6 DEF EmitDedent, Emit2, Tok, Stmt
  <2> HIDE DEF v, new
  <2>6. k \notin T
    BY <1>2, <1>4, <2>1
  <2>7. Pays(v, new, k)
    BY <2>1, <2>4, <2>5, <2>6 DEF Owes, T
  <2>8. PICK u : Paid(v, u, k) /\ <<u, new \o Times(k, D)>> \in R
    BY <2>7
  <2>9. new \o Times(k, D) = out \o Times(n, D)
    BY <1>4, <1>6, <2>1, TimesMore DEF new
  <2>10. SubSeq(Pop(s.stack), 1, Len(Pop(s.stack)) - k) = SubSeq(s.stack, 1, Len(s.stack) - n)
    <3>1. n \in 1 .. Len(s.stack)
      BY <1>4, <1>6, <1>8
    <3>. QED
      BY <1>6, <2>1, <3>1, PopMore
  <2>11. Paid(s, u, n)
    BY <2>5, <2>8, <2>10 DEF Paid
  <2>. QED
    BY <1>3, <2>8, <2>9, <2>11
<1>. QED
  BY <1>4, <1>7, <1>8

\* At the end of the file nothing is left to pass over.
LEMMA AtEndIs ==
    ASSUME Text, NEW s \in Stmt, s.pending = 0, s.off = Ends
    PROVE  NextInternal(s) = AtEOF(s)
<1>1. Ends \in 1 .. Ends /\ Ends \in Nat /\ At(Ends) = "eof" /\ s.depth \in Nat
  <2>1. Len(src) \in Nat /\ Ends = Len(src) + 1
    BY AtIs DEF Ends
  <2>2. Ends \in 1 .. Ends /\ Ends \in Nat
    BY <2>1
  <2>3. At(Ends) = "eof" /\ s.depth \in Nat
    BY <2>2, AtIs DEF Stmt
  <2>. QED
    BY <2>2, <2>3
<1>2. InLine(s) = AtEOF(s)
  BY <1>1 DEF InLine
<1>3. CASE s.atLineStart /\ s.depth = 0
  <2> DEFINE m == FirstContent[s.off]
             t == [s EXCEPT !.off = m.off]
  <2>1. m.off = Ends
    <3>1. m.off \in s.off .. Ends
      BY <1>1, FirstContentIs
    <3> HIDE DEF m
    <3>. QED
      BY <1>1, <3>1
  <2>2. t = s
    BY <2>1 DEF Stmt
  <2>3. AtLineStart(s) = InLine(t)
    BY <1>1, <2>1 DEF AtLineStart
  <2>4. NextInternal(s) = AtLineStart(s)
    BY <1>3 DEF NextInternal
  <2>. QED
    BY <1>2, <2>2, <2>3, <2>4
<1>4. CASE ~(s.atLineStart /\ s.depth = 0)
  <2> DEFINE t == [s EXCEPT !.off = SkipSpace[[off |-> @, depth |-> s.depth]]]
  <2>1. SkipSpace[[off |-> s.off, depth |-> s.depth]] = Ends
    <3> DEFINE k == SkipSpace[[off |-> s.off, depth |-> s.depth]]
    <3>1. k \in s.off .. Ends
      BY <1>1, SkipSpaceIs
    <3> HIDE DEF k
    <3>2. k = Ends
      BY <1>1, <3>1
    <3>. QED
      BY <3>2 DEF k
  <2>2. t = s
    BY <2>1 DEF Stmt
  <2>3. NextInternal(s) = InLine(t)
    <3>1. At(t.off) # "n"
      BY <1>1, <2>2
    <3>. QED
      BY <1>4, <3>1 DEF NextInternal
  <2>. QED
    BY <1>2, <2>2, <2>3
<1>. QED
  BY <1>3, <1>4

\* The scanner has come to the end with this emitted.
EndsWith(R, out) == \E u : u.state = "ended" /\ <<u, out>> \in R

\* From the last line on: the DEDENTs, one by one, and the end.
LEMMA EndDedents ==
    ASSUME Text, NEW R, Run(R), NEW s, NEW out, <<s, out>> \in R, s.state = "on",
           NEW t \in Stmt, NextInternal(s) = AtEOF(t), t.pending = 0, t.off = Ends, t.state = "on",
           t.stack = s.stack, ~t.eofDedentsDone, t.eofNewlineDone \/ ~NewlineDue(t)
    PROVE  EndsWith(R, Append(out \o Times(Len(s.stack) - 1, Tok("DEDENT")), Tok("END")))
<1> DEFINE D == Tok("DEDENT")
           n == Len(s.stack)
           de == [[t EXCEPT !.eofNewlineDone = TRUE] EXCEPT !.eofDedentsDone = TRUE]
<1>1. s \in Stmt /\ out \in Seq(Tokens) /\ Stack(s.stack) /\ n \in Nat /\ n >= 1 /\ D \in Tokens
  BY RunOn, StackIs DEF On2, Tokens, Structure
<1>2. /\ de \in Stmt /\ de.off = Ends /\ de.stack = s.stack /\ de.state = "on" /\ de.pending = 0
      /\ de.eofNewlineDone = TRUE /\ de.eofDedentsDone = TRUE
  BY DEF Stmt
<1>3. CASE n > 1
  <2> DEFINE v == EmitDedent(de, n - 2).s
             new == Append(out, D)
  <2>1. AtEOF(t) = EmitDedent(de, n - 2)
    BY <1>3 DEF AtEOF
  <2>2. <<v, new>> \in R
    <3>1. EmitDedent(de, n - 2).tok = D
      BY DEF EmitDedent, Emit2, Tok
    <3>. QED
      BY <2>1, <3>1, RunOn
  <2>3. /\ v.state = "on" /\ v.pending = n - 2 /\ v.off = Ends /\ v.stack = Pop(s.stack)
        /\ v.eofNewlineDone = TRUE /\ v.eofDedentsDone = TRUE
    BY <1>2 DEF EmitDedent, Emit2, Tok, Stmt
  <2>4. n - 2 \in Nat /\ (n - 2) + 1 = n - 1 /\ Len(Pop(s.stack)) = n - 1 /\ (n - 1) - (n - 2) = 1
    <3>1. Len(Pop(s.stack)) = n - 1
      BY <1>1, <1>3, StackIs
    <3> HIDE DEF n
    <3>. QED
      BY <1>1, <1>3, <3>1
  <2> DEFINE k == n - 2
  <2> HIDE DEF v, new, n, k, de
  <2>5. PICK u : Paid(v, u, k) /\ <<u, new \o Times(k, D)>> \in R
    BY <2>2, <2>3, <2>4, OwedRun DEF k
  <2>6. new \o Times(k, D) = out \o Times(n - 1, D)
    <3>1. k \in Nat /\ k + 1 = n - 1
      BY <2>4 DEF k
    <3> HIDE DEF D
    <3>2. Append(out, D) \o Times(k, D) = out \o Times(k + 1, D)
      BY <1>1, <3>1, TimesMore
    <3>. QED
      BY <3>1, <3>2 DEF new
  <2>7. /\ u \in Stmt /\ u.state = "on" /\ u.pending = 0 /\ u.off = Ends
        /\ u.eofNewlineDone = TRUE /\ u.eofDedentsDone = TRUE
    BY <2>3, <2>5 DEF Paid
  <2>8. AtEOF(u).tok = Tok("END") /\ AtEOF(u).s.state = "ended"
    BY <2>7 DEF AtEOF, Emit2, Tok, Stmt
  <2>9. NextInternal(u) = AtEOF(u)
    BY <2>7, AtEndIs
  <2>10. <<AtEOF(u).s, Append(out \o Times(n - 1, D), Tok("END"))>> \in R
    BY <2>5, <2>6, <2>7, <2>8, <2>9, RunOn
  <2>. QED
    BY <2>8, <2>10 DEF EndsWith, n
<1>4. CASE ~(n > 1)
  <2>1. AtEOF(t).tok = Tok("END") /\ AtEOF(t).s.state = "ended"
    BY <1>4 DEF AtEOF, Emit2, Tok, Stmt
  <2>2. out \o Times(n - 1, D) = out
    <3>1. n - 1 = 0
      <4> HIDE DEF n
      <4>. QED
        BY <1>1, <1>4
    <3> HIDE DEF n
    <3>. QED
      BY <1>1, <3>1, TimesMore
  <2>3. <<AtEOF(t).s, Append(out, Tok("END"))>> \in R
    BY <2>1, RunOn
  <2>. QED
    BY <2>1, <2>2, <2>3 DEF EndsWith
<1>. QED
  BY <1>3, <1>4

\* What the scanner emits at the end of the file, or lex.Indent flushes there.
Closing(newline, depth) ==
    (IF newline THEN <<Tok("NEWLINE")>> ELSE <<>>) \o Times(depth, Tok("DEDENT")) \o <<Tok("END")>>

\* Tokens that are emitted, and then more.
LEMMA ClosingOn ==
    ASSUME NEW out \in Seq(Tokens), NEW n \in Nat
    PROVE  /\ out \o Closing(TRUE, n)
                  = Append(Append(out, Tok("NEWLINE")) \o Times(n, Tok("DEDENT")), Tok("END"))
           /\ out \o Closing(FALSE, n) = Append(out \o Times(n, Tok("DEDENT")), Tok("END"))
           /\ \A newline \in BOOLEAN :
                  Closing(newline, n) \in Seq(Tokens) /\ Closing(newline, n) # <<>>
<1> DEFINE N == Tok("NEWLINE")
           D == Tok("DEDENT")
           E == Tok("END")
           de == Times(n, D)
<1>1. N \in Tokens /\ D \in Tokens /\ E \in Tokens
  BY DEF Tokens, Structure
<1>2. de \in Seq(Tokens)
  BY <1>1, TimesMore
<1> HIDE DEF N, D, E, de
<1>3. <<N>> \in Seq(Tokens) /\ <<E>> \in Seq(Tokens) /\ <<>> \in Seq(Tokens) /\ <<E>> # <<>>
  BY <1>1
<1>4. ASSUME NEW nl \in Seq(Tokens)
      PROVE  /\ out \o ((nl \o de) \o <<E>>) = Append((out \o nl) \o de, E)
             /\ (nl \o de) \o <<E>> \in Seq(Tokens) /\ (nl \o de) \o <<E>> # <<>>
  <2>1. nl \o de \in Seq(Tokens) /\ out \o nl \in Seq(Tokens)
    BY <1>2, ConcatProperties
  <2>2. /\ out \o ((nl \o de) \o <<E>>) = (out \o (nl \o de)) \o <<E>>
        /\ (nl \o de) \o <<E>> \in Seq(Tokens) /\ (nl \o de) \o <<E>> # <<>>
    BY <1>3, <2>1, ConcatThree
  <2>3. out \o (nl \o de) = (out \o nl) \o de
    BY <1>2, <1>3, ConcatAssociative
  <2>4. (out \o nl) \o de \in Seq(Tokens)
    BY <1>2, <2>1, ConcatProperties
  <2> DEFINE x == (out \o nl) \o de
  <2> HIDE DEF x
  <2>5. x \o <<E>> = Append(x, E)
    BY <1>1, <2>4, AppendIsConcat DEF x
  <2>. QED
    BY <2>2, <2>3, <2>5 DEF x
<1>5. out \o <<N>> = Append(out, N) /\ out \o <<>> = out
  BY <1>1, AppendIsConcat, ConcatEmptySeq
<1>6. Closing(TRUE, n) = (<<N>> \o de) \o <<E>> /\ Closing(FALSE, n) = (<<>> \o de) \o <<E>>
  BY DEF Closing, N, D, E, de
<1>. QED
  BY <1>3, <1>4, <1>5, <1>6 DEF N, D, E, de

\* The end of the file, from wherever the scanner finds it.
LEMMA EndRun ==
    ASSUME Text, NEW R, Run(R), NEW s, NEW out, <<s, out>> \in R, s.state = "on",
           NEW t \in Stmt, NextInternal(s) = AtEOF(t), t.pending = 0, t.off = Ends, t.state = "on",
           t.stack = s.stack, ~t.eofDedentsDone, ~t.eofNewlineDone
    PROVE  EndsWith(R, out \o Closing(NewlineDue(t), Len(s.stack) - 1))
<1>1. s \in Stmt /\ out \in Seq(Tokens) /\ Stack(s.stack) /\ Len(s.stack) - 1 \in Nat
  <2>1. s \in Stmt /\ out \in Seq(Tokens) /\ Stack(s.stack)
    BY RunOn DEF On2
  <2>2. Len(s.stack) \in Nat /\ Len(s.stack) >= 1
    BY <2>1, StackIs
  <2>. QED
    BY <2>1, <2>2
<1>2. CASE NewlineDue(t)
  <2> DEFINE nl == [t EXCEPT !.eofNewlineDone = TRUE]
             v == [nl EXCEPT !.last = "NEWLINE"]
             new == Append(out, Tok("NEWLINE"))
  <2>1. AtEOF(t) = [tok |-> Tok("NEWLINE"), s |-> v]
    <3>1. AtEOF(t) = Emit2(nl, Tok("NEWLINE"))
      BY <1>2 DEF AtEOF
    <3>2. Tok("NEWLINE")[1] = "NEWLINE"
      BY DEF Tok
    <3> HIDE DEF nl
    <3>. QED
      BY <3>1, <3>2 DEF Emit2
  <2>2. /\ v \in Stmt /\ v.pending = 0 /\ v.off = Ends /\ v.state = "on" /\ v.stack = s.stack
        /\ ~v.eofDedentsDone /\ v.eofNewlineDone
    BY DEF Stmt, Kinds
  <2> HIDE DEF v
  <2>3. <<v, new>> \in R
    BY <2>1, RunOn
  <2>4. NextInternal(v) = AtEOF(v)
    BY <2>2, AtEndIs
  <2>5. EndsWith(R, Append(new \o Times(Len(v.stack) - 1, Tok("DEDENT")), Tok("END")))
    BY <2>2, <2>3, <2>4, EndDedents
  <2>6. out \o Closing(TRUE, Len(s.stack) - 1)
            = Append(new \o Times(Len(s.stack) - 1, Tok("DEDENT")), Tok("END"))
    BY <1>1, ClosingOn
  <2>7. NewlineDue(t) = TRUE
    BY <1>2 DEF NewlineDue
  <2>. QED
    BY <2>2, <2>5, <2>6, <2>7
<1>3. CASE ~NewlineDue(t)
  <2>1. EndsWith(R, Append(out \o Times(Len(s.stack) - 1, Tok("DEDENT")), Tok("END")))
    BY <1>3, EndDedents
  <2>2. out \o Closing(FALSE, Len(s.stack) - 1)
            = Append(out \o Times(Len(s.stack) - 1, Tok("DEDENT")), Tok("END"))
    BY <1>1, ClosingOn
  <2>3. NewlineDue(t) = FALSE
    BY <1>3 DEF NewlineDue
  <2>. QED
    BY <2>1, <2>2, <2>3
<1>. QED
  BY <1>2, <1>3

-----------------------------------------------------------------------------
(* A line, from either layer.                                              *)

\* The scanner is in front of a token of a line, outside of brackets.
Ready(v, k, stack) ==
    /\ v \in Stmt /\ v.state = "on" /\ v.pending = 0 /\ v.off = k /\ v.stack = stack
    /\ v.depth = 0 /\ ~v.atLineStart /\ ~v.eofNewlineDone /\ ~v.eofDedentsDone

\* With this emitted it was there, and it has gone on.
Enters(R, out, k, stack) ==
    \E v : Ready(v, k, stack) /\ <<InLine(v).s, Append(out, InLine(v).tok)>> \in R

\* The scanner has come to an error.
FailsIn(R) == \E u, out : u.state = "failed" /\ <<u, out>> \in R

\* The first token of a line goes after the INDENT or the DEDENTs.
EntersLine(R, out, k, stack, w) ==
    LET n == Closes(stack, w)
        l == Len(stack) - n
    IN  /\ w > Top(stack) => Enters(R, Append(out, Tok("INDENT")), k, Append(stack, w))
        /\ w <= Top(stack) /\ stack[l] # w => FailsIn(R)
        /\ w <= Top(stack) /\ stack[l] = w =>
              Enters(R, out \o Times(n, Tok("DEDENT")), k, SubSeq(stack, 1, l))

\* In front of a token nextInternal stays.
LEMMA ReadyOn ==
    ASSUME Text, NEW R, Run(R), NEW v, NEW out, <<v, out>> \in R, NEW k \in 1 .. Ends,
           IsContent(k), NEW stack, Ready(v, k, stack)
    PROVE  Enters(R, out, k, stack)
<1>1. v \in Stmt /\ v.off = k /\ v.depth = 0 /\ v.pending = 0 /\ ~v.atLineStart /\ v.state = "on"
  BY DEF Ready
<1>2. SkipSpace[[off |-> k, depth |-> 0]] = k
  BY SkipSpaceIs
<1> DEFINE t == [v EXCEPT !.off = SkipSpace[[off |-> @, depth |-> v.depth]]]
<1>3. t = v
  BY <1>1, <1>2 DEF Stmt
<1>4. NextInternal(v) = InLine(t)
  <2>1. At(t.off) # "n"
    BY <1>1, <1>3 DEF IsContent, Passes
  <2>. QED
    BY <1>1, <2>1 DEF NextInternal
<1>5. <<InLine(v).s, Append(out, InLine(v).tok)>> \in R
  BY <1>1, <1>3, <1>4, RunOn
<1>. QED
  BY <1>5 DEF Enters

\* From the start of a line that is not blank, by whatever levels it opens or closes.
LEMMA LineRun ==
    ASSUME Text, NEW R, Run(R), NEW s, NEW out, <<s, out>> \in R, s.state = "on", s.pending = 0,
           s.atLineStart, ~s.eofNewlineDone, ~s.eofDedentsDone,
           At(FirstContent[s.off].off) # "eof"
    PROVE  EntersLine(R, out, FirstContent[s.off].off, s.stack, FirstContent[s.off].width)
<1> DEFINE m == FirstContent[s.off]
           k == m.off
           w == m.width
           begun == [[s EXCEPT !.off = k] EXCEPT !.atLineStart = FALSE]
           n == Closes(s.stack, w)
<1> SUFFICES EntersLine(R, out, k, s.stack, w)
  OBVIOUS
<1>1. /\ s \in Stmt /\ out \in Seq(Tokens) /\ Stack(s.stack) /\ s.off \in 1 .. Ends /\ s.depth = 0
      /\ On2(s, out)
  <2>1. On2(s, out) /\ s \in Stmt /\ out \in Seq(Tokens)
    BY RunOn
  <2>2. Stack(s.stack) /\ Emitted2(s, out) /\ s.depth = 0
    BY <2>1 DEF On2, Flags2
  <2>. QED
    BY <2>1, <2>2 DEF Emitted2, Built
<1>2. m \in Leading /\ k \in 1 .. Ends /\ IsContent(k) /\ w \in Nat /\ k \in Nat
  <2>1. m \in Leading /\ m.off \in s.off .. Ends /\ IsContent(m.off)
    BY <1>1, FirstContentIs
  <2> HIDE DEF m
  <2>2. m.off \in 1 .. Ends
    BY <1>1, <2>1, AtIs
  <2>. QED
    BY <2>1, <2>2 DEF Leading
<1>3. /\ Len(s.stack) \in Nat /\ Len(s.stack) >= 1 /\ Top(s.stack) \in Nat
      /\ n \in 0 .. Len(s.stack) - 1 /\ (w < Top(s.stack) => n > 0)
  <2> HIDE DEF w
  <2>. QED
    BY <1>1, <1>2, StackIs, ClosesIs
<1>4. /\ NextInternal(s) = AtLineStart(s) /\ At(k) # "eof"
  BY <1>1 DEF NextInternal
<1>5. /\ w > Top(s.stack) =>
             AtLineStart(s) = Emit2([begun EXCEPT !.stack = Append(@, w)], Tok("INDENT"))
      /\ w = Top(s.stack) => AtLineStart(s) = InLine(begun)
      /\ w < Top(s.stack) =>
             AtLineStart(s) = IF s.stack[Len(s.stack) - n] # w THEN Fail2(begun)
                              ELSE EmitDedent(begun, n - 1)
  BY <1>2, <1>3, <1>4 DEF AtLineStart
<1>6. Ready(begun, k, s.stack)
  BY <1>1, <1>2 DEF Ready, Stmt
<1> HIDE DEF m, k, w, begun, n
<1>7. CASE w > Top(s.stack)
  <2> DEFINE st == Append(s.stack, w)
             v == [[begun EXCEPT !.stack = st] EXCEPT !.last = "INDENT"]
  <2>1. st \in Seq(Nat)
    BY <1>1, <1>2, StackIs DEF Stack
  <2>2. Ready(v, k, st)
    <3> HIDE DEF st
    <3>. QED
      BY <1>6, <2>1 DEF Ready, Stmt, Kinds
  <2>3. NextInternal(s).tok = Tok("INDENT") /\ NextInternal(s).s = v
    <3> DEFINE x == [begun EXCEPT !.stack = Append(@, w)]
    <3>1. NextInternal(s) = Emit2(x, Tok("INDENT"))
      BY <1>4, <1>5, <1>7
    <3>2. begun.stack = s.stack
      BY <1>6 DEF Ready
    <3>3. x = [begun EXCEPT !.stack = st]
      BY <3>2
    <3> HIDE DEF x, st
    <3>4. Emit2(x, Tok("INDENT")) = [tok |-> Tok("INDENT"), s |-> [x EXCEPT !.last = "INDENT"]]
      BY DEF Emit2, Tok
    <3>. QED
      BY <3>1, <3>3, <3>4
  <2> HIDE DEF v, st
  <2>4. <<v, Append(out, Tok("INDENT"))>> \in R
    BY <2>3, RunOn
  <2>5. Enters(R, Append(out, Tok("INDENT")), k, st)
    BY <1>2, <2>2, <2>4, ReadyOn
  <2>. QED
    BY <1>2, <1>3, <1>7, <2>5 DEF EntersLine, st
<1>8. CASE w = Top(s.stack)
  <2> DEFINE l == Len(s.stack)
  <2>1. n = 0
    <3>1. \A i \in 2 .. Len(s.stack) : ~(\A j \in i .. Len(s.stack) : s.stack[j] > w)
      BY <1>2, <1>3, <1>8 DEF Top
    <3>2. {i \in 2 .. Len(s.stack) : \A j \in i .. Len(s.stack) : s.stack[j] > w} = {}
      BY <3>1
    <3>. QED
      BY <3>2, FS_EmptySet DEF Closes, n
  <2>2. l - 0 = l /\ SubSeq(s.stack, 1, l) = s.stack /\ s.stack[l] = w
    <3>1. l \in Nat /\ s.stack \in Seq(Nat) /\ \A i \in 1 .. l : s.stack[i] \in Nat
      <4>1. l \in Nat /\ s.stack \in Seq(Nat)
        BY <1>1, <1>3 DEF Stack
      <4>. QED
        BY <4>1
    <3> DEFINE a == SubSeq(s.stack, 1, l)
    <3>2. a \in Seq(Nat) /\ Len(a) = l /\ \A i \in 1 .. l : a[i] = s.stack[i]
      BY <3>1, SubSeqProperties
    <3> HIDE DEF a
    <3>3. a = s.stack
      BY <3>1, <3>2, SeqEqual
    <3>. QED
      BY <1>8, <3>1, <3>3 DEF a, Top
  <2>3. out \o Times(0, Tok("DEDENT")) = out
    <3>1. Tok("DEDENT") \in Tokens
      BY DEF Tokens, Structure
    <3>. QED
      BY <1>1, <3>1, TimesMore
  <2>4. <<InLine(begun).s, Append(out, InLine(begun).tok)>> \in R
    BY <1>4, <1>5, <1>8, RunOn
  <2>5. Enters(R, out, k, s.stack)
    BY <1>6, <2>4 DEF Enters
  <2>6. /\ ~(w > Top(s.stack)) /\ s.stack[Len(s.stack) - n] = w
        /\ Enters(R, out \o Times(n, Tok("DEDENT")), k, SubSeq(s.stack, 1, Len(s.stack) - n))
    <3>1. ~(w > Top(s.stack)) /\ s.stack[Len(s.stack) - n] = w
      BY <1>2, <1>3, <1>8, <2>1, <2>2
    <3>2. out \o Times(n, Tok("DEDENT")) = out
      BY <2>1, <2>3
    <3>3. SubSeq(s.stack, 1, Len(s.stack) - n) = s.stack
      BY <2>1, <2>2
    <3>. QED
      BY <2>5, <3>1, <3>2, <3>3
  <2>. QED
    BY <2>6 DEF EntersLine, n
<1>9. CASE w < Top(s.stack) /\ s.stack[Len(s.stack) - n] # w
  <2>1. NextInternal(s) = Fail2(begun)
    BY <1>4, <1>5, <1>9
  <2>2. NextInternal(s).s.state = "failed"
    BY <1>6, <2>1 DEF Fail2, Ready, Stmt
  <2>3. FailsIn(R)
    BY <2>2, RunOn DEF FailsIn
  <2>. QED
    BY <1>2, <1>3, <1>9, <2>3 DEF EntersLine, n
<1>10. CASE w < Top(s.stack) /\ s.stack[Len(s.stack) - n] = w
  <2> DEFINE D == Tok("DEDENT")
             j == n - 1
             v == EmitDedent(begun, j).s
             new == Append(out, D)
             kept == SubSeq(s.stack, 1, Len(s.stack) - n)
  <2>1. j \in Nat /\ j + 1 = n /\ D \in Tokens
    <3>1. D \in Tokens
      BY DEF Tokens, Structure
    <3>. QED
      BY <1>3, <1>10, <3>1
  <2>2. NextInternal(s) = EmitDedent(begun, j) /\ EmitDedent(begun, j).tok = D
    BY <1>4, <1>5, <1>10 DEF EmitDedent, Emit2, Tok
  <2>3. <<v, new>> \in R
    BY <2>2, RunOn
  <2> HIDE DEF j, D
  <2>4. /\ v.state = "on" /\ v.pending = j /\ v.off = k /\ v.stack = Pop(s.stack) /\ v.depth = 0
        /\ ~v.atLineStart /\ ~v.eofNewlineDone /\ ~v.eofDedentsDone
    BY <1>6 DEF EmitDedent, Emit2, Tok, Stmt, Ready
  <2> HIDE DEF v, new
  <2>5. PICK u : Paid(v, u, j) /\ <<u, new \o Times(j, D)>> \in R
    BY <2>1, <2>3, <2>4, OwedRun DEF D
  <2>6. new \o Times(j, D) = out \o Times(n, D)
    <3>1. Append(out, D) \o Times(j, D) = out \o Times(j + 1, D)
      BY <1>1, <2>1, TimesMore
    <3>. QED
      BY <2>1, <3>1 DEF new
  <2>7. SubSeq(Pop(s.stack), 1, Len(Pop(s.stack)) - j) = kept
    <3>1. n \in 1 .. Len(s.stack) /\ s.stack \in Seq(Nat)
      BY <1>1, <1>3, <2>1 DEF Stack
    <3>. QED
      BY <2>1, <3>1, PopMore
  <2>8. Ready(u, k, kept)
    BY <2>4, <2>5, <2>7 DEF Paid, Ready
  <2> HIDE DEF kept
  <2>9. Enters(R, out \o Times(n, D), k, kept)
    BY <1>2, <2>5, <2>6, <2>8, ReadyOn
  <2>. QED
    BY <1>2, <1>3, <1>10, <2>9 DEF EntersLine, D, kept, n
<1>. QED
  BY <1>2, <1>3, <1>7, <1>8, <1>9, <1>10

(***************************************************************************)
(* The scanner and the wrapper are in the same place of the file, behind   *)
(* the same line start or in the same line, with blocks and brackets that  *)
(* stand for each other.  The wrapper's queue may hold what it likes.      *)
(***************************************************************************)
Alike(s, t) ==
    /\ s.state = "on" /\ s.pending = 0 /\ ~s.eofNewlineDone /\ ~s.eofDedentsDone
    /\ s.off = t.scan.pos /\ s.depth = t.bracket /\ s.atLineStart = t.lineStart
    /\ Paired(s.stack, t.indents)
    /\ t.lineStart => t.scan = Fresh(s.off, 0) /\ Begins(s.off)
    /\ ~t.lineStart => NewlineDue(s)

\* With q emitted the scanner was where the wrapper is, or had ended.
Matched(R, t, q) == \E u : <<u, q>> \in R /\ (u.state = "ended" \/ Alike(u, t))

\* What a call of the wrapper leaves is what the scanner comes by.
Follows(R, r, out) ==
    \/ r.tok = Tok("error") /\ r.t.state = "failed" /\ FailsIn(R)
    \/ /\ r.tok \in Tokens /\ r.t.state = "on" /\ r.t.pending \in Seq(Tokens)
       /\ Matched(R, r.t, Append(out, r.tok) \o r.t.pending)

\* The wrapper emits the first of several tokens.
LEMMA DequeueFollows ==
    ASSUME NEW R, NEW out \in Seq(Tokens), NEW toks \in Seq(Tokens), toks # <<>>,
           NEW t \in Indenter, t.state = "on", Matched(R, t, out \o toks)
    PROVE  Follows(R, Dequeue(t, toks), out)
<1> DEFINE r == Dequeue(t, toks)
           tok == Head(toks)
           rest == Tail(toks)
<1>1. /\ tok \in Tokens /\ rest \in Seq(Tokens) /\ Append(out, tok) \o rest = out \o toks
  BY HeadMoves DEF Splits
<1>2. r.tok = tok /\ r.t = [t EXCEPT !.pending = rest]
  BY DEF Dequeue
<1> HIDE DEF r, tok, rest
<1>3. /\ r.t.pending = rest /\ r.t.state = "on" /\ r.t.scan = t.scan /\ r.t.bracket = t.bracket
      /\ r.t.lineStart = t.lineStart /\ r.t.indents = t.indents
  BY <1>2 DEF Indenter
<1>4. \A u : Alike(u, t) => Alike(u, r.t)
  BY <1>3 DEF Alike
<1>5. Matched(R, r.t, out \o toks)
  BY <1>4 DEF Matched
<1>. QED
  BY <1>1, <1>2, <1>3, <1>5 DEF Follows, r

\* The scanner emits a token of a line.
LEMMA TokenFollows ==
    ASSUME NEW R, NEW out, NEW v \in Stmt, v.state = "on", v.pending = 0,
           ~v.atLineStart, ~v.eofNewlineDone, ~v.eofDedentsDone,
           At(v.off) \in {"x", "(", ")"},
           <<InLine(v).s, Append(out, InLine(v).tok)>> \in R,
           NEW t \in Indenter, ~t.lineStart, t.scan.pos = v.off + 1,
           t.bracket = Depth(v.depth, At(v.off)), Paired(v.stack, t.indents)
    PROVE  Matched(R, t, Append(out, <<At(v.off), v.off>>))
<1> DEFINE k == v.off
           c == At(k)
           d == Depth(v.depth, c)
           e == [v EXCEPT !.off = k + 1, !.depth = d]
           u == [e EXCEPT !.last = c]
<1>1. InLine(v) = Emit2([v EXCEPT !.off = @ + 1, !.depth = Depth(@, At(v.off))], <<c, k>>)
  BY DEF InLine
<1>2. [v EXCEPT !.off = @ + 1, !.depth = Depth(@, At(v.off))] = e
  BY DEF Stmt
<1> HIDE DEF e
<1>3. InLine(v).tok = <<c, k>> /\ InLine(v).s = u
  BY <1>1, <1>2 DEF Emit2
<1>4. <<u, Append(out, <<c, k>>)>> \in R
  BY <1>3
<1>5. /\ u.state = "on" /\ u.pending = 0 /\ ~u.eofNewlineDone /\ ~u.eofDedentsDone
      /\ u.off = k + 1 /\ u.depth = d /\ ~u.atLineStart /\ u.stack = v.stack /\ u.last = c
  <2> HIDE DEF d, c
  <2>. QED
    BY DEF e, Stmt
<1> HIDE DEF u
<1>6. NewlineDue(u)
  BY <1>5 DEF NewlineDue
<1>7. u.atLineStart = t.lineStart
  <2>1. u.atLineStart \in BOOLEAN /\ t.lineStart \in BOOLEAN
    BY DEF u, e, Stmt, Indenter
  <2>. QED
    BY <1>5, <2>1
<1>8. Alike(u, t)
  BY <1>5, <1>6, <1>7 DEF Alike
<1>. QED
  BY <1>4, <1>8 DEF Matched

\* At an error the scanner fails.
LEMMA ErrorFollows ==
    ASSUME NEW R, NEW out, NEW v \in Stmt, At(v.off) = "b",
           <<InLine(v).s, Append(out, InLine(v).tok)>> \in R
    PROVE  FailsIn(R)
<1>1. InLine(v) = Fail2(v)
  BY DEF InLine
<1>2. InLine(v).s.state = "failed"
  BY <1>1 DEF Fail2, Stmt
<1>. QED
  BY <1>2 DEF FailsIn

\* The first token of a line, for both.
LEMMA FirstAgrees ==
    ASSUME Text, TabConsistent, NEW R, NEW out \in Seq(Tokens), NEW k \in 1 .. Ends,
           At(k) \in {"x", "(", ")"}, NEW t \in Indenter, t.state = "on", ~t.lineStart,
           t.scan.pos = k + 1, t.bracket = Depth(0, At(k)),
           NEW stack, Paired(stack, t.indents), NEW w, NEW c, Level(w, c),
           EntersLine(R, out, k, stack, w)
    PROVE  Follows(R, FirstOfLine(t, c, <<At(k), k>>), out)
<1> DEFINE tok == <<At(k), k>>
           n == Closes(stack, w)
           l == Len(stack) - n
<1>1. /\ tok \in Tokens /\ w \in Nat /\ c \in Nat /\ Stack(stack) /\ Stack(t.indents)
      /\ Len(t.indents) = Len(stack)
  <2>1. tok \in Tokens
    BY DEF Tokens, Chars
  <2>2. k \in Nat
    BY AtIs
  <2>. QED
    BY <2>1, LevelIs DEF Paired
<1>2. /\ Len(stack) \in Nat /\ Len(stack) >= 1 /\ Top(stack) \in Nat /\ Top(t.indents) \in Nat
      /\ n \in 0 .. Len(stack) - 1 /\ l \in 1 .. Len(stack) /\ Closes(t.indents, c) = n
      /\ stack \in Seq(Nat) /\ t.indents \in Seq(Nat)
  <2>1. /\ Len(stack) \in Nat /\ Len(stack) >= 1 /\ Top(stack) \in Nat /\ Top(t.indents) \in Nat
        /\ n \in 0 .. Len(stack) - 1 /\ Closes(t.indents, c) = n
    BY <1>1, StackIs, ClosesIs, ClosesAgree
  <2> HIDE DEF n
  <2>2. l \in 1 .. Len(stack)
    BY <2>1
  <2>. QED
    BY <1>1, <2>1, <2>2 DEF Stack
<1> HIDE DEF n, l
<1>3. /\ w > Top(stack) <=> c > Top(t.indents)
      /\ stack[l] = w <=> t.indents[l] = c
  <2>1. Level(Top(stack), Top(t.indents)) /\ Level(stack[l], t.indents[l])
    BY <1>2, PairedIs DEF Paired
  <2>2. Top(stack) < w <=> Top(t.indents) < c
    BY <2>1, LevelsAgree
  <2>3. stack[l] = w <=> t.indents[l] = c
    BY <2>1, LevelsAgree
  <2>. QED
    BY <1>1, <1>2, <2>2, <2>3
\* Whatever is put before the token.
<1>4. ASSUME NEW u \in Indenter, u.state = "on", u.scan = t.scan, u.bracket = t.bracket,
             ~u.lineStart, NEW front \in Seq(Tokens), NEW st, Paired(st, u.indents),
             Enters(R, out \o front, k, st)
      PROVE  Follows(R, Dequeue(u, front \o <<tok>>), out)
  <2> DEFINE e == <<tok>>
             q == out \o front
             toks == front \o e
  <2>1. e \in Seq(Tokens) /\ e # <<>>
    BY <1>1
  <2>2. PICK v : Ready(v, k, st) /\ <<InLine(v).s, Append(q, InLine(v).tok)>> \in R
    BY <1>4 DEF Enters
  <2>3. Matched(R, u, Append(q, tok))
    <3> HIDE DEF q
    <3>1. /\ v \in Stmt /\ v.state = "on" /\ v.pending = 0 /\ ~v.atLineStart
          /\ ~v.eofNewlineDone /\ ~v.eofDedentsDone /\ v.off = k /\ v.stack = st /\ v.depth = 0
      BY <2>2 DEF Ready
    <3>2. /\ At(v.off) \in {"x", "(", ")"} /\ u.scan.pos = v.off + 1
          /\ u.bracket = Depth(v.depth, At(v.off)) /\ Paired(v.stack, u.indents)
      BY <1>4, <3>1
    <3>3. Matched(R, u, Append(q, <<At(v.off), v.off>>))
      BY <1>4, <2>2, <3>1, <3>2, TokenFollows
    <3>. QED
      BY <3>1, <3>3
  <2>4. out \o toks = Append(q, tok) /\ toks \in Seq(Tokens) /\ toks # <<>>
    <3>1. Append(q, tok) = q \o e
      <4>1. q \in Seq(Tokens)
        BY <1>4
      <4> HIDE DEF q
      <4>. QED
        BY <1>1, <4>1, AppendIsConcat
    <3> HIDE DEF e
    <3>2. out \o (front \o e) = (out \o front) \o e
          /\ front \o e \in Seq(Tokens) /\ front \o e # <<>>
      BY <1>4, <2>1, ConcatThree
    <3> HIDE DEF tok
    <3>. QED
      BY <3>1, <3>2
  <2> HIDE DEF toks, q, tok
  <2>5. Follows(R, Dequeue(u, toks), out)
    BY <1>4, <2>3, <2>4, DequeueFollows
  <2>. QED
    BY <2>5 DEF toks
<1> DEFINE kept == SubSeq(t.indents, 1, Len(t.indents) - n)
<1>5. Len(t.indents) - n = l
  BY <1>1 DEF l
<1>6. /\ Paired(SubSeq(stack, 1, l), kept) /\ Top(kept) = t.indents[l]
  <2>1. kept = SubSeq(t.indents, 1, l)
    BY <1>5
  <2>2. /\ Paired(SubSeq(stack, 1, l), SubSeq(t.indents, 1, l))
        /\ Top(SubSeq(t.indents, 1, l)) = t.indents[l]
    BY <1>2, PairedIs
  <2>. QED
    BY <2>1, <2>2
<1>7. /\ c > Top(t.indents) => FirstOfLine(t, c, tok) =
             Dequeue([t EXCEPT !.indents = Append(@, c)], <<Tok("INDENT"), tok>>)
      /\ c <= Top(t.indents) /\ Top(kept) # c => FirstOfLine(t, c, tok) = Fail1(t)
      /\ c <= Top(t.indents) /\ Top(kept) = c => FirstOfLine(t, c, tok) =
             Dequeue([t EXCEPT !.indents = kept], Times(n, Tok("DEDENT")) \o <<tok>>)
  <2> HIDE DEF tok
  <2>. QED
    BY <1>1, <1>2 DEF FirstOfLine
<1> HIDE DEF tok, kept
<1>8. CASE w > Top(stack)
  <2> DEFINE u == [t EXCEPT !.indents = Append(@, c)]
             front == <<Tok("INDENT")>>
             up == Append(t.indents, c)
  <2>1. FirstOfLine(t, c, tok) = Dequeue(u, front \o <<tok>>)
    <3>1. <<Tok("INDENT"), tok>> = front \o <<tok>>
      BY <1>1
    <3>. QED
      BY <1>3, <1>7, <1>8, <3>1
  <2>2. Paired(Append(stack, w), up) /\ up \in Seq(Nat)
    BY <1>1, <1>2, PairedIs
  <2>3. /\ u \in Indenter /\ u.state = "on" /\ u.scan = t.scan /\ u.bracket = t.bracket
        /\ ~u.lineStart /\ u.indents = up
    <3>1. u = [t EXCEPT !.indents = up]
      BY DEF Indenter
    <3> HIDE DEF up
    <3>. QED
      BY <2>2, <3>1 DEF Indenter
  <2>4. front \in Seq(Tokens) /\ out \o front = Append(out, Tok("INDENT"))
    <3>1. Tok("INDENT") \in Tokens
      BY DEF Tokens, Structure
    <3>. QED
      BY <3>1, AppendIsConcat
  <2>5. Enters(R, out \o front, k, Append(stack, w))
    BY <1>8, <2>4 DEF EntersLine
  <2> HIDE DEF u, front, up
  <2>6. Follows(R, Dequeue(u, front \o <<tok>>), out)
    BY <1>4, <2>2, <2>3, <2>4, <2>5
  <2>. QED
    BY <2>1, <2>6 DEF tok
<1>9. CASE w <= Top(stack) /\ stack[l] # w
  <2>1. FirstOfLine(t, c, tok) = Fail1(t)
    BY <1>1, <1>2, <1>3, <1>6, <1>7, <1>9
  <2>2. FailsIn(R)
    BY <1>9 DEF EntersLine, l, n
  <2>3. Fail1(t).tok = Tok("error") /\ Fail1(t).t.state = "failed"
    BY DEF Fail1, Indenter
  <2>. QED
    BY <2>1, <2>2, <2>3 DEF Follows, tok
<1>10. CASE w <= Top(stack) /\ stack[l] = w
  <2> DEFINE u == [t EXCEPT !.indents = kept]
             front == Times(n, Tok("DEDENT"))
  <2>1. FirstOfLine(t, c, tok) = Dequeue(u, front \o <<tok>>)
    BY <1>1, <1>2, <1>3, <1>6, <1>7, <1>10
  <2>2. /\ u \in Indenter /\ u.state = "on" /\ u.scan = t.scan /\ u.bracket = t.bracket
        /\ ~u.lineStart /\ u.indents = kept
    <3>1. kept \in Seq(Nat)
      BY <1>6 DEF Paired, Stack
    <3>. QED
      BY <3>1 DEF Indenter
  <2>3. front \in Seq(Tokens)
    <3>1. Tok("DEDENT") \in Tokens
      BY DEF Tokens, Structure
    <3>. QED
      BY <1>2, <3>1, TimesMore
  <2>4. Enters(R, out \o front, k, SubSeq(stack, 1, l))
    BY <1>10 DEF EntersLine, l, n
  <2> HIDE DEF u, front
  <2>5. Follows(R, Dequeue(u, front \o <<tok>>), out)
    BY <1>4, <1>6, <2>2, <2>3, <2>4
  <2>. QED
    BY <2>1, <2>5 DEF tok
<1>. QED
  BY <1>1, <1>2, <1>8, <1>9, <1>10

\* The end of the file, for both.
LEMMA EndAgrees ==
    ASSUME NEW R, NEW out \in Seq(Tokens), NEW t \in Indenter, t.state = "on",
           Len(t.indents) - 1 \in Nat,
           EndsWith(R, out \o Closing(~t.lineStart, Len(t.indents) - 1))
    PROVE  Follows(R, FlushAtEnd(t), out)
<1> DEFINE n == Len(t.indents) - 1
           toks == Closing(~t.lineStart, n)
           u == [t EXCEPT !.lineStart = TRUE, !.indents = <<0>>]
<1>1. toks \in Seq(Tokens) /\ toks # <<>>
  <2>1. (~t.lineStart) \in BOOLEAN
    OBVIOUS
  <2> HIDE DEF n
  <2>. QED
    BY <2>1, ClosingOn DEF n
<1>2. FlushAtEnd(t) = Dequeue(u, toks)
  BY DEF FlushAtEnd, FinalNewline, Closing
<1>3. u \in Indenter /\ u.state = "on"
  <2>1. <<0>> \in Seq(Nat)
    OBVIOUS
  <2>. QED
    BY <2>1 DEF Indenter
<1> HIDE DEF toks, u
<1>4. Matched(R, u, out \o toks)
  BY DEF EndsWith, Matched, toks
<1>5. Follows(R, Dequeue(u, toks), out)
  BY <1>1, <1>3, <1>4, DequeueFollows
<1>. QED
  BY <1>2, <1>5

\* What is read of the wrapper at a logical token.
Comes(t, p, u) ==
    /\ p = Physical[[scan |-> t.scan, ignores |-> t.bracket > 0 \/ t.lineStart]]
    /\ u = [t EXCEPT !.scan = p.scan, !.bracket = Depth(t.bracket, p.kind)]
    /\ p.at \in 1 .. Ends /\ p.kind = At(p.at) /\ p.kind \in {"eof", "n", "b", "x", "(", ")"}
    /\ p.kind = "n" => /\ t.bracket = 0 /\ ~t.lineStart
                       /\ p.scan = Fresh(p.at + 1, 0) /\ Begins(p.at + 1)
    /\ p.kind \in {"x", "(", ")"} => p.scan.pos = p.at + 1
    /\ u \in Indenter /\ u.state = "on" /\ u.indents = t.indents /\ u.lineStart = t.lineStart
    /\ u.pending = <<>> /\ u.scan = p.scan /\ u.bracket = Depth(t.bracket, p.kind)
    /\ Logical(t) =
          CASE p.kind = "b" -> Fail1(u)
            [] p.kind = "eof" -> FlushAtEnd(u)
            [] p.kind = "n" -> [tok |-> Tok("NEWLINE"), t |-> [u EXCEPT !.lineStart = TRUE]]
            [] p.kind \in {"x", "(", ")"} ->
                  IF t.lineStart /\ t.bracket = 0
                  THEN FirstOfLine([u EXCEPT !.lineStart = FALSE], p.col, <<p.kind, p.at>>)
                  ELSE [tok |-> <<p.kind, p.at>>, t |-> [u EXCEPT !.lineStart = FALSE]]

\* The wrapper reads on.
LEMMA LogicalComes ==
    ASSUME Text, NEW t, NEW out, Inv1(t, out), t.state = "on", t.pending = <<>>
    PROVE  \E p, u : Comes(t, p, u)
<1> DEFINE p == Physical[[scan |-> t.scan, ignores |-> t.bracket > 0 \/ t.lineStart]]
           u == [t EXCEPT !.scan = p.scan, !.bracket = Depth(t.bracket, p.kind)]
<1>1. /\ t \in Indenter /\ t.scan \in Scanner /\ t.scan.pos \in 1 .. Ends /\ t.bracket \in Nat
      /\ t.lineStart \in BOOLEAN
  BY DEF Inv1, Indenter
<1>2. /\ Found(t.scan.pos, p)
      /\ p.kind # "h" /\ ~(p.kind = "n" /\ (t.bracket > 0 \/ t.lineStart))
  <2>1. (t.bracket > 0 \/ t.lineStart) \in BOOLEAN
    OBVIOUS
  <2>. QED
    BY <1>1, <2>1, PhysicalIs
<1>3. u = [t EXCEPT !.scan = p.scan, !.bracket = Depth(@, p.kind)]
  BY <1>1 DEF Indenter
<1>4. Logical(t) =
          CASE p.kind = "b" -> Fail1(u)
            [] p.kind = "eof" -> FlushAtEnd(u)
            [] p.kind = "n" -> [tok |-> Tok("NEWLINE"), t |-> [u EXCEPT !.lineStart = TRUE]]
            [] p.kind \in {"x", "(", ")"} ->
                  IF t.lineStart /\ t.bracket = 0
                  THEN FirstOfLine([u EXCEPT !.lineStart = FALSE], p.col, <<p.kind, p.at>>)
                  ELSE [tok |-> <<p.kind, p.at>>, t |-> [u EXCEPT !.lineStart = FALSE]]
  <2> DEFINE x == [t EXCEPT !.scan = p.scan, !.bracket = Depth(@, p.kind)]
  <2>1. Logical(t) =
          CASE p.kind = "b" -> Fail1(x)
            [] p.kind = "eof" -> FlushAtEnd(x)
            [] p.kind = "n" -> [tok |-> Tok("NEWLINE"), t |-> [x EXCEPT !.lineStart = TRUE]]
            [] p.kind \in {"x", "(", ")"} ->
                  IF t.lineStart /\ t.bracket = 0
                  THEN FirstOfLine([x EXCEPT !.lineStart = FALSE], p.col, <<p.kind, p.at>>)
                  ELSE [tok |-> <<p.kind, p.at>>, t |-> [x EXCEPT !.lineStart = FALSE]]
    BY DEF Logical
  <2>2. x = u
    BY <1>3
  <2> HIDE DEF x, u, p
  <2>. QED
    BY <2>1, <2>2
<1> HIDE DEF p
<1>5. /\ p.at \in 1 .. Ends /\ p.kind = At(p.at) /\ p.kind \in {"eof", "n", "b", "x", "(", ")"}
      /\ p.kind \in {"x", "(", ")"} => p.scan.pos = p.at + 1
  BY <1>2 DEF Found
<1>6. p.kind = "n" => /\ t.bracket = 0 /\ ~t.lineStart
                      /\ p.scan = Fresh(p.at + 1, 0) /\ Begins(p.at + 1)
  <2>1. ASSUME p.kind = "n" PROVE p.scan = Fresh(p.at + 1, 0) /\ Begins(p.at + 1)
    <3>1. Past(p.at) = p.at + 1 /\ Begins(p.at + 1)
      BY <1>5, <2>1, NextLine
    <3>. QED
      BY <1>2, <2>1, <3>1 DEF Found, Fresh
  <2>. QED
    BY <1>1, <1>2, <2>1
<1>7. p.scan \in Scanner /\ Depth(t.bracket, p.kind) \in Nat
  BY <1>1, <1>2, DepthIs DEF Found
<1>8. /\ u \in Indenter /\ u.state = "on" /\ u.indents = t.indents /\ u.lineStart = t.lineStart
      /\ u.pending = <<>> /\ u.scan = p.scan /\ u.bracket = Depth(t.bracket, p.kind)
  BY <1>1, <1>7 DEF Indenter
<1>9. u = [t EXCEPT !.scan = p.scan, !.bracket = Depth(t.bracket, p.kind)]
  OBVIOUS
<1>10. p = Physical[[scan |-> t.scan, ignores |-> t.bracket > 0 \/ t.lineStart]]
  BY DEF p
<1> HIDE DEF u
<1>11. Comes(t, p, u)
  BY <1>4, <1>5, <1>6, <1>7, <1>8, <1>9, <1>10 DEF Comes
<1>. QED
  BY <1>11

\* A call at the start of a line.
LEMMA LineAgrees ==
    ASSUME Text, TabConsistent, NEW R, Run(R), NEW s, NEW out, <<s, out>> \in R,
           NEW t, Alike(s, t), Inv1(t, out), t.state = "on", t.pending = <<>>, t.lineStart
    PROVE  Follows(R, Logical(t), out)
<1>1. PICK p, u : Comes(t, p, u)
  BY LogicalComes
<1>2. /\ s.state = "on" /\ s.pending = 0 /\ s.atLineStart /\ s.depth = 0 /\ t.bracket = 0
      /\ ~s.eofNewlineDone /\ ~s.eofDedentsDone /\ s \in Stmt /\ out \in Seq(Tokens)
      /\ s.off \in 1 .. Ends /\ Begins(s.off) /\ t.scan = Fresh(s.off, 0)
      /\ Paired(s.stack, t.indents) /\ s.last \in {"none", "NEWLINE"}
  <2>1. On2(s, out) /\ s \in Stmt /\ out \in Seq(Tokens)
    BY RunOn DEF Alike
  <2>2. Flags2(s) /\ Emitted2(s, out)
    BY <2>1 DEF On2
  <2>3. s.off \in 1 .. Ends
    BY <2>2 DEF Emitted2, Built
  <2>4. s.atLineStart /\ ~s.eofDedentsDone
    BY DEF Alike
  <2>5. s.depth = 0 /\ s.last \in {"none", "NEWLINE"}
    BY <2>2, <2>4 DEF Flags2
  <2>. QED
    BY <2>1, <2>3, <2>4, <2>5 DEF Alike
<1> DEFINE m == FirstContent[s.off]
           k == m.off
           w == m.width
<1>3. p.at = k /\ (At(k) # "eof" => Level(w, p.col)) /\ p.kind = At(k) /\ p.kind # "n"
  <2>1. (t.bracket > 0 \/ t.lineStart) = TRUE
    OBVIOUS
  <2>2. p = Physical[[scan |-> Fresh(s.off, 0), ignores |-> TRUE]]
    BY <1>1, <1>2, <2>1 DEF Comes
  <2>3. SameContentFrom(s.off)
    BY <1>2, LinesAgree
  <2>4. p.at = k /\ (At(k) # "eof" => Level(w, p.col))
    BY <2>2, <2>3 DEF SameContentFrom
  <2>. QED
    BY <1>1, <2>4 DEF Comes
<1>4. m \in Leading /\ k \in Nat /\ k \in 1 .. Ends
  <2>1. m \in Leading /\ p.at \in 1 .. Ends
    BY <1>1, <1>2, FirstContentIs DEF Comes
  <2>. QED
    BY <1>3, <2>1 DEF Leading
<1>5. At(k) # "eof" => EntersLine(R, out, k, s.stack, w)
  BY <1>2, LineRun
<1>6. CASE p.kind = "eof"
  <2> DEFINE v == [s EXCEPT !.off = k]
  <2>1. NextInternal(s) = AtEOF(v)
    <3>1. NextInternal(s) = AtLineStart(s)
      BY <1>2 DEF NextInternal
    <3>2. AtLineStart(s) = InLine(v)
      BY <1>3, <1>6 DEF AtLineStart
    <3>3. v.off = k
      BY <1>2 DEF Stmt
    <3> HIDE DEF v, k
    <3>4. InLine(v) = AtEOF(v)
      BY <1>3, <1>6, <3>3 DEF InLine
    <3>. QED
      BY <3>1, <3>2, <3>4
  <2>2. k = Ends
    BY <1>3, <1>4, <1>6, AtIs
  <2> HIDE DEF k
  <2>3. /\ v \in Stmt /\ v.off = Ends /\ v.pending = 0 /\ v.state = "on" /\ v.stack = s.stack
        /\ ~v.eofNewlineDone /\ ~v.eofDedentsDone /\ v.last = s.last
    BY <1>2, <1>4, <2>2 DEF Stmt
  <2> HIDE DEF v
  <2>4. EndsWith(R, out \o Closing(NewlineDue(v), Len(s.stack) - 1))
    BY <1>2, <2>1, <2>3, EndRun
  <2>5. /\ u \in Indenter /\ u.state = "on" /\ u.lineStart = TRUE /\ u.indents = t.indents
        /\ Logical(t) = FlushAtEnd(u)
    BY <1>1, <1>6 DEF Comes, Indenter
  <2>6. /\ NewlineDue(v) = (~u.lineStart)
    BY <1>2, <2>3, <2>5 DEF NewlineDue
  <2>7. Len(s.stack) = Len(u.indents) /\ Len(u.indents) - 1 \in Nat
    BY <1>2, <2>5, StackIs DEF Paired
  <2>8. Follows(R, FlushAtEnd(u), out)
    BY <1>2, <2>4, <2>5, <2>6, <2>7, EndAgrees
  <2>. QED
    BY <2>5, <2>8
<1>7. CASE p.kind = "b"
  <2>1. \A q, stack : Enters(R, q, k, stack) => FailsIn(R)
    <3>1. ASSUME NEW q, NEW stack, Enters(R, q, k, stack) PROVE FailsIn(R)
      <4>1. PICK v : Ready(v, k, stack) /\ <<InLine(v).s, Append(q, InLine(v).tok)>> \in R
        BY <3>1 DEF Enters
      <4>2. v \in Stmt /\ At(v.off) = "b"
        BY <1>3, <1>7, <4>1 DEF Ready
      <4>. QED
        BY <4>1, <4>2, ErrorFollows
    <3>. QED
      BY <3>1
  <2>2. w \in Nat /\ Top(s.stack) \in Nat
    BY <1>2, <1>4, StackIs DEF Paired, Leading
  <2>3. EntersLine(R, out, k, s.stack, w)
    BY <1>3, <1>5, <1>7
  <2> HIDE DEF k, w
  <2>4. FailsIn(R)
    BY <2>1, <2>2, <2>3 DEF EntersLine
  <2>5. Logical(t) = Fail1(u) /\ u \in Indenter
    BY <1>1, <1>7 DEF Comes
  <2>6. Fail1(u).tok = Tok("error") /\ Fail1(u).t.state = "failed"
    BY <2>5 DEF Fail1, Indenter
  <2>. QED
    BY <2>4, <2>5, <2>6 DEF Follows
<1>8. CASE p.kind \in {"x", "(", ")"}
  <2> DEFINE begun == [u EXCEPT !.lineStart = FALSE]
             c == p.col
  <2>1. Logical(t) = FirstOfLine(begun, c, <<p.kind, p.at>>)
    BY <1>1, <1>2, <1>8 DEF Comes
  <2>2. /\ begun \in Indenter /\ begun.state = "on" /\ ~begun.lineStart
        /\ begun.scan.pos = k + 1 /\ begun.bracket = Depth(0, At(k)) /\ begun.indents = t.indents
    <3>1. /\ u \in Indenter /\ u.state = "on" /\ u.scan.pos = k + 1 /\ u.bracket = Depth(0, At(k))
          /\ u.indents = t.indents
      BY <1>1, <1>2, <1>3, <1>8 DEF Comes
    <3> HIDE DEF k
    <3>. QED
      BY <3>1 DEF Indenter
  <2>3. At(k) \in {"x", "(", ")"} /\ Level(w, c) /\ EntersLine(R, out, k, s.stack, w)
    BY <1>3, <1>5, <1>8
  <2> HIDE DEF begun, k, w, c
  <2>4. Follows(R, FirstOfLine(begun, c, <<At(k), k>>), out)
    BY <1>2, <1>4, <2>2, <2>3, FirstAgrees
  <2>. QED
    BY <1>3, <2>1, <2>4
<1>. QED
  BY <1>1, <1>3, <1>6, <1>7, <1>8 DEF Comes

\* A call in a line.
LEMMA InLineAgrees ==
    ASSUME Text, NEW R, Run(R), NEW s, NEW out, <<s, out>> \in R,
           NEW t, Alike(s, t), Inv1(t, out), t.state = "on", t.pending = <<>>, ~t.lineStart
    PROVE  Follows(R, Logical(t), out)
<1>1. PICK p, u : Comes(t, p, u)
  BY LogicalComes
<1>2. /\ s.state = "on" /\ s.pending = 0 /\ s.atLineStart = FALSE /\ s.depth = t.bracket
      /\ ~s.eofNewlineDone /\ ~s.eofDedentsDone /\ s \in Stmt /\ out \in Seq(Tokens)
      /\ s.off \in 1 .. Ends /\ s.off = t.scan.pos /\ t.scan \in Scanner /\ s.depth \in Nat
      /\ Paired(s.stack, t.indents) /\ NewlineDue(s)
  <2>1. On2(s, out) /\ s \in Stmt /\ out \in Seq(Tokens)
    BY RunOn DEF Alike
  <2>2. Emitted2(s, out)
    BY <2>1 DEF On2
  <2>3. s.off \in 1 .. Ends
    BY <2>2 DEF Emitted2, Built
  <2>4. t.lineStart \in BOOLEAN /\ t.scan \in Scanner /\ s.depth \in Nat
    BY <2>1 DEF Inv1, Indenter, Stmt
  <2>5. s.atLineStart = t.lineStart
    BY DEF Alike
  <2>. QED
    BY <2>1, <2>3, <2>4, <2>5 DEF Alike
<1> DEFINE k == SkipSpace[[off |-> s.off, depth |-> s.depth]]
           v == [s EXCEPT !.off = k]
<1>3. p.at = k /\ p.kind = At(k)
  <2>1. (t.bracket > 0 \/ t.lineStart) = (s.depth > 0)
    BY <1>2
  <2>2. p = Physical[[scan |-> t.scan, ignores |-> s.depth > 0]]
    BY <1>1, <2>1 DEF Comes
  <2>3. SamePlace(t.scan, s.depth)
    BY <1>2, PlacesAgree
  <2>4. p.at = k
    BY <1>2, <2>2, <2>3 DEF SamePlace
  <2>. QED
    BY <1>1, <2>4 DEF Comes
<1>4. k \in 1 .. Ends /\ k \in Nat
  <2>1. p.at \in 1 .. Ends
    BY <1>1 DEF Comes
  <2> HIDE DEF k
  <2>. QED
    BY <1>3, <2>1
<1>5. v = [s EXCEPT !.off = SkipSpace[[off |-> @, depth |-> s.depth]]]
  BY <1>2 DEF Stmt
<1>6. /\ At(k) = "n" => NextInternal(s) =
             Emit2([v EXCEPT !.off = @ + 1, !.atLineStart = TRUE], Tok("NEWLINE"))
      /\ At(k) # "n" => NextInternal(s) = InLine(v)
  <2>1. v.off = k
    BY <1>2 DEF Stmt
  <2> DEFINE x == [s EXCEPT !.off = SkipSpace[[off |-> @, depth |-> s.depth]]]
  <2>2. /\ At(x.off) = "n" => NextInternal(s) =
               Emit2([x EXCEPT !.off = @ + 1, !.atLineStart = TRUE], Tok("NEWLINE"))
        /\ At(x.off) # "n" => NextInternal(s) = InLine(x)
    BY <1>2 DEF NextInternal
  <2> HIDE DEF x, v, k
  <2>. QED
    BY <1>5, <2>1, <2>2 DEF x
<1>7. /\ v \in Stmt /\ v.off = k /\ v.pending = 0 /\ v.state = "on" /\ v.stack = s.stack
      /\ ~v.eofNewlineDone /\ ~v.eofDedentsDone /\ v.last = s.last /\ v.depth = s.depth
      /\ ~v.atLineStart
  <2> HIDE DEF k
  <2>. QED
    BY <1>2, <1>4 DEF Stmt
<1> HIDE DEF k, v
<1>8. CASE p.kind = "eof"
  <2>1. NextInternal(s) = AtEOF(v)
    BY <1>3, <1>6, <1>7, <1>8 DEF InLine
  <2>2. k = Ends
    BY <1>3, <1>4, <1>8, AtIs
  <2>3. EndsWith(R, out \o Closing(NewlineDue(v), Len(s.stack) - 1))
    BY <1>2, <1>7, <2>1, <2>2, EndRun
  <2>4. /\ u \in Indenter /\ u.state = "on" /\ u.lineStart = t.lineStart /\ u.indents = t.indents
        /\ Logical(t) = FlushAtEnd(u)
    BY <1>1, <1>8 DEF Comes
  <2>5. NewlineDue(v) = (~u.lineStart)
    BY <1>2, <1>7, <2>4 DEF NewlineDue
  <2>6. Len(s.stack) = Len(u.indents) /\ Len(u.indents) - 1 \in Nat
    BY <1>2, <2>4, StackIs DEF Paired
  <2>7. Follows(R, FlushAtEnd(u), out)
    BY <1>2, <2>3, <2>4, <2>5, <2>6, EndAgrees
  <2>. QED
    BY <2>4, <2>7
<1>9. CASE p.kind = "b"
  <2>1. <<InLine(v).s, Append(out, InLine(v).tok)>> \in R
    BY <1>2, <1>3, <1>6, <1>9, RunOn
  <2>2. FailsIn(R)
    BY <1>3, <1>7, <1>9, <2>1, ErrorFollows
  <2>3. Logical(t) = Fail1(u) /\ u \in Indenter
    BY <1>1, <1>9 DEF Comes
  <2>4. Fail1(u).tok = Tok("error") /\ Fail1(u).t.state = "failed"
    BY <2>3 DEF Fail1, Indenter
  <2>. QED
    BY <2>2, <2>3, <2>4 DEF Follows
<1>10. CASE p.kind = "n"
  <2> DEFINE e == [v EXCEPT !.off = @ + 1, !.atLineStart = TRUE]
             x == [e EXCEPT !.last = "NEWLINE"]
             b == [u EXCEPT !.lineStart = TRUE]
             new == Append(out, Tok("NEWLINE"))
  <2>1. NextInternal(s).tok = Tok("NEWLINE") /\ NextInternal(s).s = x
    <3>1. NextInternal(s) = Emit2(e, Tok("NEWLINE"))
      BY <1>3, <1>6, <1>10
    <3> HIDE DEF e
    <3>2. Emit2(e, Tok("NEWLINE")) = [tok |-> Tok("NEWLINE"), s |-> [e EXCEPT !.last = "NEWLINE"]]
      BY DEF Emit2, Tok
    <3>. QED
      BY <3>1, <3>2
  <2>2. <<x, new>> \in R
    BY <1>2, <2>1, RunOn
  <2>3. /\ x.state = "on" /\ x.pending = 0 /\ ~x.eofNewlineDone /\ ~x.eofDedentsDone
        /\ x.off = k + 1 /\ x.depth = s.depth /\ x.atLineStart = TRUE /\ x.stack = s.stack
    BY <1>7 DEF Stmt
  <2>4. /\ u \in Indenter /\ u.state = "on" /\ u.indents = t.indents /\ u.pending = <<>>
        /\ u.scan = Fresh(k + 1, 0) /\ Begins(k + 1) /\ u.bracket = Depth(t.bracket, "n")
        /\ Logical(t) = [tok |-> Tok("NEWLINE"), t |-> b]
    BY <1>1, <1>3, <1>10 DEF Comes
  <2>5. Depth(t.bracket, "n") = t.bracket
    BY DEF Depth
  <2>6. /\ b.state = "on" /\ b.indents = t.indents /\ b.pending = <<>> /\ b.scan = Fresh(k + 1, 0)
        /\ b.bracket = t.bracket /\ b.lineStart = TRUE
    BY <2>4, <2>5 DEF Indenter
  <2> HIDE DEF x, b
  <2>7. Alike(x, b)
    <3>1. Fresh(k + 1, 0).pos = k + 1
      BY DEF Fresh
    <3>. QED
      BY <1>2, <2>3, <2>4, <2>6, <3>1 DEF Alike
  <2>8. Tok("NEWLINE") \in Tokens /\ new \in Seq(Tokens) /\ new \o <<>> = new
    <3>1. Tok("NEWLINE") \in Tokens
      BY DEF Tokens, Structure
    <3>. QED
      BY <1>2, <3>1
  <2> HIDE DEF new
  <2>9. Matched(R, b, new \o b.pending)
    BY <2>2, <2>6, <2>7, <2>8 DEF Matched
  <2>10. <<>> \in Seq(Tokens)
    OBVIOUS
  <2>. QED
    <3>1. Logical(t).tok = Tok("NEWLINE") /\ Logical(t).t = b
      BY <2>4
    <3>2. Append(out, Logical(t).tok) = new
      BY <3>1 DEF new
    <3>. QED
      BY <2>6, <2>8, <2>9, <2>10, <3>1, <3>2 DEF Follows
<1>11. CASE p.kind \in {"x", "(", ")"}
  <2> DEFINE begun == [u EXCEPT !.lineStart = FALSE]
             tok == <<At(k), k>>
             new == Append(out, tok)
  <2>1. Logical(t) = [tok |-> tok, t |-> begun]
    BY <1>1, <1>3, <1>11 DEF Comes
  <2>2. /\ begun \in Indenter /\ begun.state = "on" /\ ~begun.lineStart /\ begun.pending = <<>>
        /\ begun.scan.pos = k + 1 /\ begun.bracket = Depth(s.depth, At(k))
        /\ begun.indents = t.indents
    <3>1. /\ u \in Indenter /\ u.state = "on" /\ u.scan.pos = k + 1 /\ u.pending = <<>>
          /\ u.bracket = Depth(s.depth, At(k)) /\ u.indents = t.indents
      BY <1>1, <1>2, <1>3, <1>11 DEF Comes
    <3>. QED
      BY <3>1 DEF Indenter
  <2>3. <<InLine(v).s, Append(out, InLine(v).tok)>> \in R
    BY <1>2, <1>3, <1>6, <1>11, RunOn
  <2> HIDE DEF begun
  <2>4. Matched(R, begun, new)
    <3>1. /\ At(v.off) \in {"x", "(", ")"} /\ begun.scan.pos = v.off + 1
          /\ begun.bracket = Depth(v.depth, At(v.off)) /\ Paired(v.stack, begun.indents)
      BY <1>2, <1>3, <1>7, <1>11, <2>2
    <3>2. Matched(R, begun, Append(out, <<At(v.off), v.off>>))
      BY <1>7, <2>2, <2>3, <3>1, TokenFollows
    <3>. QED
      BY <1>7, <3>2
  <2>5. tok \in Tokens /\ new \in Seq(Tokens) /\ new \o <<>> = new /\ <<>> \in Seq(Tokens)
    <3>1. tok \in Tokens
      BY <1>3, <1>4, <1>11 DEF Tokens, Chars
    <3> HIDE DEF tok
    <3>. QED
      BY <1>2, <3>1
  <2> HIDE DEF tok, new
  <2>. QED
    <3>1. Logical(t).tok = tok /\ Logical(t).t = begun
      BY <2>1
    <3>2. Append(out, Logical(t).tok) = new
      BY <3>1 DEF new
    <3>. QED
      BY <2>2, <2>4, <2>5, <3>1, <3>2 DEF Follows
<1>. QED
  BY <1>1, <1>8, <1>9, <1>10, <1>11 DEF Comes

(***************************************************************************)
(* The wrapper has come by what the scanner has: with what waits in its    *)
(* queue, it has emitted what the scanner had at some call.                *)
(***************************************************************************)
Mirrors(R, t, out) ==
    /\ t.state = "on" => Matched(R, t, out \o t.pending)
    /\ t.state = "ended" => \E u : u.state = "ended" /\ <<u, out>> \in R
    /\ t.state = "failed" => FailsIn(R)

\* The wrapper ends when it emits the end of the file.
After(r) == IF r.tok = Tok("END") THEN [r.t EXCEPT !.state = "ended"] ELSE r.t

\* What follows the scanner mirrors it, also at the end.
LEMMA FollowsMirrors ==
    ASSUME NEW R, Run(R), NEW out \in Seq(Tokens), NEW r, Follows(R, r, out)
    PROVE  Mirrors(R, After(r), Append(out, r.tok))
<1>1. CASE r.tok = Tok("error") /\ r.t.state = "failed" /\ FailsIn(R)
  <2>1. After(r) = r.t
    BY <1>1 DEF After, Tok
  <2>. QED
    BY <1>1, <2>1 DEF Mirrors
<1>2. CASE /\ r.tok \in Tokens /\ r.t.state = "on" /\ r.t.pending \in Seq(Tokens)
           /\ Matched(R, r.t, Append(out, r.tok) \o r.t.pending)
  <2>1. CASE r.tok # Tok("END")
    <3>1. After(r) = r.t
      BY <2>1 DEF After
    <3>. QED
      BY <1>2, <3>1 DEF Mirrors
  <2>2. CASE r.tok = Tok("END")
    <3> DEFINE new == Append(out, r.tok)
               rest == r.t.pending
               q == new \o rest
    <3>1. /\ new \in Seq(Tokens) /\ Len(new) = Len(out) + 1 /\ Len(out) \in Nat
          /\ new[Len(out) + 1] = Tok("END") /\ rest \in Seq(Tokens) /\ Len(rest) \in Nat
      BY <1>2, <2>2, AppendIs
    <3> HIDE DEF new, rest
    <3>2. /\ q \in Seq(Tokens) /\ Len(q) = Len(new) + Len(rest)
          /\ Len(out) + 1 \in 1 .. Len(q) /\ q[Len(out) + 1] = Tok("END")
      <4>1. /\ q \in Seq(Tokens) /\ Len(q) = Len(new) + Len(rest)
            /\ \A i \in 1 .. Len(new) + Len(rest) :
                   q[i] = IF i <= Len(new) THEN new[i] ELSE rest[i - Len(new)]
        BY <3>1, ConcatProperties
      <4>2. Len(out) + 1 \in 1 .. Len(new) + Len(rest) /\ Len(out) + 1 <= Len(new)
        BY <3>1
      <4> HIDE DEF q
      <4>. QED
        BY <3>1, <4>1, <4>2
    <3>3. PICK u : <<u, q>> \in R /\ (u.state = "ended" \/ Alike(u, r.t))
      BY <1>2 DEF Matched, new, rest
    <3> HIDE DEF q
    <3>4. Inv2(u, q)
      <4> DEFINE p == <<u, q>>
      <4>1. p \in R /\ p[1] = u /\ p[2] = q
        BY <3>3
      <4>. QED
        BY <4>1 DEF Run
    <3>5. u.state = "ended"
      <4>1. u.state # "on"
        <5>1. SUFFICES ASSUME u.state = "on" PROVE FALSE
          OBVIOUS
        <5>2. NoEnd(q)
          BY <3>4, <5>1 DEF Inv2, On2, Emitted2, Built
        <5>. QED
          BY <3>2, <5>2 DEF NoEnd
      <4>. QED
        BY <3>3, <4>1 DEF Alike
    <3>6. Complete(q)
      BY <3>4, <3>5 DEF Inv2
    <3>7. Len(rest) = 0
      <4>1. \A i \in 1 .. Len(q) - 1 : q[i] # Tok("END")
        BY <3>6 DEF Complete
      <4>2. Len(out) + 1 \notin 1 .. Len(q) - 1
        BY <3>2, <4>1
      <4>. QED
        BY <3>1, <3>2, <4>2
    <3>8. q = new
      <4>1. rest = <<>>
        BY <3>1, <3>7
      <4>. QED
        BY <3>1, <4>1 DEF q
    <3>9. After(r).state = "ended"
      <4>1. After(r) = [r.t EXCEPT !.state = "ended"]
        BY <2>2 DEF After
      <4>. QED
        BY <1>2, <4>1
    <3>. QED
      BY <3>3, <3>5, <3>8, <3>9 DEF Mirrors, new
  <2>. QED
    BY <2>1, <2>2
<1>. QED
  BY <1>1, <1>2 DEF Follows

\* A call of the wrapper.
LEMMA MirrorsOn ==
    ASSUME Text, TabConsistent, NEW R, Run(R), NEW t, NEW out, Inv1(t, out), t.state = "on",
           Mirrors(R, t, out)
    PROVE  Mirrors(R, After(Next1(t)), Append(out, Next1(t).tok))
<1>1. /\ t \in Indenter /\ out \in Seq(Tokens) /\ t.pending \in Seq(Tokens)
      /\ Matched(R, t, out \o t.pending)
  BY DEF Inv1, Indenter, Mirrors
<1>2. Follows(R, Next1(t), out)
  <2>1. CASE t.pending # <<>>
    <3>1. Next1(t) = Dequeue(t, t.pending)
      BY <2>1 DEF Next1
    <3>. QED
      BY <1>1, <2>1, <3>1, DequeueFollows
  <2>2. CASE t.pending = <<>>
    <3>1. Next1(t) = Logical(t) /\ out \o t.pending = out
      BY <1>1, <2>2 DEF Next1
    <3>2. PICK s : <<s, out>> \in R /\ (s.state = "ended" \/ Alike(s, t))
      BY <1>1, <3>1 DEF Matched
    <3>3. Alike(s, t)
      <4>1. s.state # "ended"
        <5>1. SUFFICES ASSUME s.state = "ended" PROVE FALSE
          OBVIOUS
        <5> DEFINE p == <<s, out>>
        <5>2. p \in R /\ p[1] = s /\ p[2] = out
          BY <3>2
        <5>3. Complete(out)
          BY <5>1, <5>2 DEF Run, Inv2
        <5>4. NoEnd(out)
          <6>1. Building(t, out)
            BY <2>2, <3>1 DEF Inv1, On1
          <6>. QED
            BY <6>1 DEF Building, Built
        <5>5. Len(out) \in 1 .. Len(out)
          BY <1>1, <5>3 DEF Complete
        <5>. QED
          BY <5>3, <5>4, <5>5 DEF Complete, NoEnd, Last
      <4>. QED
        BY <3>2, <4>1
    <3>. QED
      BY <2>2, <3>1, <3>2, <3>3, LineAgrees, InLineAgrees
  <2>. QED
    BY <2>1, <2>2
<1>. QED
  BY <1>1, <1>2, FollowsMirrors

-----------------------------------------------------------------------------
(* The source stays as it is, and so does what the scanner makes of it.    *)

\* The white space of its lines.
LEMMA SameLevels ==
    ASSUME src' = src
    PROVE  /\ LineStarts' = LineStarts /\ TabConsistent' = TabConsistent
           /\ \A w, c : Level(w, c)' = Level(w, c)
<1>1. LineStarts' = LineStarts
  BY DEF LineStarts
<1>2. Measure' = Measure
  BY SameAt DEF Measure, Widened
<1>3. Bytes' = Bytes
  BY SameAt DEF Bytes
<1>4. \A i : Width(i)' = Width(i) /\ Column(i)' = Column(i)
  BY <1>2, <1>3 DEF Width, Column
<1>. QED
  BY <1>1, <1>4 DEF TabConsistent, Level

\* Where a layer is in it.
LEMMA SameAlike == ASSUME src' = src PROVE \A s, t : Alike(s, t)' = Alike(s, t)
<1>1. \A stack, indents : Paired(stack, indents)' = Paired(stack, indents)
  BY SameLevels DEF Paired, Stack
<1>2. \A i : Begins(i)' = Begins(i)
  BY SameLevels, SameEnds DEF Begins
<1>. QED
  BY <1>1, <1>2 DEF Alike, NewlineDue, Fresh

\* What the wrapper has come by.
LEMMA SameMirrors == ASSUME src' = src PROVE \A R, t, out : Mirrors(R, t, out)' = Mirrors(R, t, out)
<1>1. \A R, t, q : Matched(R, t, q)' = Matched(R, t, q)
  BY SameAlike DEF Matched
<1>. QED
  BY <1>1 DEF Mirrors, FailsIn

\* A call of the scanner.
LEMMA SameNext == ASSUME src' = src PROVE \A s : NextInternal(s)' = NextInternal(s)
<1>1. \A i : Past(i)' = Past(i) /\ Continued(i)' = Continued(i)
  BY SameAt, SameEndOfLine DEF Past, Continued
<1>2. Measure' = Measure
  BY SameAt DEF Measure, Widened
<1>3. FirstContent' = FirstContent
  BY <1>1, <1>2, SameAt DEF FirstContent
<1>4. SkipSpace' = SkipSpace
  BY <1>1, SameAt DEF SkipSpace
<1>5. \A s : AtEOF(s)' = AtEOF(s)
  BY DEF AtEOF, NewlineDue, Emit2, EmitDedent, Tok
<1>6. ASSUME NEW s PROVE InLine(s)' = InLine(s)
  <2>1. At(s.off)' = At(s.off) /\ AtEOF(s)' = AtEOF(s)
    BY <1>5, SameAt
  <2>. QED
    BY <2>1 DEF InLine, Fail2, Emit2, Depth, Tok
<1>7. ASSUME NEW s PROVE AtLineStart(s)' = AtLineStart(s)
  <2> DEFINE m == FirstContent[s.off]
             t == [s EXCEPT !.off = m.off]
             begun == [t EXCEPT !.atLineStart = FALSE]
  <2>1. m' = m /\ At(m.off)' = At(m.off)
    BY <1>3, SameAt
  <2>2. InLine(t)' = InLine(t) /\ InLine(begun)' = InLine(begun)
    BY <1>6, <2>1
  <2>. QED
    BY <2>1, <2>2 DEF AtLineStart, Closes, Top, Emit2, Fail2, EmitDedent, Tok
<1>. QED
  BY <1>4, <1>6, <1>7, SameAt DEF NextInternal, EmitDedent, NewlineDue, Emit2, Tok

-----------------------------------------------------------------------------
(* The run of the scanner, and the one of the wrapper after it.            *)

\* The calls of the scanner up to now: its states, with what it had emitted.
Visited(R) ==
    /\ <<NewStmtScanner, <<>>>> \in R /\ <<v2, out2>> \in R
    /\ \A p \in R :
          /\ Inv2(p[1], p[2])
          /\ p # <<v2, out2>> =>
                /\ p[1].state = "on"
                /\ <<NextInternal(p[1]).s, Append(p[2], NextInternal(p[1]).tok)>> \in R

(***************************************************************************)
(* Of some calls of the scanner, once they are over and if the tabs are    *)
(* consistent, the wrapper mirrors each in turn.                           *)
(***************************************************************************)
AgreeInv ==
    /\ v2.state = "on" => v1 = NewIndent /\ out1 = <<>>
    /\ \E R : /\ Visited(R)
              /\ v2.state # "on" /\ TabConsistent => Mirrors(R, v1, out1)

\* The calls stay while the wrapper runs.
LEMMA SameVisited ==
    ASSUME src' = src, v2' = v2, out2' = out2, NEW R, Visited(R)
    PROVE  Visited(R)'
<1>1. \A s, out : Inv2(s, out)' = Inv2(s, out) /\ NextInternal(s)' = NextInternal(s)
  BY SameInv2, SameNext
<1>. QED
  BY <1>1 DEF Visited, NewStmtScanner

\* When the scanner has stopped, its calls are a run.
LEMMA VisitedRun ==
    ASSUME NEW R, Visited(R), v2.state # "on"
    PROVE  Run(R)
<1>1. ASSUME NEW p \in R, p[1].state = "on" PROVE p # <<v2, out2>>
  BY <1>1
<1>. QED
  BY <1>1 DEF Run, Visited

\* Both begin at the first line.
LEMMA BeginAlike == ASSUME Text PROVE Alike(NewStmtScanner, NewIndent)
<1>1. Stack(<<0>>) /\ Len(<<0>>) = 1
  BY DEF Stack
<1>2. Level(0, 0) /\ \A k \in 1 .. 1 : <<0>>[k] = 0
  BY DEF Level
<1>3. Paired(<<0>>, <<0>>)
  BY <1>1, <1>2 DEF Paired
<1>4. Begins(1)
  BY DEF Begins, LineStarts
<1>. QED
  BY <1>3, <1>4 DEF Alike, NewStmtScanner, NewIndent, Fresh

\* The layers are put before a file, and nothing has been called.
LEMMA InitAgree == Init => AgreeInv
<1> SUFFICES ASSUME Init PROVE AgreeInv
  OBVIOUS
<1>1. v2 = NewStmtScanner /\ out2 = <<>> /\ v1 = NewIndent /\ out1 = <<>>
  BY DEF Init, Opens
<1>2. Inv2(v2, out2)
  BY InitInv DEF Inv
<1>3. v2.state = "on"
  BY <1>1 DEF NewStmtScanner
<1> DEFINE R == {<<v2, out2>>}
<1>4. Visited(R)
  <2>1. \A p \in R : p = <<v2, out2>> /\ Inv2(p[1], p[2])
    BY <1>2
  <2>. QED
    BY <1>1, <2>1 DEF Visited
<1>. QED
  BY <1>1, <1>3, <1>4 DEF AgreeInv

\* A call of the scanner is one more.
LEMMA Scan2Visits ==
    ASSUME Inv, Inv', Scan2, NEW R, Visited(R), NEW S, S = R \cup {<<v2', out2'>>}
    PROVE  Visited(S)'
<1>1. /\ src' = src /\ v2.state = "on"
      /\ v2' = NextInternal(v2).s /\ out2' = Append(out2, NextInternal(v2).tok)
  BY DEF Scan2
<1>2. /\ <<NewStmtScanner, <<>>>> \in S /\ <<v2', out2'>> \in S
  BY DEF Visited
<1>3. Inv2(v2', out2')
  <2>1. Inv2(v2, out2)'
    BY DEF Inv
  <2>. QED
    BY <1>1, <2>1, SameInv2
<1>4. ASSUME NEW p \in S
      PROVE  /\ Inv2(p[1], p[2])
             /\ p # <<v2', out2'>> =>
                   /\ p[1].state = "on"
                   /\ <<NextInternal(p[1]).s, Append(p[2], NextInternal(p[1]).tok)>> \in S
  <2>1. CASE p = <<v2', out2'>>
    <3>1. p[1] = v2' /\ p[2] = out2'
      BY <2>1
    <3>. QED
      BY <1>3, <2>1, <3>1
  <2>2. CASE p # <<v2', out2'>> /\ p = <<v2, out2>>
    <3>1. p \in R /\ p[1] = v2 /\ p[2] = out2
      BY <2>2
    <3>. QED
      BY <1>1, <3>1 DEF Visited
  <2>3. CASE p # <<v2', out2'>> /\ p # <<v2, out2>>
    <3>1. p \in R
      BY <2>3
    <3>. QED
      BY <2>3, <3>1 DEF Visited
  <2>. QED
    BY <2>1, <2>2, <2>3
<1>5. \A p \in S :
          /\ Inv2(p[1], p[2])'
          /\ p # <<v2', out2'>> =>
                /\ p[1].state = "on"
                /\ <<NextInternal(p[1])'.s, Append(p[2], NextInternal(p[1])'.tok)>> \in S
  <2>1. \A s, out : Inv2(s, out)' = Inv2(s, out) /\ NextInternal(s)' = NextInternal(s)
    BY <1>1, SameInv2, SameNext
  <2>. QED
    BY <1>4, <2>1
<1>. QED
  BY <1>2, <1>5 DEF Visited, NewStmtScanner

\* A call of either layer.
LEMMA NextAgree == Inv /\ AgreeInv /\ [Next \/ Done]_vars => AgreeInv'
<1> SUFFICES ASSUME Inv, AgreeInv, [Next \/ Done]_vars PROVE AgreeInv'
  OBVIOUS
<1>1. Text /\ Inv1(v1, out1)
  BY DEF Inv
<1>2. src' = src
  BY DEF Next, Scan2, Scan1, Done, vars
<1>3. PICK R : /\ Visited(R)
               /\ v2.state # "on" /\ TabConsistent => Mirrors(R, v1, out1)
  BY DEF AgreeInv
<1>4. CASE Scan2
  <2>0. PICK S : S = R \cup {<<v2', out2'>>}
    OBVIOUS
  <2>1. v1' = NewIndent /\ out1' = <<>>
    BY <1>4 DEF Scan2, AgreeInv
  <2>2. Visited(S)'
    <3>1. Inv'
      BY NextInv
    <3>. QED
      BY <1>3, <1>4, <2>0, <3>1, Scan2Visits
  <2>3. Mirrors(S, NewIndent, <<>>)
    <3>1. <<NewStmtScanner, <<>>>> \in S
      BY <1>3, <2>0 DEF Visited
    <3>2. NewIndent.state = "on" /\ <<>> \o NewIndent.pending = <<>>
      BY DEF NewIndent
    <3>3. Alike(NewStmtScanner, NewIndent)
      BY <1>1, BeginAlike
    <3>. QED
      BY <3>1, <3>2, <3>3 DEF Mirrors, Matched
  <2>4. Mirrors(S, v1, out1)'
    BY <1>2, <2>1, <2>3, SameMirrors
  <2>5. v1' = NewIndent' /\ out1' = <<>>
    BY <2>1 DEF NewIndent
  <2>. QED
    BY <2>2, <2>4, <2>5 DEF AgreeInv
<1>5. CASE Scan1
  <2>1. /\ v2.state # "on" /\ v1.state = "on" /\ v2' = v2 /\ out2' = out2
        /\ v1' = After(Next1(v1)) /\ out1' = Append(out1, Next1(v1).tok)
    BY <1>5 DEF Scan1, After
  <2>2. Visited(R)'
    BY <1>2, <1>3, <2>1, SameVisited
  <2>3. ASSUME TabConsistent' PROVE Mirrors(R, v1, out1)'
    <3>1. TabConsistent
      BY <1>2, <2>3, SameLevels
    <3>2. Run(R)
      BY <1>3, <2>1, VisitedRun
    <3>3. Mirrors(R, v1', out1')
      BY <1>1, <1>3, <2>1, <3>1, <3>2, MirrorsOn
    <3>. QED
      BY <1>2, <3>3, SameMirrors
  <2>. QED
    BY <2>1, <2>2, <2>3 DEF AgreeInv
<1>6. CASE UNCHANGED vars
  <2>1. v2' = v2 /\ out2' = out2 /\ v1' = v1 /\ out1' = out1
    BY <1>6 DEF vars
  <2>2. Visited(R)'
    BY <1>2, <1>3, <2>1, SameVisited
  <2>3. v2'.state # "on" /\ TabConsistent' => Mirrors(R, v1, out1)'
    BY <1>2, <1>3, <2>1, SameLevels, SameMirrors
  <2>4. v2'.state = "on" => v1' = NewIndent' /\ out1' = <<>>
    BY <2>1 DEF AgreeInv, NewIndent
  <2>. QED
    BY <2>2, <2>3, <2>4 DEF AgreeInv
<1>. QED
  BY <1>4, <1>5, <1>6 DEF Next, Done

(***************************************************************************)
(* Whatever the file, if its tabs are consistent the layers agree on       *)
(* whether it can be read and on every token: stops and bytes, owed        *)
(* DEDENTs and queued ones, make no difference.                            *)
(***************************************************************************)
THEOREM LayersAlwaysAgree == Spec => []LayersAgree
<1>1. Inv /\ AgreeInv => LayersAgree
  <2> SUFFICES ASSUME Inv, AgreeInv, Ended, TabConsistent
               PROVE  IF v2.state = "failed" THEN v1.state = "failed" ELSE out1 = out2
    BY DEF LayersAgree
  <2>1. /\ v2.state # "on" /\ v2.state \in {"on", "ended", "failed"}
        /\ v1.state \in {"ended", "failed"}
    BY DEF Inv, Inv1, Inv2, Indenter, Stmt, Ended
  <2>2. PICK R : Visited(R) /\ Mirrors(R, v1, out1)
    BY <2>1 DEF AgreeInv
  <2>3. ASSUME NEW u, NEW out, <<u, out>> \in R, u.state # "on"
        PROVE  u = v2 /\ out = out2
    <3> DEFINE p == <<u, out>>
    <3>1. p \in R /\ p[1] = u
      BY <2>3
    <3> HIDE DEF p
    <3>2. p = <<v2, out2>>
      BY <2>2, <2>3, <3>1 DEF Visited
    <3>. QED
      BY <3>2 DEF p
  <2>4. CASE v1.state = "failed"
    <3>1. PICK u, out : u.state = "failed" /\ <<u, out>> \in R
      BY <2>2, <2>4 DEF Mirrors, FailsIn
    <3>. QED
      BY <2>3, <2>4, <3>1
  <2>5. CASE v1.state = "ended"
    <3>1. PICK u : u.state = "ended" /\ <<u, out1>> \in R
      BY <2>2, <2>5 DEF Mirrors
    <3>2. u = v2 /\ out1 = out2
      BY <2>3, <3>1
    <3>. QED
      BY <3>1, <3>2
  <2>. QED
    BY <2>1, <2>4, <2>5
<1>2. Spec => []AgreeInv
  BY Invariant, InitAgree, NextAgree, PTL DEF Spec
<1>. QED
  BY <1>1, <1>2, Invariant, PTL
=============================================================================
