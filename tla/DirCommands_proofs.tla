-------------------------- MODULE DirCommands_proofs --------------------------
(***************************************************************************)
(* Theorems about DirCommands for every number of files, workers,          *)
(* capacities, processes and saves: first the two worker pools, then the   *)
(* commands with what CacheFile_proofs and FixInPlace_proofs say.          *)
(***************************************************************************)
EXTENDS DirCommands, Sequences, FiniteSetTheorems, TLAPS

CacheProofs == INSTANCE CacheFile_proofs
FixProofs == INSTANCE FixInPlace_proofs

\* What a receive takes from a channel, and what it leaves.
LEMMA HeadAndTail ==
    ASSUME NEW S, NEW c \in Seq(S), c # <<>>
    PROVE  /\ Len(c) \in Nat \ {0} /\ Head(c) = c[1] /\ c[1] \in S
           /\ Tail(c) \in Seq(S) /\ Len(Tail(c)) = Len(c) - 1
           /\ \A k \in 1 .. Len(Tail(c)) : Tail(c)[k] = c[k + 1] /\ k + 1 \in 1 .. Len(c)
<1>1. /\ Len(c) \in Nat \ {0} /\ Head(c) = c[1] /\ c[1] \in S
      /\ Tail(c) \in Seq(S) /\ Len(Tail(c)) = Len(c) - 1
  OBVIOUS
<1>2. \A k \in 1 .. Len(Tail(c)) : Tail(c)[k] = c[k + 1] /\ k + 1 \in 1 .. Len(c)
  OBVIOUS
<1>. QED
  BY <1>1, <1>2

-----------------------------------------------------------------------------
(* bench: where a file is.                                                 *)

\* The channel holds the files that were sent last, in order; those before were received.
Received == sent - Len(ch)
BenchOrder ==
    /\ Len(ch) <= sent
    /\ \A k \in 1 .. Len(ch) : ch[k] = Received + k

AtWork(w) == worker[w] \in {"parse", "send"}

\* No file is in two places: with two workers, twice in the channel of failures, or both.
BenchPlaces ==
    /\ \A w \in Bench!Workers :
           /\ AtWork(w) => current[w] <= Received
           /\ worker[w] = "send" => current[w] \in broken
    /\ \A v, w \in Bench!Workers : AtWork(v) /\ AtWork(w) /\ v # w => current[v] # current[w]
    /\ \A k \in 1 .. Len(resultCh) :
           /\ resultCh[k] \in broken /\ resultCh[k] <= Received
           /\ \A w \in Bench!Workers : AtWork(w) => current[w] # resultCh[k]
    /\ \A j, k \in 1 .. Len(resultCh) : j # k => resultCh[j] # resultCh[k]

\* What a worker that has gone, a closed channel and a report say of the rest.
BenchClosing ==
    /\ chClosed <=> main # "send"
    /\ chClosed => sent = NParsed
    /\ \A w \in Bench!Workers : worker[w] = "exited" => chClosed /\ ch = <<>>
    /\ resultClosed => Bench!AllExited
    /\ main = "done" => resultClosed /\ resultCh = <<>>

\* The failures that main has still to count, wherever they are.
Uncounted ==
    {f \in broken : \/ f > Received
                    \/ \E w \in Bench!Workers : AtWork(w) /\ current[w] = f
                    \/ \E k \in 1 .. Len(resultCh) : resultCh[k] = f}
BenchCount == parseFailed + Cardinality(Uncounted) = Cardinality(broken)

BenchInv ==
    /\ Bench!TypeOK
    /\ BenchOrder /\ BenchPlaces /\ BenchClosing
    /\ BenchCount

USE DEF Bench!Files, Bench!Workers

\* The capacities and the numbers of workers and files are numbers.
LEMMA BenchConstants ==
    /\ NParsed \in Nat \ {0} /\ NumCPU \in Nat \ {0} /\ Bench!ChanCap \in Nat \ {0}
    /\ ChanFactor \in Nat \ {0} /\ MaxBroken \in Nat
  BY DirCommandsAssumption DEF Bench!BenchAssumption, Bench!ChanCap

\* Cardinality is the same in the instance.
LEMMA BenchCardinality == \A S : Bench!Cardinality(S) = Cardinality(S)
  BY DEF Bench!Cardinality, Cardinality

\* The counts are numbers, and no more than the files.
LEMMA BrokenIsFinite ==
    ASSUME broken \subseteq 1 .. NParsed, NEW S \in SUBSET broken
    PROVE  /\ IsFiniteSet(S) /\ Cardinality(S) \in Nat
           /\ Cardinality(S) <= Cardinality(broken)
           /\ IsFiniteSet(broken) /\ Cardinality(broken) \in 0 .. NParsed
<1>1. IsFiniteSet(1 .. NParsed) /\ Cardinality(1 .. NParsed) = NParsed
  BY BenchConstants, FS_Interval
<1>2. /\ IsFiniteSet(broken) /\ Cardinality(broken) <= NParsed
  BY <1>1, FS_Subset
<1>3. IsFiniteSet(S) /\ Cardinality(S) <= Cardinality(broken)
  BY <1>2, FS_Subset
<1>. QED
  BY <1>2, <1>3, FS_CardinalityType, BenchConstants

\* The invariant of bench holds at the start, and every send, receive, parse, close and
\* exit keeps it.
LEMMA BenchInitInv == ASSUME Bench!Init PROVE BenchInv
<1>1. broken \subseteq 1 .. NParsed
  BY DEF Bench!Init
<1>2. Bench!TypeOK
  <2>1. 0 \in 0 .. NParsed /\ 1 \in 1 .. NParsed /\ 0 <= Bench!ChanCap
    BY BenchConstants
  <2>2. <<>> \in Seq(1 .. NParsed) /\ Len(<<>>) = 0
    OBVIOUS
  <2>. QED
    BY <1>1, <2>1, <2>2 DEF Bench!Init, Bench!TypeOK
<1>3. BenchOrder /\ BenchPlaces /\ BenchClosing
  BY <1>1 DEF Bench!Init, BenchOrder, BenchPlaces, BenchClosing, Received, AtWork
<1>4. Uncounted = broken
  <2>1. sent = 0 /\ Len(ch) = 0
    BY DEF Bench!Init
  <2>2. Received = 0
    BY <2>1 DEF Received
  <2>3. \A f \in broken : f > 0
    BY <1>1
  <2>. QED
    BY <2>2, <2>3 DEF Uncounted
<1>. QED
  BY <1>1, <1>2, <1>3, <1>4, BrokenIsFinite DEF BenchInv, BenchCount, Bench!Init

\* A step that moves no failure out of sight keeps the count.
LEMMA SameCount ==
    ASSUME BenchInv, broken' = broken, parseFailed' = parseFailed, Uncounted' = Uncounted
    PROVE  BenchCount' /\ parseFailed' \in 0 .. NParsed
  BY DEF BenchInv, BenchCount, Bench!TypeOK

\* main sends a file: it goes to the end of the channel.
LEMMA SendFileInv == ASSUME BenchInv, Bench!SendFile PROVE BenchInv'
<1>1. Bench!TypeOK'
  BY BenchConstants DEF BenchInv, Bench!TypeOK, Bench!SendFile, Bench!HasRoom
<1>2. Received' = Received /\ Len(ch') = Len(ch) + 1 /\ Len(ch) \in Nat /\ Received \in Int
  BY DEF BenchInv, Bench!TypeOK, Bench!SendFile, Received
<1>3. BenchOrder'
  BY <1>2 DEF BenchInv, Bench!TypeOK, BenchOrder, Bench!SendFile, Received
<1>4. BenchPlaces' /\ Uncounted' = Uncounted
  BY <1>2 DEF BenchInv, BenchPlaces, Uncounted, AtWork, Bench!SendFile
<1>5. BenchClosing'
  BY DEF BenchInv, BenchClosing, Bench!SendFile, Bench!AllExited
<1>. QED
  BY <1>1, <1>3, <1>4, <1>5, SameCount DEF BenchInv, Bench!SendFile

\* main closes the channel when it has sent all files.
LEMMA CloseFilesInv == ASSUME BenchInv, Bench!CloseFiles PROVE BenchInv'
<1>1. Bench!TypeOK'
  BY DEF BenchInv, Bench!TypeOK, Bench!CloseFiles, Bench!Close
<1>2. BenchOrder' /\ BenchPlaces' /\ Uncounted' = Uncounted
  BY DEF BenchInv, BenchOrder, BenchPlaces, Uncounted, Received, AtWork, Bench!CloseFiles
<1>3. BenchClosing'
  BY DEF BenchInv, BenchClosing, Bench!CloseFiles, Bench!Close, Bench!AllExited, Bench!TypeOK
<1>. QED
  BY <1>1, <1>2, <1>3, SameCount DEF BenchInv, Bench!CloseFiles

\* main takes a failure out of the channel and counts it.
LEMMA CountFailureInv == ASSUME BenchInv, Bench!CountFailure PROVE BenchInv'
<1> DEFINE f == resultCh[1]
<1>1. /\ resultCh \in Seq(1 .. NParsed) /\ Len(resultCh) \in Nat \ {0}
      /\ Len(resultCh') = Len(resultCh) - 1
      /\ resultCh' \in Seq(1 .. NParsed)
      /\ \A k \in 1 .. Len(resultCh') : resultCh'[k] = resultCh[k + 1] /\ k + 1 \in 1 .. Len(resultCh)
  <2>1. resultCh \in Seq(1 .. NParsed) /\ resultCh # <<>> /\ resultCh' = Tail(resultCh)
    BY DEF BenchInv, Bench!TypeOK, Bench!CountFailure
  <2>. QED
    BY <2>1, HeadAndTail
<1>2. Received' = Received /\ UNCHANGED <<broken, main, sent, ch, chClosed, resultClosed, worker, current>>
  BY DEF Bench!CountFailure, Received
<1>3. f \in broken /\ f <= Received /\ \A w \in Bench!Workers : AtWork(w) => current[w] # f
  BY <1>1 DEF BenchInv, BenchPlaces
<1>4. BenchOrder' /\ BenchPlaces'
  <2>1. BenchOrder'
    BY <1>2 DEF BenchInv, BenchOrder
  <2>2. ASSUME NEW j \in 1 .. Len(resultCh'), NEW k \in 1 .. Len(resultCh'), j # k
        PROVE  resultCh'[j] # resultCh'[k]
    BY <1>1, <2>2 DEF BenchInv, BenchPlaces
  <2>. QED
    BY <1>1, <1>2, <2>1, <2>2 DEF BenchInv, BenchPlaces, AtWork
<1>5. BenchClosing'
  BY <1>2 DEF BenchInv, BenchClosing, Bench!CountFailure, Bench!AllExited
<1>6. Uncounted' = Uncounted \ {f} /\ f \in Uncounted
  <2>1. ASSUME NEW k \in 1 .. Len(resultCh), k # 1 PROVE k - 1 \in 1 .. Len(resultCh') /\ resultCh'[k - 1] = resultCh[k]
    BY <1>1, <2>1
  <2>2. f \in Uncounted
    BY <1>1, <1>3 DEF Uncounted
  <2>3. ASSUME NEW g \in Uncounted, g # f PROVE g \in Uncounted'
    BY <1>1, <1>2, <2>1, <2>3 DEF Uncounted, AtWork
  <2>4. ASSUME NEW g \in Uncounted' PROVE g \in Uncounted /\ g # f
    <3>1. CASE \E k \in 1 .. Len(resultCh') : resultCh'[k] = g
      BY <1>1, <1>2, <3>1 DEF Uncounted, BenchInv, BenchPlaces
    <3>2. CASE g > Received \/ \E w \in Bench!Workers : AtWork(w) /\ current[w] = g
      BY <1>1, <1>2, <1>3, <3>2 DEF Uncounted, BenchInv, BenchPlaces, Bench!TypeOK, Received
    <3>. QED
      BY <1>2, <3>1, <3>2 DEF Uncounted, AtWork
  <2>. QED
    BY <2>2, <2>3, <2>4
<1>7. BenchCount' /\ parseFailed' \in 0 .. NParsed
  <2>1. broken \subseteq 1 .. NParsed /\ Uncounted \subseteq broken /\ Uncounted' \subseteq broken
    BY <1>2 DEF BenchInv, Bench!TypeOK, Uncounted
  <2>2. Cardinality(Uncounted') = Cardinality(Uncounted) - 1
    BY <1>6, <2>1, BrokenIsFinite, FS_RemoveElement
  <2>3. Cardinality(Uncounted') \in Nat /\ Cardinality(Uncounted) \in Nat /\ Cardinality(broken) \in 0 .. NParsed
    BY <2>1, BrokenIsFinite
  <2>4. parseFailed' = parseFailed + 1 /\ parseFailed \in Nat /\ broken' = broken
    BY DEF Bench!CountFailure, BenchInv, Bench!TypeOK
  <2>. QED
    BY <2>2, <2>3, <2>4, BenchConstants DEF BenchInv, BenchCount
<1>8. Bench!TypeOK'
  <2>1. Len(resultCh') <= Bench!ChanCap
    BY <1>1, BenchConstants DEF BenchInv, Bench!TypeOK
  <2>. QED
    BY <1>1, <1>2, <1>7, <2>1 DEF BenchInv, Bench!TypeOK
<1>. QED
  BY <1>4, <1>5, <1>7, <1>8 DEF BenchInv

\* main reports when the channel of failures is closed and empty.
LEMMA ReportInv == ASSUME BenchInv, Bench!Report PROVE BenchInv'
<1>1. Bench!TypeOK'
  BY DEF BenchInv, Bench!TypeOK, Bench!Report
<1>2. BenchOrder' /\ BenchPlaces' /\ Uncounted' = Uncounted
  BY DEF BenchInv, BenchOrder, BenchPlaces, Uncounted, Received, AtWork, Bench!Report
<1>3. BenchClosing'
  BY DEF BenchInv, BenchClosing, Bench!Report, Bench!AllCounted, Bench!AllExited, Bench!TypeOK
<1>. QED
  BY <1>1, <1>2, <1>3, SameCount DEF BenchInv, Bench!Report

\* A worker receives the file that was sent first.
LEMMA ReceiveInv ==
    ASSUME BenchInv, NEW w \in Bench!Workers, Bench!Receive(w) PROVE BenchInv'
<1>1. /\ ch \in Seq(1 .. NParsed) /\ Len(ch) \in Nat \ {0}
      /\ Head(ch) = ch[1] /\ ch[1] \in 1 .. NParsed
      /\ ch' \in Seq(1 .. NParsed) /\ Len(ch') = Len(ch) - 1
      /\ \A k \in 1 .. Len(ch') : ch'[k] = ch[k + 1] /\ k + 1 \in 1 .. Len(ch)
  <2>1. ch \in Seq(1 .. NParsed) /\ ch # <<>> /\ ch' = Tail(ch)
    BY DEF BenchInv, Bench!TypeOK, Bench!Receive
  <2>. QED
    BY <2>1, HeadAndTail
<1>2. /\ sent \in Nat /\ Received \in Nat /\ Received' = Received + 1
      /\ ch[1] = Received + 1
  BY <1>1 DEF BenchInv, BenchOrder, Bench!TypeOK, Bench!Receive, Received
<1>3. /\ ~AtWork(w) /\ AtWork(w)' /\ current'[w] = Received + 1 /\ worker'[w] = "parse"
      /\ \A v \in Bench!Workers : v # w => worker'[v] = worker[v] /\ current'[v] = current[v]
      /\ \A v \in Bench!Workers : v # w => (AtWork(v)' <=> AtWork(v))
      /\ \A v \in Bench!Workers : current[v] \in 1 .. NParsed
      /\ UNCHANGED <<broken, main, sent, chClosed, resultCh, resultClosed, parseFailed>>
  BY <1>1, <1>2 DEF BenchInv, Bench!TypeOK, Bench!Receive, AtWork
<1>4. Bench!TypeOK'
  <2>1. Len(ch') <= Bench!ChanCap
    BY <1>1, BenchConstants DEF BenchInv, Bench!TypeOK
  <2>. QED
    BY <1>1, <2>1 DEF BenchInv, Bench!TypeOK, Bench!Receive
<1>5. BenchOrder'
  BY <1>1, <1>2, <1>3 DEF BenchInv, BenchOrder
<1>6. BenchPlaces'
  <2>1. ASSUME NEW v \in Bench!Workers
        PROVE  /\ AtWork(v)' => current'[v] <= Received'
               /\ worker'[v] = "send" => current'[v] \in broken
    BY <1>2, <1>3 DEF BenchInv, BenchPlaces
  <2>2. ASSUME NEW u \in Bench!Workers, NEW v \in Bench!Workers, AtWork(u)', AtWork(v)', u # v
        PROVE  current'[u] # current'[v]
    BY <1>2, <1>3, <2>2 DEF BenchInv, BenchPlaces
  <2>3. ASSUME NEW k \in 1 .. Len(resultCh)
        PROVE  /\ resultCh[k] \in broken /\ resultCh[k] <= Received'
               /\ \A v \in Bench!Workers : AtWork(v)' => current'[v] # resultCh[k]
    <3>1. resultCh[k] \in broken /\ resultCh[k] <= Received
      BY DEF BenchInv, BenchPlaces
    <3>2. resultCh[k] \in 1 .. NParsed
      BY <3>1 DEF BenchInv, Bench!TypeOK
    <3>. QED
      BY <1>2, <1>3, <3>1, <3>2 DEF BenchInv, BenchPlaces
  <2>. QED
    BY <1>3, <2>1, <2>2, <2>3 DEF BenchInv, BenchPlaces
<1>7. BenchClosing'
  BY <1>1, <1>3 DEF BenchInv, BenchClosing, Bench!Receive, Bench!AllExited, Bench!TypeOK
<1>8. Uncounted' = Uncounted
  <2>1. ASSUME NEW f \in broken PROVE f \in Uncounted' <=> f \in Uncounted
    <3>1. f \in Nat
      BY DEF BenchInv, Bench!TypeOK
    <3>2. f > Received <=> f = Received + 1 \/ f > Received'
      BY <1>2, <3>1
    <3>3. (\E v \in Bench!Workers : AtWork(v)' /\ current'[v] = f)
            <=> f = Received + 1 \/ \E v \in Bench!Workers : AtWork(v) /\ current[v] = f
      BY <1>3
    <3>. QED
      BY <1>3, <3>2, <3>3 DEF Uncounted
  <2>. QED
    BY <1>3, <2>1 DEF Uncounted
<1>. QED
  BY <1>3, <1>4, <1>5, <1>6, <1>7, <1>8, SameCount DEF BenchInv

\* A worker parses a file: one that is broken it will send.
LEMMA ParseInv ==
    ASSUME BenchInv, NEW w \in Bench!Workers, Bench!Parse(w) PROVE BenchInv'
<1>1. Bench!TypeOK'
  BY DEF BenchInv, Bench!TypeOK, Bench!Parse
<1>2. /\ AtWork(w) /\ (AtWork(w)' <=> current[w] \in broken)
      /\ worker'[w] = "send" => current[w] \in broken
      /\ \A v \in Bench!Workers : v # w => worker'[v] = worker[v] /\ (AtWork(v)' <=> AtWork(v))
      /\ Received' = Received
  BY DEF BenchInv, Bench!TypeOK, Bench!Parse, AtWork, Received
<1>3. BenchOrder' /\ BenchPlaces'
  BY <1>2 DEF BenchInv, BenchOrder, BenchPlaces, Bench!Parse
<1>4. BenchClosing'
  BY DEF BenchInv, BenchClosing, Bench!Parse, Bench!AllExited, Bench!TypeOK
<1>5. Uncounted' = Uncounted
  BY <1>2 DEF Uncounted, Bench!Parse
<1>. QED
  BY <1>1, <1>3, <1>4, <1>5, SameCount DEF BenchInv, Bench!Parse

\* A worker sends a failure: it is no longer in its hands but in the channel.
LEMMA SendFailureInv ==
    ASSUME BenchInv, NEW w \in Bench!Workers, Bench!SendFailure(w) PROVE BenchInv'
<1>1. /\ resultCh \in Seq(1 .. NParsed) /\ Len(resultCh) \in Nat /\ current[w] \in 1 .. NParsed
      /\ resultCh' \in Seq(1 .. NParsed) /\ Len(resultCh') = Len(resultCh) + 1
      /\ \A k \in 1 .. Len(resultCh) : resultCh'[k] = resultCh[k] /\ k \in 1 .. Len(resultCh')
      /\ resultCh'[Len(resultCh) + 1] = current[w]
      /\ \A k \in 1 .. Len(resultCh') : k \in 1 .. Len(resultCh) \/ k = Len(resultCh) + 1
      /\ Len(resultCh) + 1 \in 1 .. Len(resultCh')
  BY DEF BenchInv, Bench!TypeOK, Bench!SendFailure
<1>2. /\ AtWork(w) /\ ~AtWork(w)' /\ worker[w] = "send" /\ worker'[w] = "receive"
      /\ \A v \in Bench!Workers : v # w => worker'[v] = worker[v] /\ (AtWork(v)' <=> AtWork(v))
      /\ Received' = Received
      /\ UNCHANGED <<broken, main, sent, ch, chClosed, resultClosed, current, parseFailed>>
  BY DEF BenchInv, Bench!TypeOK, Bench!SendFailure, AtWork, Received
<1>3. current[w] \in broken /\ current[w] <= Received
  BY <1>2 DEF BenchInv, BenchPlaces
<1>4. Bench!TypeOK'
  <2>1. Len(resultCh') <= Bench!ChanCap
    BY <1>1, BenchConstants DEF Bench!SendFailure, Bench!HasRoom
  <2>. QED
    BY <1>1, <2>1 DEF BenchInv, Bench!TypeOK, Bench!SendFailure
<1>5. BenchPlaces'
  <2>1. ASSUME NEW k \in 1 .. Len(resultCh')
        PROVE  /\ resultCh'[k] \in broken /\ resultCh'[k] <= Received
               /\ \A v \in Bench!Workers : AtWork(v)' => current[v] # resultCh'[k]
    <3>1. CASE k \in 1 .. Len(resultCh)
      BY <1>1, <1>2, <3>1 DEF BenchInv, BenchPlaces
    <3>2. CASE k = Len(resultCh) + 1
      BY <1>1, <1>2, <1>3, <3>2 DEF BenchInv, BenchPlaces
    <3>. QED
      BY <1>1, <3>1, <3>2
  <2>2. ASSUME NEW j \in 1 .. Len(resultCh'), NEW k \in 1 .. Len(resultCh'), j # k
        PROVE  resultCh'[j] # resultCh'[k]
    <3>1. \A i \in 1 .. Len(resultCh) : resultCh[i] # current[w]
      BY <1>2 DEF BenchInv, BenchPlaces
    <3>. QED
      BY <1>1, <2>2, <3>1 DEF BenchInv, BenchPlaces
  <2>. QED
    BY <1>2, <2>1, <2>2 DEF BenchInv, BenchPlaces
<1>6. BenchOrder' /\ BenchClosing'
  BY <1>2 DEF BenchInv, BenchOrder, BenchClosing, Bench!AllExited
<1>7. Uncounted' = Uncounted
  <2>1. ASSUME NEW f \in broken PROVE f \in Uncounted' <=> f \in Uncounted
    <3>1. (\E k \in 1 .. Len(resultCh') : resultCh'[k] = f)
            <=> f = current[w] \/ \E k \in 1 .. Len(resultCh) : resultCh[k] = f
      BY <1>1
    <3>2. (\E v \in Bench!Workers : AtWork(v) /\ current[v] = f)
            <=> f = current[w] \/ \E v \in Bench!Workers : AtWork(v)' /\ current[v] = f
      BY <1>2
    <3>. QED
      BY <1>2, <3>1, <3>2 DEF Uncounted
  <2>. QED
    BY <1>2, <2>1 DEF Uncounted
<1>. QED
  BY <1>2, <1>4, <1>5, <1>6, <1>7, SameCount DEF BenchInv

\* A worker exits when there is nothing left to receive.
LEMMA ExitWorkerInv ==
    ASSUME BenchInv, NEW w \in Bench!Workers, Bench!ExitWorker(w) PROVE BenchInv'
<1>1. Bench!TypeOK'
  BY DEF BenchInv, Bench!TypeOK, Bench!ExitWorker
<1>2. /\ \A v \in Bench!Workers : AtWork(v)' <=> AtWork(v)
      /\ \A v \in Bench!Workers : worker'[v] = "send" => worker[v] = "send"
      /\ Received' = Received
  BY DEF BenchInv, Bench!TypeOK, Bench!ExitWorker, AtWork, Received
<1>3. BenchOrder' /\ BenchPlaces' /\ Uncounted' = Uncounted
  BY <1>2 DEF BenchInv, BenchOrder, BenchPlaces, Uncounted, Bench!ExitWorker
<1>4. BenchClosing'
  BY DEF BenchInv, BenchClosing, Bench!ExitWorker, Bench!AllExited, Bench!TypeOK
<1>. QED
  BY <1>1, <1>3, <1>4, SameCount DEF BenchInv, Bench!ExitWorker

\* The channel of failures is closed after the last worker.
LEMMA CloseFailuresInv == ASSUME BenchInv, Bench!CloseFailures PROVE BenchInv'
<1>1. Bench!TypeOK'
  BY DEF BenchInv, Bench!TypeOK, Bench!CloseFailures
<1>2. BenchOrder' /\ BenchPlaces' /\ Uncounted' = Uncounted
  BY DEF BenchInv, BenchOrder, BenchPlaces, Uncounted, Received, AtWork, Bench!CloseFailures
<1>3. BenchClosing'
  BY DEF BenchInv, BenchClosing, Bench!CloseFailures, Bench!AllExited
<1>. QED
  BY <1>1, <1>2, <1>3, SameCount DEF BenchInv, Bench!CloseFailures

\* Every step of bench keeps its invariant.
LEMMA BenchNextInv == ASSUME BenchInv, Bench!Next \/ UNCHANGED benchVars PROVE BenchInv'
<1>1. CASE Bench!Main
  BY <1>1, SendFileInv, CloseFilesInv, CountFailureInv, ReportInv DEF Bench!Main
<1>2. CASE \E w \in Bench!Workers : Bench!Worker(w)
  BY <1>2, ReceiveInv, ParseInv, SendFailureInv, ExitWorkerInv DEF Bench!Worker
<1>3. CASE Bench!CloseFailures
  BY <1>3, CloseFailuresInv
<1>4. CASE Bench!Done \/ UNCHANGED benchVars
  <2>1. UNCHANGED benchVars
    BY <1>4 DEF Bench!Done, Bench!vars, benchVars
  <2>2. BenchOrder' /\ BenchPlaces' /\ Uncounted' = Uncounted
    BY <2>1 DEF benchVars, BenchInv, BenchOrder, BenchPlaces, Uncounted, Received, AtWork
  <2>3. Bench!TypeOK' /\ BenchClosing'
    BY <2>1 DEF benchVars, BenchInv, Bench!TypeOK, BenchClosing, Bench!AllExited
  <2>. QED
    BY <2>1, <2>2, <2>3, SameCount DEF BenchInv, benchVars
<1>. QED
  BY <1>1, <1>2, <1>3, <1>4 DEF Bench!Next

\* At the report all workers are gone and both channels are empty: there is nowhere left
\* for a failure that was not counted.
LEMMA BenchInvProperties ==
    ASSUME BenchInv PROVE Bench!CountsEveryFailure /\ Bench!NoSendOnClosed
<1>1. Bench!NoSendOnClosed
  BY DEF BenchInv, BenchClosing, Bench!AllExited, Bench!NoSendOnClosed
<1>2. ASSUME main = "done" PROVE parseFailed = Cardinality(broken)
  <2>1. /\ Bench!AllExited /\ resultCh = <<>> /\ sent = NParsed
        /\ 1 \in Bench!Workers /\ Len(<<>>) = 0
    BY <1>2, BenchConstants DEF BenchInv, BenchClosing
  <2>2. ch = <<>> /\ Received = NParsed
    BY <2>1, BenchConstants DEF BenchInv, BenchClosing, Bench!AllExited, Received
  <2>3. \A f \in broken : ~(f > NParsed)
    BY BenchConstants DEF BenchInv, Bench!TypeOK
  <2>4. \A w \in Bench!Workers : ~AtWork(w)
    BY <2>1 DEF AtWork, Bench!AllExited
  <2>5. ~\E k \in 1 .. Len(resultCh) : TRUE
    BY <2>1
  <2>6. Uncounted = {}
    BY <2>2, <2>3, <2>4, <2>5 DEF Uncounted
  <2>7. Cardinality(Uncounted) = 0 /\ Cardinality(broken) \in Nat /\ parseFailed \in Nat
    BY <2>6, FS_EmptySet, BrokenIsFinite DEF BenchInv, Bench!TypeOK
  <2>. QED
    BY <2>7 DEF BenchInv, BenchCount
<1>. QED
  BY <1>1, <1>2, BenchCardinality DEF Bench!CountsEveryFailure

-----------------------------------------------------------------------------
(* check and unparse --check: where the number of a file is.               *)

\* Every number that was sent is in the channel, with a worker, or has its verdict.
IndexPlaces ==
    /\ \A i \in Index!Files : results[i] \in {None, truth[i]}
    /\ \A w \in Index!Workers : iworker[w] = "work" => icurrent[w] \in Index!Files
    /\ \A i \in 1 .. isent :
           \/ results[i] = truth[i]
           \/ \E k \in 1 .. Len(jobCh) : jobCh[k] = i
           \/ \E w \in Index!Workers : iworker[w] = "work" /\ icurrent[w] = i

IndexClosing ==
    /\ closed <=> imain # "send"
    /\ closed => isent = NChecked
    /\ \A w \in Index!Workers : iworker[w] = "exited" => closed /\ jobCh = <<>>

IndexInv ==
    /\ Index!TypeOK
    /\ IndexPlaces /\ IndexClosing
    /\ Index!SummaryIsSerial
USE DEF Index!Files, Index!Workers

\* The capacities and the numbers of workers and files are numbers.
LEMMA IndexConstants ==
    /\ NChecked \in Nat /\ NumCPU \in Nat \ {0} /\ Index!ChanCap \in Nat \ {0}
    /\ Allow \subseteq 1 .. NChecked
    /\ None \notin Index!Verdicts
  BY DirCommandsAssumption DEF Index!IndexPoolAssumption, Index!ChanCap

\* Cardinality is the same in the instance.
LEMMA IndexCardinality == \A S : Index!Cardinality(S) = Cardinality(S)
  BY DEF Index!Cardinality, Cardinality

\* The invariant of check holds at the start, and every step of its pool keeps it.
LEMMA IndexInitInv == ASSUME Index!Init PROVE IndexInv
<1>1. 0 \in 0 .. NChecked /\ 0 \in Nat /\ 0 <= Index!ChanCap
  BY IndexConstants
<1>2. <<>> \in Seq(1 .. NChecked) /\ Len(<<>>) = 0
  OBVIOUS
<1>3. Index!TypeOK
  BY <1>1, <1>2 DEF Index!Init, Index!TypeOK
<1>4. IndexPlaces /\ IndexClosing /\ Index!SummaryIsSerial
  BY DEF Index!Init, IndexPlaces, IndexClosing, Index!SummaryIsSerial
<1>. QED
  BY <1>3, <1>4 DEF IndexInv

\* check sends an index.
LEMMA SendJobInv == ASSUME IndexInv, Index!SendJob PROVE IndexInv'
<1>1. /\ jobCh \in Seq(1 .. NChecked) /\ isent \in Nat /\ isent < NChecked
      /\ isent' = isent + 1 /\ jobCh' = Append(jobCh, isent + 1)
  BY DEF IndexInv, Index!TypeOK, Index!SendJob
<1>2. /\ jobCh' \in Seq(1 .. NChecked) /\ Len(jobCh') = Len(jobCh) + 1 /\ Len(jobCh) \in Nat
      /\ \A k \in 1 .. Len(jobCh) : jobCh'[k] = jobCh[k] /\ k \in 1 .. Len(jobCh')
      /\ jobCh'[Len(jobCh) + 1] = isent + 1
  BY <1>1, IndexConstants
<1>3. Index!TypeOK'
  <2>1. Len(jobCh') <= Index!ChanCap /\ isent' \in 0 .. NChecked
    BY <1>1, <1>2, IndexConstants DEF Index!SendJob, Index!HasRoom
  <2>. QED
    BY <1>2, <2>1 DEF IndexInv, Index!TypeOK, Index!SendJob
<1>4. IndexPlaces'
  <2>1. ASSUME NEW i \in 1 .. isent'
        PROVE  \/ results[i] = truth[i]
               \/ \E k \in 1 .. Len(jobCh') : jobCh'[k] = i
               \/ \E w \in Index!Workers : iworker[w] = "work" /\ icurrent[w] = i
    <3>1. CASE i \in 1 .. isent
      BY <1>2, <3>1 DEF IndexInv, IndexPlaces
    <3>2. CASE i = isent + 1
      BY <1>2, <3>2
    <3>. QED
      BY <1>1, <3>1, <3>2
  <2>. QED
    BY <2>1 DEF IndexInv, IndexPlaces, Index!SendJob
<1>5. IndexClosing' /\ Index!SummaryIsSerial'
  BY DEF IndexInv, IndexClosing, Index!SendJob, Index!SummaryIsSerial
<1>. QED
  BY <1>3, <1>4, <1>5 DEF IndexInv

\* check closes the channel when it has sent all of them.
LEMMA CloseJobsInv == ASSUME IndexInv, Index!CloseJobs PROVE IndexInv'
<1>1. Index!TypeOK'
  BY DEF IndexInv, Index!TypeOK, Index!CloseJobs, Index!Close
<1>2. IndexPlaces'
  BY DEF IndexInv, IndexPlaces, Index!CloseJobs
<1>3. IndexClosing' /\ Index!SummaryIsSerial'
  BY DEF IndexInv, IndexClosing, Index!CloseJobs, Index!Close, Index!SummaryIsSerial
<1>. QED
  BY <1>1, <1>2, <1>3 DEF IndexInv

\* A worker receives the index that was sent first.
LEMMA ReceiveJobInv ==
    ASSUME IndexInv, NEW w \in Index!Workers, Index!Receive(w) PROVE IndexInv'
<1>1. jobCh \in Seq(1 .. NChecked) /\ jobCh # <<>> /\ jobCh' = Tail(jobCh)
  BY DEF IndexInv, Index!TypeOK, Index!Receive
<1>2. /\ Len(jobCh) \in Nat \ {0} /\ Head(jobCh) = jobCh[1] /\ jobCh[1] \in 1 .. NChecked
      /\ jobCh' \in Seq(1 .. NChecked) /\ Len(jobCh') = Len(jobCh) - 1
      /\ \A k \in 1 .. Len(jobCh') : jobCh'[k] = jobCh[k + 1] /\ k + 1 \in 1 .. Len(jobCh)
  BY <1>1, HeadAndTail
<1>3. /\ iworker'[w] = "work" /\ icurrent'[w] = jobCh[1] /\ iworker[w] = "receive"
      /\ \A v \in Index!Workers :
            v # w => iworker'[v] = iworker[v] /\ icurrent'[v] = icurrent[v]
      /\ UNCHANGED <<truth, imain, isent, closed, results, report>>
  BY <1>2 DEF IndexInv, Index!TypeOK, Index!Receive
<1>4. Index!TypeOK'
  <2>1. Len(jobCh') <= Index!ChanCap /\ jobCh[1] \in Nat
    BY <1>2, IndexConstants DEF IndexInv, Index!TypeOK
  <2>. QED
    BY <1>2, <2>1 DEF IndexInv, Index!TypeOK, Index!Receive
<1>5. IndexPlaces'
  <2>1. ASSUME NEW i \in 1 .. isent, NEW k \in 1 .. Len(jobCh), jobCh[k] = i
        PROVE  \/ \E j \in 1 .. Len(jobCh') : jobCh'[j] = i
               \/ \E v \in Index!Workers : iworker'[v] = "work" /\ icurrent'[v] = i
    <3>1. CASE k = 1
      BY <1>3, <2>1, <3>1
    <3>2. CASE k # 1
      <4>1. k - 1 \in 1 .. Len(jobCh') /\ jobCh'[k - 1] = jobCh[k]
        BY <1>2, <3>2
      <4>. QED
        BY <2>1, <4>1
    <3>. QED
      BY <3>1, <3>2
  <2>2. ASSUME NEW i \in 1 .. isent
        PROVE  \/ results[i] = truth[i]
               \/ \E k \in 1 .. Len(jobCh') : jobCh'[k] = i
               \/ \E v \in Index!Workers : iworker'[v] = "work" /\ icurrent'[v] = i
    <3>1. CASE \E k \in 1 .. Len(jobCh) : jobCh[k] = i
      BY <2>1, <3>1
    <3>2. CASE \E v \in Index!Workers : iworker[v] = "work" /\ icurrent[v] = i
      BY <1>3, <3>2
    <3>. QED
      BY <3>1, <3>2 DEF IndexInv, IndexPlaces
  <2>. QED
    BY <1>2, <1>3, <2>2 DEF IndexInv, IndexPlaces
<1>6. IndexClosing' /\ Index!SummaryIsSerial'
  BY <1>1, <1>3 DEF IndexInv, IndexClosing, Index!SummaryIsSerial, Index!Serial
<1>. QED
  BY <1>4, <1>5, <1>6 DEF IndexInv

\* A worker fills the slot of its index.
LEMMA WorkInv ==
    ASSUME IndexInv, NEW w \in Index!Workers, Index!Work(w) PROVE IndexInv'
<1>1. /\ icurrent[w] \in Index!Files
      /\ results' = [results EXCEPT ![icurrent[w]] = truth[icurrent[w]]]
      /\ results \in [Index!Files -> Index!Verdicts \cup {None}]
      /\ truth \in [Index!Files -> Index!Verdicts]
  BY DEF IndexInv, IndexPlaces, Index!TypeOK, Index!Work
<1>2. /\ iworker[w] = "work" /\ iworker'[w] = "receive"
      /\ \A v \in Index!Workers : v # w => iworker'[v] = iworker[v]
      /\ UNCHANGED <<truth, imain, isent, jobCh, closed, icurrent, report>>
  BY DEF IndexInv, Index!TypeOK, Index!Work
<1>3. Index!TypeOK'
  BY <1>1 DEF IndexInv, Index!TypeOK, Index!Work
<1>4. IndexPlaces'
  <2>1. /\ results'[icurrent[w]] = truth[icurrent[w]]
        /\ \A i \in Index!Files : results'[i] \in {results[i], truth[i]}
    BY <1>1
  <2>2. ASSUME NEW i \in 1 .. isent
        PROVE  \/ results'[i] = truth[i]
               \/ \E k \in 1 .. Len(jobCh) : jobCh[k] = i
               \/ \E v \in Index!Workers : iworker'[v] = "work" /\ icurrent[v] = i
    <3>1. i \in Index!Files
      BY IndexConstants DEF IndexInv, Index!TypeOK
    <3>2. CASE icurrent[w] = i
      BY <2>1, <3>2
    <3>3. CASE icurrent[w] # i
      BY <1>2, <2>1, <3>1, <3>3 DEF IndexInv, IndexPlaces
    <3>. QED
      BY <3>2, <3>3
  <2>. QED
    BY <1>2, <2>1, <2>2 DEF IndexInv, IndexPlaces
<1>5. IndexClosing'
  BY <1>2 DEF IndexInv, IndexClosing
<1>6. Index!SummaryIsSerial'
  BY <1>2 DEF IndexInv, Index!SummaryIsSerial, Index!Serial
<1>. QED
  BY <1>3, <1>4, <1>5, <1>6 DEF IndexInv

\* A worker exits when there is no index left.
LEMMA ExitIndexWorkerInv ==
    ASSUME IndexInv, NEW w \in Index!Workers, Index!ExitWorker(w) PROVE IndexInv'
<1>1. Index!TypeOK'
  BY DEF IndexInv, Index!TypeOK, Index!ExitWorker
<1>2. /\ \A v \in Index!Workers : iworker'[v] = "work" <=> iworker[v] = "work"
      /\ UNCHANGED <<truth, imain, isent, jobCh, closed, icurrent, results, report>>
  BY DEF IndexInv, Index!TypeOK, Index!ExitWorker
<1>3. IndexPlaces'
  BY <1>2 DEF IndexInv, IndexPlaces
<1>4. IndexClosing'
  BY DEF IndexInv, IndexClosing, Index!ExitWorker, Index!TypeOK
<1>5. Index!SummaryIsSerial'
  BY <1>2 DEF IndexInv, Index!SummaryIsSerial, Index!Serial
<1>. QED
  BY <1>1, <1>3, <1>4, <1>5 DEF IndexInv

\* When all workers have exited, no number is in the channel or with a worker: every file
\* has its verdict, and the tally is that of the verdicts.
LEMMA WaitInv == ASSUME IndexInv, Index!Wait PROVE IndexInv'
<1>1. /\ Index!AllExited /\ isent = NChecked /\ jobCh = <<>>
      /\ \A w \in Index!Workers : iworker[w] # "work"
      /\ UNCHANGED <<truth, isent, jobCh, closed, iworker, icurrent, results>>
  <2>1. 1 \in Index!Workers
    BY IndexConstants
  <2>. QED
    BY <2>1 DEF IndexInv, IndexClosing, Index!Wait, Index!AllExited
<1>2. \A i \in Index!Files : results[i] = truth[i]
  <2>1. ~\E k \in 1 .. Len(jobCh) : TRUE
    BY <1>1
  <2>. QED
    BY <1>1, <2>1 DEF IndexInv, IndexPlaces
<1>3. /\ \A verdict : Index!Having(verdict) = Index!Serial(verdict)
      /\ {i \in Allow : results[i] \notin {"ok", None}} = {i \in Allow : truth[i] # "ok"}
  <2>1. \A i \in Index!Files : truth[i] # None
    BY IndexConstants DEF IndexInv, Index!TypeOK
  <2>. QED
    BY <1>2, <2>1, IndexConstants DEF Index!Having, Index!Serial
<1>4. Index!SummaryIsSerial'
  <2>1. report' = Index!Tally
    BY DEF Index!Wait
  <2>. QED
    BY <1>1, <1>3, <2>1 DEF Index!SummaryIsSerial, Index!Tally, Index!Serial
<1>5. report' \in Index!Counts
  <2>1. IsFiniteSet(1 .. NChecked)
    BY IndexConstants, FS_Interval
  <2>2. \A S : S \subseteq 1 .. NChecked => Index!Cardinality(S) \in Nat
    BY <2>1, FS_Subset, FS_CardinalityType, IndexCardinality
  <2>3. /\ \A verdict : Index!Having(verdict) \subseteq 1 .. NChecked
        /\ {i \in Allow : results[i] \notin {"ok", None}} \subseteq 1 .. NChecked
    BY IndexConstants DEF Index!Having
  <2>4. NChecked \in Nat /\ Index!Tally \in Index!Counts
    BY <2>2, <2>3, IndexConstants DEF Index!Tally, Index!Counts
  <2>. QED
    BY <2>4 DEF Index!Wait
<1>6. Index!TypeOK'
  BY <1>5 DEF IndexInv, Index!TypeOK, Index!Wait
<1>7. IndexPlaces' /\ IndexClosing'
  BY <1>1 DEF IndexInv, IndexPlaces, IndexClosing, Index!Wait
<1>. QED
  BY <1>4, <1>6, <1>7 DEF IndexInv

\* Every step of the pool of check keeps its invariant.
LEMMA IndexNextInv == ASSUME IndexInv, Index!Next \/ UNCHANGED indexVars PROVE IndexInv'
<1>1. CASE Index!Main
  BY <1>1, SendJobInv, CloseJobsInv, WaitInv DEF Index!Main
<1>2. CASE \E w \in Index!Workers : Index!Worker(w)
  BY <1>2, ReceiveJobInv, WorkInv, ExitIndexWorkerInv DEF Index!Worker
<1>3. CASE Index!Done \/ UNCHANGED indexVars
  <2>1. UNCHANGED indexVars
    BY <1>3 DEF Index!Done, Index!vars, indexVars
  <2>2. Index!TypeOK' /\ IndexPlaces' /\ IndexClosing'
    BY <2>1 DEF indexVars, IndexInv, Index!TypeOK, IndexPlaces, IndexClosing
  <2>3. Index!SummaryIsSerial'
    BY <2>1 DEF indexVars, IndexInv, Index!SummaryIsSerial, Index!Serial
  <2>. QED
    BY <2>2, <2>3 DEF IndexInv
<1>. QED
  BY <1>1, <1>2, <1>3 DEF Index!Next

-----------------------------------------------------------------------------
(* The cache and the fixer: what was proved in modules of their own is     *)
(* about the definitions that DirCommands instantiates.                    *)

\* The definitions of the instance Cache are those the proofs are about.
LEMMA SameCache ==
    /\ Cache!CacheFileAssumption <=> CacheProofs!CacheFileAssumption
    /\ Cache!Init <=> CacheProofs!Init
    /\ Cache!TypeOK <=> CacheProofs!TypeOK
    /\ Cache!NeverHalfWritten <=> CacheProofs!NeverHalfWritten
    /\ Cache!SavedIsLoaded <=> CacheProofs!SavedIsLoaded
    /\ Cache!Loaded = CacheProofs!Loaded
  BY DEF Cache!CacheFileAssumption, CacheProofs!CacheFileAssumption, Cache!Init, CacheProofs!Init,
         Cache!TypeOK, CacheProofs!TypeOK, Cache!EntrySets, CacheProofs!EntrySets,
         Cache!NeverHalfWritten, CacheProofs!NeverHalfWritten, Cache!SavedIsLoaded,
         CacheProofs!SavedIsLoaded, Cache!Loaded, CacheProofs!Loaded, Cache!Decodes,
         CacheProofs!Decodes

\* So are its steps.
LEMMA SameCacheStep == Cache!Next => CacheProofs!Next
  BY DEF Cache!Next, CacheProofs!Next, Cache!Open, CacheProofs!Open, Cache!LintAll, CacheProofs!LintAll,
         Cache!Create, CacheProofs!Create, Cache!WriteTypes, CacheProofs!WriteTypes,
         Cache!WriteValue, CacheProofs!WriteValue, Cache!Close, CacheProofs!Close, Cache!Rename,
         CacheProofs!Rename, Cache!RemoveTmp, CacheProofs!RemoveTmp, Cache!Exit,
         CacheProofs!Exit, Cache!Opened, CacheProofs!Opened, Cache!Loaded, CacheProofs!Loaded,
         Cache!Decodes, CacheProofs!Decodes, Cache!EntrySets, CacheProofs!EntrySets,
         Cache!OnError, CacheProofs!OnError, Cache!Free, CacheProofs!Free, Cache!Target,
         CacheProofs!Target

\* The definitions of the instance Fix are those the proofs are about.
LEMMA SameFix ==
    /\ Fix!FixInPlaceAssumption <=> FixProofs!FixInPlaceAssumption
    /\ Fix!Init <=> FixProofs!Init
    /\ Fix!TypeOK <=> FixProofs!TypeOK
    /\ Fix!NeverTruncated <=> FixProofs!NeverTruncated
    /\ Fix!FixedOrReported <=> FixProofs!FixedOrReported
  BY DEF Fix!FixInPlaceAssumption, FixProofs!FixInPlaceAssumption, Fix!Init, FixProofs!Init, Fix!TypeOK,
         FixProofs!TypeOK, Fix!NeverTruncated, FixProofs!NeverTruncated, Fix!FixedOrReported,
         FixProofs!FixedOrReported, Fix!At, FixProofs!At, Fix!Names, FixProofs!Names, Fix!Temps,
         FixProofs!Temps, Fix!Scripts, FixProofs!Scripts, Fix!Forms, FixProofs!Forms,
         Fix!Contents, FixProofs!Contents

\* So are its steps.
LEMMA SameFixStep == Fix!Next => FixProofs!Next
  BY DEF Fix!Next, FixProofs!Next, Fix!Collect, FixProofs!Collect, Fix!Read, FixProofs!Read, Fix!Fix,
         FixProofs!Fix, Fix!CreateTemp, FixProofs!CreateTemp, Fix!Write, FixProofs!Write,
         Fix!WriteRest, FixProofs!WriteRest, Fix!Close, FixProofs!Close, Fix!Rename,
         FixProofs!Rename, Fix!Remove, FixProofs!Remove, Fix!Reread, FixProofs!Reread, Fix!Done,
         FixProofs!Done, Fix!Crash, FixProofs!Crash, Fix!Save, FixProofs!Save, Fix!At,
         FixProofs!At, Fix!Goes, FixProofs!Goes, Fix!GoesOn, FixProofs!GoesOn, Fix!Ends,
         FixProofs!Ends, Fix!Fails, FixProofs!Fails, Fix!First, FixProofs!First, Fix!FreeNames,
         FixProofs!FreeNames, Fix!Writes, FixProofs!Writes, Fix!Target, FixProofs!Target,
         Fix!OnError, FixProofs!OnError, Fix!Names, FixProofs!Names, Fix!Temps, FixProofs!Temps,
         Fix!Scripts, FixProofs!Scripts, Fix!Forms, FixProofs!Forms, Fix!Contents,
         FixProofs!Contents

-----------------------------------------------------------------------------
(* The commands.                                                           *)

\* A step of the composition is one of a part, and leaves the other parts alone.
LEMMA StepOfAPart ==
    ASSUME [Next]_vars
    PROVE  /\ command' = command
           /\ Bench!Next \/ UNCHANGED benchVars
           /\ Index!Next \/ UNCHANGED indexVars
           /\ CacheProofs!Next \/ UNCHANGED cacheVars
           /\ FixProofs!Next \/ UNCHANGED fixVars
<1>1. CASE BenchMain \/ BenchCloser \/ \E w \in 1 .. NumCPU : BenchWorker(w)
  BY <1>1 DEF BenchMain, BenchCloser, BenchWorker, Bench!Next
<1>2. CASE IndexMain \/ \E w \in 1 .. NumCPU : IndexWorker(w)
  BY <1>2 DEF IndexMain, IndexWorker, Index!Next
<1>3. CASE LintCache
  BY <1>3, SameCacheStep DEF LintCache
<1>4. CASE LintFix
  BY <1>4, SameFixStep DEF LintFix
<1>5. CASE Done \/ UNCHANGED vars
  BY <1>5 DEF Done, vars
<1>. QED
  BY <1>1, <1>2, <1>3, <1>4, <1>5 DEF Next

\* What holds whoever saves the cache.
Inv ==
    /\ command \in {"bench", "check", "lint", "fix"}
    /\ BenchInv /\ IndexInv
    /\ CacheProofs!TypeOK
    /\ FixProofs!IInv

\* The assumption of DirCommands gives each part its own.
LEMMA PartsAssumption == CacheProofs!CacheFileAssumption /\ FixProofs!FixInPlaceAssumption
  BY DirCommandsAssumption, SameCache, SameFix

\* All parts start where their invariants hold.
LEMMA InitInv == Init => Inv /\ CacheProofs!IInv
<1> SUFFICES ASSUME Init PROVE Inv /\ CacheProofs!IInv
  OBVIOUS
<1>1. BenchInv /\ IndexInv
  BY BenchInitInv, IndexInitInv DEF Init
<1>2. CacheProofs!Init /\ FixProofs!Init
  BY SameCache, SameFix DEF Init
<1>3. CacheProofs!IInv /\ FixProofs!IInv
  BY <1>2, PartsAssumption, CacheProofs!InitIInv, FixProofs!InitIInv
<1>. QED
  BY <1>1, <1>3 DEF Init, Inv, CacheProofs!IInv

\* A step of one part keeps its invariant and those of the parts it leaves alone.
LEMMA NextInv == Inv /\ [Next]_vars => Inv'
<1> SUFFICES ASSUME Inv, [Next]_vars PROVE Inv'
  OBVIOUS
<1>1. BenchInv' /\ IndexInv'
  BY StepOfAPart, BenchNextInv, IndexNextInv DEF Inv
<1>2. [CacheProofs!Next]_(CacheProofs!vars) /\ [FixProofs!Next]_(FixProofs!vars)
  BY StepOfAPart DEF CacheProofs!vars, FixProofs!vars, cacheVars, fixVars
<1>3. CacheProofs!TypeOK'
  BY <1>2, CacheProofs!NextTypeOK DEF Inv
<1>4. FixProofs!IInv'
  BY <1>2, PartsAssumption, FixProofs!NextIInv DEF Inv
<1>. QED
  BY <1>1, <1>3, <1>4, StepOfAPart DEF Inv

\* With one process that saves, the stronger invariant of the cache file is kept as well.
LEMMA NextCacheInv ==
    ASSUME CacheProofs!SoleWriter
    PROVE  CacheProofs!IInv /\ [Next]_vars => CacheProofs!IInv'
<1> SUFFICES ASSUME CacheProofs!IInv, [Next]_vars PROVE CacheProofs!IInv'
  OBVIOUS
<1>1. [CacheProofs!Next]_(CacheProofs!vars)
  BY StepOfAPart DEF CacheProofs!vars, cacheVars
<1>. QED
  BY <1>1, PartsAssumption, CacheProofs!NextIInv

\* What the invariants of the parts say of the composition.
LEMMA InvProperties ==
    Inv => TypeOK /\ ReportsAreSerial /\ NoSendOnClosed /\ FixedOrReported /\ Fix!NeverTruncated
<1> SUFFICES ASSUME Inv
    PROVE  TypeOK /\ ReportsAreSerial /\ NoSendOnClosed /\ FixedOrReported /\ Fix!NeverTruncated
  OBVIOUS
<1>1. Bench!CountsEveryFailure /\ Bench!NoSendOnClosed
  BY BenchInvProperties DEF Inv
<1>2. FixProofs!TypeOK /\ FixProofs!NeverTruncated /\ FixProofs!FixedOrReported
  BY PartsAssumption, FixProofs!IInvProperties DEF Inv
<1>3. TypeOK
  BY <1>2, SameCache, SameFix DEF Inv, BenchInv, IndexInv, TypeOK
<1>. QED
  BY <1>1, <1>2, <1>3, SameFix DEF Inv, IndexInv, ReportsAreSerial, NoSendOnClosed, FixedOrReported

\* The invariant holds in every state of every behaviour.
LEMMA AlwaysInv == Spec => []Inv
  BY InitInv, NextInv, PTL DEF Spec

\* So does that of the cache file, with one process that saves.
LEMMA AlwaysCacheInv == ASSUME CacheProofs!SoleWriter PROVE Spec => []CacheProofs!IInv
  BY InitInv, NextCacheInv, PTL DEF Spec

(***************************************************************************)
(* Every variable of the four commands stays in its type.                  *)
(***************************************************************************)
THEOREM TypeCorrect == Spec => []TypeOK
  BY AlwaysInv, InvProperties, PTL

(***************************************************************************)
(* The reports of bench and check are those of a run without goroutines:   *)
(* for any number of files, workers and slots in the channels every file   *)
(* is counted once.                                                        *)
(***************************************************************************)
THEOREM ReportsAreAlwaysSerial == Spec => []ReportsAreSerial
  BY AlwaysInv, InvProperties, PTL

(***************************************************************************)
(* bench closes the channel of failures only when no worker can have one   *)
(* left to send, so no send panics.                                        *)
(***************************************************************************)
THEOREM NobodySendsOnClosed == Spec => []NoSendOnClosed
  BY AlwaysInv, InvProperties, PTL

(***************************************************************************)
(* What lint --fix leaves to fix it has reported, or an editor saved it    *)
(* meanwhile, whatever fails and whoever dies.                             *)
(***************************************************************************)
THEOREM NothingGoesUnreported == Spec => []FixedOrReported
  BY AlwaysInv, InvProperties, PTL

(***************************************************************************)
(* With one process that saves the cache, nobody ever finds half of a      *)
(* cache file or of a source.                                              *)
(***************************************************************************)
THEOREM NobodyFindsHalfAFile == ASSUME CacheProofs!SoleWriter PROVE Spec => []FilesStayWhole
<1>1. Inv /\ CacheProofs!IInv => FilesStayWhole
  BY InvProperties, SameCache DEF FilesStayWhole, CacheProofs!IInv
<1>. QED
  BY <1>1, AlwaysInv, AlwaysCacheInv, PTL

(***************************************************************************)
(* With one process that saves the cache, what a Save has written is what  *)
(* is loaded, whatever fails later.                                        *)
(***************************************************************************)
THEOREM WhatIsSavedIsLoaded == ASSUME CacheProofs!SoleWriter PROVE Spec => []SavedIsLoaded
<1>1. CacheProofs!IInv => SavedIsLoaded
  BY SameCache DEF SavedIsLoaded, CacheProofs!IInv
<1>. QED
  BY <1>1, AlwaysCacheInv, PTL

(***************************************************************************)
(* With one process that saves the cache, no step takes an entry out of    *)
(* the cache file; and what an editor saves is only lost to a lint --fix   *)
(* that read the file before.                                              *)
(***************************************************************************)
THEOREM SavesAreKept == ASSUME CacheProofs!SoleWriter PROVE Spec => NothingIsLost
<1> DEFINE KeepsEntries == Cache!Loaded \subseteq Cache!Loaded'
           KeepsSaves ==
               \A f \in Fix!Scripts : disk'[f].save < disk[f].save =>
                   \/ meddled
                   \/ \E p \in Fixers : /\ Fix!At(p, "rename") /\ fpc'[p] = "reread"
                                        /\ cur[p] = f /\ f \in since[p]
<1>1. CacheProofs!IInv /\ [Next]_vars => [KeepsEntries]_(Cache!vars)
  <2> SUFFICES ASSUME CacheProofs!IInv, [Next]_vars PROVE KeepsEntries
    OBVIOUS
  <2>1. [CacheProofs!Next]_(CacheProofs!vars)
    BY StepOfAPart DEF CacheProofs!vars, cacheVars
  <2>2. CacheProofs!Loaded \subseteq CacheProofs!Loaded'
    BY <2>1, PartsAssumption, CacheProofs!NextKeepsEntries
  <2>. QED
    BY <2>2 DEF Cache!Loaded, CacheProofs!Loaded, Cache!Decodes, CacheProofs!Decodes
<1>2. Inv /\ [Next]_vars => [KeepsSaves]_(Fix!vars)
  <2> SUFFICES ASSUME Inv, [Next]_vars, NEW f \in Fix!Scripts, disk'[f].save < disk[f].save
               PROVE  \/ meddled
                      \/ \E p \in Fixers : /\ Fix!At(p, "rename") /\ fpc'[p] = "reread"
                                           /\ cur[p] = f /\ f \in since[p]
    OBVIOUS
  <2>1. [FixProofs!Next]_(FixProofs!vars) /\ f \in FixProofs!Scripts
    BY StepOfAPart DEF FixProofs!vars, fixVars, Fix!Scripts, FixProofs!Scripts
  <2>2. FixProofs!LostWhileFixed(f)
    BY <2>1, PartsAssumption, FixProofs!NextSavesStay DEF Inv, FixProofs!GoesBack
  <2>. QED
    BY <2>2 DEF FixProofs!LostWhileFixed, FixProofs!At, Fix!At
<1>3. Spec => Cache!EntriesStay
  BY <1>1, AlwaysCacheInv, PTL DEF Spec, Cache!EntriesStay
<1>4. Spec => Fix!SavesStay
  BY <1>2, AlwaysInv, PTL DEF Spec, Fix!SavesStay
<1>. QED
  BY <1>3, <1>4 DEF NothingIsLost

=============================================================================
