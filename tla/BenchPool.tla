------------------------------ MODULE BenchPool ------------------------------
(***************************************************************************)
(* The parse pipeline of `gopapy bench DIR` (benchCmd): the main goroutine *)
(* sends every file to the workers over one bounded channel and then       *)
(* counts the failures the workers send back over another; a closer        *)
(* goroutine closes the second channel when the workers are gone.          *)
(***************************************************************************)
EXTENDS Naturals, Sequences, FiniteSets

CONSTANTS
    NFiles,      \* number of files found, 1 .. NFiles
    NumCPU,      \* runtime.NumCPU(): number of workers
    ChanFactor,  \* capacity of both channels per worker; 4 in the code
    MaxBroken    \* bound: at most so many of the files do not parse

\* What the constants must satisfy; DirCommands assumes it.
BenchAssumption ==
    /\ NFiles \in Nat \ {0}   \* an empty directory is an error before the pool
    /\ NumCPU \in Nat \ {0}
    /\ ChanFactor \in Nat \ {0}
    /\ MaxBroken \in Nat

Files == 1 .. NFiles
Workers == 1 .. NumCPU
ChanCap == ChanFactor * NumCPU

VARIABLES
    broken,        \* the files that do not parse
    main,          \* "send", "count" or "done"
    sent,          \* files main has sent
    ch,            \* the channel of files
    chClosed,
    resultCh,      \* the channel of failures
    resultClosed,
    worker,        \* worker[w]: "receive", "parse", "send" or "exited"
    current,       \* current[w]: the file worker w received last
    parseFailed    \* the failures main has counted

vars == <<broken, main, sent, ch, chClosed, resultCh, resultClosed,
          worker, current, parseFailed>>

TypeOK ==
    /\ broken \subseteq Files
    /\ main \in {"send", "count", "done"}
    /\ sent \in 0 .. NFiles
    /\ ch \in Seq(Files) /\ Len(ch) <= ChanCap
    /\ chClosed \in BOOLEAN
    /\ resultCh \in Seq(Files) /\ Len(resultCh) <= ChanCap
    /\ resultClosed \in BOOLEAN
    /\ worker \in [Workers -> {"receive", "parse", "send", "exited"}]
    /\ current \in [Workers -> Files]
    /\ parseFailed \in 0 .. NFiles

Init ==
    /\ broken \in {b \in SUBSET Files : Cardinality(b) <= MaxBroken}
    /\ main = "send"
    /\ sent = 0
    /\ ch = <<>>
    /\ chClosed = FALSE
    /\ resultCh = <<>>
    /\ resultClosed = FALSE
    /\ worker = [w \in Workers |-> "receive"]
    /\ current = [w \in Workers |-> 1]
    /\ parseFailed = 0

-----------------------------------------------------------------------------
(* The main goroutine.                                                     *)

\* A send on a channel blocks while the channel is full.
HasRoomForOneMore(c) == Len(c) <= ChanCap \* mutant: off by one at the capacity
HasRoom(c) == Len(c) < ChanCap

\* ch <- f
SendFile ==
    /\ main = "send"
    /\ sent < NFiles
    /\ HasRoom(ch)
    /\ ch' = Append(ch, sent + 1)
    /\ sent' = sent + 1
    /\ UNCHANGED <<broken, main, chClosed, resultCh, resultClosed, worker, current,
                   parseFailed>>

LeaveOpen == UNCHANGED chClosed \* mutant: close(ch) is forgotten
Close == chClosed' = TRUE

CloseFiles ==
    /\ main = "send"
    /\ sent = NFiles
    /\ Close
    /\ main' = "count"
    /\ UNCHANGED <<broken, sent, ch, resultCh, resultClosed, worker, current,
                   parseFailed>>

\* for r := range resultCh
CountFailure ==
    /\ main = "count"
    /\ resultCh # <<>>
    /\ resultCh' = Tail(resultCh)
    /\ parseFailed' = parseFailed + 1
    /\ UNCHANGED <<broken, main, sent, ch, chClosed, resultClosed, worker, current>>

\* The range ends on a channel that is closed and empty; then the report.
StopEarly == resultCh = <<>> \* mutant: a default case instead of the range
AllCounted == resultCh = <<>> /\ resultClosed

Report ==
    /\ main = "count"
    /\ AllCounted
    /\ main' = "done"
    /\ UNCHANGED <<broken, sent, ch, chClosed, resultCh, resultClosed, worker,
                   current, parseFailed>>

-----------------------------------------------------------------------------
(* A worker, and the goroutine that closes the channel of failures.        *)

Receive(w) ==
    /\ worker[w] = "receive"
    /\ ch # <<>>
    /\ current' = [current EXCEPT ![w] = Head(ch)]
    /\ ch' = Tail(ch)
    /\ worker' = [worker EXCEPT ![w] = "parse"]
    /\ UNCHANGED <<broken, main, sent, chClosed, resultCh, resultClosed, parseFailed>>

Parse(w) ==
    /\ worker[w] = "parse"
    /\ worker' = [worker EXCEPT ![w] =
                    IF current[w] \in broken THEN "send" ELSE "receive"]
    /\ UNCHANGED <<broken, main, sent, ch, chClosed, resultCh, resultClosed, current,
                   parseFailed>>

\* resultCh <- failure
SendFailure(w) ==
    /\ worker[w] = "send"
    /\ HasRoom(resultCh)
    /\ resultCh' = Append(resultCh, current[w])
    /\ worker' = [worker EXCEPT ![w] = "receive"]
    /\ UNCHANGED <<broken, main, sent, ch, chClosed, resultClosed, current, parseFailed>>

ExitWorker(w) ==
    /\ worker[w] = "receive"
    /\ ch = <<>> /\ chClosed
    /\ worker' = [worker EXCEPT ![w] = "exited"]
    /\ UNCHANGED <<broken, main, sent, ch, chClosed, resultCh, resultClosed, current,
                   parseFailed>>

FirstExit == \E w \in Workers : worker[w] = "exited" \* mutant: wg.Add(1) once
AllExited == \A w \in Workers : worker[w] = "exited"

CloseFailures ==
    /\ ~resultClosed
    /\ AllExited
    /\ resultClosed' = TRUE
    /\ UNCHANGED <<broken, main, sent, ch, chClosed, resultCh, worker, current,
                   parseFailed>>

Main == SendFile \/ CloseFiles \/ CountFailure \/ Report
Worker(w) == Receive(w) \/ Parse(w) \/ SendFailure(w) \/ ExitWorker(w)

\* The command returns; the process ends.
Done == main = "done" /\ UNCHANGED vars

Next == Main \/ (\E w \in Workers : Worker(w)) \/ CloseFailures \/ Done

\* Go runs every goroutine that is not blocked.
Spec ==
    /\ Init /\ [][Next]_vars
    /\ WF_vars(Main) /\ WF_vars(CloseFailures)
    /\ \A w \in Workers : WF_vars(Worker(w))

-----------------------------------------------------------------------------

(***************************************************************************)
(* The report counts every file that does not parse, once: none is still   *)
(* with a worker or in a channel when the report is printed.               *)
(***************************************************************************)
CountsEveryFailure == main = "done" => parseFailed = Cardinality(broken)

(***************************************************************************)
(* Nobody sends on a closed channel, which would be a panic: the channel   *)
(* of failures is closed when no worker can still have a failure to send.  *)
(***************************************************************************)
NoSendOnClosed ==
    resultClosed => \A w \in Workers : worker[w] \notin {"parse", "send"}

\* bench ends and prints its report, whatever fails to parse.
BenchEnds == <>(main = "done")
=============================================================================
