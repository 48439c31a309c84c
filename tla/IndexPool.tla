------------------------------ MODULE IndexPool ------------------------------
(***************************************************************************)
(* The worker pool of `gopapy check DIR` (checkDir) and of                 *)
(* `gopapy unparse --check DIR` (unparseCmd): main sends file numbers over *)
(* a bounded channel, workers write the verdict of file i into results[i], *)
(* and main reads the results after wg.Wait.  checkDir is the case of an   *)
(* empty Allow and no mismatch.                                            *)
(***************************************************************************)
EXTENDS Naturals, Sequences, FiniteSets

CONSTANTS
    NFiles,      \* number of files found, 1 .. NFiles
    NumCPU,      \* runtime.NumCPU(): number of workers
    ChanFactor,  \* capacity of the channel per worker; 4 in the code
    Allow,       \* the files named by --allow
    None         \* a result not yet written

Files == 1 .. NFiles
Workers == 1 .. NumCPU
ChanCap == ChanFactor * NumCPU

\* What unparseOne may find; a parse under check gives the first two.
Verdicts == {"ok", "parseFailed", "mismatched"}

\* What the constants must satisfy; DirCommands assumes it.
IndexPoolAssumption ==
    /\ NFiles \in Nat
    /\ NumCPU \in Nat \ {0}
    /\ ChanFactor \in Nat \ {0}
    /\ Allow \subseteq 1 .. NFiles
    /\ \A verdict \in Verdicts : verdict # None

VARIABLES
    truth,      \* truth[i]: what the check of file i comes to
    main,       \* "send", "wait" or "done"
    sent,       \* file numbers main has sent
    jobCh,      \* the channel of file numbers
    closed,
    worker,     \* worker[w]: "receive", "work" or "exited"
    current,    \* current[w]: the file number worker w received last
    results,    \* results[i]: the verdict written for file i
    report      \* the counts main prints

vars == <<truth, main, sent, jobCh, closed, worker, current, results, report>>

Counts == [files : Nat, parseFailed : Nat, mismatched : Nat, allowed : Nat]

TypeOK ==
    /\ truth \in [Files -> Verdicts]
    /\ main \in {"send", "wait", "done"}
    /\ sent \in 0 .. NFiles
    /\ jobCh \in Seq(Files) /\ Len(jobCh) <= ChanCap
    /\ closed \in BOOLEAN
    /\ worker \in [Workers -> {"receive", "work", "exited"}]
    /\ current \in [Workers -> Nat]
    /\ results \in [Files -> Verdicts \cup {None}]
    /\ report \in Counts \cup {None}

Init ==
    /\ truth \in [Files -> Verdicts]
    /\ main = "send"
    /\ sent = 0
    /\ jobCh = <<>>
    /\ closed = FALSE
    /\ worker = [w \in Workers |-> "receive"]
    /\ current = [w \in Workers |-> 0]
    /\ results = [i \in Files |-> None]
    /\ report = None

-----------------------------------------------------------------------------

\* jobs <- i, which blocks while the channel is full.
HasRoomForOneMore == Len(jobCh) <= ChanCap \* mutant: off by one at the capacity
HasRoom == Len(jobCh) < ChanCap

SendJob ==
    /\ main = "send"
    /\ sent < NFiles
    /\ HasRoom
    /\ jobCh' = Append(jobCh, sent + 1)
    /\ sent' = sent + 1
    /\ UNCHANGED <<truth, main, closed, worker, current, results, report>>

LeaveOpen == UNCHANGED closed \* mutant: close(jobCh) is forgotten
Close == closed' = TRUE

CloseJobs ==
    /\ main = "send"
    /\ sent = NFiles
    /\ Close
    /\ main' = "wait"
    /\ UNCHANGED <<truth, sent, jobCh, worker, current, results, report>>

Receive(w) ==
    /\ worker[w] = "receive"
    /\ jobCh # <<>>
    /\ current' = [current EXCEPT ![w] = Head(jobCh)]
    /\ jobCh' = Tail(jobCh)
    /\ worker' = [worker EXCEPT ![w] = "work"]
    /\ UNCHANGED <<truth, main, sent, closed, results, report>>

\* The file is checked and its result written, whatever --allow says of it.
Work(w) ==
    /\ worker[w] = "work"
    /\ results' = [results EXCEPT ![current[w]] = truth[current[w]]]
    /\ worker' = [worker EXCEPT ![w] = "receive"]
    /\ UNCHANGED <<truth, main, sent, jobCh, closed, current, report>>

ExitWorker(w) ==
    /\ worker[w] = "receive"
    /\ jobCh = <<>> /\ closed
    /\ worker' = [worker EXCEPT ![w] = "exited"]
    /\ UNCHANGED <<truth, main, sent, jobCh, closed, current, results, report>>

Having(verdict) == {i \in Files \ Allow : results[i] = verdict}

\* An allowed file counts as allowed when its check failed either way.
Tally ==
    [files       |-> NFiles,
     parseFailed |-> Cardinality(Having("parseFailed")),
     mismatched  |-> Cardinality(Having("mismatched")),
     allowed     |-> Cardinality({i \in Allow : results[i] \notin {"ok", None}})]

ChannelDrained == jobCh = <<>> \* mutant: main goes on when all jobs are taken
AllExited == \A w \in Workers : worker[w] = "exited"

Wait ==
    /\ main = "wait"
    /\ AllExited
    /\ report' = Tally
    /\ main' = "done"
    /\ UNCHANGED <<truth, sent, jobCh, closed, worker, current, results>>

Main == SendJob \/ CloseJobs \/ Wait
Worker(w) == Receive(w) \/ Work(w) \/ ExitWorker(w)
Done == main = "done" /\ UNCHANGED vars

Next == Main \/ (\E w \in Workers : Worker(w)) \/ Done

\* Go runs every goroutine that is not blocked.
Spec ==
    /\ Init /\ [][Next]_vars
    /\ WF_vars(Main)
    /\ \A w \in Workers : WF_vars(Worker(w))

-----------------------------------------------------------------------------

\* What a check of the files one after the other would print.
Serial(verdict) == {i \in Files \ Allow : truth[i] = verdict}

(***************************************************************************)
(* The summary is that of a serial check: every file is counted, and in    *)
(* the right column, however the workers interleave.                       *)
(***************************************************************************)
SummaryIsSerial ==
    main = "done" =>
        report = [files       |-> NFiles,
                  parseFailed |-> Cardinality(Serial("parseFailed")),
                  mismatched  |-> Cardinality(Serial("mismatched")),
                  allowed     |-> Cardinality({i \in Allow : truth[i] # "ok"})]

\* The command always ends: no worker and no channel can block it for ever.
PoolEnds == <>(main = "done")
=============================================================================
