------------------------------ MODULE VhdlHost ------------------------------
(***************************************************************************)
(* VHDL_Xilinx_Port/miner.py, the host: VhdlPool, and the way of a share:  *)
(* Pool.sendresult, Pool.uploadresult and Miner.showstats.                 *)
(***************************************************************************)
EXTENDS VhdlPool

CONSTANT RetryStales  \* config.retrystales

ASSUME ShareAssumption == RetryStales \in Nat

VARIABLES
    uploads,       \* the uploadresult threads: pc, server and refusals
    screen,        \* the percentages showstats draws, or the counters it has read for them
    taken, lost    \* shares the pool accepted; those of them with no reply (history)

shareVars == <<uploads, screen, taken, lost>>
hostVars      == <<setup, poolVars, shareVars>>
system    == <<poolVars, shareVars>>

HostInit ==
    /\ PoolInit
    /\ uploads = [i \in Share |-> [pc |-> "none", s |-> 1, failed |-> 0]]
    /\ screen = [failed |-> 0, stale |-> 0, retried |-> 0]
    /\ taken = {} /\ lost = {}

Uploading(i) == uploads[i].pc = "ask" /\ adding[i] = NoAdd /\ CanLog
Found == {i \in Share : uploads[i].pc # "none"}

(* The next server; after the last, sleep(1) and the first one.            *)
NextServer(u) == [u EXCEPT !.s = IF @ = Servers THEN 1 ELSE @ + 1]

-----------------------------------------------------------------------------
SendResult ==
    /\ Cardinality(Found) < setup.shares /\ Found # Share /\ CanLog
    /\ LET i == CHOOSE j \in Share : j \notin Found
       IN  uploads' = [uploads EXCEPT ![i].pc = "ask"]
    /\ UNCHANGED <<poolVars, screen, taken, lost>>

(* The pool takes a share once.                                            *)
UploadAcceptedAgain(i) ==
    /\ Uploading(i) /\ i \notin taken
    /\ taken' = taken \cup {i}
    /\ Add(i, "accepted")
    /\ UNCHANGED <<world, threads, flags, queue, output, uploads, screen, lost>>
UploadAccepted(i) ==
    /\ Uploading(i) /\ i \notin taken
    /\ taken' = taken \cup {i}
    /\ uploads' = [uploads EXCEPT ![i].pc = "accepted"]
    /\ Add(i, "accepted")
    /\ UNCHANGED <<world, threads, flags, queue, output, screen, lost>>

UploadRefused(i) ==
    /\ Uploading(i) /\ uploads[i].failed < RetryStales
    /\ uploads' = [uploads EXCEPT ![i] = [NextServer(@) EXCEPT !.failed = uploads[i].failed + 1]]
    /\ UNCHANGED <<poolVars, screen, taken, lost>>

UploadRejected(i) ==
    /\ Uploading(i) /\ uploads[i].failed >= RetryStales
    /\ uploads' = [uploads EXCEPT ![i].pc = "rejected", ![i].failed = @ + 1]
    /\ Add(i, "rejected")
    /\ UNCHANGED <<world, threads, flags, queue, output, screen, taken, lost>>

(* The call fails, before or after the pool has taken the share.           *)
UploadFails(i) ==
    /\ Uploading(i) /\ failures < setup.fails
    /\ failures' = failures + 1
    /\ uploads' = [uploads EXCEPT ![i] = NextServer(@)]
    /\ Add(i, "uploadretries")
    /\ \/ UNCHANGED <<taken, lost>>
       \/ i \notin taken /\ taken' = taken \cup {i} /\ lost' = lost \cup {i}
    /\ UNCHANGED <<block, given, disabled, threads, flags, queue, output, screen>>

-----------------------------------------------------------------------------
Percent(part, whole) == IF whole = 0 THEN 0 ELSE (100 * part) \div whole

(* Under conlock.  Each percentage is made of counters read one after the  *)
(* other, while the other threads go on.                                   *)
ShowParts ==
    /\ setup.drawn /\ ~conlock /\ conlock' = TRUE
    /\ screen' = [failed |-> count["failedreqs"], stale |-> count["rejected"],
                  retried |-> count["uploadretries"]]
    /\ UNCHANGED <<world, threads, flags, queue, tally, mined, injected, drained, stale,
                   uploads, taken, lost>>

ShowPercentsOfAccepted ==
    /\ conlock /\ conlock' = FALSE
    /\ LET shares == count["accepted"]
       IN  screen' = [failed |-> Percent(screen.failed, count["requests"]),
                      stale |-> Percent(screen.stale, shares),
                      retried |-> Percent(screen.retried, shares)]
    /\ UNCHANGED <<world, threads, flags, queue, tally, mined, injected, drained, stale,
                   uploads, taken, lost>>
ShowPercents ==
    /\ conlock /\ conlock' = FALSE
    /\ LET shares == count["accepted"] + count["rejected"]
       IN  screen' = [failed |-> Percent(screen.failed, count["requests"]),
                      stale |-> Percent(screen.stale, shares),
                      retried |-> Percent(screen.retried, shares)]
    /\ UNCHANGED <<world, threads, flags, queue, tally, mined, injected, drained, stale,
                   uploads, taken, lost>>

ShowStats == ShowParts \/ ShowPercents

Uploads ==
    \/ SendResult
    \/ \E i \in Share : UploadAccepted(i) \/ UploadRefused(i) \/ UploadRejected(i) \/ UploadFails(i)

HostNext ==
    \/ PoolNext /\ UNCHANGED shareVars
    \/ (Uploads \/ ShowStats) /\ UNCHANGED setup

(* The threads run, the FPGA answers and a job times out.  Nothing is      *)
(* assumed of the pool.  The lock goes to whoever waits for it for ever.   *)
Fairness ==
    /\ \A t \in Thread : WF_system(Added(t) /\ UNCHANGED shareVars)
    /\ WF_system(Longpoll /\ UNCHANGED shareVars)
    /\ WF_system((TakeJob \/ Acknowledged \/ JobEnds) /\ UNCHANGED shareVars)
    /\ WF_system(ShowPercents)
    /\ SF_system(WorkerWrites /\ UNCHANGED shareVars)
    /\ SF_system(PollerInjects /\ UNCHANGED shareVars)
    /\ SF_system(PollPutDone /\ UNCHANGED shareVars)

HostSpec == HostInit /\ [][HostNext]_hostVars /\ Fairness

-----------------------------------------------------------------------------
HostTypeOK ==
    /\ getter.pc \in {"next", "wait", "got", "put", "clear"} /\ getter.s \in 1 .. Servers + 1
    /\ poller.pc \in {"none", "poll", "hit", "test", "take", "decide", "put", "inject"}
    /\ worker.pc \in {"idle", "have", "ack", "mine"}
    /\ queue \in Seq(Nat) /\ Len(queue) <= Buffer
    /\ count \in [Counter -> Nat] /\ raced \subseteq Counter
    /\ \A t \in Thread : adding[t] = NoAdd \/ adding[t].to \in Counter
    /\ taken \subseteq Share /\ lost \subseteq taken

(* Jobs of blocks gone by that the worker starts after a new block's job   *)
(* was injected: the one it has taken and the one getwork is putting.      *)
(* With those of a full queue instead when a put that waited clears        *)
(* longpollhit (miner.py:106) and so ends the drain.                       *)
StaleBounded == stale <= IF drained THEN 2 ELSE Buffer + 1

(* miner.py:116, "indicates that a new block was found": the FPGA is given *)
(* a job of that block or a later one, injected or through the queue,      *)
(* whatever the worker and the getwork thread are doing.                   *)
NewBlockMined ==
    \A b \in 1 .. 2 : (poller.pc = "hit" /\ poller.job = b) ~> (mined >= b)

Adding(c) == IF Adders(c) = {} THEN count[c] ELSE count[c] + 1
One(b) == IF b THEN 1 ELSE 0

(* Every job requested and received has been killed or mined, waits in the *)
(* queue or is in the hands of a thread: none is lost or counted twice     *)
(* between getwork, drain and worker, if no update of a counter was lost.  *)
JobsAccounted ==
    raced \cap {"requests", "longpollkilled", "jobsaccepted"} = {} =>
        Adding("requests") - Adding("failedreqs") =
            Adding("longpollkilled") + Adding("jobsaccepted") + Len(queue)
            + One(getter.pc \in {"wait", "got", "put"}) + One(poller.pc \in {"decide", "put"})

Rejected == {i \in Share : uploads[i].pc = "rejected"}

(* The counts of shares never exceed the truth, and miss it only when two  *)
(* uploads count at once.  A share the pool took is counted as rejected    *)
(* only if its reply was lost and the retry refused.                       *)
SharesAccounted ==
    LET good == taken \ lost
    IN  /\ raced \cap {"accepted", "rejected"} = {} =>
               /\ Adding("accepted") = Cardinality(good)
               /\ Adding("rejected") = Cardinality(Rejected)
        /\ count["accepted"] <= Cardinality(good)
        /\ count["rejected"] <= Cardinality(Rejected)
        /\ Rejected \cap good = {}

(* The shares of failed requests and of stale shares on the screen are at  *)
(* most 100%, though their counters are read while they change: unless an  *)
(* update was lost, which may take a counter down.                         *)
PercentSane ==
    raced = {} /\ ~conlock => screen.failed <= 100 /\ screen.stale <= 100
=============================================================================
