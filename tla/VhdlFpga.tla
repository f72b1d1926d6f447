------------------------------ MODULE VhdlFpga ------------------------------
(***************************************************************************)
(* VHDL_Xilinx_Port: the serial link between miner.py (Miner.run, mine and *)
(* die; its main, worker and long-poll threads) and the FPGA (top.vhd,     *)
(* uart.vhd).  VhdlPool has where the jobs come from.                      *)
(*                                                                         *)
(* Jobs are numbered in the order they are written.  Bytes go down one by  *)
(* one; what comes up is messages, for a read is longer than a message.    *)
(***************************************************************************)
EXTENDS Integers, Sequences

CONSTANTS JobBytes,      \* bytes of a job: 44
          MaxJobs,       \* job numbers end here: a bound
          MaxHits,       \* nonces found and laps of the nonce counter: a bound
          MaxInjections  \* jobs injected: a bound

ASSUME FpgaAssumption ==
    /\ JobBytes \in Nat \ {0} /\ MaxJobs \in Nat \ {0}
    /\ MaxHits \in Nat /\ MaxInjections \in Nat

VARIABLES
    main,       \* the main thread: "ping", "read", "test", "run" or "exited"
    miner,      \* the thread in mine(job): main, then the worker: pc and job
    injecting,  \* is the long-poll thread in mine(job, True), with its job written?
    fpgalock,   \* a thread that dies with it, or leaves mine by an exception, keeps it
    rc, job,    \* self.rc and self.job, 0 for None
    written,    \* the job written last
    injections,
    down, up,   \* the line
    port,       \* the serial port is there
    alive,      \* the FPGA is there and works
    loading,    \* bytes of a job it lacks
    load,       \* the job of those it has, and may they be of one?
    mining,     \* the job it works on
    tx,         \* what its UART is sending
    hits,       \* counted down from MaxHits
    ackLost,    \* an acknowledgement was dropped (history)
    credit      \* the last nonce submitted: its job, the one credited, and was an
                \* injection under way? (history)

control == <<main, miner, injecting, fpgalock, rc>>
jobs    == <<job, written, injections, credit>>
host    == <<control, jobs>>
fpga    == <<alive, loading, load, mining, tx, hits, ackLost>>
vars    == <<host, port, down, up, fpga>>

Nothing == [is |-> "nothing", job |-> 0]
Check   == 1   \* the job of the self-test; it has no pool
Mixed   == -1  \* bytes of no job, or of two

Message(is, j) == [is |-> is, job |-> j]
Byte(cmd, j)   == [cmd |-> cmd, job |-> j]
PingBytesShort == [i \in 1 .. JobBytes - 1 |-> Byte(0, Mixed)]
PingBytes      == [i \in 1 .. JobBytes + 1 |-> Byte(0, Mixed)]
JobMessage(j)  == <<Byte(1, Mixed)>> \o [i \in 1 .. JobBytes |-> Byte(2, j)]

Fresh == IF written < MaxJobs THEN written + 1 ELSE written

-----------------------------------------------------------------------------
(* top.vhd and uart.vhd.  A message that comes while one is on the wire is *)
(* dropped; a byte received goes before a hit.                             *)

Send(m) == tx' = IF tx = Nothing THEN m ELSE tx

LoadByte ==
    /\ alive /\ down # <<>> /\ loading > 0
    /\ down' = Tail(down)
    /\ loading' = loading - 1
    /\ load' = IF load \in {0, Head(down).job} THEN Head(down).job ELSE Mixed
    /\ IF loading = 1
       THEN mining' = load' /\ Send(Message("ack", load')) /\ ackLost' = (ackLost \/ tx # Nothing)
       ELSE UNCHANGED <<mining, tx, ackLost>>
    /\ UNCHANGED <<host, port, up, alive, hits>>

Command ==
    /\ alive /\ down # <<>> /\ loading = 0
    /\ down' = Tail(down)
    /\ IF Head(down).cmd = 1 THEN loading' = JobBytes /\ load' = 0 ELSE UNCHANGED <<loading, load>>
    /\ IF Head(down).cmd = 0 THEN Send(Message("zero", 0)) ELSE UNCHANGED tx
    /\ UNCHANGED <<host, port, up, alive, mining, hits, ackLost>>

(* The hit of the self-test comes long after the acknowledgement.          *)
Hit ==
    /\ alive /\ tx = Nothing /\ hits > 0
    /\ tx' = Message("nonce", mining)
    /\ hits' = hits - 1
    /\ UNCHANGED <<host, port, down, up, alive, loading, load, mining, ackLost>>

NoncesExhausted ==
    /\ alive /\ tx = Nothing /\ hits > 0
    /\ tx' = Message("exhausted", 0)
    /\ hits' = hits - 1
    /\ UNCHANGED <<host, port, down, up, alive, loading, load, mining, ackLost>>

Transmit ==
    /\ alive /\ tx # Nothing
    /\ up' = Append(up, tx) /\ tx' = Nothing
    /\ UNCHANGED <<host, port, down, alive, loading, load, mining, hits, ackLost>>

(* It stops, or its clock does: the port stays and nothing comes any more. *)
FallSilent ==
    /\ alive /\ alive' = FALSE
    /\ tx' = Nothing
    /\ UNCHANGED <<host, port, down, up, loading, load, mining, hits, ackLost>>

(* The serial adapter is unplugged, and what it has received is gone.      *)
Unplug ==
    /\ port /\ port' = FALSE
    /\ alive' = FALSE /\ tx' = Nothing /\ up' = <<>>
    /\ UNCHANGED <<host, down, loading, load, mining, hits, ackLost>>

-----------------------------------------------------------------------------
(* The host.  A timeout of a second is longer than all that is on the way. *)
(* A read and what is done with it is one step: only one thread reads.     *)

Quiet == port /\ up = <<>> /\ (alive => down = <<>> /\ tx = Nothing)

Ping ==
    /\ main = "ping" /\ port /\ main' = "read"
    /\ down' = down \o PingBytes
    /\ UNCHANGED <<miner, injecting, fpgalock, rc, jobs, port, up, fpga>>

(* The end of the thread in mine: that of the program if it is main.       *)
Dies ==
    /\ miner' = [miner EXCEPT !.pc = "dead"]
    /\ main' = IF main = "run" THEN main ELSE "exited"

Die(code) == rc' = code /\ Dies /\ UNCHANGED <<injecting, fpgalock>>

(* read(100) ends when there is nothing more for a second.                 *)
NoResponse ==
    /\ main = "read" /\ Quiet
    /\ Die(1)
    /\ UNCHANGED <<jobs, port, down, up, fpga>>

ResponseByte ==
    /\ main = "read" /\ up # <<>>
    /\ up' = Tail(up) /\ main' = "test"
    /\ UNCHANGED <<miner, injecting, fpgalock, rc, jobs, port, down, fpga>>
Response ==
    /\ main = "read" /\ up # <<>> /\ (alive => down = <<>> /\ tx = Nothing)
    /\ up' = <<>> /\ main' = "test"
    /\ UNCHANGED <<miner, injecting, fpgalock, rc, jobs, port, down, fpga>>

(* mine(job): under fpgalock the job is written and acknowledged.          *)
WriteJob ==
    /\ main \in {"test", "run"} /\ miner.pc = "idle" /\ ~fpgalock /\ port
    /\ fpgalock' = TRUE
    /\ written' = Fresh
    /\ miner' = [pc |-> "ack", job |-> Fresh]
    /\ down' = down \o JobMessage(Fresh)
    /\ UNCHANGED <<main, injecting, rc, job, injections, credit, port, up, fpga>>

Submit(nonce, to) ==
    credit' = IF to > Check THEN [of |-> nonce.job, to |-> to, amid |-> injecting] ELSE credit

AckTimeoutIgnored ==
    /\ miner.pc = "ack" /\ Quiet
    /\ UNCHANGED vars
AckTimeout ==
    /\ miner.pc = "ack" /\ Quiet
    /\ Die(2)
    /\ UNCHANGED <<jobs, port, down, up, fpga>>

Accepted ==
    /\ miner.pc = "ack" /\ up # <<>> /\ Head(up).is = "ack"
    /\ up' = Tail(up)
    /\ job' = miner.job
    /\ miner' = [miner EXCEPT !.pc = "poll"]
    /\ fpgalock' = FALSE
    /\ UNCHANGED <<main, injecting, rc, written, injections, credit, port, down, fpga>>

OtherBeforeAckForNext ==
    /\ miner.pc = "ack" /\ up # <<>> /\ Head(up).is # "ack"
    /\ up' = Tail(up)
    /\ CASE Head(up).is = "exhausted" -> UNCHANGED <<control, credit>>
         [] Head(up).is = "zero"      -> Die(3) /\ UNCHANGED credit
         [] OTHER -> IF miner.job = Check THEN Die(5) /\ UNCHANGED credit
                     ELSE Submit(Head(up), miner.job) /\ UNCHANGED control
    /\ UNCHANGED <<job, written, injections, port, down, fpga>>
OtherBeforeAck ==
    /\ miner.pc = "ack" /\ up # <<>> /\ Head(up).is # "ack"
    /\ up' = Tail(up)
    /\ CASE Head(up).is = "exhausted" -> UNCHANGED <<control, credit>>
         [] Head(up).is = "zero"      -> Die(3) /\ UNCHANGED credit
         [] OTHER -> IF miner.job = Check THEN Die(5) /\ UNCHANGED credit
                     ELSE Submit(Head(up), job) /\ UNCHANGED control
    /\ UNCHANGED <<job, written, injections, port, down, fpga>>

(* Then the FPGA is polled, without the lock, until jobtimeout.            *)
Done ==
    /\ miner' = [miner EXCEPT !.pc = "idle"] /\ main' = "run"
    /\ UNCHANGED <<injecting, fpgalock, rc>>

JobTimeout ==
    /\ miner.pc = "poll" /\ Done
    /\ UNCHANGED <<jobs, port, down, up, fpga>>

PollNonce ==
    /\ miner.pc = "poll" /\ up # <<>> /\ Head(up).is = "nonce"
    /\ up' = Tail(up)
    /\ IF job # Check THEN UNCHANGED control
       ELSE IF Head(up).job = Check THEN Done
       ELSE Die(6)
    /\ Submit(Head(up), job)
    /\ UNCHANGED <<job, written, injections, port, down, fpga>>

PollOther ==
    /\ miner.pc = "poll" /\ up # <<>> /\ Head(up).is # "nonce"
    /\ up' = Tail(up)
    /\ CASE Head(up).is = "ack"       -> UNCHANGED control
         [] Head(up).is = "exhausted" -> Done
         [] OTHER                     -> Die(4)
    /\ UNCHANGED <<jobs, port, down, fpga>>

(* mine(job, True) in the long-poll thread.  It writes the job; then it    *)
(* sets self.job, which the poll loop may have read meanwhile, and leaves  *)
(* the acknowledgement to whoever reads next.                              *)
WriteInjected ==
    /\ main = "run" /\ ~fpgalock /\ port /\ injections < MaxInjections
    /\ fpgalock' = TRUE /\ injecting' = TRUE
    /\ written' = Fresh
    /\ injections' = injections + 1
    /\ down' = down \o JobMessage(Fresh)
    /\ UNCHANGED <<main, miner, rc, job, credit, port, up, fpga>>

StoreInjectedForgets ==
    /\ main = "run" /\ injecting
    /\ fpgalock' = FALSE /\ injecting' = FALSE
    /\ UNCHANGED <<main, miner, rc, jobs, port, down, up, fpga>>
StoreInjected ==
    /\ main = "run" /\ injecting
    /\ job' = written
    /\ fpgalock' = FALSE /\ injecting' = FALSE
    /\ UNCHANGED <<main, miner, rc, written, injections, credit, port, down, up, fpga>>

(* Reads and writes of a port that is gone raise: miner.py has no except   *)
(* for that but longpollingworker's, which goes on without the lock it has *)
(* taken.                                                                  *)
StartRaises ==
    /\ main \in {"ping", "read"} /\ ~port
    /\ Dies
    /\ UNCHANGED <<injecting, fpgalock, rc, jobs, port, down, up, fpga>>

MineRaises ==
    /\ main \in {"test", "run"} /\ ~port
    /\ miner.pc \in {"ack", "poll"} \/ (miner.pc = "idle" /\ ~fpgalock)
    /\ Dies
    /\ fpgalock' = (fpgalock \/ miner.pc = "idle")
    /\ UNCHANGED <<injecting, rc, jobs, port, down, up, fpga>>

InjectRaises ==
    /\ main = "run" /\ ~fpgalock /\ ~port
    /\ fpgalock' = TRUE
    /\ UNCHANGED <<main, miner, injecting, rc, jobs, port, down, up, fpga>>

Exit ==
    /\ main = "run" /\ rc # 0 /\ main' = "exited"
    /\ UNCHANGED <<miner, injecting, fpgalock, rc, jobs, port, down, up, fpga>>

(* Ctrl+C ends the main thread wherever it is and the daemon threads with  *)
(* it: a job may be cut off on its way, whence the states Init allows.     *)
Interrupt ==
    /\ main # "exited" /\ main' = "exited"
    /\ miner' = [miner EXCEPT !.pc = "dead"]
    /\ \E k \in 0 .. Len(down) : down' = SubSeq(down, 1, k)
    /\ UNCHANGED <<injecting, fpgalock, rc, jobs, port, up, fpga>>

-----------------------------------------------------------------------------
(* The FPGA may have been left anywhere by a session before.               *)
Init ==
    /\ main = "ping" /\ miner = [pc |-> "idle", job |-> 0]
    /\ injecting = FALSE /\ fpgalock = FALSE
    /\ rc = 0 /\ job = 0 /\ written = 0 /\ injections = 0
    /\ credit = [of |-> 0, to |-> 0, amid |-> FALSE]
    /\ down = <<>> /\ up = <<>>
    /\ port \in BOOLEAN /\ alive \in BOOLEAN /\ (alive => port)
    /\ loading \in 0 .. JobBytes /\ load = Mixed /\ mining = 0 /\ tx = Nothing
    /\ hits \in 0 .. MaxHits /\ ackLost = FALSE

Read   == Accepted \/ OtherBeforeAck \/ PollNonce \/ PollOther
Raise  == StartRaises \/ MineRaises
Host   == Ping \/ NoResponse \/ Response \/ WriteJob \/ AckTimeout \/ Read \/ Raise \/ Exit
Inject == WriteInjected \/ StoreInjected \/ InjectRaises
Fpga   == LoadByte \/ Command \/ Transmit

Next ==
    \/ Host \/ Interrupt \/ JobTimeout \/ Inject
    \/ Fpga \/ Hit \/ NoncesExhausted \/ FallSilent \/ Unplug

(* The FPGA works, the host's threads run and its clock goes on, and the   *)
(* pool has a job sooner or later.                                         *)
Spec ==
    /\ Init /\ [][Next]_vars
    /\ WF_vars(Fpga) /\ WF_vars(Host) /\ WF_vars(JobTimeout) /\ WF_vars(StoreInjected)

-----------------------------------------------------------------------------
TypeOK ==
    LET Job == 0 .. MaxJobs
        Up  == [is : {"nothing", "zero", "ack", "nonce", "exhausted"}, job : Job \cup {Mixed}]
    IN  /\ main \in {"ping", "read", "test", "run", "exited"}
        /\ miner \in [pc : {"idle", "ack", "poll", "dead"}, job : Job]
        /\ injecting \in BOOLEAN /\ fpgalock \in BOOLEAN /\ port \in BOOLEAN
        /\ rc \in 0 .. 6 /\ job \in Job /\ written \in Job /\ injections \in 0 .. MaxInjections
        /\ down \in Seq([cmd : 0 .. 2, job : Job \cup {Mixed}])
        /\ up \in Seq(Up \ {Nothing}) /\ tx \in Up
        /\ alive \in BOOLEAN /\ loading \in 0 .. JobBytes
        /\ load \in Job \cup {Mixed} /\ mining \in Job \cup {Mixed}
        /\ hits \in 0 .. MaxHits /\ ackLost \in BOOLEAN
        /\ credit \in [of : Job \cup {Mixed}, to : Job, amid : BOOLEAN]

(* A nonce is submitted with the job it was found for, though it can be    *)
(* read after the next job is written: self.job changes only with the      *)
(* acknowledgement, which the line puts after the nonces of the job before. *)
(* An injection does not wait for it, and a lost one spoils the order.     *)
CreditRight == injections = 0 /\ ~ackLost => credit.of = credit.to

(* With injections too a nonce does not go to a job written before its     *)
(* own, so those of the last job written get there: but for the nonces     *)
(* read between the write of an injection and its store of self.job, which *)
(* the poll loop does not wait for, and they go to the job just before.    *)
OlderOnlyAmidInjection ==
    ~ackLost => credit.to >= credit.of - (IF credit.amid THEN 1 ELSE 0)

(* miner.py:463, "FPGA is not working correctly", and the other ends: one  *)
(* that works, in whatever state it was left, is refused only because it   *)
(* finds a nonce of the session before during the self-test (5), or its    *)
(* acknowledgement was dropped while its UART was busy (2).                *)
GoodFpgaPasses == alive => rc \in {0, 5} \/ (rc = 2 /\ ackLost)

(* What the zeros of the start are for: however many bytes of a job the    *)
(* FPGA lacked, every job acknowledged after them is whole.                *)
JobsWhole == main \in {"test", "run"} => \A i \in 1 .. Len(up) : up[i] # Message("ack", Mixed)

(* An FPGA that is not there or falls silent is noticed, at the start or   *)
(* with the next job, and the program ends, though the worker dies with    *)
(* fpgalock held.  A port that is gone is, at the start.  Later it is not: *)
(* its exception takes the worker or fpgalock with it, and not the main    *)
(* thread, which shows its screen until Ctrl+C.                            *)
FailureNoticed == ~alive ~> main = "exited" \/ (~port /\ main = "run")
=============================================================================
