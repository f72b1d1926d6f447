------------------------------ MODULE VhdlPool ------------------------------
(***************************************************************************)
(* VHDL_Xilinx_Port/miner.py, the way of a job: a pool's getwork thread,   *)
(* its long-poll thread, its queue, and the FPGA worker.  VhdlFpga has the *)
(* link to the FPGA, VhdlHost the way of a share.                          *)
(*                                                                         *)
(* A job is known by the block it builds on: all that makes it good or     *)
(* stale.  Threads share fields without locks; a step of a thread reads or *)
(* writes one of them.  x = x + 1 is a read, made with the step before it, *)
(* and a write: Add.                                                       *)
(***************************************************************************)
EXTENDS Integers, Sequences, FiniteSets

(* The bounds of an instance: jobs given out, blocks found, calls that     *)
(* fail, shares found; has the pool long polling, is the screen drawn?     *)
Setup ==
    [work : Nat, blocks : Nat, fails : Nat, shares : Nat, polling : BOOLEAN, drawn : BOOLEAN]

CONSTANTS Servers,     \* number of servers of the pool
          Buffer,      \* places in its queue
          DisableFor,  \* rounds a server is left out after a failure: 10
          Share,       \* shares, each with an uploadresult thread
          Setups       \* the instances to look at

Threads == {"getwork", "longpoll", "worker"}
Thread  == Threads \cup Share

ASSUME PoolAssumption ==
    /\ Servers \in Nat \ {0} /\ Buffer \in Nat \ {0} /\ DisableFor \in Nat
    /\ IsFiniteSet(Share) /\ Share \cap Threads = {}
    /\ Setups \subseteq Setup

VARIABLES
    setup,        \* no step changes it
    block, given, failures,   \* the pool's block; jobs given out and calls failed, bounds
    disabled,     \* s.disabled
    getter,       \* the getwork thread: pc, server and job
    poller,       \* the long-poll thread: pc, job, block when it asked, did it leave
                  \* its loop with the queue empty? (history)
    worker,       \* the FPGA worker: pc and job; it holds fpgalock at "ack"
    longpollhit, lastlongpoll,  \* lastlongpoll: is it later than now?
    queue,
    count,        \* the counters
    adding,       \* the counter each thread has read and not yet written, its value
    raced,        \* the counters two threads have added to at once (history)
    conlock,      \* held by showstats
    mined,        \* the job last written to the FPGA
    injected, drained, stale    \* the job injected last; was the queue empty then? jobs of
                                \* older blocks the worker has written since (history)

world    == <<block, given, failures, disabled>>
threads  == <<getter, poller, worker>>
flags    == <<longpollhit, lastlongpoll>>
tally    == <<count, adding, raced>>
output   == <<conlock, mined, injected, drained, stale>>
poolVars == <<world, threads, flags, queue, tally, output>>

Counter == {"requests", "failedreqs", "uploadretries", "longpollkilled",
            "jobsaccepted", "accepted", "rejected"}
NoAdd == [to |-> "none", n |-> 0]

PoolInit ==
    /\ setup \in Setups
    /\ block = 0 /\ given = 0 /\ failures = 0
    /\ disabled = [s \in 1 .. Servers |-> 0]
    /\ getter = [pc |-> "next", s |-> 1, job |-> 0]
    /\ poller = [pc |-> "none", job |-> 0, asked |-> 0, drained |-> FALSE]
    /\ worker = [pc |-> "idle", job |-> 0]
    /\ longpollhit = FALSE /\ lastlongpoll = FALSE /\ queue = <<>>
    /\ count = [c \in Counter |-> 0] /\ adding = [t \in Thread |-> NoAdd] /\ raced = {}
    /\ conlock = FALSE /\ mined = 0 /\ injected = 0 /\ drained = FALSE /\ stale = 0

-----------------------------------------------------------------------------
(* Miner.log waits for the screen.                                         *)
CanLog == ~conlock

(* x = x + 1                                                               *)

Adders(c) == {t \in Thread : adding[t].to = c}

Add(t, c) ==
    /\ adding' = [adding EXCEPT ![t] = [to |-> c, n |-> count[c]]]
    /\ raced' = IF Adders(c) = {} THEN raced ELSE raced \cup {c}
    /\ UNCHANGED count

Added(t) ==
    /\ adding[t] # NoAdd
    /\ count' = [count EXCEPT ![adding[t].to] = adding[t].n + 1]
    /\ adding' = [adding EXCEPT ![t] = NoAdd]
    /\ UNCHANGED <<world, threads, flags, queue, raced, output>>

Getting(pc) == getter.pc = pc /\ adding["getwork"] = NoAdd
Polling(pc) == poller.pc = pc /\ adding["longpoll"] = NoAdd
WorkerIs(pc) == worker.pc = pc /\ adding["worker"] = NoAdd

-----------------------------------------------------------------------------
(* Pool.getwork.                                                           *)

SkipServer ==
    /\ Getting("next") /\ getter.s <= Servers /\ disabled[getter.s] > 0
    /\ disabled' = [disabled EXCEPT ![getter.s] = @ - 1]
    /\ getter' = [getter EXCEPT !.s = @ + 1]
    /\ UNCHANGED <<block, given, failures, poller, worker, flags, queue, tally, output>>

Request ==
    /\ Getting("next") /\ getter.s <= Servers /\ disabled[getter.s] = 0
    /\ getter' = [getter EXCEPT !.pc = "wait"]
    /\ Add("getwork", "requests")
    /\ UNCHANGED <<world, poller, worker, flags, queue, output>>

(* The headers of a reply may have the long-polling URL.                   *)
StartPolling ==
    IF poller.pc = "none" /\ setup.polling
    THEN CanLog /\ poller' = [poller EXCEPT !.pc = "poll", !.asked = block]
    ELSE UNCHANGED poller

Reply ==
    /\ Getting("wait") /\ given < setup.work
    /\ given' = given + 1
    /\ getter' = [getter EXCEPT !.pc = "got", !.job = block]
    /\ StartPolling
    /\ UNCHANGED <<block, failures, disabled, worker, flags, queue, tally, output>>

(* No reply, or one that has no job.                                       *)
RequestFails ==
    /\ Getting("wait") /\ failures < setup.fails /\ CanLog
    /\ failures' = failures + 1
    /\ disabled' = [disabled EXCEPT ![getter.s] = DisableFor]
    /\ getter' = [getter EXCEPT !.pc = "next", !.s = @ + 1]
    /\ Add("getwork", "failedreqs")
    /\ UNCHANGED poller \/ StartPolling
    /\ UNCHANGED <<block, given, worker, flags, queue, output>>

(* No server gave a job: sleep(1), and from the first one again.           *)
NoJob ==
    /\ Getting("next") /\ getter.s > Servers
    /\ getter' = [getter EXCEPT !.s = 1]
    /\ UNCHANGED <<world, poller, worker, flags, queue, tally, output>>

KeepJob ==
    /\ Getting("got") /\ ~longpollhit
    /\ getter' = [getter EXCEPT !.pc = "put"]
    /\ UNCHANGED <<world, poller, worker, flags, queue, tally, output>>

KillJob ==
    /\ Getting("got") /\ longpollhit
    /\ getter' = [getter EXCEPT !.pc = "clear"]
    /\ Add("getwork", "longpollkilled")
    /\ UNCHANGED <<world, poller, worker, flags, queue, output>>

PutJob ==
    /\ Getting("put") /\ Len(queue) < Buffer
    /\ queue' = Append(queue, getter.job)
    /\ getter' = [getter EXCEPT !.pc = "clear"]
    /\ UNCHANGED <<world, poller, worker, flags, tally, output>>

ClearHit ==
    /\ Getting("clear")
    /\ longpollhit' = FALSE
    /\ getter' = [pc |-> "next", s |-> 1, job |-> 0]
    /\ UNCHANGED <<world, poller, worker, lastlongpoll, queue, tally, output>>

Getwork == SkipServer \/ Request \/ NoJob \/ KeepJob \/ KillJob \/ PutJob \/ ClearHit

-----------------------------------------------------------------------------
(* Pool.longpollingworker.                                                 *)

(* The call returns when a block is found after it was made.               *)
PollReply ==
    /\ Polling("poll") /\ block > poller.asked /\ CanLog
    /\ poller' = [poller EXCEPT !.pc = "hit", !.job = block]
    /\ UNCHANGED <<world, getter, worker, flags, queue, tally, output>>

(* Any exception: the next call is made, and waits for the next block.     *)
PollFails ==
    /\ Polling("poll") /\ block > poller.asked
    /\ poller' = [poller EXCEPT !.asked = block]
    /\ UNCHANGED <<world, getter, worker, flags, queue, tally, output>>

SetHit ==
    /\ Polling("hit")
    /\ longpollhit' = TRUE
    /\ poller' = [poller EXCEPT !.pc = "test"]
    /\ UNCHANGED <<world, getter, worker, lastlongpoll, queue, tally, output>>

(* The loop that empties the queue, until a job comes from getwork.        *)
DropNext ==
    /\ Polling("test") /\ longpollhit
    /\ poller' = [poller EXCEPT !.pc = "take"]
    /\ UNCHANGED <<world, getter, worker, flags, queue, tally, output>>

DropQueuedUncounted ==
    /\ Polling("take") /\ queue # <<>>
    /\ queue' = Tail(queue)
    /\ poller' = [poller EXCEPT !.pc = "test"]
    /\ UNCHANGED <<world, getter, worker, flags, tally, output>>
DropQueued ==
    /\ Polling("take") /\ queue # <<>>
    /\ queue' = Tail(queue)
    /\ poller' = [poller EXCEPT !.pc = "test"]
    /\ Add("longpoll", "longpollkilled")
    /\ UNCHANGED <<world, getter, worker, flags, output>>

(* It ends with the flag cleared, or with nothing in the queue for 0.1 s.  *)
EndDrainShort ==
    /\ \/ Polling("test") /\ ~longpollhit
       \/ Polling("take") /\ Len(queue) <= 1
    /\ poller' = [poller EXCEPT !.pc = "decide", !.drained = poller.pc = "take"]
    /\ Add("longpoll", "requests")
    /\ UNCHANGED <<world, getter, worker, flags, queue, output>>
EndDrain ==
    /\ \/ Polling("test") /\ ~longpollhit
       \/ Polling("take") /\ queue = <<>>
    /\ poller' = [poller EXCEPT !.pc = "decide", !.drained = poller.pc = "take"]
    /\ Add("longpoll", "requests")
    /\ UNCHANGED <<world, getter, worker, flags, queue, output>>

(* Shortly after an injection the job goes to the queue.                   *)
PollPut ==
    /\ Polling("decide") /\ lastlongpoll
    /\ poller' = [poller EXCEPT !.pc = "put"]
    /\ UNCHANGED <<world, getter, worker, flags, queue, tally, output>>

PollPutDone ==
    /\ Polling("put") /\ Len(queue) < Buffer
    /\ queue' = Append(queue, poller.job)
    /\ poller' = [poller EXCEPT !.pc = "poll", !.asked = block]
    /\ UNCHANGED <<world, getter, worker, flags, tally, output>>

PollInject ==
    /\ Polling("decide") /\ ~lastlongpoll
    /\ poller' = [poller EXCEPT !.pc = "inject"]
    /\ Add("longpoll", "jobsaccepted")
    /\ UNCHANGED <<world, getter, worker, flags, queue, output>>

(* mine(job, True), with fpgalock from beginning to end.                   *)
InjectUnlessLocked ==
    /\ Polling("inject") /\ CanLog
    /\ IF worker.pc = "ack"
       THEN UNCHANGED <<mined, lastlongpoll, injected, drained, stale>>
       ELSE /\ mined' = poller.job /\ lastlongpoll' = TRUE
            /\ injected' = poller.job /\ drained' = poller.drained /\ stale' = 0
    /\ poller' = [poller EXCEPT !.pc = "poll", !.asked = block]
    /\ UNCHANGED <<world, getter, worker, longpollhit, queue, tally, conlock>>
PollerInjects ==
    /\ Polling("inject") /\ worker.pc # "ack" /\ CanLog
    /\ mined' = poller.job
    /\ lastlongpoll' = TRUE
    /\ injected' = poller.job /\ drained' = poller.drained /\ stale' = 0
    /\ poller' = [poller EXCEPT !.pc = "poll", !.asked = block]
    /\ UNCHANGED <<world, getter, worker, longpollhit, queue, tally, conlock>>

(* longpollgrouptime is over.                                              *)
GroupEnds ==
    /\ lastlongpoll
    /\ lastlongpoll' = FALSE
    /\ UNCHANGED <<world, threads, longpollhit, queue, tally, output>>

Longpoll ==
    SetHit \/ DropNext \/ DropQueued \/ EndDrain \/ PollPut \/ PollPutDone \/ PollInject

-----------------------------------------------------------------------------
(* Miner.worker and, of Miner.mine, what becomes of the job.               *)

TakeJob ==
    /\ WorkerIs("idle") /\ queue # <<>>
    /\ worker' = [pc |-> "have", job |-> Head(queue)]
    /\ queue' = Tail(queue)
    /\ Add("worker", "jobsaccepted")
    /\ UNCHANGED <<world, getter, poller, flags, output>>

WorkerWrites ==
    /\ WorkerIs("have") /\ CanLog
    /\ worker' = [worker EXCEPT !.pc = "ack"]
    /\ mined' = worker.job
    /\ stale' = IF worker.job < injected THEN stale + 1 ELSE stale
    /\ UNCHANGED <<world, getter, poller, flags, queue, tally, conlock, injected, drained>>

Acknowledged ==
    /\ WorkerIs("ack")
    /\ worker' = [worker EXCEPT !.pc = "mine"]
    /\ UNCHANGED <<world, getter, poller, flags, queue, tally, output>>

(* jobtimeout is over or the FPGA has been through all nonces.             *)
JobEnds ==
    /\ WorkerIs("mine")
    /\ worker' = [pc |-> "idle", job |-> 0]
    /\ UNCHANGED <<world, getter, poller, flags, queue, tally, output>>

Worker == TakeJob \/ WorkerWrites \/ Acknowledged \/ JobEnds

NewBlock ==
    /\ block < setup.blocks
    /\ block' = block + 1
    /\ UNCHANGED <<given, failures, disabled, threads, flags, queue, tally, output>>

PoolNext ==
    /\ \/ \E t \in Thread : Added(t)
       \/ Getwork \/ Reply \/ RequestFails
       \/ PollReply \/ PollFails \/ Longpoll \/ PollerInjects \/ GroupEnds
       \/ Worker \/ NewBlock
    /\ UNCHANGED setup
=============================================================================
