---------------------------- MODULE SerialMiner ----------------------------
(***************************************************************************)
(* The DE2_115_makomk_serial system: the threads of miner.py, the serial   *)
(* line in both directions, and serial_receive with the miner behind it.   *)
(*                                                                         *)
(* A unit of work is its number; 0 is the all-zero work that both sides    *)
(* begin with.  A payload is two chunks, the midstate and the block data   *)
(* (32 bytes each in the source), and a nonce is known by the chunks of    *)
(* the job it was mined from.  SerialTransmit has the way a nonce leaves   *)
(* the FPGA byte by byte, MiningPipeline the hashing.                      *)
(***************************************************************************)
EXTENDS Integers, Sequences, FiniteSets

(* What is outside the code: does every getwork reply have a 'midstate'    *)
(* (midstates), may the FPGA be configured after miner.py has started      *)
(* (late), is the serial line quicker than a call to the pool (prompt)?    *)
Setup == [midstates : BOOLEAN, late : BOOLEAN, prompt : BOOLEAN]

CONSTANTS MaxWork,    \* getwork has this many units of work, then fails: a bound
          MaxNonces,  \* nonces found in a behaviour: a bound
          Setups      \* the setups to look at

ASSUME MinerAssumption == MaxWork \in Nat /\ MaxNonces \in Nat /\ Setups \subseteq Setup

VARIABLES
    setup,           \* no step changes it
    writer,          \* where the Writer thread is: getwork, write, wait, clear; "flush"
                     \* before the threads are started
    block, midstate, \* writer.block, writer.midstate
    given,           \* units of work the pool has given out
    golden,          \* the golden event
    reader,          \* the Reader: <<>>, or the nonce it read and has yet to signal
    submitters,      \* Submitter threads whose call has not returned: <<block, nonce>>
    results_queue,
    count,           \* Display_stats.count: <<accepted, failed>>
    down, up,        \* chunks on the line to the FPGA; nonces on the line back
    on,              \* is the FPGA configured?
    input_buffer, input_copy, demux_state,  \* serial_receive
    found,           \* nonces found and sent (history)
    nonces,          \* nonces read whole by the Reader (history)
    signalled        \* has golden been set with no call of getwork begun since? (history)

writerVars == <<writer, block, midstate, given>>
hostVars   == <<reader, submitters, results_queue, count>>
fpga       == <<on, input_buffer, input_copy, demux_state, found>>
system     == <<writerVars, golden, hostVars, down, up, fpga, nonces, signalled>>
vars       == <<setup, system>>

Work    == 0 .. MaxWork
Chunk   == {"mid", "data"} \X Work
Payload == <<<<"mid", midstate>>, <<"data", block>>>>

(* The line and the Reader are through with what went before the last job  *)
(* was copied: the payload has arrived, the nonces of other jobs are read. *)
Settled ==
    /\ down = <<>> /\ demux_state < 2
    /\ \A i \in DOMAIN up : up[i] = input_copy
    /\ Len(reader) = 2 => reader = input_copy

-----------------------------------------------------------------------------
(* Reader.__init__: ser.read(1000) for as long as the timeout; then the    *)
(* threads are started.  What has arrived by then is dropped.              *)
Flush ==
    /\ writer = "flush"
    /\ \E n \in 0 .. Len(up) : up' = SubSeq(up, n + 1, Len(up))
    /\ writer' = "getwork"
    /\ UNCHANGED <<block, midstate, given, golden, hostVars, down, fpga, nonces, signalled>>

(* The Writer thread.                                                      *)

GetWorkShared ==
    /\ writer = "getwork" /\ given < MaxWork /\ (setup.prompt => Settled)
    /\ given' = given + 1
    /\ block' = given + 1 /\ midstate' = given + 1
    /\ submitters' = {[s EXCEPT !.block = given + 1] : s \in submitters}
    /\ writer' = "write"
    /\ UNCHANGED <<golden, reader, results_queue, count, down, up, fpga, nonces, signalled>>
GetWork ==
    /\ writer = "getwork" /\ given < MaxWork /\ (setup.prompt => Settled)
    /\ given' = given + 1
    /\ block' = given + 1
    /\ midstate' \in {given + 1} \cup IF setup.midstates THEN {} ELSE {midstate}
    /\ writer' = "write"
    /\ UNCHANGED <<golden, hostVars, down, up, fpga, nonces, signalled>>

(* Any exception: "keep crunching with the old data".                      *)
GetWorkError ==
    /\ writer = "getwork" /\ (setup.prompt => Settled)
    /\ writer' = "write"
    /\ UNCHANGED <<block, midstate, given, golden, hostVars, down, up, fpga, nonces, signalled>>

(* write blocks until the payload before has gone.                         *)
WritePayloadForgets ==
    /\ writer = "write" /\ down = <<>>
    /\ down' = Payload
    /\ golden' = FALSE
    /\ writer' = "wait"
    /\ UNCHANGED <<block, midstate, given, hostVars, up, fpga, nonces, signalled>>
WritePayload ==
    /\ writer = "write" /\ down = <<>>
    /\ down' = Payload
    /\ writer' = "wait"
    /\ UNCHANGED <<block, midstate, given, golden, hostVars, up, fpga, nonces, signalled>>

WakeUp ==
    /\ writer = "wait" /\ golden
    /\ writer' = "clear"
    /\ UNCHANGED <<block, midstate, given, golden, hostVars, down, up, fpga, nonces, signalled>>

AskTimeout ==
    /\ writer = "wait" /\ ~golden
    /\ writer' = "getwork" /\ signalled' = FALSE
    /\ UNCHANGED <<block, midstate, given, golden, hostVars, down, up, fpga, nonces>>

ClearGolden ==
    /\ writer = "clear"
    /\ golden' = FALSE
    /\ writer' = "getwork" /\ signalled' = FALSE
    /\ UNCHANGED <<block, midstate, given, hostVars, down, up, fpga, nonces>>

-----------------------------------------------------------------------------
(* The Reader, the Submitters and Display_stats.                           *)

ReadNonce ==
    /\ writer # "flush" /\ reader = <<>> /\ up # <<>>
    /\ reader' = Head(up) /\ up' = Tail(up)
    /\ nonces' = nonces + 1
    /\ UNCHANGED <<writerVars, golden, submitters, results_queue, count, down, fpga, signalled>>

(* Submitter(writer.block, nonce).start(), before golden.set().            *)
StartSubmitter ==
    /\ reader # <<>> /\ Len(reader) = 2
    /\ submitters' = submitters \cup {[id |-> nonces, block |-> block, nonce |-> reader]}
    /\ reader' = <<"signal">>
    /\ UNCHANGED <<writerVars, golden, results_queue, count, down, up, fpga, nonces, signalled>>

SetGolden ==
    /\ reader = <<"signal">>
    /\ golden' = TRUE /\ signalled' = TRUE
    /\ reader' = <<>>
    /\ UNCHANGED <<writerVars, submitters, results_queue, count, down, up, fpga, nonces>>

(* The pool accepts, refuses, or the call fails; all end in the queue.     *)
SubmitQuietFailure ==
    \E s \in submitters, result \in BOOLEAN :
        /\ submitters' = submitters \ {s}
        /\ results_queue' = IF result THEN Append(results_queue, result) ELSE results_queue
        /\ UNCHANGED <<writerVars, golden, reader, count, down, up, fpga, nonces, signalled>>
Submit ==
    \E s \in submitters, result \in BOOLEAN :
        /\ submitters' = submitters \ {s}
        /\ results_queue' = Append(results_queue, result)
        /\ UNCHANGED <<writerVars, golden, reader, count, down, up, fpga, nonces, signalled>>

CountResult ==
    /\ results_queue # <<>>
    /\ count' = IF Head(results_queue) THEN <<count[1] + 1, count[2]>> ELSE <<count[1], count[2] + 1>>
    /\ results_queue' = Tail(results_queue)
    /\ UNCHANGED <<writerVars, golden, reader, submitters, down, up, fpga, nonces, signalled>>

-----------------------------------------------------------------------------
(* serial_receive and the miner.                                           *)

ReceiveChunk ==
    /\ down # <<>> /\ (on => demux_state < 2)
    /\ down' = Tail(down)
    /\ IF on THEN /\ input_buffer' = <<input_buffer[2], Head(down)>>
                  /\ demux_state' = demux_state + 1
             ELSE UNCHANGED <<input_buffer, demux_state>>
    /\ UNCHANGED <<writerVars, golden, hostVars, up, on, input_copy, found, nonces, signalled>>

CopyJobEarly ==
    /\ on /\ demux_state = 1
    /\ input_copy' = input_buffer /\ demux_state' = 0
    /\ UNCHANGED <<writerVars, golden, hostVars, down, up, on, input_buffer, found, nonces, signalled>>
CopyJobOnce ==
    /\ on /\ demux_state = 2
    /\ input_copy' = input_buffer
    /\ UNCHANGED <<writerVars, golden, hostVars, down, up, on, input_buffer, demux_state, found,
                   nonces, signalled>>
CopyJob ==
    /\ on /\ demux_state = 2
    /\ input_copy' = input_buffer /\ demux_state' = 0
    /\ UNCHANGED <<writerVars, golden, hostVars, down, up, on, input_buffer, found, nonces, signalled>>

(* A nonce that serial_transmit sends, of the job copied last.  What the   *)
(* Reader has not read yet waits in the line and the host's buffer.        *)
FindNonce ==
    /\ on /\ found < MaxNonces
    /\ up' = Append(up, input_copy) /\ found' = found + 1
    /\ UNCHANGED <<writerVars, golden, hostVars, down, on, input_buffer, input_copy, demux_state,
                   nonces, signalled>>

Configure ==
    /\ ~on /\ on' = TRUE
    /\ UNCHANGED <<writerVars, golden, hostVars, down, up, input_buffer, input_copy, demux_state,
                   found, nonces, signalled>>

Init ==
    /\ setup \in Setups
    /\ writer = "flush" /\ block = 0 /\ midstate = 0 /\ given = 0
    /\ golden = FALSE /\ reader = <<>> /\ submitters = {} /\ results_queue = <<>> /\ count = <<0, 0>>
    /\ down = <<>> /\ up = <<>>
    /\ on \in {TRUE} \cup IF setup.late THEN {FALSE} ELSE {}
    /\ input_buffer = Payload /\ input_copy = Payload /\ demux_state = 0
    /\ found = 0 /\ nonces = 0 /\ signalled = FALSE

WriterNext == Flush \/ GetWork \/ GetWorkError \/ WritePayload \/ WakeUp \/ AskTimeout \/ ClearGolden
ReaderNext == ReadNonce \/ StartSubmitter \/ SetGolden
FpgaNext   == ReceiveChunk \/ CopyJob \/ FindNonce \/ Configure

Next == (WriterNext \/ ReaderNext \/ Submit \/ CountResult \/ FpgaNext) /\ UNCHANGED setup

Spec == Init /\ [][Next]_vars

(* The threads run and calls return, the line moves.  Nothing makes the    *)
(* pool answer, a nonce turn up, or, here, the timeout of golden.wait.     *)
Fairness ==
    /\ WF_system(Flush) /\ WF_system(GetWork \/ GetWorkError) /\ WF_system(WritePayload)
    /\ WF_system(WakeUp) /\ WF_system(ClearGolden)
    /\ WF_system(ReaderNext) /\ WF_system(Submit) /\ WF_system(CountResult)
    /\ WF_system(ReceiveChunk) /\ WF_system(CopyJob)

FairSpec == Spec /\ Fairness

-----------------------------------------------------------------------------
TypeOK ==
    /\ setup \in Setups
    /\ writer \in {"flush", "getwork", "write", "wait", "clear"}
    /\ block \in Work /\ midstate \in Work /\ given \in Work /\ golden \in BOOLEAN
    /\ reader \in {<<>>, <<"signal">>} \cup (Chunk \X Chunk)
    /\ \A s \in submitters : s.block \in Work /\ s.nonce \in Chunk \X Chunk
    /\ results_queue \in Seq(BOOLEAN) /\ count \in Nat \X Nat
    /\ down \in Seq(Chunk) /\ up \in Seq(Chunk \X Chunk)
    /\ on \in BOOLEAN /\ demux_state \in 0 .. 2
    /\ input_buffer \in Chunk \X Chunk /\ input_copy \in Chunk \X Chunk
    /\ found \in 0 .. MaxNonces /\ nonces \in 0 .. MaxNonces /\ signalled \in BOOLEAN

IsJob(job) == job[1][1] = "mid" /\ job[2][1] = "data" /\ job[1][2] = job[2][2]

InStep == setup.midstates /\ ~setup.late

(* serial.v:30-31, "just read the latest complete input": the miner works  *)
(* on one unit of work, its midstate and its data in their places, if      *)
(* every reply has both and the FPGA has seen every byte since the start.  *)
JobWhole == InStep => IsJob(input_copy)

(* miner.py:61-62, a nonce is submitted with the block the Writer has now. *)
(* It is not off by more than the work in flight: with a line quicker than *)
(* the pool, that is the block mined or the one after.                     *)
AlmostRightBlock ==
    InStep /\ setup.prompt => \A s \in submitters : s.block - s.nonce[2][2] \in {0, 1}

(* Every nonce read is submitted once and counted once, whatever order the *)
(* submissions return in.                                                  *)
Accounted ==
    nonces = count[1] + count[2] + Len(results_queue) + Cardinality(submitters)
             + IF Len(reader) = 2 THEN 1 ELSE 0

(* A golden event leads to a getwork even if it is set while the Writer is *)
(* about to clear the one before: no wake-up is lost.                      *)
GoldenBringsWork == signalled ~> ~signalled

(* The work last given out reaches the miner, framed as it was sent.       *)
WorkReachesMiner == \A w \in Work : InStep /\ block = w ~> input_copy[2][2] >= w
=============================================================================
