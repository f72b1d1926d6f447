# Verification of the FPGA Bitcoin miners

TLA+ models of the miners in this repository, TLC configurations that check
them, and TLAPS proofs about them. A statement in a module's comments that
quotes the repository names the file and line.

## 1. The repository

Two families of designs share the tree.

* `src/*.v` with its simulation in `sim/`: one FPGA design. A job of 44 bytes
  (midstate and block tail) comes over SPI, is put together into a word, starts
  the miner; nonces of hits go through a FIFO and a serialiser back to SPI.
* `projects/*`: the classic miners. Each board has a copy of a control unit
  (`fpgaminer_top.v`) around two `sha256_transform` pipelines, and a host link
  of its own: JTAG virtual wires, a serial line, or JTAG registers.

Most of the tree is vendor IP and tool output. The hand-written logic, the
state each part keeps and what makes it correct:

| part | state | operations | correct if |
|---|---|---|---|
| `SPI_Slave.v`, receive | bit count, shift register and done toggle in the SPI clock domain; synchronisers and a Wishbone strobe in `i_clk`'s | shift a bit, sample across the domains, offer a byte, take its ack | every byte of the wire is handed over once, whole, in order |
| `Serial_To_Parallel_Bytes.v` | byte buffer, index, slave ack, word and its strobe | accept a byte, issue a word, release it | each acknowledged byte is in exactly one word, in order |
| `Miner.v`, `SHA256_Transform.v` | step counters, nonce counter, hit strobe, two rings of hashers | load a job, count, tick the nonce, offer a hit | constants meet the items they are for; the nonce offered is the hash's |
| `Sync_FIFO_WB.v`, `Sync_FIFO.v`, `Generic_BRAM.v` | indices, memory and its output register, two handshakes | write, read | no word lost or repeated with flow control on |
| `Parallel_To_Serial_Bytes.v` | index, strobe, ack to the FIFO | take a word, step through its bytes | each word's bytes once, in order, then the next word |
| `SPI_Slave.v`, transmit | byte register; bit count, bit and preload in the SPI clock domain | accept a byte, put bits on MISO | the master captures each byte's bits in order |
| classic core (`fpgaminer_top.v`, `sha256_transform.v`) | loop count and feedback, nonce, two pipelines, golden nonce | one clock | the golden nonce reported is the one hashed; none left out |
| `serial.v` | receive buffer and copy; transmit state and word | receive a byte, copy a job; send a nonce | the copy is one job; a nonce leaves whole |
| `DE2_115_makomk_serial/miner.py` | writer's block and midstate, golden event, submitter threads, result queue | getwork, write, wait; read, submit; count | nonces are submitted with their own block and counted once |
| `VHDL_Xilinx_Port/miner.py` | per pool: queue, `longpollhit`, `lastlongpoll`, counters; threads getwork, long poll, worker, uploads, screen; `conlock`, `fpgalock` | request and queue jobs, drain and inject after a new block, mine, upload a share, draw | a new block is mined at once, few stale jobs after it; jobs and shares are counted once |
| `VHDL_Xilinx_Port`, the link | host: `job`, `rc`, `fpgalock`, who is in `mine`; the serial port; FPGA: bytes to load, job registers, UART | start-up test; write a job, wait for its acknowledgement, poll for nonces; load, answer, report | a nonce is credited to its job; a good FPGA is accepted in whatever state it was left, one that does not answer noticed |
| `Verilog_Xilinx_Port` | the serial miner of DE2_115_makomk_serial on another board: the Reader's buffer and its short reads | read four bytes, submit | the header submitted is the one hashed |

What is hard in them: two clock domains on SPI, in both directions; Wishbone
handshakes whose two ends move in the same clock; counters compared with values
they cannot hold; a pipeline whose depth is a constant elsewhere; jobs replaced
while hashes are under way; unframed serial lines; host threads that share
fields without locks; an acknowledged protocol in which another thread may
write a job, and a UART that drops what it has no time for. `PROJECT.json` lists
each hazard at its line with the properties that watch it.

The repository is read-only here, and file names below leave out the leading
`src/` of the tree: `SPI_Slave.v` is `src/src/SPI_Slave.v`.

## 2. The modules

All hardware modules follow one convention. `i_*` variables are the input wires
of the Verilog module and `r_*` its registers, under their own names. `Clock` is
one rising edge: all `always` blocks at once, each an operator of its own,
reading the values before the edge. `Environment` chooses the inputs for the
next edge, and `Next` is their conjunction. A module that composes others either
extends one and gives its actions more to do (`JobPath` extends `SpiSlaveRx`,
`SerialLink` `SerialTransmit`, `VhdlHost` `VhdlPool`), so that what is proved of
the part can be cited of the whole, or uses their `Clock` through
`INSTANCE ... WITH`, with the registers of one in the place of the wires of the
other. Where two modules are extended together by a module of proofs, one of
them carries a prefix: `FifoClock`, `HostInit`, `JobSpec`, `LinkSpec`. History variables (marked in each module)
record what the properties speak of and never influence a step.

Where one module serves several instances of the code (widths, SPI modes,
builds of the core, kinds of master), the choice is a variable that `Init` takes
from a constant set and no step changes: `numBytes`, `spi`, `setup`, `build`. One
run then checks all of them, and a property that holds only of some says so in
its premise.

| module | models | data abstracted to |
|---|---|---|
| `ByteFraming` | what the framer promises: acknowledged bytes, the partial word, the word on offer | byte values |
| `BytesToWords` | `Serial_To_Parallel_Bytes.v` | two byte values |
| `SpiSlaveRx` | `SPI_Slave.v`, receive, with both clocks and the simulation's SPI master | a byte by the number of the bit that completes it; a torn sample is a value of its own |
| `JobPath` | `Miner_Top.v`, from SPI to the job word: `SpiSlaveRx`, extended by `BytesToWords` as the consumer on its Wishbone link | as in its parts |
| `SyncFifo` | the generic FIFO, three files | two words |
| `WordsToBytes` | `Parallel_To_Serial_Bytes.v` over `SyncFifo` | a byte by its place in the word |
| `SpiSlaveTx` | `SPI_Slave.v`, transmit, four modes | a bit by its byte and place |
| `MinerCore` | `Miner.v` with both rings of `SHA256_Transform.v` | a SHA-256 state by job, nonce and rounds done |
| `MiningPipeline` | the classic control unit and pipelines, every `LOOP_LOG2`, and the makomk variant | as `MinerCore` |
| `SerialTransmit` | the report of golden nonces and `serial_transmit` | a byte by nonce and place |
| `SerialLink` | `SerialTransmit`, extended by the line back, the Reader's reads and the share (Verilog_Xilinx_Port) | a byte of the header by its number |
| `SerialMiner` | `miner.py`'s threads, the line, `serial_receive` (DE2_115_makomk_serial) | a payload by its two halves and their work numbers |
| `VhdlPool` | the VHDL miner's way of a job: getwork and long-poll threads, queue, worker | a job by the block it builds on |
| `VhdlHost` | `VhdlPool`, extended by the way of a share: uploads, counters, `showstats` | a share by its thread |
| `VhdlFpga` | the VHDL miner's serial protocol: `Miner.run`, `mine`, `die`, and `top.vhd`, `uart.vhd` | a job by its number; bytes down, messages up |
| `VhdlJobInterval` | how `Miner.run` derives job and poll interval from the self-test | milliseconds |

Remarks on the correspondence that the modules' comments do not make:

* `BytesToWords`, `SyncFifo`, `WordsToBytes` keep their index registers at the
  width of the source: `IndexMod`, `FifoMod` are `2^width`, and the comparisons
  are Verilog's, so an index that can never equal its limit never does. The FIFO
  is given a depth of its own: `Sync_FIFO_WB` passes the address width on as
  depth, so 16 in the simulation top means 3.
* `SpiSlaveRx` shortens a byte to four bits for TLC. The bit counter wraps at the
  byte's width as in the source; the theorems are for every width above two, and
  for every synchroniser of at least two levels and at most as many as a byte has
  bits (the source: 2 or 3, of 8): a longer one would still hold the byte before
  when the next comes. `Ratio` is how
  many edges of `i_clk` there are at least between two of the SPI clock.
* `MinerCore` and `MiningPipeline` treat any hash as a possible hit. What they
  say of the nonce reported with a hit they say of every nonce.
  A round with another round's constant gives a value that is no SHA-256 state
  at all, and so does a final addition of another job's midstate.
* `SerialMiner` reads a nonce whole and sends a payload in two chunks, enough
  to lose or swap one. `SerialLink` has the bytes of a nonce, and the numbers of
  the bytes of a header on their way through `block[95:63:-1]`, the shift
  register of `serial_receive`, the hashers, and `nonce[::-1]` in the share.
* `VhdlPool`: a step of a thread reads or writes one shared field. `x = x + 1`
  is two steps, the read with the step before it; `adding` holds what a thread
  has read, `raced` (history) the counters to which two have added at once.
  `lastlongpoll` is a Boolean: is it later than now? `mine` is short here
  (written, acknowledged, over, an injection in one step), the serial port stays
  and the FPGA acknowledges; `VhdlFpga` has all of it.
* `VhdlFpga`: a timeout of a second means that nothing is on the way, in either
  direction. The FPGA starts in any state a session before may have left it in,
  in the middle of a job or with nonces to find, or is not there; `Interrupt`
  (Ctrl+C) is how it gets left like that. Which thread is in `mine` matters only
  when it ends there, by `die` or an exception: the main thread ends the program,
  the worker only itself.
  An injection is two steps, the write (`miner.py:429`) and the store of
  `self.job` (`:431`), with `fpgalock` held from the first to the second; the
  poll loop does not take the lock and may read in between. A read and the use of
  what was read are one step: one thread reads at a time, the fields the use
  depends on are written elsewhere only by the injection, and a read followed by
  a step of another thread is the same as the step followed by the read, but for
  `self.job`, whose value counts when the nonce is submitted.
  The FPGA fails in two ways: `FallSilent`, where the port stays and reads run out
  of time (what it was sending is gone as a whole: `read(4)` of a nonce cut short
  is left out), and `Unplug`, where the port (by default `/dev/ttyUSB0`) goes away and
  every later read or write of it raises. Nothing in `run` or `mine` catches that
  (`StartRaises`, `MineRaises`); in the long-poll thread `except: pass` does, after
  `fpgalock` was taken (`InjectRaises`).

## 3. The runs

`tlc -config MCx.cfg MCx.tla`, each within three minutes on two cores.

| configuration | states | instances | shows |
|---|---|---|---|
| MCBytesToWords | 3760 | one | the framer refines `ByteFraming` whenever producer, consumer and resets act; bytes are always taken |
| MCSpiSlaveRx | 21762 | eight masters: transactions of even or of any lengths, a clock that runs on or stops in between, edges that may coincide with `i_clk`'s or not | every byte handed over once, whole and in order while edges stay apart (but for a free-running clock with odd transactions); with a free-running clock and an even number of bytes none is left behind, coincident edges or not |
| MCJobPath | 1272 | one | each job transaction is one whole job word, loaded some time, and leaves the framer at the start of the next |
| MCSyncFifo | 560 | one | the FIFO is one word deep; the word comes with the strobe |
| MCWordsToBytes | 6080 | words of four bytes and of three | four: places in order for ever, a stream that never pauses |
| MCSpiSlaveTx | 48996 | four modes, a producer that waits and one that does not | mode 3: bits in order; a producer that waits: no byte changes under way, in any mode |
| MCMinerCore | 56596 | one | constants, steps and nonces in step; a job once begun is never given up; the stretch of nonces left out; no hash is ever completed |
| MCMiningPipeline | 301724 | `LOOP_LOG2` 0 to 5, and the makomk core | the golden nonce offset is exact; nonces in sequence, stale ones bounded, jobs get hashed |
| MCSerialLink | 70200 | one | the header submitted is byte for byte the one hashed while reads begin between nonces; a nonce found while idle is the next to leave; the transmitter always goes idle again |
| MCSerialMiner | 323480 | a late FPGA and replies without midstate; neither; neither, and a line quicker than the pool | every nonce counted once, no golden event lost; one whole unit of work is mined and the newest reaches the miner; a nonce goes with its block or the next |
| MCVhdlHost | 277623 | long polling with many jobs, with two blocks, with a failure; getwork alone with failures; shares alone with a failure | two stale jobs at most after an injection that found the queue empty, every new block mined, jobs and shares accounted for while no update of a counter is lost, percentages of at most 100 |
| MCVhdlFpga | 1731419 | an FPGA left anywhere, missing, falling silent, or a port that goes away; an interrupt | nonces credited to the job they are of; to one before it only while a job is being injected; a good FPGA refused in two cases only; every job whole after the zeros; an FPGA that does not answer ends the program, and so does a port that is gone at the start |

Every property of a run is broken by at least one plausible slip in the code it
is about, kept in the modules right before the definition it would slip into
(`CanAcceptTwice` before `CanAccept`) and listed under `mutants` in
`PROJECT.json`.

### What the code does differently from what it says

* The FIFO of the result path is one word deep whatever its parameter, and loses
  two acknowledged words when the second arrives (`OneWordDeep`), with flow
  control on too, which `Sync_FIFO_WB.v:47` says does not allow overflow.
* The ring of `SHA256_Transform.v` never completes a hash (`NeverHashes`): an item
  comes round every 4 clocks, the constants every 16, where lines 11-12 promise a
  hash every `P_UNWRAP_LEVEL` cycles.

### Where the premises come from

The premises in the properties are not caution: without each of them TLC gives a
counterexample. They mark where the code departs from its documents or leans on
its surroundings.

| without the premise | what happens |
|---|---|
| even transactions, for a clock that runs on (`HandOver`, `AllHandedOver`); for `AllHandedOver`, a clock that does run on | the end of a byte is noticed at the first bit of the next (`SPI_Slave.v:148`): `done` toggles twice in two bytes, and the last byte of an odd transaction is never handed over; a clock that stops leaves the last byte of any transaction until the next |
| clocks' edges apart (`HandOver`) | eight byte wires are sampled without a handshake (`SPI_Slave.v:172`) and can be torn |
| words of four bytes (`ByteOrder`, `StreamNeverEnds`) | a two-bit index is compared with 4 (`Parallel_To_Serial_Bytes.v:129`): no nonce is ever acknowledged to the FIFO. With three bytes the comparison would hold and the stream pause |
| mode 3 (`BitOrder`) | preload and bit count both send the top bit first (`SPI_Slave.v:254-269`): it is captured twice in modes 0 to 2 |
| a producer that waits (`WholeByte`) | the byte register is written at any time, over the byte being sent (`SPI_Slave.v:222`); line 42 says that any data will be shipped out |
| 133 for the makomk core (`GoldenNonceRight`) | the comment at `DE2_115_makomk_serial/fpgaminer_top.v:43-46` has 131; its code, line 156, is right |
| an FPGA on first (`JobWhole`) | the receiver counts 64 bytes from wherever it begins (`serial.v:46`) and stays out of step |
| replies with a midstate (`JobWhole`) | `miner.py:83` stores the block before it looks for the midstate: new data with an old midstate are mined, where lines 87-88 say that the old data are kept |
| "or the next" (`AlmostRightBlock`) | the Reader reads `writer.block` when a nonce comes (`miner.py:63`); after a timeout the Writer has stored the next one by then, which the comment at 61-62 does not think of |
| no read begins inside a nonce (`ShareIsHashed`) | `ser.read(4)` gives up after five seconds and a short read is dropped (`miner.py:58-60`): the rest of that nonce and the start of the next are submitted as one, until the line is quiet as long as a timeout |
| an empty queue (`StaleBounded`) | a put of the getwork thread that waited for a full queue goes on to clear `longpollhit` (`VHDL_Xilinx_Port/miner.py:106`), which ends the drain (`:123`): a full queue of stale jobs is mined after the new block's |
| no update lost (`JobsAccounted`, `SharesAccounted`, `PercentSane`) | `x = x + 1` on fields of a pool without a lock (`:46`, `:66`, ...) |
| the reply not lost (`SharesAccounted`) | a share whose reply is lost is sent again (`:53-55`) and the pool refuses what it has: an accepted share is counted as rejected |
| no injection (`CreditRight`) | `mine(job, True)` sets `self.job` without waiting for the acknowledgement (`:430-434`): nonces of the job before, still on the line, are submitted with the new one |
| no injection under way (`OlderOnlyAmidInjection`) | `mine(job, True)` writes the job (`:429`) before it sets `self.job` (`:431`), and the worker polls without `fpgalock` (`:452-467`): if the long-poll thread is held up in between for as long as the line takes, the worker reads the acknowledgement and a nonce of the new job and submits it with the job before |
| the port stays, or it was gone at the start (`FailureNoticed`) | a port that goes away while the program mines raises in the worker (`:429-461`), which ends with `rc` still 0, and with `fpgalock` held if it waited for an acknowledgement; or in the long-poll thread, which goes on with `fpgalock` held (`:134`) and stops the worker at `:428`. The main thread waits for `rc` (`:406-409`) for ever |
| no acknowledgement lost (`CreditRight`, `OlderOnlyAmidInjection`, code 2 in `GoodFpgaPasses`) | the UART drops a message while it sends one (`uart.vhd:108`): behind a nonce, a job's acknowledgement can get lost, and the host waits for it in vain |
| code 5 (`GoodFpgaPasses`) | a nonce of the session before, found during the self-test, ends the program (`miner.py:443`) |

Besides, a word read from the FIFO stays in it and is offered again
(`Sync_FIFO.v:98`, where only the write index says what is empty), and the
nonce `Miner.v:388` offers is taken from the counter as it is then, while
only the first nonce of a job was ever loaded into the ring (line 294).

### Bounds

* Two byte or word values tell one byte from another; with more, the same paths.
  Words have 3 or 4 bytes: more than the one byte that can be on the link while
  one is acknowledged. Word lengths beyond are what the theorems are for.
* `Ratio` is 4, the smallest the header of `SPI_Slave.v` allows, and 1 in
  `MCJobPath`, faster than it allows, so that any slower wire is easier.
  `TagMod` (32) and `MaxDue` (3) bound the tags and the bytes in flight: the
  synchroniser holds at most one, and transactions have up to 4 bytes.
* `MinerCore` and `MiningPipeline` run at the real number of rounds (64) and the
  real unwrap levels: the depths are what is checked. `NonceMod` is small and
  larger than the latency, so the nonce wraps. In `MinerCore` the jump's two
  constants shrink with it. One or two job changes, at any clock.
* `MaxWork`, `MaxNonces` = 2: the work a nonce is from, its successor and one
  more (the all-zero work is number 0), and two submissions that overtake each
  other. The Writer asks for ever, so that run never stops.
* `SerialLink`: two nonces, to see one take another's place; `MaxBuffer` = 5, a
  nonce and a byte, to see the Reader fall behind.
* `VhdlHost`: a queue of two (the code's default), two servers, `DisableFor` = 1
  in place of 10 (the same branch, fewer rounds). Each instance bounds the jobs,
  blocks, failures and shares and is large in what its question is about: four
  jobs fill the queue, a put that waits and the worker's hands; two blocks, one
  after the other's injection; three shares whose uploads overlap. With all of it
  at once the state space is out of reach. `showstats` reads counters only, so
  it is left out (`drawn`) where jobs are many.
* `VhdlFpga`: jobs of two bytes, enough to be left before either and to be torn
  in between; five job numbers: the self-test, two jobs of the worker, two
  injected. The last number stands for all later jobs. Three nonces or laps. A
  port that is gone does not come back: nothing opens it again.

### Fairness

Weak fairness of the clock, everywhere. Beyond it:

* `BytesToWords`: a word on offer is acknowledged some time (`Miner_Top.v:82`
  ties the ack to 1).
* `SpiSlaveRx`, `JobPath`: both clocks; the SPI edge only where the clock
  runs at all (`spi.idle`); in `JobPath` the master ends its transaction.
* `SerialLink`: the clock, a byte on the wire ends, the Reader reads.
* `VhdlHost`: threads that can go on do, the FPGA acknowledges and a job times
  out. Locks and a full queue are strongly fair (`WorkerWrites`, `PollerInjects`,
  `PollPutDone`): who waits gets its turn when they are free again and again.
  Nothing is assumed of the pool, nor that a block is found.
* `VhdlFpga`: host threads and the FPGA while it works; an injection that was
  written goes on to its store; the job timeout; the pool has a job some time. The FPGA need not find a nonce nor go through all.
* `SerialMiner`: threads run, calls return, the line moves. The pool need not
  have work, no nonce need be found, and the timeout of `golden.wait` need not
  come, so `GoldenBringsWork` does not lean on it.

## 4. What is proved

Every safety property that a run checks is also a theorem, for all values of the
constants that satisfy the modules' named assumptions:

| theorem | module | argument |
|---|---|---|
| `FramerTypeCorrect` | `BytesToWords_proofs` | from the invariant `IInv`: an index at `NumBytes` is there only while its word is being issued or is on offer. Types alone are not inductive: an index of `NumBytes` with no word on offer would accept one byte more and write past the buffer |
| `FramerImplementsFraming` | same | under `IInv` each pair of processes maps to a step of `ByteFraming` or a stutter |
| `ReceiveTypeCorrect`, `EveryByteHandedOver` | `JobPath_proofs` | `RxInv`, below |
| `FramerFitsSlave`, `JobsStayIntact`, `FramerRealigns` | same | `JobInv`, below |
| `FifoTypeCorrect`, `FifoIsOneWordDeep`, `FifoDataWithStrobe` | `ResultPath_proofs` | with the write index in {0, 1} and the read index 0, and the word in cell 0 the one last stored |
| `SerializerKeepsOrder`, `SerializerNeverStops` | same | `InStep`: where the number of bytes is that of the index's values (four bytes, two bits), the index is the byte expected next, so it never equals the number of bytes |
| `TransmitTypeCorrect`, `BitsInOrder`, `BitsOfOneByte` | `SpiSlaveTx_proofs` | `PlaceInv`: in mode 3 the place of the bit that stands on MISO follows from how many bits have been captured, between the edges and on them; `ByteInv`: with a producer that waits, all that is on MISO is of the byte register |
| `RomStaysInStep`, `MinesUntilReset` | `MinerCore_proofs` | `StepsInv`: while waiting, the counters rest at 0; while mining, or with a job just come, the address is a step ahead of the count and the ROM's row is with it |
| `NonceLastsLevel`, `JumpLeavesGap` | same | `NonceInv`: how long the nonce has been held against the count, and that only a jump could enter the stretch left out |
| `NeverAWholeHash` (64 rounds) | same | `RingsInv`: a stage only ever holds an item in its first lap. The item that leaves the last stage got there with row `L_HASHERS_NUM - 1`, so the row it meets at the first is not the one of its next round |
| `PipelineTypeCorrect`, `OffsetFindsNonce` | `MiningPipeline_proofs` | `LagInv`: what each register holds is of the nonce as many clocks ago as rounds and registers lie in between, one clock more at the turn of the loop. The offset theorem assumes the source's builds (64 rounds, 131 or 133 for the unrolled core): the constants are the point |
| `OldJobSoonOver` | same | `AgeInv`: how many rounds an item has done in the second transform tells how long it has been under way, so what is older than the job is of before the change |
| `NoncesOneByOne` | same | `FlowInv`: the items in `data`, in the stages of both transforms and in what they put out, read from the newest to the oldest, are in order: of one job, each nonce once, or of an older one |
| `SerialTypeCorrect`, `EveryNonceCounted` | `SerialMiner_proofs` | each step of a thread moves a nonce from one place of the sum to the next |
| `MinesWholeJobs` | same | `Framed`: what the receiver has of a job and what is on the line make up whole jobs, the last of them the Writer's |
| `SubmitsAlmostRightBlock` | same | `Near`: with a line quicker than the pool, all that is mined, on the way up or in the Reader's hands is of the block given last or the one before |
| `ReportTypeCorrect`, `IdleFindIsSent` | same | `OwedInv`: a nonce found while the way out is idle stands in `golden_nonce` with `serial_send` up until the clock that copies it |
| `SharesAreHashed` | same | `SendInv`: `mux_state` says how many bytes the UART has been given, and a byte is started only when it is idle; `Aligned`: the line, the buffer and the read under way hold whole nonces but for the one being sent and the one being read |
| `HostTypeCorrect`, `Safety` | `VhdlMiner_proofs` | `HostInv`, the conjunction of the following |
| `HostAccountsForJobs`, `HostAccountsForShares` | same | `TallyInv`: each thread adds to counters of its own list, and one that adds to a counter not raced on has read its present value; `JobsInv`, `SharesInv`: with an addition begun counted as done, the sums balance |
| `ScreenSane` | same | `ScreenInv`: counters that nobody raced on never go down, so the part read first is at most the whole read later |
| `FewStaleJobs` | same | `StaleInv`: how many jobs of older blocks there are in the queue, with getwork and with the worker, at each place of the long-poll thread |
| `LinkTypeCorrect`, `WorkingFpgaPasses`, `AcknowledgedJobsWhole` | same | `Safe` for the link: `PingInv`, the zeros of the start are more than the FPGA lacks; `FrameInv`, what is on the way down, with what it has loaded, is whole messages; `AckComes`, who waits for an acknowledgement has it coming |
| `NoncesCreditedRight`, `NoncesOlderOnlyAmidInjection` | same | `LineInv`, `SureInv`: on the line up, nonces before an acknowledgement are of jobs up to `Current`, nonces after it of the job acknowledged or a later one; with no injection and none dropped, of one job on each side. `Current` is `self.job`, or the job an injection has written and not yet stored; `ThreadInv` has that it is then at most one later, because `fpgalock` keeps every other write out between the two |
| `PollingEndsBeforeExhaustion`, `IntervalBounded`, `PolledFiveTimes` | same | arithmetic on the intervals of `VhdlJobInterval` in whole milliseconds (the code has seconds in floating point), for every configuration and every time the self-test takes. Counted from the acknowledgement, a job's interval and one whole poll after it (the deadline is tested between reads, `miner.py:452-456`) are over before the FPGA is through with the nonces, unless they take it less than 0.6 s; the interval is at most 47 s, and the poll interval a fifth of it at most. They are bounds on intervals and not on how long a job is mined: with an empty queue the FPGA keeps the job it has (`:420-423`) and may run out of nonces |

The proof of the way in shows best why the invariants are what they are.
`HandOver` speaks of one edge of `i_clk`, at which `stb` goes up with a byte; to
know which byte that is, `RxInv` follows `done` through the synchroniser.
`InFlight(p)` says that its present value has reached the first `p` levels, that
the byte it belongs to is at level `p` and is the oldest still owed, and that at
most `p` bits have been shifted in since (`Elapsed`): with edges apart, at least
`Ratio` edges of `i_clk`, so at least one level, for each bit. Hence with no more
levels than bits the last level has the value before `done` changes again, and
no change is missed; types, or even `Reached(p)` alone, would let a fast SPI clock
overtake it. `RestInv` adds where the master is in its transaction, which is what
an even number of bytes is needed for: with a clock that runs on, the clear of the
registers at the end must find `done` back at 0. `FramerFitsSlave` then says that
the framer is the consumer the slave was proved with, so `RxInv` holds in
`Miner_Top`, and `JobInv` adds a balance: of each transaction begun, every byte
has yet to come in, is in flight (`Queued`), or is in the framer (`Taken`).
`Realigned` is that balance with nothing on the way; `JobIntact` follows from
`OrderInv`, which numbers the bytes along the same path.

Assumptions. Each is an `ASSUME` of the module that declares the constants, and
TLC evaluates it on the runs. They say how the source chooses its parameters: the
index can reach the word's length (44 < 64), a job has an even number of bytes (44),
the bits of a byte are more than two and at least the levels of the synchroniser,
the rounds are a multiple of the unwrap level (`2 ^ P_LOOP_LOG2`, 2 to 32) or of
`LOOP`, a nonce has more bits than the count of the unwrap level, the shares are
finitely many. Two
theorems assume more: 64 rounds (`NeverAWholeHash`, `OffsetFindsNonce`), and
`SourceBuilds`.

The inductive invariants were checked by TLC on small instances before they were
proved. The proofs have one step per action and, under it, one per conjunct that
the action disturbs; a last, temporal step puts them together.

Model-checked only: everything under fairness (`BytesAreTaken`, `AllHandedOver`,
`JobLoaded`, `JobHashed`, `WordLeaves`, `GoldenBringsWork`, `WorkReachesMiner`,
`NewBlockMined`, `FailureNoticed`), which the proof system does not reach. `JobLoaded`
and `AllHandedOver` are what remains of the way in: that a byte in flight does
arrive. `TypeOK`s are the base of the inductive invariants and are theorems, but
no run of their own: the runs keep to the properties that say more.

## 5. Not modelled, and why

* The SHA-256 functions: combinational arithmetic on 32-bit words. The models
  keep which rounds of which nonce have been done.
* Vendor primitives (`EG_LOGIC_*`, PLLs, `async_transmitter`, JTAG cores): not in
  the repository, modelled from their use where they matter.
* The board ports that copy the classic core; the Nios test firmware; build files.
* The cocotb environment beyond its clocks, reset, sequence and driver, which are
  the environment of `SpiSlaveRx`: the monitor waits for an edge of `i_ss_in`,
  which nothing drives (`spi_monitor.py:111`), predictor and scoreboard are off
  (`tb_env_config.py:70-71`).
* VHDL miner: `miner.vhd` and its SHA-256 pipeline (any nonce may be found any
  time; what the pipeline holds when a job is loaded comes out within 128 clocks,
  while the UART sends the acknowledgement, and is dropped); more than one pool, which would
  share `lastlongpoll` and the worker's preference for the first; a hit of the
  self-test's job is its check nonce.
* `DE2_115_makomk_serial`: the interrupt of the main thread, which ends the
  daemon threads and all their state with it.
* The LX150 JTAG protocol, the KC705 UART protocol and the TCL scripts: not yet.

## 6. Plan

Done, in this order: the way in (`ByteFraming`, `BytesToWords`, `SpiSlaveRx`,
`JobPath`); the way out (`SyncFifo`, `WordsToBytes`, `SpiSlaveTx`); the two
mining cores; the serial miner, with its nonces byte by byte (`SerialLink`); the
VHDL miner (`VhdlPool`, `VhdlHost`, `VhdlFpga`, `VhdlJobInterval`).

The safety properties of all of them are proved (section 4). Next, proving what
joins or sums up the parts:

1. The way in as a refinement: `JobPath` implements a specification of jobs alone
   (a transaction begins, its word comes out), by the balance of `JobInv`.
2. The link of the VHDL miner against a specification of jobs and credits without
   a line, for runs with no injection.
3. Bounds the runs do not ask for: how many clocks a byte may take to come out of
   the synchroniser, how many jobs of a block gone by are ever in the host.

And extending, where there is room:

1. `ResultPath`: `MinerCore`'s offers into `SyncFifo`, `WordsToBytes` and
   `SpiSlaveTx` as `Miner_Top` wires them.
2. `JtagComm`: the LX150 register protocol and clock-programming FSM, with the
   TCL polling loop.
3. `KcUart`: the framed protocol of the KC705 with its CRC as an ideal check.
