------------------------- MODULE ResultPath_proofs -------------------------
(***************************************************************************)
(* The way of a nonce out of Miner_Top.v: the FIFO the nonces go through,  *)
(* with any neighbours, and the serialiser behind it.                      *)
(***************************************************************************)
EXTENDS SyncFifo, WordsToBytes, TLAPS

(* A word in the FIFO is in the cell the read port looks at.               *)
StoredIsNewest == r_write_index = 1 => r_mem[0] = newest

FifoInv == FifoTypeOK /\ OneWordDeep /\ StoredIsNewest

(* The first cell exists and the index after it is a value of the index.   *)
LEMMA IndexRange == 0 \in Cell /\ 1 \in Cell /\ (0 + 1) % FifoIndexMod = 1
  BY FifoAssumption, SMT DEF Cell

LEMMA FifoInitInv == FifoInit => FifoInv
  BY FifoAssumption, IndexRange DEF FifoInit, FifoInv, FifoTypeOK, OneWordDeep, StoredIsNewest, Wire

(* One clock edge: the read index stays at 0 and the write index toggles   *)
(* between 0 and 1, whatever the inputs do.                                *)
LEMMA IndicesStay ==
  ASSUME FifoInv, FifoClock
  PROVE  /\ OneWordDeep'
         /\ w_write /\ ~w_empty => r_write_index' = 0
<1>1. r_read_index = 0 /\ r_write_index \in {0, 1}
  BY DEF FifoInv, OneWordDeep
<1>2. w_read => CaughtUp
  BY <1>1 DEF w_read, w_empty, CaughtUp
<1>3. r_read_index' = 0
  BY <1>1, <1>2 DEF FifoClock, ReadIndex
<1>4. CaughtUp <=> r_write_index = 1
  BY <1>1 DEF CaughtUp
<1>5. r_write_index' \in {0, 1}
  BY <1>1, <1>4, IndexRange DEF FifoClock, WriteIndex
<1> QED
  BY <1>1, <1>3, <1>4, <1>5 DEF OneWordDeep, FifoClock, WriteIndex, w_empty

LEMMA FifoTypeStep ==
  ASSUME FifoInv, FifoNext
  PROVE  FifoTypeOK'
<1>1. OneWordDeep'
  BY IndicesStay DEF FifoNext
<1>2. r_read_index' \in Cell /\ r_write_index' \in Cell
  BY <1>1, IndexRange DEF OneWordDeep
<1>3. /\ i_reset_sync' \in Wire /\ i_slave_fifo_write_stb' \in Wire
      /\ i_slave_fifo_write_data' \in FifoWord /\ i_master_fifo_write_ack' \in Wire
  BY DEF FifoNext, Neighbours, FifoInv, FifoTypeOK, Wire
<1>4. r_write_ack' \in Wire /\ r_master_stb' \in Wire
  BY DEF FifoNext, FifoClock, WriteHandshake, ReadHandshake, FifoInv, FifoTypeOK, Wire
<1>5. r_mem' \in [Cell -> FifoWord] /\ r_rdata' \in FifoWord
  BY DEF FifoNext, FifoClock, Memory, FifoInv, FifoTypeOK
<1>6. newest' \in FifoWord
  BY DEF FifoNext, History, FifoInv, FifoTypeOK
<1> QED
  BY <1>2, <1>3, <1>4, <1>5, <1>6 DEF FifoTypeOK

LEMMA StoredStep ==
  ASSUME FifoInv, FifoNext
  PROVE  StoredIsNewest'
<1> USE DEF FifoInv, StoredIsNewest
<1>1. CASE w_write /\ w_empty
  BY <1>1, IndexRange DEF FifoNext, FifoClock, Memory, History, w_empty, FifoTypeOK
<1>2. CASE w_write /\ ~w_empty
  <2>1. r_write_index' = 0
    BY <1>2, IndicesStay DEF FifoNext
  <2> QED
    BY <2>1
<1>3. CASE ~w_write
  <2>1. r_mem' = r_mem /\ newest' = newest
    BY <1>3 DEF FifoNext, FifoClock, Memory, History
  <2>2. r_write_index' \in {0, r_write_index}
    BY <1>3 DEF FifoNext, FifoClock, WriteIndex
  <2> QED
    BY <2>1, <2>2
<1> QED
  BY <1>1, <1>2, <1>3

LEMMA FifoStepInv == FifoInv /\ [FifoNext]_fifoVars => FifoInv'
<1> SUFFICES ASSUME FifoInv, [FifoNext]_fifoVars PROVE FifoInv'
  OBVIOUS
<1>1. CASE FifoNext
  <2>1. OneWordDeep'
    BY <1>1, IndicesStay DEF FifoNext
  <2> QED
    BY <1>1, <2>1, FifoTypeStep, StoredStep DEF FifoInv
<1>2. CASE UNCHANGED fifoVars
  BY <1>2 DEF fifoVars, fifoPorts, fifoRegs, FifoInv, FifoTypeOK, OneWordDeep, StoredIsNewest
<1> QED
  BY <1>1, <1>2

LEMMA FifoAlways == FifoSpec => []FifoInv
  BY FifoInitInv, FifoStepInv, PTL DEF FifoSpec

(* The registers of the FIFO and of its memory keep to their types.        *)
THEOREM FifoTypeCorrect == FifoSpec => []FifoTypeOK
<1>1. FifoInv => FifoTypeOK
  BY DEF FifoInv
<1> QED
  BY <1>1, FifoAlways, PTL

(* Whatever P_SYNC_FIFO_DEPTH and the index width are, the indices never   *)
(* leave 0 and 1 (Sync_FIFO.v:82-118): the FIFO is a one-word buffer.      *)
THEOREM FifoIsOneWordDeep == FifoSpec => []OneWordDeep
<1>1. FifoInv => OneWordDeep
  BY DEF FifoInv
<1> QED
  BY <1>1, FifoAlways, PTL

(* When the strobe rises (Sync_FIFO_WB.v:106-117) the read port already    *)
(* has the word last stored: no consumer sees a stale cell.                *)
THEOREM FifoDataWithStrobe == FifoSpec => DataWithStrobe
<1>1. FifoInv /\ [FifoNext]_fifoVars => [r_master_stb = 0 /\ r_master_stb' = 1 => r_rdata' = newest']_fifoVars
  <2> SUFFICES ASSUME FifoInv, FifoNext, r_master_stb = 0, r_master_stb' = 1
               PROVE  r_rdata' = newest'
    OBVIOUS
  <2>1. ~w_empty
    BY DEF FifoNext, FifoClock, ReadHandshake
  <2>2. r_write_index = 1 /\ r_read_index = 0
    BY <2>1 DEF FifoInv, OneWordDeep, w_empty
  <2>3. newest' = newest
    BY <2>1 DEF FifoNext, History
  <2> QED
    BY <2>2, <2>3 DEF FifoInv, StoredIsNewest, FifoNext, FifoClock, Memory
<1> QED
  BY <1>1, FifoAlways, PTL DEF FifoSpec, DataWithStrobe

-----------------------------------------------------------------------------
(* The serialiser, for a word whose number of bytes is a power of two, as  *)
(* a nonce's is: r_data_index then has exactly L_NUM_BYTES values, and no  *)
(* value of it is ever L_NUM_BYTES.                                        *)

(* The registers and inputs the argument needs, with their relation: the   *)
(* index is the next byte due, and stays 0 until the strobe is up.         *)
IndexInStep ==
    /\ i_reset \in Bit /\ i_master_write_ack \in Bit /\ r_write_stb \in Bit
    /\ r_data_index \in 0 .. IndexMod - 1
    /\ r_data_index = next
    /\ r_write_stb = 0 => r_data_index = 0
    /\ r_fifo_ack = 0

InStep == numBytes \in Sizes /\ (numBytes = IndexMod => IndexInStep)

LEMMA WrapRange ==
  ASSUME NEW i \in 0 .. IndexMod - 1
  PROVE  (i + 1) % IndexMod \in 0 .. IndexMod - 1
  BY SerializerAssumption, SMT

LEMMA InitInStep == Init => InStep
<1> SUFFICES ASSUME Init, numBytes = IndexMod PROVE IndexInStep
  BY DEF Init, InStep
<1>1. IndexMod \in Nat /\ IndexMod >= 1
  BY SerializerAssumption, SMT DEF Init
<1> QED
  BY <1>1, SMT DEF Init, IndexInStep, Bit

LEMMA StepIndexInStep ==
  ASSUME numBytes = IndexMod, IndexMod >= 1, IndexInStep, Next
  PROVE  IndexInStep'
<1>1. i_reset' \in Bit /\ i_master_write_ack' \in Bit
  BY DEF Next, Environment, Bit
<1>2. ~WordConsumed /\ MuxByte = r_data_index
  BY SerializerAssumption, SMT DEF IndexInStep, WordConsumed, MuxByte
<1>3. CASE Reset
  BY <1>1, <1>3, SerializerAssumption, SMT DEF Reset, Next, Environment, IndexInStep, Bit
<1>4. CASE WaitForWord
  <2>1. r_data_index' = 0 /\ r_fifo_ack' = 0 /\ r_write_stb' \in Bit
    BY <1>4 DEF WaitForWord, Waiting, IndexInStep, Bit
  <2>2. next' = 0
    BY <1>4, SMT DEF WaitForWord, Waiting, Next, Environment, ByteTaken, IndexInStep
  <2> QED
    BY <1>1, <2>1, <2>2, SerializerAssumption, SMT DEF IndexInStep
<1>5. CASE FinishWord
  BY <1>2, <1>5 DEF FinishWord
<1>6. CASE NextByte
  <2>1. r_write_stb = 1 /\ i_master_write_ack = 1
    BY <1>6 DEF NextByte, Waiting, w_ready, IndexInStep, Bit
  <2>2. next' = (r_data_index + 1) % IndexMod
    BY <1>2, <1>6, <2>1 DEF NextByte, Next, Environment, ByteTaken
  <2>3. r_data_index' = (r_data_index + 1) % IndexMod
    BY <1>6 DEF NextByte
  <2>4. r_data_index' \in 0 .. IndexMod - 1
    BY <2>3, WrapRange DEF IndexInStep
  <2>5. r_write_stb' = 1 /\ r_fifo_ack' = 0
    BY <1>6, <2>1 DEF NextByte, IndexInStep
  <2> QED
    BY <1>1, <2>2, <2>3, <2>4, <2>5 DEF IndexInStep, Bit
<1>7. CASE HoldByte
  <2>1. UNCHANGED regs
    BY <1>7 DEF HoldByte
  <2>2. next' = next
    BY <1>7, SMT DEF HoldByte, w_ready, Next, Environment, ByteTaken
  <2> QED
    BY <1>1, <2>1, <2>2 DEF IndexInStep, regs
<1> QED
  BY <1>3, <1>4, <1>5, <1>6, <1>7 DEF Next, Clock, Serialize

LEMMA InStepAlways == Spec => []InStep
<1>1. ASSUME InStep, Next PROVE InStep'
  <2>1. numBytes' = numBytes
    BY <1>1 DEF Next, Environment
  <2>2. ASSUME numBytes = IndexMod PROVE IndexInStep'
    <3>1. IndexMod >= 1
      BY <1>1, <2>2, SerializerAssumption, SMT DEF InStep
    <3> QED
      BY <1>1, <2>2, <3>1, StepIndexInStep DEF InStep
  <2> QED
    BY <1>1, <2>1, <2>2 DEF InStep
<1>2. ASSUME InStep, UNCHANGED vars PROVE InStep'
  BY <1>2 DEF InStep, IndexInStep, vars, inputs, regs
<1> QED
  BY <1>1, <1>2, InitInStep, PTL DEF Spec

(* The bytes of every word leave in order, for every L_NUM_BYTES that is   *)
(* the number of values of r_data_index (Parallel_To_Serial_Bytes.v:       *)
(* 114-164).                                                               *)
THEOREM SerializerKeepsOrder == Spec => []ByteOrder
<1>1. InStep => ByteOrder
  BY SerializerAssumption, SMT DEF InStep, IndexInStep, ByteOrder, MuxByte
<1> QED
  BY <1>1, InStepAlways, PTL

(* With that index the serialiser never acknowledges a word and never      *)
(* lowers its strobe (lines 114-140): the comparison of line 129 is never  *)
(* true, so the FIFO keeps its first word for ever.                        *)
THEOREM SerializerNeverStops ==
  Spec => StreamNeverEnds /\ [](numBytes = IndexMod => r_fifo_ack = 0)
<1>1. InStep => (numBytes = IndexMod => r_fifo_ack = 0)
  BY DEF InStep, IndexInStep
<1>2. InStep /\ [Next]_vars => [numBytes = IndexMod /\ r_write_stb = 1 => r_write_stb' = 1]_vars
  <2> SUFFICES ASSUME InStep, Next, numBytes = IndexMod, r_write_stb = 1 PROVE r_write_stb' = 1
    OBVIOUS
  <2>1. ~WordConsumed
    BY SerializerAssumption, SMT DEF InStep, IndexInStep, WordConsumed
  <2>2. Serialize
    BY DEF Next, Clock
  <2> QED
    BY <2>1, <2>2 DEF Serialize, Reset, WaitForWord, Waiting, FinishWord, NextByte, HoldByte, regs
<1> QED
  BY <1>1, <1>2, InStepAlways, PTL DEF Spec, StreamNeverEnds
=============================================================================
