---------------------------- MODULE WordsToBytes ----------------------------
(***************************************************************************)
(* Parallel_To_Serial_Bytes.v: the way out.  The nonces the miner reports  *)
(* go through a Sync_FIFO_WB (the f_ variables are its registers, r_fifo_  *)
(* ack its consumer's ack) and leave byte by byte, least significant byte  *)
(* first, over a Wishbone link to the SPI slave.                           *)
(***************************************************************************)
EXTENDS Integers, Sequences

CONSTANTS Word,      \* the words that occur
          Sizes,     \* the values of L_NUM_BYTES to look at: 4 for a nonce
          IndexMod,  \* 2^(L_INDEX_MSB + 1): the values of r_data_index, 4 for a nonce
          Depth,     \* P_SYNC_FIFO_DEPTH as it reaches Sync_FIFO
          FifoMod    \* the values of a FIFO index

ASSUME SerializerAssumption ==
    /\ Word # {}
    /\ IndexMod \in Nat /\ Sizes \subseteq 1 .. IndexMod
    /\ Depth \in Nat /\ FifoMod \in Nat /\ FifoMod > 1 /\ FifoMod >= Depth

VARIABLES
    numBytes,  \* L_NUM_BYTES of this instance: no step changes it
    i_reset, i_slave_write_stb, i_slave_write_data, i_master_write_ack,
    f_write_ack, f_master_stb, f_read_index, f_write_index, f_mem, f_rdata,
    r_fifo_ack, r_data_index, r_write_stb,
    next  \* the byte of a word that is next to be taken (history)

inputs == <<i_reset, i_slave_write_stb, i_slave_write_data, i_master_write_ack>>
fifo   == <<f_write_ack, f_master_stb, f_read_index, f_write_index, f_mem, f_rdata>>
regs   == <<r_fifo_ack, r_data_index, r_write_stb>>
vars   == <<numBytes, inputs, fifo, regs, next>>

p2b_fifo == INSTANCE SyncFifo
            WITH FifoWord <- Word, P_SYNC_FIFO_DEPTH <- Depth, FifoIndexMod <- FifoMod,
                 FlowCtrl <- 1,
                 i_reset_sync <- i_reset,
                 i_slave_fifo_write_stb <- i_slave_write_stb,
                 i_slave_fifo_write_data <- i_slave_write_data,
                 i_master_fifo_write_ack <- r_fifo_ack,
                 r_write_ack <- f_write_ack, r_master_stb <- f_master_stb,
                 r_read_index <- f_read_index, r_write_index <- f_write_index,
                 r_mem <- f_mem, r_rdata <- f_rdata, newest <- f_rdata

Bit == {0, 1}

w_ready == i_master_write_ack = 1 \/ r_write_stb = 0

(* The byte on the link, from the Data Mux.  Its places are those of four  *)
(* bytes: of a shorter word the places past the last count as byte 0.      *)
MuxByte == IF r_data_index < numBytes THEN r_data_index ELSE 0

-----------------------------------------------------------------------------
(* The serialiser's process.  Reset does not reach r_write_stb.            *)

ResetKeepsIndex ==
    /\ i_reset = 1
    /\ r_fifo_ack' = 0
    /\ UNCHANGED <<r_write_stb, r_data_index>>
Reset ==
    /\ i_reset = 1
    /\ r_fifo_ack' = 0 /\ r_data_index' = 0
    /\ UNCHANGED r_write_stb

Waiting == r_data_index = 0 /\ r_write_stb = 0

WaitForWord ==
    /\ i_reset = 0 /\ Waiting
    /\ r_write_stb' = IF f_master_stb = 1 /\ w_ready THEN 1 ELSE r_write_stb
    /\ r_fifo_ack' = 0
    /\ UNCHANGED r_data_index

WordConsumedEarly == r_data_index = numBytes - 1
WordConsumed == r_data_index = numBytes

FinishWord ==
    /\ i_reset = 0 /\ ~Waiting /\ w_ready /\ WordConsumed
    /\ r_fifo_ack' = 1 /\ r_write_stb' = 0 /\ r_data_index' = 0

NextByte ==
    /\ i_reset = 0 /\ ~Waiting /\ w_ready /\ ~WordConsumed
    /\ r_data_index' = (r_data_index + 1) % IndexMod
    /\ UNCHANGED <<r_fifo_ack, r_write_stb>>

HoldByte ==
    /\ i_reset = 0 /\ ~Waiting /\ ~w_ready
    /\ UNCHANGED regs

Serialize == Reset \/ WaitForWord \/ FinishWord \/ NextByte \/ HoldByte

Clock == p2b_fifo!FifoClock /\ Serialize

-----------------------------------------------------------------------------
(* The neighbours: the miner keeps a nonce until the FIFO's ack; the SPI   *)
(* slave acks a byte when it likes.                                        *)

ByteTaken == r_write_stb = 1 /\ i_master_write_ack = 1

Environment ==
    /\ UNCHANGED numBytes
    /\ i_reset' \in Bit
    /\ IF i_slave_write_stb = 1 /\ f_write_ack = 0 /\ i_reset = 0
       THEN UNCHANGED <<i_slave_write_stb, i_slave_write_data>>
       ELSE i_slave_write_stb' \in (IF i_reset = 1 THEN {0} ELSE Bit) /\ i_slave_write_data' \in Word
    /\ i_master_write_ack' \in IF r_write_stb' = 1 THEN Bit ELSE {0}
    /\ next' = IF i_reset = 1 THEN 0
               ELSE IF ByteTaken THEN (MuxByte + 1) % numBytes ELSE next

Init ==
    /\ numBytes \in Sizes
    /\ i_reset = 1 /\ i_slave_write_stb = 0 /\ i_slave_write_data \in Word /\ i_master_write_ack = 0
    /\ f_write_ack = 0 /\ f_master_stb = 0 /\ f_read_index = 0 /\ f_write_index = 0
    /\ \E w \in Word : f_mem = [c \in p2b_fifo!Cell |-> w] /\ f_rdata = w
    /\ r_fifo_ack = 0 /\ r_data_index = 0 /\ r_write_stb = 0
    /\ next = 0

Next == Clock /\ Environment

Spec == Init /\ [][Next]_vars

-----------------------------------------------------------------------------
TypeOK ==
    /\ numBytes \in Sizes
    /\ i_reset \in Bit /\ i_slave_write_stb \in Bit /\ i_master_write_ack \in Bit
    /\ i_slave_write_data \in Word
    /\ f_write_ack \in Bit /\ f_master_stb \in Bit
    /\ f_read_index \in p2b_fifo!Cell /\ f_write_index \in p2b_fifo!Cell
    /\ f_mem \in [p2b_fifo!Cell -> Word] /\ f_rdata \in Word
    /\ r_fifo_ack \in Bit /\ r_write_stb \in Bit
    /\ r_data_index \in 0 .. IndexMod - 1
    /\ next \in 0 .. numBytes - 1

(* Four bytes and two bits of index, or any such pair: the bytes leave     *)
(* least significant first, each once, and from the first again after the  *)
(* last or after a reset, whenever the acks and the resets come.           *)
ByteOrder == numBytes = IndexMod /\ ByteTaken /\ i_reset = 0 => MuxByte = next

(* Nothing stops their stream once it has begun: the index is never 4 (line *)
(* 129), and a reset leaves r_write_stb up (lines 115-118).                 *)
StreamNeverEnds == [][numBytes = IndexMod /\ r_write_stb = 1 => r_write_stb' = 1]_vars
=============================================================================
