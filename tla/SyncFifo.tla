------------------------------ MODULE SyncFifo ------------------------------
(***************************************************************************)
(* Sync_FIFO_WB.v over Sync_FIFO.v over Generic_BRAM.v, the generic        *)
(* technology (P_SYNC_FIFO_WB_TECHNOLOGY = 0): a FIFO with a Wishbone      *)
(* slave on the way in and a Wishbone master on the way out.               *)
(*                                                                         *)
(* P_SYNC_FIFO_DEPTH is the one that reaches Sync_FIFO: Sync_FIFO_WB       *)
(* passes it L_ADDR_MSB, so 3 for a P_FIFO_DEPTH of 16 (SIM_TOP), 5 for    *)
(* 64, 0 for Miner_Top's default of 2.                                     *)
(***************************************************************************)
EXTENDS Integers

CONSTANTS FifoWord,           \* the data words that occur
          P_SYNC_FIFO_DEPTH,  \* as it reaches Sync_FIFO
          FifoIndexMod,       \* 2^(L_FIFO_INDEX_MSB + 1): the values of an index
          FlowCtrl            \* P_SYNC_FIFO_WB_FLOW_CTRL: 1 = overflow not allowed

ASSUME FifoAssumption ==
    /\ FifoWord # {}
    /\ P_SYNC_FIFO_DEPTH \in Nat
    /\ FifoIndexMod \in Nat /\ FifoIndexMod > 1 /\ FifoIndexMod >= P_SYNC_FIFO_DEPTH
    /\ FlowCtrl \in {0, 1}

VARIABLES
    i_reset_sync, i_slave_fifo_write_stb, i_slave_fifo_write_data, i_master_fifo_write_ack,
    r_write_ack, r_master_stb,             \* Sync_FIFO_WB
    r_read_index, r_write_index,           \* Sync_FIFO
    r_mem, r_rdata,                        \* Generic_BRAM
    newest  \* the word last stored in an empty FIFO (history)

fifoPorts == <<i_reset_sync, i_slave_fifo_write_stb, i_slave_fifo_write_data, i_master_fifo_write_ack>>
fifoRegs  == <<r_write_ack, r_master_stb, r_read_index, r_write_index, r_mem, r_rdata>>
fifoVars  == <<fifoPorts, fifoRegs, newest>>

Wire == {0, 1}
Cell == 0 .. FifoIndexMod - 1

w_empty == r_write_index = 0
w_full  == r_write_index = P_SYNC_FIFO_DEPTH

WordTaken == i_slave_fifo_write_stb = 1 /\ r_write_ack = 0
w_write   == WordTaken /\ (FlowCtrl = 1 => ~w_full)
w_read    == r_master_stb = 0 /\ ~w_empty

(* Verilog compares in 32 bits: an index of 0 never equals 0 - 1.          *)
CaughtUp == r_write_index # 0 /\ r_read_index = r_write_index - 1

-----------------------------------------------------------------------------
(* The handshakes of Sync_FIFO_WB: the ack does not look at w_full.        *)

WriteHandshake == r_write_ack' = IF i_reset_sync = 0 /\ WordTaken THEN 1 ELSE 0

ReadHandshakeEarly ==
    r_master_stb' = IF i_reset_sync = 1 \/ i_master_fifo_write_ack = 1 THEN 0
                    ELSE IF ~w_empty \/ w_write THEN 1 ELSE r_master_stb
ReadHandshake ==
    r_master_stb' = IF i_reset_sync = 1 \/ i_master_fifo_write_ack = 1 THEN 0
                    ELSE IF ~w_empty THEN 1 ELSE r_master_stb

(* The indices of Sync_FIFO: a read never clears the write index.          *)

ReadIndex ==
    r_read_index' = IF i_reset_sync = 1 THEN 0
                    ELSE IF ~w_read THEN r_read_index
                    ELSE IF CaughtUp THEN 0 ELSE (r_read_index + 1) % FifoIndexMod

WriteIndexCounts ==
    r_write_index' = IF i_reset_sync = 1 THEN 0
                     ELSE IF ~w_write THEN r_write_index
                     ELSE (r_write_index + 1) % FifoIndexMod
WriteIndex ==
    r_write_index' = IF i_reset_sync = 1 THEN 0
                     ELSE IF ~w_write THEN r_write_index
                     ELSE IF CaughtUp THEN 0 ELSE (r_write_index + 1) % FifoIndexMod

(* The memory: no reset, read at every edge, old data on a simultaneous    *)
(* write to the same cell.                                                 *)
Memory ==
    /\ r_rdata' = r_mem[r_read_index]
    /\ r_mem' = IF w_write THEN [r_mem EXCEPT ![r_write_index] = i_slave_fifo_write_data] ELSE r_mem

FifoClock == WriteHandshake /\ ReadHandshake /\ ReadIndex /\ WriteIndex /\ Memory

-----------------------------------------------------------------------------
(* The neighbours: a Wishbone producer and a Wishbone consumer.            *)

History == newest' = IF w_write /\ w_empty THEN i_slave_fifo_write_data ELSE newest

Neighbours ==
    /\ i_reset_sync' \in Wire
    /\ IF i_slave_fifo_write_stb = 1 /\ r_write_ack = 0 /\ i_reset_sync = 0
       THEN UNCHANGED <<i_slave_fifo_write_stb, i_slave_fifo_write_data>>
       ELSE /\ i_slave_fifo_write_stb' \in IF i_reset_sync = 0 THEN Wire ELSE {0}
            /\ i_slave_fifo_write_data' \in FifoWord
    /\ i_master_fifo_write_ack' \in IF r_master_stb' = 1 THEN Wire ELSE {0}

FifoInit ==
    /\ i_reset_sync = 1
    /\ i_slave_fifo_write_stb = 0 /\ i_slave_fifo_write_data \in FifoWord
    /\ i_master_fifo_write_ack = 0
    /\ r_write_ack = 0 /\ r_master_stb = 0 /\ r_read_index = 0 /\ r_write_index = 0
    /\ \E w \in FifoWord : r_mem = [c \in Cell |-> w] /\ r_rdata = w /\ newest = w

FifoNext == FifoClock /\ History /\ Neighbours

FifoSpec == FifoInit /\ [][FifoNext]_fifoVars

-----------------------------------------------------------------------------
FifoTypeOK ==
    /\ i_reset_sync \in Wire /\ i_slave_fifo_write_stb \in Wire /\ i_master_fifo_write_ack \in Wire
    /\ i_slave_fifo_write_data \in FifoWord
    /\ r_write_ack \in Wire /\ r_master_stb \in Wire
    /\ r_read_index \in Cell /\ r_write_index \in Cell
    /\ r_mem \in [Cell -> FifoWord] /\ r_rdata \in FifoWord
    /\ newest \in FifoWord

(* Whatever its depth, the FIFO never holds more than one word and never   *)
(* walks its memory: the second of two words stored without a reset in     *)
(* between sends r_write_index back to 0 (Sync_FIFO.v:109-111), the read   *)
(* index never leaves 0, and for a depth of 2 or more w_full never rises:  *)
(* the second word is acknowledged (Sync_FIFO_WB.v:93), and both are lost, *)
(* with the flow control of Sync_FIFO_WB.v:47 on or off.                   *)
OneWordDeep == r_read_index = 0 /\ r_write_index \in {0, 1}

(* The strobe rises with the stored word already on the read port: the     *)
(* memory's clock of latency is hidden behind r_master_stb's own, so the   *)
(* consumer never sees the cell's contents from before the write.          *)
DataWithStrobe == [][r_master_stb = 0 /\ r_master_stb' = 1 => r_rdata' = newest']_fifoVars
=============================================================================
