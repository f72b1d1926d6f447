---------------------------- MODULE BytesToWords ----------------------------
(***************************************************************************)
(* Serial_To_Parallel_Bytes.v: the framer that collects the bytes the SPI  *)
(* slave hands it over a Wishbone link into the wide word (midstate and    *)
(* block tail, 44 bytes) that starts a mining job.                         *)
(*                                                                         *)
(* The i_* variables are the module's input wires and the r_* variables    *)
(* its registers.  Clock is one rising edge of i_clk: every always block   *)
(* reads the wires and registers as they are before the edge.  Clock says  *)
(* nothing of the next inputs, so that another module can connect them to  *)
(* its own registers with INSTANCE ... WITH; Spec below closes the module  *)
(* with a Wishbone producer and a Wishbone consumer.                       *)
(***************************************************************************)
EXTENDS Integers, Sequences

CONSTANTS Byte,       \* the byte values that occur on the link
          Zero,       \* the byte reset puts in r_data[0]
          NumBytes,   \* L_NUM_BYTES: bytes in a word
          IndexMod    \* 2^(L_INDEX_MSB + 1): the values of r_data_index

ASSUME FramerAssumption ==
    /\ NumBytes \in Nat \ {0}
    /\ IndexMod \in Nat
    /\ NumBytes < IndexMod  \* 44 < 64: the index can reach L_NUM_BYTES
    /\ Zero \in Byte

VARIABLES i_reset, i_slave_write_stb, i_slave_write_data, i_master_write_ack,
          r_slave_ack, r_data, r_data_index, r_write_stb, r_write_data

inputs == <<i_reset, i_slave_write_stb, i_slave_write_data, i_master_write_ack>>
regs   == <<r_slave_ack, r_data, r_data_index, r_write_stb, r_write_data>>
vars   == <<inputs, regs>>

Cell == 0 .. NumBytes - 1

Bit == {0, 1}
TypeOK ==
    /\ i_reset \in Bit /\ i_slave_write_stb \in Bit
    /\ i_slave_write_data \in Byte /\ i_master_write_ack \in Bit
    /\ r_slave_ack \in Bit /\ r_write_stb \in Bit
    /\ r_data_index \in 0 .. NumBytes
    /\ r_data \in [Cell -> Byte] /\ r_write_data \in [Cell -> Byte]

-----------------------------------------------------------------------------
(* The Wishbone slave process: one byte per ack, none while a word waits.  *)

CanAcceptTwice == i_slave_write_stb = 1 /\ r_write_stb = 0
CanAccept == i_slave_write_stb = 1 /\ r_slave_ack = 0 /\ r_write_stb = 0

SlaveReset ==
    /\ i_reset = 1
    /\ r_slave_ack' = 0
    /\ r_data_index' = 0
    /\ r_data' = [r_data EXCEPT ![0] = Zero]

AcceptByte ==
    /\ i_reset = 0 /\ CanAccept
    /\ r_slave_ack' = 1
    /\ r_data' = [r_data EXCEPT ![r_data_index] = i_slave_write_data]
    /\ r_data_index' = (r_data_index + 1) % IndexMod

NoByte ==
    /\ i_reset = 0 /\ ~CanAccept
    /\ r_slave_ack' = 0
    /\ r_data_index' = IF r_write_stb = 1 THEN 0 ELSE r_data_index
    /\ r_data' = r_data

SlaveProcess == SlaveReset \/ AcceptByte \/ NoByte

-----------------------------------------------------------------------------
(* The Wishbone master process: the word goes out with its bytes reversed, *)
(* the first byte received in the most significant place.                  *)

WordComplete == r_data_index = NumBytes /\ r_slave_ack = 1

MasterReset ==
    /\ i_reset = 1
    /\ r_write_stb' = 0
    /\ r_write_data' = r_write_data

IssueWordUnreversed ==
    /\ i_reset = 0 /\ WordComplete
    /\ r_write_stb' = 1
    /\ r_write_data' = r_data
IssueWord ==
    /\ i_reset = 0 /\ WordComplete
    /\ r_write_stb' = 1
    /\ r_write_data' = [jj \in Cell |-> r_data[NumBytes - 1 - jj]]

NeverReleaseWord ==
    /\ i_reset = 0 /\ ~WordComplete
    /\ UNCHANGED <<r_write_stb, r_write_data>>
HoldOrReleaseWord ==
    /\ i_reset = 0 /\ ~WordComplete
    /\ r_write_stb' = IF i_master_write_ack = 1 THEN 0 ELSE r_write_stb
    /\ r_write_data' = r_write_data

MasterProcess == MasterReset \/ IssueWord \/ HoldOrReleaseWord

Clock == SlaveProcess /\ MasterProcess

-----------------------------------------------------------------------------
(* The neighbours: a Wishbone producer keeps its byte until the ack and    *)
(* then stops or goes on with another; a consumer acks when it likes.      *)

Produce ==
    IF i_slave_write_stb = 1 /\ r_slave_ack = 0
    THEN UNCHANGED <<i_slave_write_stb, i_slave_write_data>>
    ELSE /\ i_slave_write_stb' \in Bit
         /\ i_slave_write_data' \in Byte

Consume == i_master_write_ack' \in Bit

Init ==
    /\ i_reset = 1
    /\ i_slave_write_stb = 0
    /\ i_slave_write_data \in Byte
    /\ i_master_write_ack \in Bit
    /\ r_slave_ack = 0 /\ r_data_index = 0 /\ r_write_stb = 0
    /\ r_data \in [Cell -> Byte] /\ r_write_data \in [Cell -> Byte]

(* i_reset also resets the producer (Miner_Top gives both i_system_reset). *)
Environment ==
    /\ i_reset' \in Bit
    /\ IF i_reset = 1
       THEN i_slave_write_stb' = 0 /\ i_slave_write_data' \in Byte
       ELSE Produce
    /\ Consume

Next == Clock /\ Environment

(* The clock runs, and a word on offer is acked some time: Miner_Top ties  *)
(* the ack to 1.                                                           *)
Fairness ==
    /\ WF_vars(Next)
    /\ WF_vars(Next /\ i_master_write_ack' = 1)

Spec == Init /\ [][Next]_vars
FairSpec == Spec /\ Fairness

-----------------------------------------------------------------------------
(* What the framer promises, and the state of it the registers stand for.  *)

Offered == IF i_slave_write_stb = 1 /\ r_slave_ack = 0 THEN <<i_slave_write_data>> ELSE <<>>
Partial == IF r_write_stb = 1 THEN <<>> ELSE [i \in 1 .. r_data_index |-> r_data[i - 1]]
Word    == IF r_write_stb = 1 THEN [i \in 1 .. NumBytes |-> r_write_data[NumBytes - i]] ELSE <<>>

Framing == INSTANCE ByteFraming WITH offered <- Offered, partial <- Partial, word <- Word

(* Every byte the producer saw acknowledged is in exactly one word, in the *)
(* order received, words hold NumBytes bytes each, and a word on offer     *)
(* stays as it is until it is acknowledged: Serial_To_Parallel_Bytes       *)
(* implements ByteFraming.                                                 *)
FramingRefined == Framing!Spec

(* A byte on offer is acknowledged unless a reset intervenes: the framer   *)
(* never locks the link up, not even while a word waits.                   *)
BytesAreTaken == i_slave_write_stb = 1 ~> (r_slave_ack = 1 \/ i_reset = 1)
=============================================================================
