------------------------------ MODULE JobPath ------------------------------
(***************************************************************************)
(* Miner_Top.v, the way in: the SPI slave and the byte framer wired to     *)
(* each other, from the bits of the wire to the job word the miner loads.  *)
(* The framer's registers are the f_ variables; its consumer is the miner, *)
(* whose ack Miner_Top ties to 1.  A job is a transaction of NumBytes      *)
(* bytes, sent by a master that knows the word's length.                   *)
(***************************************************************************)
EXTENDS SpiSlaveRx

CONSTANTS NumBytes, IndexMod

VARIABLES
    f_data, f_data_index, f_write_stb, f_write_data,
    owed    \* transactions begun whose job has not come out yet (history)

(* The master of sim/top.py: its clock never stops.                        *)
JobMaster == [counts |-> {NumBytes}, idle |-> TRUE, skew |-> FALSE]

ASSUME JobAssumption ==
    /\ NumBytes \in Nat \ {0} /\ NumBytes % 2 = 0
    /\ IndexMod \in Nat /\ NumBytes < IndexMod
    /\ NumBytes * Bits < TagMod

(* The wire i_master_write_ack of the slave is the register r_slave_ack of *)
(* the framer.                                                             *)
Framer == INSTANCE BytesToWords
          WITH Byte <- Tag, Zero <- 0,
               i_slave_write_stb <- r_write_stb, i_slave_write_data <- r_write_byte,
               i_master_write_ack <- 1,
               r_slave_ack <- i_master_write_ack, r_data <- f_data, r_data_index <- f_data_index,
               r_write_stb <- f_write_stb, r_write_data <- f_write_data

framer  == <<f_data, f_data_index, f_write_stb, f_write_data>>
jobVars == <<vars, framer, owed>>

JobInit ==
    /\ Init /\ spi = JobMaster
    /\ f_data_index = 0 /\ f_write_stb = 0
    /\ f_data = [c \in Framer!Cell |-> 0] /\ f_write_data = [c \in Framer!Cell |-> 0]
    /\ owed = 0

(* One rising edge of i_system_clk: both modules step at once.             *)
SystemEdge ==
    /\ Clock(r_rx_spi_done, r_rx_spi_byte)
    /\ Framer!Clock
    /\ since' = IF since < Ratio THEN since + 1 ELSE since
    /\ due' = Due(due)
    /\ owed' = IF f_write_stb = 0 /\ f_write_stb' = 1 THEN owed - 1 ELSE owed
    /\ UNCHANGED <<master, spiRegs>>

JobBit     == SpiEdge /\ UNCHANGED <<framer, owed>>
BeginJob   == Select /\ owed' = owed + 1 /\ UNCHANGED framer
EndJob     == Deselect /\ UNCHANGED <<framer, owed>>
BeginReset == AssertReset /\ owed' = 0 /\ UNCHANGED framer
EndReset   == ReleaseReset /\ UNCHANGED <<framer, owed>>

JobNext == SystemEdge \/ JobBit \/ BeginJob \/ EndJob \/ BeginReset \/ EndReset

JobSpec == JobInit /\ [][JobNext]_jobVars
FairJobSpec == JobSpec /\ WF_jobVars(SystemEdge) /\ WF_jobVars(JobBit) /\ WF_jobVars(EndJob)

-----------------------------------------------------------------------------
(* A job the miner is given is one transaction, whole: its first byte in   *)
(* the word's most significant place, its last in the least.               *)
JobIntact == f_write_stb = 1 => \A c \in Framer!Cell : f_write_data[c] = (NumBytes - c) * Bits

(* Between two jobs, with nothing left on any of the links, the framer is  *)
(* back at the start of a word and every transaction has made its one job: *)
(* a byte lost or taken twice would shift all the jobs that follow, for    *)
(* only reset and a whole word ever clear r_data_index.                    *)
Quiet ==
    /\ i_reset = 0 /\ i_spi_ss = 0 /\ due = <<>>
    /\ r_write_stb = 0 /\ i_master_write_ack = 0 /\ f_write_stb = 0
Realigned == Quiet => f_data_index = 0 /\ owed = 0

(* A transaction sent becomes a job, unless a reset drops it.              *)
JobLoaded == i_spi_ss = 1 ~> (f_write_stb = 1 \/ i_reset = 1)
=============================================================================
