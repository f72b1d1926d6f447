----------------------------- MODULE SpiSlaveRx -----------------------------
(***************************************************************************)
(* SPI_Slave.v, receive side: the Rx SPI process in the SPI clock domain,  *)
(* the CDC shift registers and the Wishbone write master in the i_clk      *)
(* domain.                                                                 *)
(*                                                                         *)
(* The two clocks are unrelated: SpiEdge is a rising edge of w_spi_clk,    *)
(* ClkEdge one of i_clk, and the master's clock is only known to be slow   *)
(* enough, at least Ratio edges of i_clk between two of w_spi_clk.         *)
(*                                                                         *)
(* Data abstraction: the contents of the eight-bit shift register are the  *)
(* number of bits shifted in since it was cleared: that says which bits of *)
(* the transaction it holds, and it is a whole byte when the number is a   *)
(* multiple of Bits.                                                       *)
(***************************************************************************)
EXTENDS Integers, Sequences

(* What is known of a master: the lengths of its transactions in bytes,    *)
(* whether its clock runs while the slave is not selected (idle), whether  *)
(* its clock's edges may coincide with those of i_clk (skew).              *)
Master == [counts : SUBSET (Nat \ {0}), idle : BOOLEAN, skew : BOOLEAN]

CONSTANTS Bits,        \* bits in a byte: r_rx_spi_bit_count counts modulo Bits
          Levels,      \* P_CDC_SYNCH_LEVELS
          Ratio,       \* least number of i_clk edges from one SPI edge to the next
          Masters,     \* the masters to look at: see Master
          TagMod,      \* the bit numbers wrap here: a bound of the model
          MaxDue       \* no transaction begins with this many bytes owed: a bound

ASSUME SpiAssumption ==
    /\ Bits \in Nat /\ Bits > 2
    /\ Levels \in 2 .. Bits  \* 2 (the default) or 3, of 8
    /\ Ratio \in Nat \ {0}
    /\ Masters \subseteq Master
    /\ TagMod \in Nat /\ TagMod > Bits /\ TagMod % Bits = 0
    /\ MaxDue \in Nat

VARIABLES
    spi,  \* the master of this slave: no step changes it
    i_reset, i_spi_ss, i_master_write_ack,                        \* inputs
    r_rx_spi_bit_count, r_rx_spi_done, r_rx_spi_byte, r_rx_spi_start,
    r_rx_cdc_done, r_rx_cdc_byte, r_write_stb, r_write_byte,
    since,  \* i_clk edges since the last SPI edge, counted up to Ratio
    left,   \* bits the master has yet to send in this transaction
    due     \* whole bytes sent and not yet handed over, oldest first (history)

spiRegs == <<r_rx_spi_bit_count, r_rx_spi_done, r_rx_spi_byte, r_rx_spi_start>>
clkRegs == <<r_rx_cdc_done, r_rx_cdc_byte, r_write_stb, r_write_byte>>
master  == <<spi, i_reset, i_spi_ss, left>>
vars    == <<master, i_master_write_ack, spiRegs, clkRegs, since, due>>

Bit   == {0, 1}
Level == 0 .. Levels - 1
Torn  == -1  \* a sample with bits from before and from after a shift
Tag   == 0 .. TagMod - 1

-----------------------------------------------------------------------------
(* The SPI clock domain.                                                   *)

ClearRx ==
    /\ i_reset = 1 \/ i_spi_ss = 0
    /\ r_rx_spi_done' = 0 /\ r_rx_spi_bit_count' = 0
    /\ r_rx_spi_byte' = 0 /\ r_rx_spi_start' = 0

(* The end of a byte is noticed one bit late, at the first bit of the next. *)
ShiftBit ==
    /\ i_reset = 0 /\ i_spi_ss = 1
    /\ r_rx_spi_start' = 1
    /\ r_rx_spi_bit_count' = (r_rx_spi_bit_count + 1) % Bits
    /\ r_rx_spi_byte' = (r_rx_spi_byte + 1) % TagMod
    /\ r_rx_spi_done' = IF r_rx_spi_bit_count = 0 /\ r_rx_spi_start = 1
                        THEN 1 - r_rx_spi_done ELSE r_rx_spi_done

RxSpiProcess == ClearRx \/ ShiftBit

-----------------------------------------------------------------------------
(* The i_clk domain.                                                       *)

(* Only level 0 is reset; the others keep shifting.                        *)
CdcProcess(done, byte) ==
    /\ r_rx_cdc_done' = [hh \in Level |->
           IF hh > 0 THEN r_rx_cdc_done[hh - 1] ELSE IF i_reset = 1 THEN 0 ELSE done]
    /\ r_rx_cdc_byte' = [hh \in Level |->
           IF hh > 0 THEN r_rx_cdc_byte[hh - 1] ELSE IF i_reset = 1 THEN 0 ELSE byte]

ByteArrivedOnRise == r_rx_cdc_done[Levels - 1] < r_rx_cdc_done[Levels - 2]
ByteArrived == r_rx_cdc_done[Levels - 1] # r_rx_cdc_done[Levels - 2]

(* The older of the two samples is the one before the late bit came in.    *)
YoungSample == r_rx_cdc_byte[Levels - 2]
ArrivedByte == r_rx_cdc_byte[Levels - 1]

WriteReset ==
    /\ i_reset = 1
    /\ r_write_stb' = 0 /\ r_write_byte' = 0

RaiseStb ==
    /\ i_reset = 0 /\ r_write_stb = 0 /\ ByteArrived
    /\ r_write_stb' = 1
    /\ r_write_byte' = ArrivedByte

NoNewByte ==
    /\ i_reset = 0 /\ ~(r_write_stb = 0 /\ ByteArrived)
    /\ r_write_stb' = IF i_master_write_ack = 1 THEN 0 ELSE r_write_stb
    /\ UNCHANGED r_write_byte

WriteProcess == WriteReset \/ RaiseStb \/ NoNewByte

Clock(done, byte) == CdcProcess(done, byte) /\ WriteProcess

-----------------------------------------------------------------------------
(* The master and the two clocks.                                          *)

ByteEnds == i_spi_ss = 1 /\ i_reset = 0 /\ (left - 1) % Bits = 0

(* A byte is due from the edge that shifts its last bit in to the strobe.  *)
Due(sent) == IF r_write_stb = 0 /\ r_write_stb' = 1 /\ sent # <<>> THEN Tail(sent) ELSE sent

SpiTick ==
    /\ since = Ratio
    /\ i_spi_ss = 1 => left > 0
    /\ i_spi_ss = 0 /\ i_reset = 0 => spi.idle
    /\ RxSpiProcess
    /\ since' = 0
    /\ left' = IF i_spi_ss = 1 THEN left - 1 ELSE left
    /\ UNCHANGED <<spi, i_reset, i_spi_ss>>

(* The framer acks a byte the edge after it sees the strobe; a consumer    *)
(* may also ack it at once.                                                *)
Acknowledge ==
    i_master_write_ack' \in IF r_write_stb' = 0 THEN {0} ELSE IF r_write_stb = 0 THEN Bit ELSE {1}

SpiEdge ==
    /\ SpiTick
    /\ due' = IF ByteEnds THEN Append(due, r_rx_spi_byte') ELSE due
    /\ UNCHANGED <<i_master_write_ack, clkRegs>>

ClkEdge ==
    /\ Clock(r_rx_spi_done, r_rx_spi_byte) /\ Acknowledge
    /\ since' = IF since < Ratio THEN since + 1 ELSE since
    /\ due' = Due(due)
    /\ UNCHANGED <<master, spiRegs>>

(* The two clocks rise together: each sampled wire may still have its old  *)
(* value or already have its new one, and the byte's wires need not agree. *)
BothEdges ==
    /\ spi.skew
    /\ SpiTick
    /\ \E done \in {r_rx_spi_done, r_rx_spi_done'} :
       \E byte \in {r_rx_spi_byte, r_rx_spi_byte', Torn} : Clock(done, byte)
    /\ Acknowledge
    /\ due' = Due(IF ByteEnds THEN Append(due, r_rx_spi_byte') ELSE due)

(* A sequence sends the bits of its payload one transfer each.             *)
Payloads == {n * Bits : n \in spi.counts}

Select ==
    /\ i_reset = 0 /\ i_spi_ss = 0 /\ Len(due) < MaxDue
    /\ spi.idle => r_rx_spi_start = 0  \* a running clock has had an edge since
    /\ i_spi_ss' = 1
    /\ left' \in Payloads
    /\ UNCHANGED <<spi, i_reset, i_master_write_ack, spiRegs, clkRegs, since, due>>

Deselect ==
    /\ i_spi_ss = 1 /\ left = 0
    /\ i_spi_ss' = 0
    /\ UNCHANGED <<spi, i_reset, left, i_master_write_ack, spiRegs, clkRegs, since, due>>

(* Reset is given while the slave is idle and lasts at least one edge of   *)
(* the SPI clock and enough of i_clk to flush the shift registers.         *)
AssertReset ==
    /\ i_reset = 0 /\ i_spi_ss = 0 /\ spi.idle
    /\ i_reset' = 1 /\ due' = <<>> /\ since' = 0
    /\ UNCHANGED <<spi, i_spi_ss, left, i_master_write_ack, spiRegs, clkRegs>>

ReleaseReset ==
    /\ i_reset = 1 /\ since = Ratio /\ r_rx_spi_done = 0 /\ r_rx_spi_start = 0
    /\ \A hh \in Level : r_rx_cdc_done[hh] = 0
    /\ i_reset' = 0
    /\ UNCHANGED <<spi, i_spi_ss, left, i_master_write_ack, spiRegs, clkRegs, since, due>>

Init ==
    /\ spi \in Masters
    /\ i_reset = 1 /\ i_spi_ss = 0 /\ i_master_write_ack = 0 /\ left = 0
    /\ r_rx_spi_bit_count = 0 /\ r_rx_spi_done = 0 /\ r_rx_spi_byte = 0 /\ r_rx_spi_start = 0
    /\ r_rx_cdc_done = [hh \in Level |-> 0] /\ r_rx_cdc_byte = [hh \in Level |-> 0]
    /\ r_write_stb = 0 /\ r_write_byte = 0
    /\ since = 0 /\ due = <<>>

(* The driver's two tasks, transfers and reset, run beside each other.     *)
Driver == Select \/ Deselect \/ AssertReset

Next == SpiEdge \/ ClkEdge \/ BothEdges \/ Driver \/ ReleaseReset

Spec == Init /\ [][Next]_vars

(* Both clocks run for ever where they run at all.                         *)
FairSpec == Spec /\ WF_vars(ClkEdge) /\ WF_vars(SpiEdge)

-----------------------------------------------------------------------------
TypeOK ==
    /\ spi \in Masters
    /\ i_reset \in Bit /\ i_spi_ss \in Bit /\ i_master_write_ack \in Bit
    /\ r_rx_spi_bit_count \in 0 .. Bits - 1
    /\ r_rx_spi_done \in Bit /\ r_rx_spi_start \in Bit /\ r_rx_spi_byte \in Tag
    /\ r_rx_cdc_done \in [Level -> Bit] /\ r_rx_cdc_byte \in [Level -> Tag \cup {Torn}]
    /\ r_write_stb \in Bit /\ r_write_byte \in Tag \cup {Torn}
    /\ since \in 0 .. Ratio /\ left \in Nat /\ due \in Seq(Tag)

Even == \A n \in spi.counts : n % 2 = 0

(* SPI_Slave.v:74, "Byte received on MOSI": a byte is put on the Wishbone  *)
(* link only once its last bit is in, with all of its own bits and none of *)
(* its neighbours', each byte once and in the order of the wire, for as    *)
(* long as the edges of the two clocks stay apart.  (A clock that runs on  *)
(* clears the last byte of an odd transaction, one that stops keeps it.)   *)
HandOver ==
    [][~spi.skew /\ (spi.idle => Even) /\ r_write_stb = 0 /\ r_write_stb' = 1
         => due # <<>> /\ r_write_byte' = Head(due)]_vars

(* SPI_Slave.v:40-43, the slave receives the bytes of a transaction: none  *)
(* is still owed some time after the slave is deselected, if the master    *)
(* sends an even number of them and keeps its clock running.               *)
AllHandedOver == spi.idle /\ Even /\ i_spi_ss = 0 ~> due = <<>>
=============================================================================
