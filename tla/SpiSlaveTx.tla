----------------------------- MODULE SpiSlaveTx -----------------------------
(***************************************************************************)
(* SPI_Slave.v, transmit side: the Tx Byte In process in the i_clk domain, *)
(* the MISO preload and bit processes in the SPI clock domain, and a       *)
(* master that follows the mode table of the file's header.                *)
(*                                                                         *)
(* The SPI clock runs all the time (sim/top.py).  Its cycle is two edges,  *)
(* leading and trailing, and the mode says which of them is w_spi_clk's    *)
(* rising edge and which of them the master captures on.  A bit on MISO is *)
(* known by the byte it comes from and its place in it.                    *)
(***************************************************************************)
EXTENDS Integers, Sequences

(* A slave's P_SPI_MODE, and whether what writes to it waits for the end of *)
(* a transaction (holdOff): nothing in the module makes it do so.          *)
Setup == [mode : 0 .. 3, holdOff : BOOLEAN]

CONSTANTS Byte,        \* the byte values that occur
          Zero,        \* r_tx_byte after reset
          Bits,        \* bits in a byte: r_tx_bit_count counts modulo Bits
          ByteCounts,  \* the lengths of a transaction, in bytes
          Setups       \* the setups to look at

ASSUME TxAssumption ==
    /\ Zero \in Byte
    /\ Bits \in Nat /\ Bits > 1
    /\ ByteCounts \subseteq Nat \ {0}
    /\ Setups \subseteq Setup

VARIABLES
    setup,  \* of this slave: no step changes it
    i_reset, i_spi_ss, i_slave_write_stb, i_slave_write_data,   \* inputs
    r_write_ack, r_tx_byte,                                     \* i_clk domain
    r_tx_bit_count, r_spi_miso_bit, r_preload_miso,             \* SPI clock domain
    active,    \* is the SPI clock away from its idle level?
    left,      \* bits the master has yet to clock in this transaction
    edged,     \* has there been an edge of w_spi_clk since the slave was deselected?
    captured   \* the bits of the current byte the master has captured (history)

producer == <<setup, i_reset, i_slave_write_stb, i_slave_write_data>>
clkRegs  == <<r_write_ack, r_tx_byte>>
spiRegs  == <<r_tx_bit_count, r_spi_miso_bit, r_preload_miso>>
master   == <<i_spi_ss, left, captured>>
vars     == <<producer, clkRegs, spiRegs, master, active, edged>>

Bit     == {0, 1}
MisoBit == Byte \X (0 .. Bits - 1)

CPOL == setup.mode \in {2, 3}
CPHA == setup.mode \in {1, 3}

(* w_spi_clk is the clock, inverted if CPHA: it rises on the leading edge  *)
(* if CPOL and CPHA agree.  The master captures on the leading edge if     *)
(* CPHA is 0, on the trailing edge if it is 1.                             *)
SlaveEdge(leading)   == leading = (CPOL = CPHA)
CaptureEdge(leading) == leading = ~CPHA

-----------------------------------------------------------------------------
(* The i_clk domain: every byte is accepted, whatever MISO is doing.       *)

AcceptByte == i_slave_write_stb = 1 /\ r_write_ack = 0

TxByteIn ==
    /\ r_tx_byte' = IF i_reset = 1 THEN Zero
                    ELSE IF AcceptByte THEN i_slave_write_data ELSE r_tx_byte
    /\ r_write_ack' = IF i_reset = 0 /\ AcceptByte THEN 1 ELSE 0

(* The SPI clock domain: neither process is reset.                         *)

MisoPreload == r_preload_miso' = 1 - i_spi_ss

MisoBitStuck ==
    IF i_spi_ss = 0
    THEN UNCHANGED r_tx_bit_count /\ r_spi_miso_bit' = <<r_tx_byte, Bits - 1>>
    ELSE /\ r_tx_bit_count' = (r_tx_bit_count + Bits - 1) % Bits
         /\ r_spi_miso_bit' = <<r_tx_byte, r_tx_bit_count>>
MisoBitProcess ==
    IF i_spi_ss = 0
    THEN r_tx_bit_count' = Bits - 1 /\ r_spi_miso_bit' = <<r_tx_byte, Bits - 1>>
    ELSE /\ r_tx_bit_count' = (r_tx_bit_count + Bits - 1) % Bits
         /\ r_spi_miso_bit' = <<r_tx_byte, r_tx_bit_count>>

MisoWithoutPreload == r_spi_miso_bit
w_spi_miso_mux == IF r_preload_miso = 1 THEN <<r_tx_byte, Bits - 1>> ELSE r_spi_miso_bit

-----------------------------------------------------------------------------
(* The producer and the i_clk edge.                                        *)

MayWrite == setup.holdOff => i_spi_ss = 0

ClkEdge ==
    /\ TxByteIn
    /\ i_reset' \in IF MayWrite THEN Bit ELSE {0}
    /\ IF i_reset = 0 /\ AcceptByte
       THEN UNCHANGED <<i_slave_write_stb, i_slave_write_data>>
       ELSE /\ i_slave_write_stb' \in IF MayWrite /\ i_reset = 0 THEN Bit ELSE {0}
            /\ i_slave_write_data' \in Byte
    /\ UNCHANGED <<setup, spiRegs, master, active, edged>>

(* The master.  Captured bits are the value of MISO before the edge.       *)

Capture ==
    captured' = IF Len(captured) = Bits THEN <<w_spi_miso_mux>> ELSE Append(captured, w_spi_miso_mux)

Edge(leading) ==
    /\ active = ~leading
    /\ i_spi_ss = 1 /\ leading => left > 0
    /\ active' = leading
    /\ IF SlaveEdge(leading)
       THEN MisoPreload /\ MisoBitProcess /\ edged' = TRUE
       ELSE UNCHANGED <<spiRegs, edged>>
    /\ IF CaptureEdge(leading) /\ i_spi_ss = 1
       THEN Capture /\ left' = left - 1
       ELSE UNCHANGED <<captured, left>>
    /\ UNCHANGED <<producer, clkRegs, i_spi_ss>>

LeadingEdge  == Edge(TRUE)
TrailingEdge == Edge(FALSE)

Select ==
    /\ i_spi_ss = 0 /\ ~active /\ edged
    /\ setup.holdOff => i_reset = 0 /\ i_slave_write_stb = 0
    /\ i_spi_ss' = 1 /\ captured' = <<>>
    /\ \E n \in ByteCounts : left' = n * Bits
    /\ UNCHANGED <<producer, clkRegs, spiRegs, active, edged>>

Deselect ==
    /\ i_spi_ss = 1 /\ ~active /\ left = 0
    /\ i_spi_ss' = 0 /\ edged' = FALSE
    /\ UNCHANGED <<producer, clkRegs, spiRegs, left, captured, active>>

Init ==
    /\ setup \in Setups
    /\ i_reset = 1 /\ i_spi_ss = 0 /\ i_slave_write_stb = 0 /\ i_slave_write_data \in Byte
    /\ r_write_ack = 0 /\ r_tx_byte = Zero
    /\ r_tx_bit_count \in 0 .. Bits - 1 /\ r_preload_miso \in Bit /\ r_spi_miso_bit \in MisoBit
    /\ active = FALSE /\ left = 0 /\ edged = FALSE
    /\ captured = <<>>

Next == ClkEdge \/ LeadingEdge \/ TrailingEdge \/ Select \/ Deselect

Spec == Init /\ [][Next]_vars

-----------------------------------------------------------------------------
TypeOK ==
    /\ setup \in Setups
    /\ i_reset \in Bit /\ i_spi_ss \in Bit /\ i_slave_write_stb \in Bit /\ i_slave_write_data \in Byte
    /\ r_write_ack \in Bit /\ r_tx_byte \in Byte
    /\ r_tx_bit_count \in 0 .. Bits - 1 /\ r_spi_miso_bit \in MisoBit /\ r_preload_miso \in Bit
    /\ active \in BOOLEAN /\ edged \in BOOLEAN /\ left \in Nat
    /\ captured \in Seq(MisoBit) /\ Len(captured) <= Bits

(* SPI_Slave.v:87-93 and 257, the master that captures on the edge of its  *)
(* mode gets the bits of every byte from the top one down, each once,      *)
(* whether or not the byte changes meanwhile.  (In modes 0 to 2 it has     *)
(* captured the top bit before w_spi_clk has risen and does so again.)     *)
BitOrder == setup.mode = 3 => \A k \in 1 .. Len(captured) : captured[k][2] = Bits - k

(* The bits the master captures of a byte are all of one byte, the first   *)
(* as well, which is on the line before w_spi_clk has risen (line 269),    *)
(* when the producer stays away from r_tx_byte while the slave is selected. *)
WholeByte == setup.holdOff => \A k \in 1 .. Len(captured) : captured[k][1] = captured[1][1]
=============================================================================
