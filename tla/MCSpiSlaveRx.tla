---------------------------- MODULE MCSpiSlaveRx ----------------------------
(* Bytes of four bits (a two-bit r_rx_spi_bit_count; the source: three) and *)
(* transactions of up to four bytes: every phase of done is met twice.      *)
(* Every kind of master: even or any lengths, a clock that runs on (as in   *)
(* sim/top.py) or stops between transactions, edges apart or not.           *)
EXTENDS SpiSlaveRx

MCMasters == [counts : {{2, 4}, {1, 2, 3}}, idle : BOOLEAN, skew : BOOLEAN]
=============================================================================
