---------------------------- MODULE MCSpiSlaveTx ----------------------------
(* Bytes of four bits (the source: eight): enough for a first bit, a last   *)
(* bit and others.  Two bytes, so that a change of byte shows; transactions *)
(* of one and of two bytes, so that the bit counter wraps.                  *)
EXTENDS SpiSlaveTx

MCByte   == {0, 1}
OneOrTwo == {1, 2}
=============================================================================
