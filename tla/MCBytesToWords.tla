--------------------------- MODULE MCBytesToWords ---------------------------
(* Words of three bytes in a three-bit index (the source: 44 in six bits) and *)
(* two byte values: enough for a word's bytes to be told apart in order.    *)
EXTENDS BytesToWords

MCByte == {0, 1}
=============================================================================
