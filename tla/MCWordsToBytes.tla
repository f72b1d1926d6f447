--------------------------- MODULE MCWordsToBytes ---------------------------
(* Words of four bytes, as in the source, and of three, where the index can *)
(* reach L_NUM_BYTES; the FIFO of the simulation.                           *)
EXTENDS WordsToBytes

MCWord == {0, 1}
MCSizes == {3, 4}
=============================================================================
