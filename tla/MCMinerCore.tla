---------------------------- MODULE MCMinerCore ----------------------------
(* The loop and the rings at their real size, five bits of nonce: two laps  *)
(* of the nonce counter with both its jumps, and two jobs, the second one   *)
(* anywhere in the count of the first.                                      *)
EXTENDS MinerCore
=============================================================================
