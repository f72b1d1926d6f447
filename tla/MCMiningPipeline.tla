-------------------------- MODULE MCMiningPipeline --------------------------
(* The pipelines at their real depth, for every LOOP_LOG2, and the makomk   *)
(* core; the nonces wrap after more of them than are in flight.             *)
EXTENDS MiningPipeline

Unoptimized(log2, mod) == [loopLog2 |-> log2, inputRegs |-> 0, offset |-> 131, nonceMod |-> mod]
Makomk(mod)            == [loopLog2 |-> 0, inputRegs |-> 1, offset |-> 133, nonceMod |-> mod]

MCBuilds == {Unoptimized(0, 160), Makomk(160), Unoptimized(1, 84), Unoptimized(2, 52),
             Unoptimized(3, 36), Unoptimized(4, 28), Unoptimized(5, 24)}
=============================================================================
