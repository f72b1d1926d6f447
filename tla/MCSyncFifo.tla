----------------------------- MODULE MCSyncFifo -----------------------------
(* Two words tell old contents from new; the Depth of the simulation.       *)
EXTENDS SyncFifo

MCWord == {0, 1}
=============================================================================
