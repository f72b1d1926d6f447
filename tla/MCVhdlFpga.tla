----------------------------- MODULE MCVhdlFpga -----------------------------
(* Jobs of two bytes (44 in the source): the FPGA may be left before its    *)
(* first or its second; the self-test, two jobs of the worker and two of    *)
(* the long-poll thread, or more of either, sharing the last number; three  *)
(* nonces, so that one is under way when a job is acknowledged and one is   *)
(* left for the job after.                                                  *)
EXTENDS VhdlFpga
=============================================================================
