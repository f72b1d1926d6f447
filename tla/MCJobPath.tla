----------------------------- MODULE MCJobPath -----------------------------
(* Jobs of four bytes of four bits each (the source: 44 of eight).          *)
EXTENDS JobPath

JobMasters == {JobMaster}
=============================================================================
