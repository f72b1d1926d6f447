-------------------------- MODULE VhdlJobInterval --------------------------
(***************************************************************************)
(* VHDL_Xilinx_Port/miner.py, Miner.run: from the time the FPGA took for   *)
(* the self-test, how long it is left with a job (fpgajobinterval) and how *)
(* often it is polled (fpgapollinterval).  Times are in milliseconds,      *)
(* rounded down; the self-test is the time less that of the serial line    *)
(* (0.0145 s), its 45335163 nonces the 94.738th part of all 2^32.          *)
(***************************************************************************)
EXTENDS Integers

Smaller(a, b) == IF a <= b THEN a ELSE b
Larger(a, b)  == IF a >= b THEN a ELSE b

(* The time for all nonces, and what is taken of it: more than a minute is *)
(* never needed.                                                           *)
Keyspace(selftest) == (selftest * 94738) \div 1000
Taken(selftest)    == Smaller(60000, Keyspace(selftest))

JobInterval(config, selftest) ==
    Smaller(config, Larger(500, (4 * Taken(selftest)) \div 5 - 1000))
PollInterval(config, interval) == Smaller(config, interval \div 5)
=============================================================================
