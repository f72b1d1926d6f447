--------------------------- MODULE MCSerialMiner ---------------------------
(* Units of work and nonces enough for a nonce to be on its way while the   *)
(* work changes and for two submissions to return in either order.          *)
EXTENDS SerialMiner

MCSetups ==
    { [midstates |-> TRUE,  late |-> FALSE, prompt |-> FALSE],
      [midstates |-> FALSE, late |-> TRUE,  prompt |-> FALSE],
      [midstates |-> TRUE,  late |-> FALSE, prompt |-> TRUE] }
=============================================================================
