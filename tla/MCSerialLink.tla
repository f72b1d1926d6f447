---------------------------- MODULE MCSerialLink ----------------------------
(* Two nonces are enough to see one take another's place, or their bytes    *)
(* mixed; a buffer of a nonce and a byte to see the Reader fall behind.     *)
EXTENDS SerialLink
CONSTANTS w1, w2
MCWord == {w1, w2}
=============================================================================
