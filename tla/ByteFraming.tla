----------------------------- MODULE ByteFraming -----------------------------
(***************************************************************************)
(* What a byte-to-word framer promises its neighbours, whatever handshake  *)
(* and registers it is built from: the bytes taken from the producer are   *)
(* cut, in order, into words of NumBytes bytes, one word on offer at a     *)
(* time.  offered is the byte the producer holds out (at most one),        *)
(* partial the bytes of the unfinished word, word the word on offer.       *)
(***************************************************************************)
EXTENDS Naturals, Sequences

CONSTANTS Byte, NumBytes

VARIABLES offered, partial, word

vars == <<offered, partial, word>>

Init == offered = <<>> /\ partial = <<>> /\ word = <<>>

(* The producer may hold out a byte whenever it has none out. *)
Producer ==
    \/ UNCHANGED offered
    \/ offered = <<>> /\ \E b \in Byte : offered' = <<b>>

TakeByte ==
    /\ offered # <<>> /\ word = <<>> /\ Len(partial) < NumBytes
    /\ partial' = partial \o offered
    /\ offered' = <<>>
    /\ UNCHANGED word

FinishWord ==
    /\ Len(partial) = NumBytes /\ word = <<>>
    /\ word' = partial
    /\ partial' = <<>>
    /\ Producer

DeliverWord ==
    /\ word # <<>>
    /\ word' = <<>>
    /\ UNCHANGED partial
    /\ Producer

HoldByte == Producer /\ UNCHANGED <<partial, word>>

Reset == offered' = <<>> /\ partial' = <<>> /\ word' = <<>>

Next == TakeByte \/ FinishWord \/ DeliverWord \/ HoldByte \/ Reset

Spec == Init /\ [][Next]_vars
=============================================================================
