----------------------------- MODULE SerialLink -----------------------------
(***************************************************************************)
(* The way of a nonce in the serial miner of Verilog_Xilinx_Port, from the *)
(* FPGA (SerialTransmit: its serial.v is that of DE2_115_makomk_serial)    *)
(* byte by byte to the Reader of miner.py, and into a share; and the way   *)
(* of the block's bytes to the hashers, which the share has to match.      *)
(***************************************************************************)
EXTENDS SerialTransmit

CONSTANT MaxBuffer  \* the Reader reads before so many bytes wait: a bound

ASSUME BufferAssumption == MaxBuffer \in Nat /\ MaxBuffer > 4

VARIABLES
    flushing,   \* is the Reader still flushing the line? then it reads it
    buffer,     \* bytes received and not read
    got,        \* the bytes of the ser.read(4) under way
    submitted,  \* the nonce read last, if in step (history)
    split       \* may a read begin inside a word? (history)

readerVars == <<flushing, buffer, got, submitted, split>>
linkVars == <<reportVars, readerVars>>

Between == Len(line) \in {0, 4} /\ buffer = <<>>

-----------------------------------------------------------------------------
(* The bytes of a header, by number.  rdata2 is block[95:63:-1]; data2 is  *)
(* what serial_receive has when it has shifted it in, lowest byte first,   *)
(* and the hashers take its lowest 12 bytes and the nonce after them.      *)

rdata2 == [p \in 0 .. 31 |-> 95 - p]
data2  == [q \in 0 .. 31 |-> rdata2[31 - q]]

Hashed(word) == [i \in 64 .. 79 |-> IF i < 76 THEN <<"block", data2[i - 64]>> ELSE <<word, 79 - i>>]

(* block[:152] + nonce[::-1] + block[160:], in hexadecimal digits.         *)
ShareAsRead(nonce) ==
    [i \in 64 .. 79 |-> IF i < 76 THEN <<"block", i>> ELSE nonce[i - 75]]
Share(nonce) ==
    [i \in 64 .. 79 |-> IF i < 76 THEN <<"block", i>> ELSE nonce[80 - i]]

-----------------------------------------------------------------------------
Edge ==
    /\ UartTakes => Len(buffer) < MaxBuffer
    /\ ReportNext
    /\ buffer' = IF UartTakes /\ ~flushing THEN Append(buffer, out_byte) ELSE buffer
    /\ UNCHANGED <<flushing, got, submitted, split>>

(* ser.read(1000) ends with the timeout or with a full count.              *)
FlushEnds ==
    /\ flushing /\ flushing' = FALSE
    /\ split' = ~Between
    /\ UNCHANGED <<reportVars, buffer, got, submitted>>

ReadByte ==
    /\ ~flushing /\ buffer # <<>> /\ Len(got) < 3
    /\ got' = Append(got, Head(buffer)) /\ buffer' = Tail(buffer)
    /\ UNCHANGED <<reportVars, flushing, submitted, split>>

ReadLastByte ==
    /\ ~flushing /\ buffer # <<>> /\ Len(got) = 3
    /\ submitted' = IF split THEN <<>> ELSE Append(got, Head(buffer))
    /\ got' = <<>> /\ buffer' = Tail(buffer)
    /\ UNCHANGED <<reportVars, flushing, split>>

(* A read that runs out of time gives what it has, and that is dropped.    *)
ReadTimeout ==
    /\ ~flushing /\ buffer = <<>>
    /\ got' = <<>>
    /\ split' = ~Between
    /\ UNCHANGED <<reportVars, flushing, buffer, submitted>>

LinkInit ==
    /\ ReportInit
    /\ flushing = TRUE /\ buffer = <<>> /\ got = <<>> /\ submitted = <<>> /\ split = FALSE

LinkNext == Edge \/ FlushEnds \/ ReadByte \/ ReadLastByte \/ ReadTimeout

(* The clock runs, a byte on the wire ends, and the Reader reads.          *)
LinkSpec ==
    /\ LinkInit /\ [][LinkNext]_linkVars
    /\ WF_linkVars(Edge) /\ WF_linkVars(Edge /\ TxD_busy' = 0)
    /\ WF_linkVars(ReadByte \/ ReadLastByte)

-----------------------------------------------------------------------------
(* The header submitted is the one that was hashed: four bytes of one      *)
(* nonce, the byte order turned round once on each way.  A timeout inside  *)
(* a nonce (or a flush that ends there) may spoil the shares that follow,  *)
(* until the line is quiet for as long as a timeout.                       *)
ShareIsHashed == submitted # <<>> => \E word \in Word : Share(submitted) = Hashed(word)
=============================================================================
