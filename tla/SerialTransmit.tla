--------------------------- MODULE SerialTransmit ---------------------------
(***************************************************************************)
(* The way out of the DE2_115_makomk_serial miner: the report logic of     *)
(* fpgaminer_top.v and serial_transmit of serial.v, clock by clock, in     *)
(* front of the async_transmitter UART (not part of the repository).       *)
(*                                                                         *)
(* A nonce is a word number; byte k of it is <<word, k>>, and word_copy is *)
(* known by the byte in its top place.                                     *)
(***************************************************************************)
EXTENDS Integers, Sequences

CONSTANTS Word,  \* the nonces that occur
          None   \* no nonce

ASSUME WordAssumption == None \notin Word /\ Word # {}

VARIABLES
    is_golden_ticket, ticket_nonce,       \* from the pipeline
    golden_nonce, serial_send,            \* fpgaminer_top.v
    mux_state, word_copy, out_byte, serial_start,  \* serial_transmit
    TxD_busy,   \* async_transmitter
    owed,       \* a nonce found with the way out idle, and not yet copied (history)
    line        \* the bytes of the present word the UART has been given (history)

top        == <<golden_nonce, serial_send>>
sertx      == <<mux_state, word_copy, out_byte, serial_start>>
reportVars == <<is_golden_ticket, ticket_nonce, top, sertx, TxD_busy, owed, line>>

Bit      == {0, 1}
MuxState == 0 .. 15
WordByte == (Word \cup {None}) \X (0 .. 4)

busy == mux_state # 0
Active  == mux_state >= 8                        \* mux_state[3]
Waiting == Active /\ mux_state % 2 = 1           \* mux_state[0]

Shift(w) == <<w[1], IF w[2] < 4 THEN w[2] + 1 ELSE 4>>

-----------------------------------------------------------------------------
(* fpgaminer_top.v: a golden nonce found while the transmitter is busy     *)
(* overwrites golden_nonce and is not sent.                                *)
ReportNonce ==
    IF is_golden_ticket = 1
    THEN /\ golden_nonce' = ticket_nonce
         /\ serial_send' = IF busy THEN serial_send ELSE 1
    ELSE /\ UNCHANGED golden_nonce
         /\ serial_send' = 0

(* serial_transmit.                                                        *)
CopyWordLate ==
    /\ ~busy /\ serial_send = 1
    /\ mux_state' = 8
    /\ word_copy' = <<golden_nonce', 0>>
    /\ UNCHANGED <<out_byte, serial_start>>
CopyWord ==
    /\ ~busy /\ serial_send = 1
    /\ mux_state' = 8
    /\ word_copy' = <<golden_nonce, 0>>
    /\ UNCHANGED <<out_byte, serial_start>>

StartByte ==
    /\ busy /\ Active /\ ~Waiting /\ TxD_busy = 0
    /\ serial_start' = 1
    /\ mux_state' = mux_state + 1
    /\ out_byte' = word_copy
    /\ word_copy' = Shift(word_copy)

WaitStageSaturates ==
    /\ Waiting
    /\ serial_start' = 0
    /\ mux_state' = IF TxD_busy = 0 /\ mux_state < 15 THEN mux_state + 1 ELSE mux_state
    /\ UNCHANGED <<out_byte, word_copy>>
WaitStage ==
    /\ Waiting
    /\ serial_start' = 0
    /\ mux_state' = IF TxD_busy = 0 THEN (mux_state + 1) % 16 ELSE mux_state
    /\ UNCHANGED <<out_byte, word_copy>>

Idle ==
    /\ ~(~busy /\ serial_send = 1) /\ ~Waiting
    /\ busy => TxD_busy = 1
    /\ UNCHANGED sertx

SerialTransmit == CopyWord \/ StartByte \/ WaitStage \/ Idle

(* async_transmitter: takes a byte when it is started idle, and is busy    *)
(* from the next clock until the byte is out; a start while busy is lost.  *)
Uart ==
    TxD_busy' \in IF TxD_busy = 1 THEN Bit ELSE IF serial_start = 1 THEN {1} ELSE {0}

UartTakes == TxD_busy = 0 /\ serial_start = 1

-----------------------------------------------------------------------------
History ==
    /\ owed' = IF is_golden_ticket = 1 /\ ~busy /\ serial_send = 0 THEN ticket_nonce
               ELSE IF CopyWord THEN None ELSE owed
    /\ line' = IF UartTakes THEN (IF Len(line) = 4 THEN <<out_byte>> ELSE Append(line, out_byte)) ELSE line

Ticket == is_golden_ticket' \in Bit /\ ticket_nonce' \in Word

ReportInit ==
    /\ is_golden_ticket = 0 /\ ticket_nonce \in Word
    /\ golden_nonce = None /\ serial_send = 0
    /\ mux_state = 0 /\ word_copy = <<None, 0>> /\ out_byte = <<None, 0>> /\ serial_start = 0
    /\ TxD_busy = 0
    /\ owed = None /\ line = <<>>

ReportNext == ReportNonce /\ SerialTransmit /\ Uart /\ History /\ Ticket

ReportSpec == ReportInit /\ [][ReportNext]_reportVars

-----------------------------------------------------------------------------
ReportTypeOK ==
    /\ is_golden_ticket \in Bit /\ ticket_nonce \in Word
    /\ golden_nonce \in Word \cup {None} /\ serial_send \in Bit
    /\ mux_state \in {0} \cup 8 .. 15
    /\ word_copy \in WordByte /\ out_byte \in WordByte /\ serial_start \in Bit
    /\ TxD_busy \in Bit /\ owed \in Word \cup {None}
    /\ line \in Seq(WordByte)

(* A nonce found while the way out is idle is the next one sent, even if   *)
(* others are found before it is copied.                                   *)
IdleFindSent == [][CopyWord /\ owed # None => word_copy'[1] = owed]_reportVars

(* The transmitter gets through a word and is ready for another.           *)
WordLeaves == busy ~> ~busy
=============================================================================
