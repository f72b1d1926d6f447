--------------------------- MODULE JobPath_proofs ---------------------------
(***************************************************************************)
(* The way of a job into Miner_Top.v: what the receive side of the SPI     *)
(* slave hands over, for every length of a byte, depth of its synchroniser *)
(* and ratio of the clocks; and the job words the framer behind it makes   *)
(* of it, for every length of a word.                                      *)
(***************************************************************************)
EXTENDS JobPath, SequenceTheorems, TLAPS

LEMMA Masters1 == ASSUME spi \in Masters
                  PROVE  spi.counts \subseteq Nat \ {0} /\ spi.idle \in BOOLEAN /\ spi.skew \in BOOLEAN
  BY SpiAssumption DEF Master

LEMMA TypeInit == Init => TypeOK
  BY SpiAssumption DEF Init, TypeOK, Bit, Level, Tag, Torn

LEMMA TypeNext == TypeOK /\ [Next]_vars => TypeOK'
<1> SUFFICES ASSUME TypeOK, [Next]_vars PROVE TypeOK'
  OBVIOUS
<1> USE SpiAssumption
<1>1. spi' = spi
  BY DEF Next, SpiEdge, ClkEdge, BothEdges, Driver, Select, Deselect, AssertReset, ReleaseReset, SpiTick,
         master, vars
<1>2. ASSUME RxSpiProcess
      PROVE  /\ r_rx_spi_bit_count' \in 0 .. Bits - 1 /\ r_rx_spi_byte' \in Tag
             /\ r_rx_spi_done' \in Bit /\ r_rx_spi_start' \in Bit
  BY <1>2 DEF RxSpiProcess, ClearRx, ShiftBit, TypeOK, Bit, Tag
<1>3. ASSUME NEW done \in Bit, NEW byte \in Tag \cup {Torn}, Clock(done, byte)
      PROVE  /\ r_rx_cdc_done' \in [Level -> Bit] /\ r_rx_cdc_byte' \in [Level -> Tag \cup {Torn}]
             /\ r_write_stb' \in Bit /\ r_write_byte' \in Tag \cup {Torn}
  <2>1. \A hh \in Level : hh > 0 => hh - 1 \in Level
    BY DEF Level
  <2>2. 0 \in Bit /\ 0 \in Tag \cup {Torn} /\ Levels - 1 \in Level
    BY DEF Bit, Tag, Level
  <2>3. r_rx_cdc_done' \in [Level -> Bit] /\ r_rx_cdc_byte' \in [Level -> Tag \cup {Torn}]
    BY <1>3, <2>1, <2>2 DEF Clock, CdcProcess, TypeOK
  <2>4. r_write_stb' \in Bit /\ r_write_byte' \in Tag \cup {Torn}
    BY <1>3, <2>2 DEF Clock, WriteProcess, WriteReset, RaiseStb, NoNewByte, ArrivedByte, TypeOK, Bit
  <2> QED
    BY <2>3, <2>4
<1>4. ASSUME Acknowledge PROVE i_master_write_ack' \in Bit
  BY <1>4 DEF Acknowledge, Bit
<1>5. ASSUME NEW sent \in Seq(Tag) PROVE Due(sent) \in Seq(Tag)
  BY DEF Due
<1>6. ASSUME SpiTick
      PROVE  /\ since' \in 0 .. Ratio /\ left' \in Nat /\ i_reset' \in Bit /\ i_spi_ss' \in Bit
             /\ RxSpiProcess
             /\ (IF ByteEnds THEN Append(due, r_rx_spi_byte') ELSE due) \in Seq(Tag)
  BY <1>2, <1>6 DEF SpiTick, TypeOK, Bit
<1>7. CASE SpiEdge
  BY <1>1, <1>2, <1>6, <1>7 DEF SpiEdge, TypeOK, clkRegs
<1>8. CASE ClkEdge
  <2>1. r_rx_spi_done \in Bit /\ r_rx_spi_byte \in Tag \cup {Torn}
    BY DEF TypeOK
  <2>2. since' \in 0 .. Ratio
    BY <1>8 DEF ClkEdge, TypeOK
  <2>3. due' \in Seq(Tag)
    BY <1>5, <1>8 DEF ClkEdge, TypeOK
  <2> QED
    BY <1>1, <1>3, <1>4, <1>8, <2>1, <2>2, <2>3 DEF ClkEdge, TypeOK, master, spiRegs
<1>9. CASE BothEdges
  <2>1. PICK done \in {r_rx_spi_done, r_rx_spi_done'}, byte \in {r_rx_spi_byte, r_rx_spi_byte', Torn} :
             Clock(done, byte)
    BY <1>9 DEF BothEdges
  <2>2. SpiTick /\ Acknowledge /\ due' = Due(IF ByteEnds THEN Append(due, r_rx_spi_byte') ELSE due)
    BY <1>9 DEF BothEdges
  <2>3. done \in Bit /\ byte \in Tag \cup {Torn}
    BY <1>2, <1>6, <2>2 DEF TypeOK
  <2>4. due' \in Seq(Tag)
    BY <1>5, <1>6, <2>2
  <2> QED
    BY <1>1, <1>2, <1>3, <1>4, <1>6, <2>1, <2>2, <2>3, <2>4 DEF TypeOK
<1>10. CASE Select
  <2>1. \A n \in Nat : n * Bits \in Nat
    OBVIOUS
  <2>2. left' \in Nat
    BY <1>10, <2>1, Masters1 DEF Select, Payloads, TypeOK
  <2> QED
    BY <1>1, <1>10, <2>2 DEF Select, TypeOK, Bit, spiRegs, clkRegs
<1>11. CASE Deselect
  BY <1>11 DEF Deselect, TypeOK, Bit, spiRegs, clkRegs
<1>12. CASE AssertReset
  BY <1>12 DEF AssertReset, TypeOK, Bit, spiRegs, clkRegs
<1>13. CASE ReleaseReset
  BY <1>13 DEF ReleaseReset, TypeOK, Bit, spiRegs, clkRegs
<1>14. CASE UNCHANGED vars
  BY <1>14 DEF vars, master, spiRegs, clkRegs, TypeOK
<1> QED
  BY <1>7, <1>8, <1>9, <1>10, <1>11, <1>12, <1>13, <1>14 DEF Next, Driver

(* SPI_Slave.v's receive registers, the wires of its neighbours and the    *)
(* bytes owed keep to their types, with any master.                        *)
THEOREM ReceiveTypeCorrect == Spec => []TypeOK
  BY TypeInit, TypeNext, PTL DEF Spec

-----------------------------------------------------------------------------
(* The masters HandOver speaks of: edges apart, and even transactions if   *)
(* the clock never stops.                                                  *)
Good == ~spi.skew /\ (spi.idle => Even)

(* A whole byte in the shift register whose end has not been noticed yet.  *)
Whole == IF r_rx_spi_start = 1 /\ r_rx_spi_bit_count = 0 THEN <<r_rx_spi_byte>> ELSE <<>>
Ahead == IF r_rx_spi_start = 1 /\ r_rx_spi_bit_count = 0 THEN 1 ELSE 0

(* Bits shifted in since r_rx_spi_done changed, or since the clear, and at *)
(* least so many edges of i_clk there have been since.                     *)
BitsIn  == IF r_rx_spi_start = 0 THEN 0
           ELSE IF r_rx_spi_bit_count = 0 THEN Bits ELSE r_rx_spi_bit_count
Elapsed == IF since = 0 THEN BitsIn - 1 ELSE BitsIn

RegsInv ==
    /\ r_rx_spi_start = 0 => r_rx_spi_bit_count = 0 /\ r_rx_spi_byte = 0 /\ r_rx_spi_done = 0
    /\ i_master_write_ack = 1 => r_write_stb = 1
    /\ i_reset = 1 => i_spi_ss = 0 /\ due = <<>>
    /\ i_reset = 1 /\ since > 0 => r_write_stb = 0 /\ r_rx_cdc_byte[0] = 0
    /\ i_reset = 0 /\ since > 0 => r_rx_cdc_byte[0] = r_rx_spi_byte
    /\ i_spi_ss = 0 => left = 0

(* rest bytes of the transaction are not in yet.  With a clock that never  *)
(* stops, done is back at 0 when all of an even number of them are.        *)
Rest(rest) ==
    /\ left + r_rx_spi_bit_count = rest * Bits
    /\ spi.idle => r_rx_spi_done = (rest + Ahead) % 2

RestInv == \E rest \in Nat : Rest(rest)

(* The value of done has reached the first p levels.  Until it is in the   *)
(* last one, the byte that goes with it is at level p.                     *)
Reached(p) == \A hh \in Level : r_rx_cdc_done[hh] = IF hh < p THEN r_rx_spi_done ELSE 1 - r_rx_spi_done

(* No byte comes while the strobe of the one before is still up.           *)
InFlight(p) ==
    /\ Reached(p)
    /\ due = (IF p < Levels THEN <<r_rx_cdc_byte[p]>> ELSE <<>>) \o Whole
    /\ p < Levels => Elapsed <= p
    /\ r_write_stb = 1 => IF p < Levels THEN p <= Levels - 3 + i_master_write_ack
                          ELSE Elapsed <= Levels + i_master_write_ack

FlightInv == i_reset = 0 => \E p \in 0 .. Levels : InFlight(p)

RxInv == RegsInv /\ RestInv /\ FlightInv

LEMMA GoodKept == ASSUME [Next]_vars PROVE spi' = spi /\ Good' = Good
<1>1. spi' = spi
  BY DEF Next, SpiEdge, ClkEdge, BothEdges, Driver, Select, Deselect, AssertReset, ReleaseReset, SpiTick,
         master, vars
<1> QED
  BY <1>1 DEF Good, Even

LEMMA RxInit == ASSUME Init PROVE RxInv
<1> USE DEF Init
<1>1. RegsInv
  BY DEF RegsInv
<1>2. Rest(0)
  BY SpiAssumption DEF Rest, Ahead
<1> QED
  BY <1>1, <1>2 DEF RxInv, RestInv, FlightInv

LEMMA Remainder == ASSUME NEW m \in Nat \ {0}, NEW q \in Int, NEW r \in 0 .. m - 1
                   PROVE  (q * m + r) % m = r
  BY SMT

(* One bit more: how many bytes are to come after it, and is one in?       *)
LEMMA BitStep ==
  ASSUME TypeOK, Good, RegsInv, NEW rest \in Nat, Rest(rest),
         i_reset = 0, i_spi_ss = 1, left > 0, ShiftBit, left' = left - 1, spi' = spi
  PROVE  IF r_rx_spi_bit_count = Bits - 1
         THEN rest > 0 /\ ByteEnds /\ r_rx_spi_bit_count' = 0 /\ Rest(rest - 1)'
         ELSE ~ByteEnds /\ r_rx_spi_bit_count' = r_rx_spi_bit_count + 1 /\ Rest(rest)'
<1> DEFINE c == r_rx_spi_bit_count
<1>1. /\ Bits \in Nat /\ Bits > 2 /\ c \in 0 .. Bits - 1 /\ left \in Nat \ {0}
      /\ left + c = rest * Bits /\ c' = (c + 1) % Bits /\ r_rx_spi_start' = 1
      /\ r_rx_spi_done \in {0, 1} /\ r_rx_spi_start \in {0, 1}
  BY SpiAssumption DEF TypeOK, Rest, ShiftBit, Bit
<1>2. rest > 0
  <2>1. rest # 0
    BY <1>1, 0 * Bits = 0
  <2> QED
    BY <2>1
<1>3. (rest - 1) * Bits = rest * Bits - Bits /\ rest - 1 \in Nat
  BY <1>1, <1>2
<1>4. spi.idle => r_rx_spi_done' = (rest + 0) % 2
  BY <1>1 DEF Rest, Ahead, ShiftBit
<1>5. CASE c = Bits - 1
  <2>1. c' = 0
    BY <1>1, <1>5
  <2>2. left - 1 = (rest - 1) * Bits
    BY <1>1, <1>3, <1>5
  <2>3. ((rest - 1) * Bits) % Bits = 0
    <3>1. ((rest - 1) * Bits + 0) % Bits = 0
      BY <1>1, <1>3, Remainder
    <3>2. (rest - 1) * Bits + 0 = (rest - 1) * Bits
      BY <1>1, <1>3
    <3> QED
      BY <3>1, <3>2
  <2>4. spi.idle => r_rx_spi_done' = ((rest - 1) + 1) % 2
    BY <1>2, <1>4
  <2>5. Rest(rest - 1)'
    BY <1>1, <2>1, <2>2, <2>4 DEF Rest, Ahead
  <2> QED
    BY <1>2, <1>5, <2>1, <2>2, <2>3, <2>5 DEF ByteEnds
<1>6. CASE c # Bits - 1
  <2>1. c' = c + 1 /\ c + 1 \in 1 .. Bits - 1
    BY <1>1, <1>6
  <2>2. left - 1 = (rest - 1) * Bits + (Bits - (c + 1)) /\ Bits - (c + 1) \in 1 .. Bits - 1
    BY <1>1, <1>3, <2>1
  <2>3. ((rest - 1) * Bits + (Bits - (c + 1))) % Bits = Bits - (c + 1)
    <3>1. Bits - (c + 1) \in 0 .. Bits - 1 /\ rest - 1 \in Int /\ Bits \in Nat \ {0}
      BY <1>1, <1>3, <2>2
    <3> QED
      BY <3>1, Remainder
  <2>4. (left - 1) % Bits # 0
    BY <2>2, <2>3
  <2>5. Rest(rest)'
    BY <1>1, <1>4, <2>1 DEF Rest, Ahead
  <2> QED
    BY <1>6, <2>1, <2>4, <2>5 DEF ByteEnds
<1> QED
  BY <1>5, <1>6

(* Where the value of done is when its next change comes: all the way in.  *)
LEMMA ChangeFinds ==
  ASSUME TypeOK, RegsInv, NEW p \in 0 .. Levels, InFlight(p), since > 0, i_reset = 0,
         r_rx_spi_start = 1, r_rx_spi_bit_count = 0
  PROVE  /\ p = Levels /\ due = <<r_rx_cdc_byte[0]>>
         /\ \A hh \in Level : r_rx_cdc_done[hh] = r_rx_spi_done
         /\ r_write_stb = 1 => 0 <= Levels - 3 + i_master_write_ack
<1>1. Elapsed = Bits /\ Levels \in 2 .. Bits /\ Bits \in Nat /\ Bits > 2
  BY SpiAssumption DEF Elapsed, BitsIn, TypeOK
<1>2. p = Levels
  BY <1>1 DEF InFlight
<1>3. due = <<>> \o <<r_rx_spi_byte>> /\ r_rx_cdc_byte[0] = r_rx_spi_byte
  <2>1. ~(p < Levels)
    BY <1>1, <1>2
  <2> QED
    BY <2>1 DEF InFlight, Whole, RegsInv
<1>4. due = <<r_rx_cdc_byte[0]>>
  BY <1>3
<1>5. \A hh \in Level : r_rx_cdc_done[hh] = r_rx_spi_done
  BY <1>1, <1>2 DEF InFlight, Reached, Level
<1>6. r_write_stb = 1 => 0 <= Levels - 3 + i_master_write_ack
  <2>1. i_master_write_ack \in {0, 1}
    BY DEF TypeOK, Bit
  <2> QED
    BY <1>1, <1>2, <2>1 DEF InFlight
<1> QED
  BY <1>2, <1>4, <1>5, <1>6

(* The change itself: nothing of it is in the synchroniser yet.            *)
LEMMA ChangeStep ==
  ASSUME TypeOK, RegsInv, NEW p \in 0 .. Levels, InFlight(p), since > 0, i_reset = 0,
         r_rx_spi_start = 1, r_rx_spi_bit_count = 0,
         r_rx_spi_done' = 1 - r_rx_spi_done, since' = 0, Whole' = <<>>, BitsIn' \in {0, 1},
         due' = due, UNCHANGED clkRegs, UNCHANGED i_master_write_ack
  PROVE  InFlight(0)'
<1>1. /\ due = <<r_rx_cdc_byte[0]>>
      /\ \A hh \in Level : r_rx_cdc_done[hh] = r_rx_spi_done
      /\ r_write_stb = 1 => 0 <= Levels - 3 + i_master_write_ack
  BY ChangeFinds
<1>2. r_rx_cdc_done' = r_rx_cdc_done /\ r_rx_cdc_byte' = r_rx_cdc_byte /\ r_write_stb' = r_write_stb
  BY DEF clkRegs
<1>3. Levels \in Nat /\ Levels > 0 /\ r_rx_spi_done \in {0, 1} /\ Level \subseteq Nat
  BY SpiAssumption DEF TypeOK, Bit, Level
<1>4. Reached(0)'
  <2>1. \A hh \in Level : ~(hh < 0)
    BY <1>3
  <2>2. 1 - r_rx_spi_done' = r_rx_spi_done
    BY <1>3
  <2> QED
    BY <1>1, <1>2, <2>1, <2>2 DEF Reached
<1>5. due' = <<r_rx_cdc_byte[0]>>' \o <<>>
  BY <1>1, <1>2
<1>6. Elapsed' <= 0
  <2>1. CASE BitsIn' = 0
    BY <2>1 DEF Elapsed
  <2>2. CASE BitsIn' = 1
    BY <2>2 DEF Elapsed
  <2> QED
    BY <2>1, <2>2
<1> QED
  BY <1>1, <1>2, <1>3, <1>4, <1>5, <1>6 DEF InFlight

(* An edge on which done does not change: the byte that has just come in,  *)
(* if one has, is owed from now on.                                        *)
LEMMA SameDoneStep ==
  ASSUME TypeOK, NEW p \in 0 .. Levels, InFlight(p),
         r_rx_spi_done' = r_rx_spi_done, Elapsed' <= Elapsed, Elapsed \in Int, Elapsed' \in Int,
         Whole = <<>>, due' = due \o Whole', Whole' \in Seq(Tag),
         UNCHANGED clkRegs, UNCHANGED i_master_write_ack
  PROVE  InFlight(p)'
<1>1. r_rx_cdc_done' = r_rx_cdc_done /\ r_rx_cdc_byte' = r_rx_cdc_byte /\ r_write_stb' = r_write_stb
  BY DEF clkRegs
<1>2. Levels \in Nat /\ i_master_write_ack \in {0, 1}
  BY SpiAssumption DEF TypeOK, Bit
<1>3. Reached(p)'
  BY <1>1 DEF InFlight, Reached
<1>4. due' = (IF p < Levels THEN <<r_rx_cdc_byte[p]>> ELSE <<>>) \o Whole'
  <2>1. due = (IF p < Levels THEN <<r_rx_cdc_byte[p]>> ELSE <<>>) \o <<>>
    BY DEF InFlight
  <2>2. CASE p < Levels
    <3>1. due = <<r_rx_cdc_byte[p]>>
      BY <2>1, <2>2
    <3> QED
      BY <2>2, <3>1
  <2>3. CASE ~(p < Levels)
    <3>1. due = <<>>
      BY <2>1, <2>3
    <3> QED
      BY <2>3, <3>1
  <2> QED
    BY <2>2, <2>3
<1>5. p < Levels => Elapsed' <= p
  BY <1>2 DEF InFlight
<1>6. r_write_stb = 1 => IF p < Levels THEN p <= Levels - 3 + i_master_write_ack
                         ELSE Elapsed' <= Levels + i_master_write_ack
  BY <1>2 DEF InFlight
<1> QED
  BY <1>1, <1>3, <1>4, <1>5, <1>6 DEF InFlight

LEMMA SpiStep ==
  ASSUME TypeOK, Good, RxInv, SpiEdge
  PROVE  RxInv'
<1> USE DEF RxInv
<1>1. /\ since = Ratio /\ since' = 0 /\ spi' = spi /\ i_reset' = i_reset /\ i_spi_ss' = i_spi_ss
      /\ i_spi_ss = 1 => left > 0
      /\ i_spi_ss = 0 /\ i_reset = 0 => spi.idle
      /\ RxSpiProcess
      /\ left' = IF i_spi_ss = 1 THEN left - 1 ELSE left
      /\ due' = IF ByteEnds THEN Append(due, r_rx_spi_byte') ELSE due
      /\ UNCHANGED i_master_write_ack /\ UNCHANGED clkRegs
  BY DEF SpiEdge, SpiTick
<1>2. /\ Bits \in Nat /\ Bits > 2 /\ since > 0 /\ i_reset \in {0, 1} /\ i_spi_ss \in {0, 1} /\ left \in Nat
      /\ r_rx_spi_bit_count \in 0 .. Bits - 1 /\ r_rx_spi_start \in {0, 1} /\ r_rx_spi_done \in {0, 1}
      /\ r_rx_spi_byte \in Tag
  BY <1>1, SpiAssumption DEF TypeOK, Bit
<1>3. PICK rest \in Nat : Rest(rest)
  BY DEF RestInv
<1>4. ASSUME r_rx_spi_start' = 0 => r_rx_spi_bit_count' = 0 /\ r_rx_spi_byte' = 0 /\ r_rx_spi_done' = 0,
             i_reset = 1 => due' = <<>>
      PROVE  RegsInv'
  BY <1>1, <1>2, <1>4 DEF RegsInv, clkRegs
<1>5. CASE i_reset = 1 \/ i_spi_ss = 0
  <2>1. /\ ClearRx /\ due' = due /\ left' = 0 /\ left = 0 /\ i_spi_ss = 0
    BY <1>1, <1>2, <1>5 DEF RxSpiProcess, ShiftBit, ByteEnds, RegsInv
  <2>2. RegsInv'
    BY <1>4, <2>1 DEF ClearRx, RegsInv
  <2>3. Rest(0)'
    BY <1>2, <2>1 DEF ClearRx, Rest, Ahead
  <2>4. ASSUME i_reset = 0 PROVE FlightInv'
    <3>1. PICK p \in 0 .. Levels : InFlight(p)
      BY <2>4 DEF FlightInv
    <3>2. r_rx_spi_done' = 0 /\ Whole' = <<>> /\ BitsIn' = 0 /\ Elapsed' = -1
      BY <1>1, <2>1 DEF ClearRx, Whole, BitsIn, Elapsed
    <3>3. CASE r_rx_spi_start = 0
      <4>1. r_rx_spi_done = 0 /\ Whole = <<>> /\ Elapsed = 0
        BY <1>2, <3>3 DEF RegsInv, Whole, Elapsed, BitsIn
      <4>2. due \in Seq(Tag) /\ due' = due \o Whole' /\ Whole' \in Seq(Tag)
        BY <2>1, <3>2 DEF TypeOK
      <4>3. InFlight(p)'
        BY <1>1, <3>1, <3>2, <4>1, <4>2, SameDoneStep
      <4> QED
        BY <4>3 DEF FlightInv
    <3>4. CASE r_rx_spi_start = 1
      <4>1. r_rx_spi_bit_count = 0 /\ rest = 0
        <5>1. r_rx_spi_bit_count = rest * Bits
          BY <1>2, <1>3, <2>1 DEF Rest
        <5>2. rest # 0 => rest * Bits >= Bits
          BY <1>2
        <5> QED
          BY <1>2, <5>1, <5>2
      <4>2. r_rx_spi_done = 1
        BY <1>1, <1>3, <2>1, <2>4, <3>4, <4>1 DEF Rest, Ahead
      <4>3. r_rx_spi_done' = 1 - r_rx_spi_done
        BY <3>2, <4>2
      <4>4. InFlight(0)'
        BY <1>1, <1>2, <2>1, <2>4, <3>1, <3>2, <3>4, <4>1, <4>3, ChangeStep
      <4>5. 0 \in 0 .. Levels
        BY SpiAssumption
      <4> QED
        BY <4>4, <4>5 DEF FlightInv
    <3> QED
      BY <1>2, <3>3, <3>4
  <2> QED
    BY <1>1, <1>2, <2>2, <2>3, <2>4 DEF RestInv, FlightInv
<1>6. CASE i_reset = 0 /\ i_spi_ss = 1
  <2>1. ShiftBit /\ left > 0 /\ left' = left - 1 /\ r_rx_spi_start' = 1
    BY <1>1, <1>6 DEF RxSpiProcess, ClearRx, ShiftBit
  <2>2. RegsInv'
    BY <1>4, <1>6, <2>1
  <2>3. IF r_rx_spi_bit_count = Bits - 1
        THEN rest > 0 /\ ByteEnds /\ r_rx_spi_bit_count' = 0 /\ Rest(rest - 1)'
        ELSE ~ByteEnds /\ r_rx_spi_bit_count' = r_rx_spi_bit_count + 1 /\ Rest(rest)'
    BY <1>1, <1>3, <1>6, <2>1, BitStep
  <2>4. RestInv'
    BY <1>2, <2>3 DEF RestInv
  <2>5. PICK p \in 0 .. Levels : InFlight(p)
    BY <1>6 DEF FlightInv
  <2>6. CASE r_rx_spi_start = 1 /\ r_rx_spi_bit_count = 0
    <3>1. r_rx_spi_done' = 1 - r_rx_spi_done
      BY <2>1, <2>6 DEF ShiftBit
    <3>2. r_rx_spi_bit_count' = 1 /\ due' = due
      BY <1>1, <1>2, <2>3, <2>6
    <3>3. Whole' = <<>> /\ BitsIn' = 1
      BY <2>1, <3>2 DEF Whole, BitsIn
    <3>4. InFlight(0)'
      BY <1>1, <1>2, <1>6, <2>5, <2>6, <3>1, <3>2, <3>3, ChangeStep
    <3>5. 0 \in 0 .. Levels
      BY SpiAssumption
    <3> QED
      BY <2>2, <2>4, <3>4, <3>5 DEF FlightInv
  <2>7. CASE ~(r_rx_spi_start = 1 /\ r_rx_spi_bit_count = 0)
    <3>1. r_rx_spi_done' = r_rx_spi_done /\ Whole = <<>>
      BY <2>1, <2>7 DEF ShiftBit, Whole
    <3>2. Elapsed = r_rx_spi_bit_count
      BY <1>2, <2>7 DEF Elapsed, BitsIn, RegsInv
    <3>3. Elapsed' = r_rx_spi_bit_count
      BY <1>1, <1>2, <2>1, <2>3 DEF Elapsed, BitsIn
    <3>4. r_rx_spi_byte' \in Tag
      BY <1>2, <2>1, SpiAssumption DEF ShiftBit, Tag
    <3>5. due' = due \o Whole' /\ Whole' \in Seq(Tag)
      <4>1. CASE r_rx_spi_bit_count = Bits - 1
        <5>1. Whole' = <<r_rx_spi_byte'>>
          BY <2>1, <2>3, <4>1 DEF Whole
        <5>2. due' = Append(due, r_rx_spi_byte') /\ due \in Seq(Tag)
          BY <1>1, <2>3, <4>1 DEF TypeOK
        <5> QED
          BY <3>4, <5>1, <5>2
      <4>2. CASE r_rx_spi_bit_count # Bits - 1
        <5>1. Whole' = <<>>
          BY <1>2, <2>1, <2>3, <4>2 DEF Whole
        <5>2. due' = due /\ due \in Seq(Tag)
          BY <1>1, <2>3, <4>2 DEF TypeOK
        <5> QED
          BY <5>1, <5>2
      <4> QED
        BY <4>1, <4>2
    <3>6. InFlight(p)'
      BY <1>1, <1>2, <2>5, <3>1, <3>2, <3>3, <3>5, SameDoneStep
    <3> QED
      BY <2>2, <2>4, <2>5, <3>6 DEF FlightInv
  <2> QED
    BY <2>6, <2>7
<1> QED
  BY <1>2, <1>5, <1>6

(* The byte in the synchroniser moves up a level.                          *)
LEMMA ReachedStep ==
  ASSUME TypeOK, NEW p \in 0 .. Levels, Reached(p), i_reset = 0,
         CdcProcess(r_rx_spi_done, r_rx_spi_byte), r_rx_spi_done' = r_rx_spi_done
  PROVE  /\ p < Levels => Reached(p + 1)'
         /\ p = Levels => Reached(Levels)'
         /\ p + 1 < Levels => r_rx_cdc_byte'[p + 1] = r_rx_cdc_byte[p]
         /\ r_rx_cdc_byte'[0] = r_rx_spi_byte
<1>1. Levels \in Nat /\ Levels > 1 /\ Level = 0 .. Levels - 1
  BY SpiAssumption DEF Level
<1>2. ASSUME NEW hh \in Level
      PROVE  r_rx_cdc_done'[hh] = IF hh > 0 THEN r_rx_cdc_done[hh - 1] ELSE r_rx_spi_done
  BY DEF CdcProcess
<1>3. ASSUME NEW hh \in Level, hh > 0
      PROVE  r_rx_cdc_done[hh - 1] = IF hh - 1 < p THEN r_rx_spi_done ELSE 1 - r_rx_spi_done
  BY <1>1, <1>3 DEF Reached
<1>4. ASSUME NEW hh \in Level, NEW q \in 0 .. Levels, q = p + 1 \/ (p = Levels /\ q = Levels)
      PROVE  r_rx_cdc_done'[hh] = IF hh < q THEN r_rx_spi_done ELSE 1 - r_rx_spi_done
  BY <1>1, <1>2, <1>3, <1>4
<1>5. ASSUME p + 1 < Levels PROVE r_rx_cdc_byte'[p + 1] = r_rx_cdc_byte[p]
  <2>1. p + 1 \in Level /\ p + 1 > 0 /\ (p + 1) - 1 = p
    BY <1>1, <1>5
  <2>2. r_rx_cdc_byte'[p + 1] = r_rx_cdc_byte[(p + 1) - 1]
    BY <2>1 DEF CdcProcess
  <2> QED
    BY <2>1, <2>2
<1>6. r_rx_cdc_byte'[0] = r_rx_spi_byte
  BY <1>1 DEF CdcProcess
<1>7. ASSUME NEW q \in 0 .. Levels, q = p + 1 \/ (p = Levels /\ q = Levels)
      PROVE  Reached(q)'
  BY <1>4, <1>7 DEF Reached
<1>8. p < Levels => p + 1 \in 0 .. Levels
  BY <1>1
<1> QED
  BY <1>1, <1>5, <1>6, <1>7, <1>8

(* Only a byte about to reach the last level is seen as arrived.           *)
LEMMA Arrives ==
  ASSUME TypeOK, NEW p \in 0 .. Levels, Reached(p)
  PROVE  ByteArrived <=> p = Levels - 1
<1>1. /\ Levels \in Nat /\ Levels > 1 /\ Levels - 1 \in Level /\ Levels - 2 \in Level
      /\ r_rx_spi_done \in {0, 1}
  BY SpiAssumption DEF Level, TypeOK, Bit
<1>2. /\ r_rx_cdc_done[Levels - 1] = IF Levels - 1 < p THEN r_rx_spi_done ELSE 1 - r_rx_spi_done
      /\ r_rx_cdc_done[Levels - 2] = IF Levels - 2 < p THEN r_rx_spi_done ELSE 1 - r_rx_spi_done
  BY <1>1 DEF Reached
<1>3. CASE p < Levels - 1
  BY <1>1, <1>2, <1>3 DEF ByteArrived
<1>4. CASE p = Levels - 1
  BY <1>1, <1>2, <1>4 DEF ByteArrived
<1>5. CASE p = Levels
  BY <1>1, <1>2, <1>5 DEF ByteArrived
<1> QED
  BY <1>1, <1>3, <1>4, <1>5

(* The byte that arrives is the oldest one owed, and the strobe is free.   *)
LEMMA Arrival ==
  ASSUME TypeOK, NEW p \in 0 .. Levels, InFlight(p), ByteArrived
  PROVE  /\ p = Levels - 1 /\ r_write_stb = 0
         /\ due = <<ArrivedByte>> \o Whole
<1>1. p = Levels - 1 /\ Levels \in Nat /\ i_master_write_ack \in {0, 1} /\ r_write_stb \in {0, 1}
  BY Arrives, SpiAssumption DEF InFlight, TypeOK, Bit
<1>2. r_write_stb # 1
  BY <1>1 DEF InFlight
<1>3. p < Levels /\ r_rx_cdc_byte[p] = ArrivedByte
  BY <1>1 DEF ArrivedByte
<1>4. due = <<ArrivedByte>> \o Whole
  BY <1>3 DEF InFlight
<1> QED
  BY <1>1, <1>2, <1>4

LEMMA WholeType == ASSUME TypeOK PROVE Whole \in Seq(Tag)
  BY DEF Whole, TypeOK

LEMMA ClkStep ==
  ASSUME TypeOK, TypeOK', RxInv, ClkEdge
  PROVE  RxInv'
<1>1. /\ CdcProcess(r_rx_spi_done, r_rx_spi_byte) /\ WriteProcess /\ Acknowledge
      /\ since' = (IF since < Ratio THEN since + 1 ELSE since) /\ due' = Due(due)
      /\ UNCHANGED master /\ UNCHANGED spiRegs
  BY DEF ClkEdge, Clock
<1>2. /\ spi' = spi /\ i_reset' = i_reset /\ i_spi_ss' = i_spi_ss /\ left' = left
      /\ r_rx_spi_bit_count' = r_rx_spi_bit_count /\ r_rx_spi_done' = r_rx_spi_done
      /\ r_rx_spi_byte' = r_rx_spi_byte /\ r_rx_spi_start' = r_rx_spi_start
  BY <1>1 DEF master, spiRegs
<1>3. /\ Bits \in Nat /\ Bits > 2 /\ Levels \in 2 .. Bits /\ Ratio \in Nat \ {0} /\ since \in 0 .. Ratio
      /\ i_reset \in {0, 1} /\ r_write_stb \in {0, 1} /\ r_write_stb' \in {0, 1}
      /\ i_master_write_ack \in {0, 1} /\ i_master_write_ack' \in {0, 1}
      /\ r_rx_spi_bit_count \in 0 .. Bits - 1 /\ due \in Seq(Tag) /\ 0 \in Level
  BY SpiAssumption DEF TypeOK, Bit, Level
<1>4. since' > 0
  BY <1>1, <1>3
<1>5. RestInv'
  <2>1. ASSUME NEW rest \in Nat, Rest(rest) PROVE Rest(rest)'
    BY <1>2, <2>1 DEF Rest, Ahead
  <2> QED
    BY <2>1 DEF RxInv, RestInv
<1>6. CASE i_reset = 1
  <2>1. /\ r_write_stb' = 0 /\ r_rx_cdc_byte'[0] = 0 /\ due' = <<>> /\ i_master_write_ack' = 0
    BY <1>1, <1>3, <1>6 DEF RxInv, RegsInv, WriteProcess, WriteReset, RaiseStb, NoNewByte, CdcProcess, Due, Acknowledge
  <2>2. RegsInv'
    BY <1>2, <1>6, <2>1 DEF RxInv, RegsInv
  <2> QED
    BY <1>2, <1>5, <1>6, <2>2 DEF RxInv, FlightInv
<1>7. CASE i_reset = 0
  <2>1. PICK p \in 0 .. Levels : InFlight(p)
    BY <1>7 DEF RxInv, FlightInv
  <2>2. /\ p < Levels => Reached(p + 1)'
        /\ p = Levels => Reached(Levels)'
        /\ p + 1 < Levels => r_rx_cdc_byte'[p + 1] = r_rx_cdc_byte[p]
        /\ r_rx_cdc_byte'[0] = r_rx_spi_byte
    BY <1>1, <1>2, <1>7, <2>1, ReachedStep DEF InFlight
  <2>4. Whole' = Whole /\ BitsIn' = BitsIn /\ BitsIn \in Nat
    BY <1>2, <1>3 DEF Whole, BitsIn
  <2>5. Elapsed \in Int /\ Elapsed' \in Int /\ Elapsed' <= Elapsed + 1
    <3>1. Elapsed' = BitsIn
      BY <1>3, <1>4, <2>4 DEF Elapsed
    <3>2. Elapsed \in {BitsIn, BitsIn - 1}
      BY DEF Elapsed
    <3> QED
      BY <2>4, <3>1, <3>2
  <2>6. i_master_write_ack' = 1 => r_write_stb' = 1
    BY <1>1, <1>3 DEF Acknowledge
  <2>7. r_write_stb = 1 /\ r_write_stb' = 1 => i_master_write_ack' = 1
    BY <1>1 DEF Acknowledge
  <2>8. RegsInv'
    BY <1>2, <1>7, <2>2, <2>6 DEF RxInv, RegsInv
  <2>9. CASE p = Levels - 1
    <3>1. ByteArrived /\ r_write_stb = 0 /\ due = <<ArrivedByte>> \o Whole
      BY <2>1, <2>9, Arrives, Arrival DEF InFlight
    <3>2. r_write_stb' = 1
      BY <1>1, <1>7, <3>1 DEF WriteProcess, WriteReset, RaiseStb, NoNewByte
    <3>3. due # <<>> /\ Tail(due) = Whole
      BY <3>1, WholeType
    <3>4. due' = Whole
      BY <1>1, <3>1, <3>2, <3>3 DEF Due
    <3>5. p < Levels /\ p + 1 = Levels /\ ~(Levels < Levels)
      BY <1>3, <2>9
    <3>6. due' = <<>> \o Whole'
      BY <2>4, <3>4, WholeType
    <3>7. Elapsed' <= Levels + i_master_write_ack'
      <4>1. Elapsed <= p
        BY <2>1, <3>5 DEF InFlight
      <4>2. Elapsed' <= p + 1
        BY <2>5, <4>1
      <4>3. Elapsed' <= Levels
        BY <3>5, <4>2
      <4>4. CASE i_master_write_ack' = 0
        BY <1>3, <4>3, <4>4
      <4>5. CASE i_master_write_ack' = 1
        BY <1>3, <2>5, <4>3, <4>5
      <4> QED
        BY <1>3, <4>4, <4>5
    <3>8. InFlight(Levels)'
      <4>1. Reached(Levels)'
        BY <2>2, <3>5
      <4> QED
        BY <3>5, <3>6, <3>7, <4>1 DEF InFlight
    <3> QED
      BY <1>3, <1>5, <2>8, <3>8 DEF RxInv, FlightInv
  <2>10. CASE p # Levels - 1
    <3>1. ~ByteArrived
      BY <2>1, <2>10, Arrives DEF InFlight
    <3>2. r_write_stb' = IF i_master_write_ack = 1 THEN 0 ELSE r_write_stb
      BY <1>1, <1>7, <3>1 DEF WriteProcess, WriteReset, RaiseStb, NoNewByte
    <3>3. due' = due
      BY <1>1, <3>2 DEF Due
    <3>4. r_write_stb' = 1 => r_write_stb = 1 /\ i_master_write_ack = 0 /\ i_master_write_ack' = 1
      BY <1>3, <2>7, <3>2
    <3>5. CASE p < Levels
      <4>1. p + 1 < Levels /\ p + 1 \in 0 .. Levels /\ Reached(p + 1)'
        BY <1>3, <2>2, <2>10, <3>5
      <4>2. due' = <<r_rx_cdc_byte'[p + 1]>> \o Whole'
        <5>1. due = <<r_rx_cdc_byte[p]>> \o Whole
          BY <2>1, <3>5 DEF InFlight
        <5> QED
          BY <2>2, <2>4, <3>3, <4>1, <5>1
      <4>3. Elapsed' <= p + 1
        BY <2>1, <2>5, <3>5 DEF InFlight
      <4>4. r_write_stb' = 1 => p + 1 <= Levels - 3 + i_master_write_ack'
        BY <1>3, <2>1, <3>4, <3>5 DEF InFlight
      <4>5. InFlight(p + 1)'
        BY <4>1, <4>2, <4>3, <4>4 DEF InFlight
      <4> QED
        BY <1>5, <2>8, <4>1, <4>5 DEF RxInv, FlightInv
    <3>6. CASE p = Levels
      <4>1. Reached(Levels)' /\ ~(Levels < Levels)
        BY <1>3, <2>2, <3>6
      <4>2. due' = <<>> \o Whole'
        BY <2>1, <2>4, <3>3, <3>6, <4>1 DEF InFlight
      <4>3. r_write_stb' = 1 => Elapsed' <= Levels + i_master_write_ack'
        BY <1>3, <2>1, <2>5, <3>4, <3>6 DEF InFlight
      <4>4. InFlight(Levels)'
        BY <4>1, <4>2, <4>3 DEF InFlight
      <4> QED
        BY <1>3, <1>5, <2>8, <4>4 DEF RxInv, FlightInv
    <3> QED
      BY <1>3, <3>5, <3>6
  <2> QED
    BY <2>9, <2>10
<1> QED
  BY <1>3, <1>6, <1>7

(* The master and reset: they move no register of the slave.               *)
LEMMA EnvironmentStep ==
  ASSUME TypeOK, Good, RxInv, Driver \/ ReleaseReset
  PROVE  RxInv'
<1>1. /\ UNCHANGED <<spi, i_master_write_ack, spiRegs, clkRegs>> /\ BitsIn' = BitsIn /\ Whole' = Whole
      /\ Ahead' = Ahead
  BY DEF Driver, Select, Deselect, AssertReset, ReleaseReset, spiRegs, BitsIn, Whole, Ahead
<1>2. /\ i_reset \in {0, 1} /\ Bits \in Nat \ {0} /\ Ratio \in Nat \ {0} /\ left \in Nat
      /\ r_rx_spi_bit_count \in 0 .. Bits - 1 /\ r_rx_spi_start \in {0, 1}
      /\ Levels \in Nat /\ Levels > 1
  BY SpiAssumption DEF TypeOK, Bit
<1> USE DEF RxInv
<1>3. ASSUME since' = since, i_reset' = 0, i_reset = 0, due' = due PROVE FlightInv'
  <2>1. PICK p \in 0 .. Levels : InFlight(p)
    BY <1>3 DEF FlightInv
  <2>2. Elapsed' = Elapsed
    BY <1>1, <1>3 DEF Elapsed
  <2>3. InFlight(p)'
    BY <1>1, <1>3, <2>1, <2>2 DEF InFlight, Reached, clkRegs, spiRegs
  <2> QED
    BY <2>3 DEF FlightInv
<1>4. CASE Select
  <2>1. i_reset = 0 /\ i_reset' = 0 /\ since' = since /\ due' = due /\ i_spi_ss' = 1 /\ i_spi_ss = 0 /\ left = 0
    BY <1>4 DEF Select, RegsInv
  <2>2. RegsInv'
    BY <1>1, <2>1 DEF RegsInv, spiRegs, clkRegs
  <2>3. PICK n \in spi.counts : left' = n * Bits
    BY <1>4 DEF Select, Payloads
  <2>4. n \in Nat
    BY <2>3, Masters1 DEF TypeOK
  <2>5. r_rx_spi_bit_count = 0
    <3>1. PICK rest \in Nat : left + r_rx_spi_bit_count = rest * Bits
      BY DEF RestInv, Rest
    <3>2. rest # 0 => rest * Bits >= Bits
      BY <1>2
    <3>3. rest = 0
      BY <1>2, <2>1, <3>1, <3>2
    <3> QED
      BY <1>2, <2>1, <3>1, <3>3
  <2>6. left' + r_rx_spi_bit_count' = n * Bits
    BY <1>1, <1>2, <2>3, <2>4, <2>5 DEF spiRegs
  <2>7. spi.idle => r_rx_spi_start = 0 /\ r_rx_spi_done = 0 /\ n % 2 = 0
    BY <1>4, <2>3 DEF Select, RegsInv, Good, Even
  <2>8. spi.idle => r_rx_spi_done = (n + 0) % 2 /\ Ahead' = 0
    BY <1>1, <2>4, <2>7 DEF Ahead
  <2>9. Rest(n)'
    BY <1>1, <2>6, <2>8 DEF Rest, spiRegs
  <2> QED
    BY <1>3, <2>1, <2>2, <2>4, <2>9 DEF RestInv
<1>5. ASSUME left' = left PROVE RestInv'
  <2>1. ASSUME NEW rest \in Nat, Rest(rest) PROVE Rest(rest)'
    BY <1>1, <1>5, <2>1 DEF Rest, spiRegs
  <2> QED
    BY <2>1 DEF RestInv
<1>6. CASE Deselect
  <2>1. i_reset' = i_reset /\ since' = since /\ due' = due /\ i_spi_ss' = 0 /\ i_spi_ss = 1 /\ left' = left /\ left = 0
    BY <1>6 DEF Deselect
  <2>2. i_reset = 0
    BY <1>2, <2>1 DEF RegsInv
  <2>3. RegsInv'
    BY <1>1, <2>1, <2>2 DEF RegsInv, spiRegs, clkRegs
  <2> QED
    BY <1>3, <1>5, <2>1, <2>2, <2>3
<1>7. CASE AssertReset
  <2>1. i_reset' = 1 /\ since' = 0 /\ due' = <<>> /\ i_spi_ss' = 0 /\ i_spi_ss = 0 /\ left' = left
    BY <1>7 DEF AssertReset
  <2>2. RegsInv'
    BY <1>1, <2>1 DEF RegsInv, spiRegs, clkRegs
  <2> QED
    BY <1>5, <2>1, <2>2 DEF FlightInv
<1>8. CASE ReleaseReset
  <2>1. /\ i_reset = 1 /\ i_reset' = 0 /\ since = Ratio /\ since' = since /\ due' = due /\ i_spi_ss' = i_spi_ss
        /\ left' = left /\ r_rx_spi_done = 0 /\ r_rx_spi_start = 0
        /\ \A hh \in Level : r_rx_cdc_done[hh] = 0
    BY <1>8 DEF ReleaseReset
  <2>2. since > 0 /\ due = <<>> /\ r_write_stb = 0 /\ r_rx_cdc_byte[0] = 0 /\ r_rx_spi_byte = 0
    BY <1>2, <2>1 DEF RegsInv
  <2>3. RegsInv'
    BY <1>1, <2>1, <2>2 DEF RegsInv, spiRegs, clkRegs
  <2>4. Whole = <<>> /\ ~(Levels < Levels)
    BY <1>2, <2>1 DEF Whole
  <2>5. Reached(Levels)'
    <3>1. \A hh \in Level : hh < Levels
      BY <1>2 DEF Level
    <3> QED
      BY <1>1, <2>1, <3>1 DEF Reached, spiRegs, clkRegs
  <2>6. InFlight(Levels)'
    BY <1>1, <2>1, <2>2, <2>4, <2>5 DEF InFlight, clkRegs
  <2>7. Levels \in 0 .. Levels
    BY <1>2
  <2> QED
    BY <1>5, <2>1, <2>3, <2>6, <2>7 DEF FlightInv
<1> QED
  BY <1>4, <1>6, <1>7, <1>8 DEF Driver

LEMMA RxNext == ASSUME TypeOK, TypeOK', Good => RxInv, [Next]_vars PROVE (Good => RxInv)'
<1>1. Good' = Good
  BY GoodKept
<1>2. ASSUME Good PROVE RxInv'
  <2>1. ~BothEdges
    BY <1>2 DEF Good, BothEdges
  <2>2. CASE UNCHANGED vars
    <3>1. UNCHANGED <<master, i_master_write_ack, spiRegs, clkRegs, since, due>>
      BY <2>2 DEF vars
    <3>2. BitsIn' = BitsIn /\ Whole' = Whole /\ Ahead' = Ahead
      BY <3>1 DEF spiRegs, BitsIn, Whole, Ahead
    <3>3. Elapsed' = Elapsed
      BY <3>1, <3>2 DEF Elapsed
    <3>4. RegsInv'
      BY <1>2, <3>1 DEF RxInv, RegsInv, master, spiRegs, clkRegs
    <3>5. RestInv'
      BY <1>2, <3>1, <3>2 DEF RxInv, RestInv, Rest, master, spiRegs
    <3>6. FlightInv'
      BY <1>2, <3>1, <3>2, <3>3 DEF RxInv, FlightInv, InFlight, Reached, master, spiRegs, clkRegs
    <3> QED
      BY <3>4, <3>5, <3>6 DEF RxInv
  <2> QED
    BY <1>2, <2>1, <2>2, SpiStep, ClkStep, EnvironmentStep DEF Next
<1> QED
  BY <1>1, <1>2

LEMMA RxAlways == Spec => [](TypeOK /\ (Good => RxInv))
<1>1. Init => TypeOK /\ (Good => RxInv)
  BY TypeInit, RxInit
<1>2. TypeOK /\ (Good => RxInv) /\ [Next]_vars => TypeOK' /\ (Good => RxInv)'
  BY TypeNext, RxNext
<1> QED
  BY <1>1, <1>2, PTL DEF Spec

LEMMA Raised ==
  ASSUME TypeOK, RxInv, [Next]_vars, ~spi.skew, r_write_stb = 0, r_write_stb' = 1
  PROVE  due # <<>> /\ r_write_byte' = Head(due)
<1>1. ClkEdge
  BY DEF Next, SpiEdge, BothEdges, Driver, Select, Deselect, AssertReset, ReleaseReset, vars, clkRegs
<1>2. i_reset = 0 /\ ByteArrived /\ r_write_byte' = ArrivedByte
  BY <1>1 DEF ClkEdge, Clock, WriteProcess, WriteReset, RaiseStb, NoNewByte
<1>3. PICK p \in 0 .. Levels : InFlight(p)
  BY <1>2 DEF RxInv, FlightInv
<1>4. due = <<ArrivedByte>> \o Whole
  BY <1>2, <1>3, Arrival
<1>5. due # <<>> /\ Head(due) = ArrivedByte
  BY <1>4, WholeType
<1> QED
  BY <1>2, <1>5

(* SPI_Slave.v:74, 148-172: with edges apart, and even transactions or a   *)
(* clock that stops in between, every byte comes to the Wishbone link      *)
(* whole, once and in order, whatever the ratio of the clocks and for as   *)
(* many levels of the synchroniser as a byte has bits.                     *)
THEOREM EveryByteHandedOver == Spec => HandOver
<1>1. TypeOK /\ (Good => RxInv) /\ [Next]_vars
      => [~spi.skew /\ (spi.idle => Even) /\ r_write_stb = 0 /\ r_write_stb' = 1
           => due # <<>> /\ r_write_byte' = Head(due)]_vars
  BY Raised DEF Good
<1> QED
  BY <1>1, RxAlways, PTL DEF Spec, HandOver

-----------------------------------------------------------------------------
(* The job path.  What the framer holds of an unfinished word, the byte    *)
(* the slave offers it and the bytes owed are the bytes of one transaction *)
(* after another, from the oldest whose job is not out yet.                *)
Places == 0 .. NumBytes - 1

Accepts == r_write_stb = 1 /\ i_master_write_ack = 0 /\ f_write_stb = 0

Pending == IF r_write_stb = 1 /\ i_master_write_ack = 0 THEN <<r_write_byte>> ELSE <<>>
Queued  == Pending \o due
Taken   == IF f_write_stb = 1 THEN 0 ELSE f_data_index

(* The byte at place k, counted from the start of the oldest transaction.  *)
ByteAt(k) == IF k > NumBytes THEN (k - NumBytes) * Bits ELSE k * Bits

FramerType ==
    /\ f_data_index \in 0 .. NumBytes /\ f_write_stb \in Bit
    /\ f_data \in [Places -> Tag \cup {Torn}]
    /\ f_data_index = NumBytes => i_master_write_ack = 1 \/ f_write_stb = 1
    /\ f_write_stb = 1 => r_write_stb = 0
    /\ i_reset = 1 /\ since > 0 => f_data_index = 0 /\ f_write_stb = 0

(* Every byte of the transactions begun is somewhere on the way.           *)
Balance == \E rest \in Nat : Rest(rest) /\ owed * NumBytes = Taken + Len(Queued) + rest

OwedInv ==
    /\ owed \in 0 .. 2
    /\ i_reset = 1 => owed = 0
    /\ i_reset = 0 => Balance

OrderInv ==
    /\ i_reset = 0 => \A k \in 1 .. Len(Queued) : Queued[k] = ByteAt(Taken + k)
    /\ \A k \in Places : k < Taken => f_data[k] = (k + 1) * Bits
    /\ r_rx_spi_start = 1 => r_rx_spi_byte = NumBytes * Bits - left
    /\ i_spi_ss = 1 /\ r_rx_spi_start = 0 => left = NumBytes * Bits

JobInv == TypeOK /\ RxInv /\ spi = JobMaster /\ FramerType /\ OwedInv /\ OrderInv /\ JobIntact

LEMMA JobSizes ==
  /\ NumBytes \in Nat /\ NumBytes > 1 /\ Bits \in Nat /\ Bits > 2 /\ TagMod \in Nat
  /\ IndexMod \in Nat /\ NumBytes < IndexMod /\ NumBytes * Bits < TagMod /\ 0 \in Tag
  /\ Framer!Cell = Places
  BY SpiAssumption, JobAssumption DEF Tag, Framer!Cell, Places

LEMMA JobGood == ASSUME spi = JobMaster PROVE Good
  BY JobAssumption DEF Good, Even, JobMaster

(* One edge of the framer, with its consumer's ack tied to 1.              *)
LEMMA FramerEdge ==
  ASSUME Framer!Clock
  PROVE  /\ i_reset = 1 => /\ i_master_write_ack' = 0 /\ f_data_index' = 0 /\ f_write_stb' = 0
                           /\ f_data' = [f_data EXCEPT ![0] = 0]
         /\ i_reset = 0 /\ Accepts =>
              /\ i_master_write_ack' = 1 /\ f_data_index' = (f_data_index + 1) % IndexMod
              /\ f_data' = [f_data EXCEPT ![f_data_index] = r_write_byte]
         /\ i_reset = 0 /\ ~Accepts =>
              /\ i_master_write_ack' = 0 /\ f_data' = f_data
              /\ f_data_index' = IF f_write_stb = 1 THEN 0 ELSE f_data_index
         /\ i_reset = 0 /\ f_data_index = NumBytes /\ i_master_write_ack = 1 =>
              f_write_stb' = 1 /\ f_write_data' = [jj \in Places |-> f_data[NumBytes - 1 - jj]]
         /\ i_reset = 0 /\ ~(f_data_index = NumBytes /\ i_master_write_ack = 1) => f_write_stb' = 0
<1>1. /\ Framer!SlaveReset \/ Framer!AcceptByte \/ Framer!NoByte
      /\ Framer!MasterReset \/ Framer!IssueWord \/ Framer!HoldOrReleaseWord
  BY DEF Framer!Clock, Framer!SlaveProcess, Framer!MasterProcess
<1> USE JobSizes DEF Framer!SlaveReset, Framer!AcceptByte, Framer!NoByte, Framer!MasterReset,
         Framer!IssueWord, Framer!HoldOrReleaseWord, Framer!CanAccept, Framer!WordComplete, Accepts
<1>2. CASE i_reset = 1
  BY <1>1, <1>2
<1>3. CASE i_reset = 0
  BY <1>1, <1>3
<1> QED
  BY <1>2, <1>3

(* What the write process of the slave does while no byte arrives or one   *)
(* does.                                                                   *)
LEMMA WriteEffect ==
  ASSUME TypeOK, WriteProcess
  PROVE  /\ i_reset = 1 => r_write_stb' = 0
         /\ i_reset = 0 /\ r_write_stb = 1 => /\ r_write_stb' = 1 - i_master_write_ack
                                              /\ r_write_byte' = r_write_byte
         /\ i_reset = 0 /\ r_write_stb = 0 /\ ~ByteArrived =>
              r_write_stb' = 0 /\ r_write_byte' = r_write_byte
         /\ i_reset = 0 /\ r_write_stb = 0 /\ ByteArrived =>
              r_write_stb' = 1 /\ r_write_byte' = ArrivedByte
         /\ i_reset \in {0, 1} /\ r_write_stb \in {0, 1} /\ i_master_write_ack \in {0, 1}
<1>1. i_reset \in {0, 1} /\ r_write_stb \in {0, 1} /\ i_master_write_ack \in {0, 1}
  BY DEF TypeOK, Bit
<1> QED
  BY <1>1 DEF WriteProcess, WriteReset, RaiseStb, NoNewByte

(* The framer acknowledges the way the slave's model has it of its         *)
(* consumer: the edge after it sees the strobe.                            *)
LEMMA EdgeOfSlave ==
  ASSUME TypeOK, RegsInv, FramerType, SystemEdge
  PROVE  ClkEdge
<1>1. /\ WriteProcess /\ Framer!Clock
  BY DEF SystemEdge, Clock
<1>2. Acknowledge
  <2>1. CASE i_reset = 1
    BY <1>1, <2>1, WriteEffect, FramerEdge DEF Acknowledge
  <2>2. CASE i_reset = 0 /\ Accepts
    BY <1>1, <2>2, WriteEffect, FramerEdge DEF Acknowledge, Accepts
  <2>3. CASE i_reset = 0 /\ ~Accepts
    <3>1. i_master_write_ack' = 0
      BY <1>1, <2>3, FramerEdge
    <3>2. r_write_stb = 1 => i_master_write_ack = 1
      BY <1>1, <2>3, WriteEffect DEF Accepts, FramerType, Bit
    <3>3. r_write_stb' = 0 \/ r_write_stb = 0
      BY <1>1, <2>3, <3>2, WriteEffect
    <3> QED
      BY <3>1, <3>3 DEF Acknowledge, Bit
  <2> QED
    BY <1>1, <2>1, <2>2, <2>3, WriteEffect
<1> QED
  BY <1>2 DEF SystemEdge, ClkEdge

LEMMA JobStepIsStep ==
  ASSUME JobInv, [JobNext]_jobVars
  PROVE  [Next]_vars
<1>1. CASE SystemEdge
  BY <1>1, EdgeOfSlave DEF JobInv, RxInv, Next
<1>2. CASE JobBit \/ BeginJob \/ EndJob \/ BeginReset \/ EndReset
  BY <1>2 DEF JobBit, BeginJob, EndJob, BeginReset, EndReset, Next, Driver
<1>3. CASE UNCHANGED jobVars
  BY <1>3 DEF jobVars
<1> QED
  BY <1>1, <1>2, <1>3 DEF JobNext

LEMMA FramerStep ==
  ASSUME JobInv, TypeOK', [JobNext]_jobVars
  PROVE  FramerType'
<1>1. CASE SystemEdge
  <2>1. /\ Framer!Clock /\ WriteProcess /\ i_reset' = i_reset
        /\ since' = IF since < Ratio THEN since + 1 ELSE since
    BY <1>1 DEF SystemEdge, Clock, master
  <2>2. f_data' \in [Places -> Tag \cup {Torn}]
    <3>1. f_data \in [Places -> Tag \cup {Torn}] /\ r_write_byte \in Tag \cup {Torn}
      BY DEF JobInv, FramerType, TypeOK
    <3>2. f_data' = f_data \/ (\E c, b : f_data' = [f_data EXCEPT ![c] = b] /\ b \in Tag \cup {Torn})
      BY <2>1, <3>1, FramerEdge, WriteEffect, JobSizes DEF JobInv
    <3> QED
      BY <3>1, <3>2
  <2>3. CASE i_reset = 1
    BY <2>1, <2>2, <2>3, FramerEdge, JobSizes DEF FramerType, Bit
  <2>4. CASE i_reset = 0 /\ Accepts
    <3>1. f_data_index \in 0 .. NumBytes - 1
      BY <2>4, JobSizes DEF Accepts, JobInv, FramerType
    <3>2. f_data_index' = f_data_index + 1
      BY <2>1, <2>4, <3>1, FramerEdge, JobSizes
    <3>3. i_master_write_ack' = 1 /\ f_write_stb' = 0
      BY <2>1, <2>4, <3>1, FramerEdge, JobSizes
    <3> QED
      BY <2>1, <2>2, <2>4, <3>1, <3>2, <3>3, JobSizes DEF FramerType, Bit
  <2>5. CASE i_reset = 0 /\ ~Accepts
    <3>1. f_data_index' = (IF f_write_stb = 1 THEN 0 ELSE f_data_index) /\ i_master_write_ack' = 0
      BY <2>1, <2>5, FramerEdge
    <3>2. f_data_index' \in 0 .. NumBytes
      BY <3>1, JobSizes DEF JobInv, FramerType
    <3>3. CASE f_data_index = NumBytes /\ i_master_write_ack = 1
      <4>1. f_write_stb' = 1 /\ r_write_stb' = 0
        BY <2>1, <2>5, <3>3, FramerEdge, WriteEffect DEF JobInv, RxInv, RegsInv
      <4> QED
        BY <2>1, <2>2, <2>5, <3>2, <4>1 DEF FramerType, Bit
    <3>4. CASE ~(f_data_index = NumBytes /\ i_master_write_ack = 1)
      <4>1. f_write_stb' = 0
        BY <2>1, <2>5, <3>4, FramerEdge
      <4>2. f_data_index' # NumBytes
        BY <3>1, <3>4, JobSizes DEF JobInv, FramerType, Bit
      <4> QED
        BY <2>1, <2>2, <2>5, <3>2, <4>1, <4>2 DEF FramerType, Bit
    <3> QED
      BY <3>3, <3>4
  <2> QED
    BY <2>1, <2>3, <2>4, <2>5, WriteEffect DEF JobInv
<1>2. CASE JobBit \/ BeginJob \/ EndJob \/ BeginReset \/ EndReset \/ UNCHANGED jobVars
  <2>1. /\ UNCHANGED framer /\ UNCHANGED clkRegs /\ i_master_write_ack' = i_master_write_ack
        /\ i_reset' = 1 /\ since' > 0 => i_reset = 1 /\ since > 0
    BY <1>2, SpiAssumption DEF JobBit, BeginJob, EndJob, BeginReset, EndReset, SpiEdge, SpiTick, Select, Deselect,
            AssertReset, ReleaseReset, jobVars, vars, master
  <2> QED
    BY <2>1 DEF JobInv, FramerType, framer, clkRegs
<1> QED
  BY <1>1, <1>2 DEF JobNext

LEMMA PendingType == ASSUME TypeOK PROVE Pending \in Seq(Tag \cup {Torn}) /\ due \in Seq(Tag \cup {Torn})
                                         /\ Queued \in Seq(Tag \cup {Torn})
<1>1. due \in Seq(Tag) /\ r_write_byte \in Tag \cup {Torn}
  BY DEF TypeOK
<1>2. due \in Seq(Tag \cup {Torn})
  BY <1>1
<1>3. <<r_write_byte>> \in Seq(Tag \cup {Torn}) /\ <<>> \in Seq(Tag \cup {Torn})
  BY <1>1
<1>4. Pending \in Seq(Tag \cup {Torn})
  BY <1>3 DEF Pending
<1> QED
  BY <1>2, <1>4 DEF Queued

(* An edge takes the oldest byte on the way, or none.                      *)
LEMMA QueuedStep ==
  ASSUME JobInv, TypeOK', SystemEdge, i_reset = 0
  PROVE  IF Accepts THEN Queued # <<>> /\ Head(Queued) = r_write_byte /\ Queued' = Tail(Queued)
                    ELSE Queued' = Queued
<1>1. Framer!Clock /\ WriteProcess /\ due' = Due(due)
  BY DEF SystemEdge, Clock
<1>2. CASE r_write_stb = 0 /\ ByteArrived
  <2>1. PICK p \in 0 .. Levels : InFlight(p)
    BY DEF JobInv, RxInv, FlightInv
  <2>2. due = <<ArrivedByte>> \o Whole
    BY <1>2, <2>1, Arrival DEF JobInv
  <2>3. r_write_stb' = 1 /\ r_write_byte' = ArrivedByte /\ ~Accepts /\ i_master_write_ack' = 0
    BY <1>1, <1>2, WriteEffect, FramerEdge DEF JobInv, Accepts
  <2>4. due # <<>> /\ Tail(due) = Whole /\ Whole \in Seq(Tag)
    BY <2>2, WholeType DEF JobInv
  <2>5. due' = Whole
    BY <1>1, <1>2, <2>3, <2>4 DEF Due
  <2>6. Pending' = <<ArrivedByte>> /\ Pending = <<>>
    BY <1>2, <2>3 DEF Pending
  <2>7. Queued' = <<ArrivedByte>> \o Whole
    BY <2>5, <2>6 DEF Queued
  <2>8. Queued = due
    BY <2>6, PendingType DEF Queued, JobInv
  <2> QED
    BY <2>2, <2>3, <2>7, <2>8
<1>3. CASE r_write_stb = 0 /\ ~ByteArrived
  <2>1. r_write_stb' = 0 /\ ~Accepts
    BY <1>1, <1>3, WriteEffect DEF Accepts, JobInv
  <2>2. due' = due
    BY <1>1, <2>1 DEF Due
  <2> QED
    BY <1>3, <2>1, <2>2 DEF Queued, Pending
<1>4. CASE r_write_stb = 1
  <2>1. due' = due
    BY <1>1, <1>4 DEF Due
  <2>2. r_write_stb' = 1 - i_master_write_ack /\ r_write_byte' = r_write_byte
    BY <1>1, <1>4, WriteEffect DEF JobInv
  <2>3. f_write_stb = 0
    BY <1>4 DEF JobInv, FramerType, Bit
  <2>4. CASE Accepts
    <3>1. Pending = <<r_write_byte>> /\ Pending' = <<>>
      BY <1>1, <2>2, <2>4, FramerEdge DEF Accepts, Pending
    <3>2. Queued' = due /\ Queued = <<r_write_byte>> \o due /\ due \in Seq(Tag \cup {Torn})
      BY <2>1, <3>1, PendingType DEF Queued, JobInv
    <3>3. Queued # <<>> /\ Head(Queued) = r_write_byte /\ Tail(Queued) = due
      BY <3>2
    <3> QED
      BY <2>4, <3>2, <3>3
  <2>5. CASE ~Accepts
    <3>1. i_master_write_ack = 1 /\ i_master_write_ack' = 0 /\ r_write_stb' = 0
      BY <1>1, <1>4, <2>2, <2>3, <2>5, FramerEdge DEF Accepts, JobInv, TypeOK, Bit
    <3> QED
      BY <2>1, <2>5, <3>1 DEF Queued, Pending
  <2> QED
    BY <2>4, <2>5
<1> QED
  BY <1>1, <1>2, <1>3, <1>4, WriteEffect DEF JobInv

(* Two transactions at most have bytes on the way.                         *)
LEMMA Products ==
  ASSUME NEW n \in 0 .. 2
  PROVE  n * NumBytes = IF n = 0 THEN 0 ELSE IF n = 1 THEN NumBytes ELSE NumBytes + NumBytes
  BY JobSizes

LEMMA QueuedShort ==
  ASSUME JobInv, i_reset = 0
  PROVE  Len(Queued) \in Nat /\ Taken \in 0 .. NumBytes /\ Taken + Len(Queued) <= NumBytes + NumBytes
<1>1. Len(Queued) \in Nat
  BY PendingType DEF JobInv
<1>2. Taken \in 0 .. NumBytes
  BY JobSizes DEF Taken, JobInv, FramerType
<1>3. PICK rest \in Nat : owed * NumBytes = Taken + Len(Queued) + rest
  BY DEF JobInv, OwedInv, Balance
<1>4. owed * NumBytes <= NumBytes + NumBytes
  BY Products, JobSizes DEF JobInv, OwedInv
<1> QED
  BY <1>1, <1>2, <1>3, <1>4, JobSizes

(* Rest of the transaction while a clock edge leaves the SPI side alone.   *)
LEMMA RestSame ==
  ASSUME NEW rest \in Nat, Rest(rest), UNCHANGED master, UNCHANGED spiRegs
  PROVE  Rest(rest)'
  BY DEF Rest, Ahead, master, spiRegs

LEMMA TakenStep ==
  ASSUME JobInv, TypeOK', SystemEdge, i_reset = 0
  PROVE  IF f_data_index = NumBytes /\ i_master_write_ack = 1
         THEN f_write_stb = 0 /\ f_write_stb' = 1 /\ ~Accepts /\ Taken = NumBytes /\ Taken' = 0 /\ owed' = owed - 1
         ELSE /\ f_write_stb' = 0 /\ owed' = owed
              /\ Taken' = IF Accepts THEN Taken + 1 ELSE Taken
              /\ Accepts => Taken < NumBytes /\ f_data_index = Taken
<1>1. Framer!Clock /\ owed' = (IF f_write_stb = 0 /\ f_write_stb' = 1 THEN owed - 1 ELSE owed)
  BY DEF SystemEdge
<1>2. f_data_index \in 0 .. NumBytes /\ f_write_stb \in {0, 1}
  BY DEF JobInv, FramerType, Bit
<1>3. CASE f_data_index = NumBytes /\ i_master_write_ack = 1
  <2>1. f_write_stb = 0
    BY <1>2, <1>3 DEF JobInv, RxInv, RegsInv, FramerType
  <2>2. ~Accepts /\ f_write_stb' = 1
    BY <1>1, <1>3, FramerEdge DEF Accepts
  <2> QED
    BY <1>1, <1>3, <2>1, <2>2 DEF Taken
<1>4. CASE ~(f_data_index = NumBytes /\ i_master_write_ack = 1)
  <2>1. f_write_stb' = 0 /\ owed' = owed
    BY <1>1, <1>4, FramerEdge
  <2>2. CASE Accepts
    <3>1. f_write_stb = 0 /\ f_data_index < NumBytes /\ Taken = f_data_index
      BY <1>2, <2>2, JobSizes DEF JobInv, FramerType, Accepts, Taken
    <3>2. f_data_index' = f_data_index + 1
      BY <1>1, <1>2, <2>2, <3>1, FramerEdge, JobSizes
    <3> QED
      BY <1>4, <2>1, <2>2, <3>1, <3>2 DEF Taken
  <2>3. CASE ~Accepts
    <3>1. f_data_index' = IF f_write_stb = 1 THEN 0 ELSE f_data_index
      BY <1>1, <2>3, FramerEdge
    <3> QED
      BY <1>2, <1>4, <2>1, <2>3, <3>1 DEF Taken
  <2> QED
    BY <2>2, <2>3
<1> QED
  BY <1>3, <1>4

LEMMA OwedClock ==
  ASSUME JobInv, TypeOK', SystemEdge
  PROVE  OwedInv'
<1>1. UNCHANGED master /\ UNCHANGED spiRegs /\ i_reset' = i_reset /\ i_reset \in {0, 1} /\ Framer!Clock
  BY DEF SystemEdge, master, JobInv, TypeOK, Bit
<1>2. CASE i_reset = 1
  <2>1. f_write_stb' = 0
    BY <1>1, <1>2, FramerEdge
  <2>2. owed' = owed
    BY <2>1 DEF SystemEdge
  <2> QED
    BY <1>1, <1>2, <2>2 DEF JobInv, OwedInv
<1>3. CASE i_reset = 0
  <2>1. PICK rest \in Nat : Rest(rest) /\ owed * NumBytes = Taken + Len(Queued) + rest
    BY <1>3 DEF JobInv, OwedInv, Balance
  <2>2. Rest(rest)'
    BY <1>1, <2>1, RestSame
  <2>3. Len(Queued) \in Nat /\ Len(Queued') \in Nat /\ Taken \in 0 .. NumBytes /\ owed \in 0 .. 2
    BY <1>3, PendingType, QueuedShort, QueuedStep DEF JobInv, OwedInv
  <2>4. CASE f_data_index = NumBytes /\ i_master_write_ack = 1
    <3>1. ~Accepts /\ Taken = NumBytes /\ Taken' = 0 /\ owed' = owed - 1 /\ Queued' = Queued
      BY <1>3, <2>4, TakenStep, QueuedStep
    <3>2. owed # 0
      BY <2>1, <2>3, <3>1, JobSizes
    <3>3. owed' \in 0 .. 2 /\ owed' * NumBytes = owed * NumBytes - NumBytes
      BY <2>3, <3>1, <3>2, JobSizes
    <3>4. owed' * NumBytes = Taken' + Len(Queued') + rest
      BY <2>1, <2>3, <3>1, <3>3, JobSizes
    <3> QED
      BY <1>1, <1>3, <2>2, <3>3, <3>4 DEF OwedInv, Balance
  <2>5. CASE ~(f_data_index = NumBytes /\ i_master_write_ack = 1)
    <3>1. owed' = owed /\ Taken' = IF Accepts THEN Taken + 1 ELSE Taken
      BY <1>3, <2>5, TakenStep
    <3>2. Len(Queued') = IF Accepts THEN Len(Queued) - 1 ELSE Len(Queued)
      BY <1>3, QueuedStep, PendingType DEF JobInv
    <3>3. owed' * NumBytes = Taken' + Len(Queued') + rest
      BY <2>1, <2>3, <3>1, <3>2, JobSizes
    <3> QED
      BY <1>1, <1>3, <2>2, <2>3, <3>1, <3>3 DEF OwedInv, Balance
  <2> QED
    BY <2>4, <2>5
<1> QED
  BY <1>1, <1>2, <1>3

LEMMA OrderClock ==
  ASSUME JobInv, TypeOK', SystemEdge
  PROVE  OrderInv' /\ JobIntact'
<1>1. /\ UNCHANGED master /\ UNCHANGED spiRegs /\ i_reset' = i_reset /\ i_reset \in {0, 1} /\ Framer!Clock
      /\ i_spi_ss' = i_spi_ss /\ left' = left /\ r_rx_spi_start' = r_rx_spi_start
      /\ r_rx_spi_byte' = r_rx_spi_byte
  BY DEF SystemEdge, master, spiRegs, JobInv, TypeOK, Bit
<1>2. /\ r_rx_spi_start' = 1 => r_rx_spi_byte' = NumBytes * Bits - left'
      /\ i_spi_ss' = 1 /\ r_rx_spi_start' = 0 => left' = NumBytes * Bits
  BY <1>1 DEF JobInv, OrderInv
<1>3. \A k \in Places : k < Taken => f_data[k] = (k + 1) * Bits
  BY DEF JobInv, OrderInv
<1>4. f_data \in [Places -> Tag \cup {Torn}] /\ NumBytes \in Nat
  BY JobSizes DEF JobInv, FramerType
<1>5. CASE i_reset = 1
  <2>1. f_write_stb' = 0 /\ f_data_index' = 0
    BY <1>1, <1>5, FramerEdge
  <2>2. Taken' = 0
    BY <2>1 DEF Taken
  <2>3. \A k \in Places : ~(k < 0)
    BY DEF Places
  <2> QED
    BY <1>1, <1>2, <1>5, <2>1, <2>2, <2>3 DEF OrderInv, JobIntact
<1>6. CASE i_reset = 0
  <2>1. \A k \in 1 .. Len(Queued) : Queued[k] = ByteAt(Taken + k)
    BY <1>6 DEF JobInv, OrderInv
  <2>2. /\ Len(Queued) \in Nat /\ Taken \in 0 .. NumBytes /\ Taken + Len(Queued) <= NumBytes + NumBytes
        /\ Queued \in Seq(Tag \cup {Torn})
    BY <1>6, QueuedShort, PendingType DEF JobInv
  <2>3. CASE f_data_index = NumBytes /\ i_master_write_ack = 1
    <3>1. ~Accepts /\ Taken = NumBytes /\ Taken' = 0 /\ Queued' = Queued /\ f_write_stb = 0
      BY <1>6, <2>3, TakenStep, QueuedStep
    <3>2. f_write_data' = [jj \in Places |-> f_data[NumBytes - 1 - jj]] /\ f_data' = f_data
      BY <1>1, <1>6, <2>3, <3>1, FramerEdge
    <3>3. ASSUME NEW k \in 1 .. Len(Queued) PROVE Queued[k] = ByteAt(0 + k)
      <4>1. k \in 1 .. NumBytes
        BY <1>4, <2>2, <3>1
      <4>2. NumBytes + k > NumBytes /\ (NumBytes + k) - NumBytes = 0 + k /\ ~(0 + k > NumBytes)
        BY <1>4, <4>1
      <4>3. ByteAt(NumBytes + k) = (0 + k) * Bits
        BY <4>2 DEF ByteAt
      <4>4. ByteAt(0 + k) = (0 + k) * Bits
        BY <4>2 DEF ByteAt
      <4> QED
        BY <2>1, <3>1, <4>3, <4>4
    <3>4. ASSUME NEW c \in Places PROVE f_write_data'[c] = (NumBytes - c) * Bits
      <4>1. NumBytes - 1 - c \in Places /\ NumBytes - 1 - c < Taken /\ (NumBytes - 1 - c) + 1 = NumBytes - c
        BY <1>4, <3>1 DEF Places
      <4>2. f_data[NumBytes - 1 - c] = ((NumBytes - 1 - c) + 1) * Bits
        BY <1>3, <4>1
      <4> QED
        BY <3>2, <4>1, <4>2
    <3>5. \A k \in Places : ~(k < 0)
      BY DEF Places
    <3>6. JobIntact'
      BY <3>4, JobSizes DEF JobIntact
    <3> QED
      BY <1>1, <1>2, <1>6, <3>1, <3>3, <3>5, <3>6 DEF OrderInv
  <2>4. CASE ~(f_data_index = NumBytes /\ i_master_write_ack = 1)
    <3>1. f_write_stb' = 0
      BY <1>6, <2>4, TakenStep
    <3>2. CASE Accepts
      <4>1. /\ Taken' = Taken + 1 /\ Taken < NumBytes /\ f_data_index = Taken
            /\ Queued # <<>> /\ Head(Queued) = r_write_byte /\ Queued' = Tail(Queued)
        BY <1>6, <2>4, <3>2, TakenStep, QueuedStep
      <4>2. f_data' = [f_data EXCEPT ![Taken] = r_write_byte]
        BY <1>1, <1>6, <3>2, <4>1, FramerEdge
      <4>3. Len(Queued') = Len(Queued) - 1 /\ Queued[1] = r_write_byte /\ 1 \in 1 .. Len(Queued)
        BY <2>2, <4>1
      <4>4. ASSUME NEW k \in 1 .. Len(Queued') PROVE Queued'[k] = ByteAt(Taken' + k)
        <5>1. k + 1 \in 1 .. Len(Queued) /\ Queued'[k] = Queued[k + 1]
          BY <2>2, <4>1, <4>3
        <5>2. Taken + (k + 1) = Taken' + k
          BY <2>2, <4>1, <4>3
        <5> QED
          BY <2>1, <5>1, <5>2
      <4>5. r_write_byte = (Taken + 1) * Bits
        <5>1. ~(Taken + 1 > NumBytes)
          BY <1>4, <2>2, <4>1
        <5> QED
          BY <2>1, <4>3, <5>1 DEF ByteAt
      <4>6. ASSUME NEW k \in Places, k < Taken' PROVE f_data'[k] = (k + 1) * Bits
        <5>1. CASE k = Taken
          BY <1>4, <4>2, <4>5, <5>1
        <5>2. CASE k # Taken
          <6>1. k < Taken
            BY <2>2, <4>1, <4>6, <5>2 DEF Places
          <6> QED
            BY <1>3, <1>4, <4>2, <5>2, <6>1
        <5> QED
          BY <5>1, <5>2
      <4> QED
        BY <1>1, <1>2, <3>1, <4>4, <4>6 DEF OrderInv, JobIntact
    <3>3. CASE ~Accepts
      <4>1. Taken' = Taken /\ Queued' = Queued /\ f_data' = f_data
        BY <1>1, <1>6, <2>4, <3>3, TakenStep, QueuedStep, FramerEdge
      <4> QED
        BY <1>1, <1>2, <1>3, <2>1, <3>1, <4>1 DEF OrderInv, JobIntact
    <3> QED
      BY <3>2, <3>3
  <2> QED
    BY <2>3, <2>4
<1> QED
  BY <1>1, <1>5, <1>6

(* What is still to come is at most one transaction.                       *)
LEMMA RestBound ==
  ASSUME JobInv, NEW rest \in Nat, Rest(rest), i_spi_ss = 1
  PROVE  rest <= NumBytes
<1>1. /\ left \in Nat /\ r_rx_spi_bit_count \in 0 .. Bits - 1 /\ r_rx_spi_byte \in Nat
      /\ r_rx_spi_start \in {0, 1} /\ left + r_rx_spi_bit_count = rest * Bits
      /\ NumBytes * Bits \in Nat
  BY JobSizes DEF JobInv, TypeOK, Tag, Bit, Rest
<1>2. left <= NumBytes * Bits
  BY <1>1 DEF JobInv, OrderInv
<1>3. SUFFICES ASSUME rest >= NumBytes + 1 PROVE FALSE
  BY JobSizes
<1>4. rest * Bits >= (NumBytes + 1) * Bits
  BY <1>3, JobSizes
<1>5. (NumBytes + 1) * Bits = NumBytes * Bits + Bits
  BY JobSizes
<1> QED
  BY <1>1, <1>2, <1>4, <1>5, JobSizes

LEMMA BitKeepsOrder ==
  ASSUME JobInv, TypeOK', JobBit
  PROVE  OwedInv' /\ OrderInv' /\ JobIntact'
<1>1. /\ SpiTick /\ RxSpiProcess /\ UNCHANGED framer /\ UNCHANGED owed /\ UNCHANGED clkRegs
      /\ i_master_write_ack' = i_master_write_ack /\ i_reset' = i_reset /\ i_spi_ss' = i_spi_ss /\ spi' = spi
      /\ due' = IF ByteEnds THEN Append(due, r_rx_spi_byte') ELSE due
      /\ left' = IF i_spi_ss = 1 THEN left - 1 ELSE left
      /\ i_spi_ss = 1 => left > 0
  BY DEF JobBit, SpiEdge, SpiTick
<1>2. /\ Pending' = Pending /\ Taken' = Taken /\ f_data' = f_data /\ JobIntact'
  BY <1>1 DEF Pending, Taken, framer, clkRegs, JobIntact, JobInv
<1>3. /\ i_reset \in {0, 1} /\ i_spi_ss \in {0, 1} /\ left \in Nat /\ r_rx_spi_start \in {0, 1}
      /\ r_rx_spi_bit_count \in 0 .. Bits - 1 /\ r_rx_spi_byte \in Nat /\ due \in Seq(Tag)
  BY DEF JobInv, TypeOK, Bit, Tag
<1>4. \A k \in Places : k < Taken' => f_data'[k] = (k + 1) * Bits
  BY <1>2 DEF JobInv, OrderInv
<1>5. CASE i_reset = 1 \/ i_spi_ss = 0
  <2>1. ClearRx /\ i_spi_ss = 0 /\ left = 0 /\ left' = 0 /\ due' = due
    BY <1>1, <1>3, <1>5 DEF RxSpiProcess, ShiftBit, ByteEnds, JobInv, RxInv, RegsInv
  <2>2. /\ r_rx_spi_start' = 0 /\ r_rx_spi_bit_count' = 0 /\ r_rx_spi_done' = 0
    BY <2>1 DEF ClearRx
  <2>3. Queued' = Queued
    BY <1>2, <2>1 DEF Queued
  <2>4. OrderInv'
    BY <1>1, <1>2, <1>4, <2>1, <2>2, <2>3 DEF JobInv, OrderInv
  <2>5. ASSUME i_reset = 0 PROVE Balance'
    <3>1. PICK rest \in Nat : Rest(rest) /\ owed * NumBytes = Taken + Len(Queued) + rest
      BY <2>5 DEF JobInv, OwedInv, Balance
    <3>2. rest * Bits = r_rx_spi_bit_count
      BY <1>3, <2>1, <3>1 DEF Rest
    <3>3. rest # 0 => rest * Bits >= Bits
      BY JobSizes
    <3>4. rest = 0
      BY <1>3, <3>2, <3>3, JobSizes
    <3>5. Rest(0)'
      BY <2>1, <2>2, JobSizes DEF Rest, Ahead
    <3> QED
      BY <1>1, <1>2, <2>3, <3>1, <3>4, <3>5 DEF Balance
  <2> QED
    BY <1>1, <1>2, <2>4, <2>5 DEF JobInv, OwedInv
<1>6. CASE i_reset = 0 /\ i_spi_ss = 1
  <2>1. ShiftBit /\ left > 0 /\ left' = left - 1 /\ r_rx_spi_start' = 1
    BY <1>1, <1>6 DEF RxSpiProcess, ClearRx, ShiftBit
  <2>2. PICK rest \in Nat : Rest(rest) /\ owed * NumBytes = Taken + Len(Queued) + rest
    BY <1>6 DEF JobInv, OwedInv, Balance
  <2>3. rest <= NumBytes
    BY <1>6, <2>2, RestBound
  <2>4. IF r_rx_spi_bit_count = Bits - 1
        THEN rest > 0 /\ ByteEnds /\ r_rx_spi_bit_count' = 0 /\ Rest(rest - 1)'
        ELSE ~ByteEnds /\ r_rx_spi_bit_count' = r_rx_spi_bit_count + 1 /\ Rest(rest)'
    BY <1>1, <1>6, <2>1, <2>2, BitStep, JobGood DEF JobInv, RxInv
  <2>5. r_rx_spi_byte' = NumBytes * Bits - left'
    <3>1. r_rx_spi_byte = NumBytes * Bits - left
      BY <1>3, <1>6, JobSizes DEF JobInv, OrderInv, RxInv, RegsInv
    <3>2. NumBytes * Bits \in Nat /\ r_rx_spi_byte + 1 \in 0 .. TagMod - 1
      BY <1>3, <2>1, <3>1, JobSizes
    <3>3. (r_rx_spi_byte + 1) % TagMod = r_rx_spi_byte + 1
      BY <3>2, JobSizes
    <3>4. r_rx_spi_byte' = r_rx_spi_byte + 1
      BY <2>1, <3>3 DEF ShiftBit
    <3> QED
      BY <1>3, <2>1, <3>1, <3>2, <3>4
  <2>6. /\ Len(Queued) \in Nat /\ Taken \in 0 .. NumBytes /\ Queued \in Seq(Tag \cup {Torn}) /\ owed \in 0 .. 2
        /\ \A k \in 1 .. Len(Queued) : Queued[k] = ByteAt(Taken + k)
    BY <1>6, QueuedShort, PendingType DEF JobInv, OwedInv, OrderInv
  <2>7. CASE r_rx_spi_bit_count = Bits - 1
    <3>1. due' = Append(due, r_rx_spi_byte')
      BY <1>1, <2>4, <2>7
    <3>2. r_rx_spi_byte' \in Tag \cup {Torn} /\ Pending \in Seq(Tag \cup {Torn}) /\ due \in Seq(Tag \cup {Torn})
      BY PendingType DEF JobInv, TypeOK
    <3>3. Queued' = Append(Queued, r_rx_spi_byte')
      <4>1. Pending \o Append(due, r_rx_spi_byte') = Append(Pending \o due, r_rx_spi_byte')
        BY <3>2
      <4> QED
        BY <1>2, <3>1, <4>1 DEF Queued
    <3>4. Len(Queued') = Len(Queued) + 1
      BY <2>6, <3>2, <3>3
    <3>5. rest - 1 \in Nat /\ owed' * NumBytes = Taken' + Len(Queued') + (rest - 1)
      <4>1. owed' = owed /\ Taken' = Taken /\ rest > 0
        BY <1>1, <1>2, <2>4, <2>7
      <4>2. owed' * NumBytes = Taken + Len(Queued) + rest
        BY <2>2, <4>1
      <4>3. Taken + Len(Queued) + rest = Taken + (Len(Queued) + 1) + (rest - 1)
        BY <2>6
      <4> QED
        BY <3>4, <4>1, <4>2, <4>3
    <3>6. left' = (rest - 1) * Bits
      BY <1>3, <2>1, <2>4, <2>7 DEF Rest
    <3>7. r_rx_spi_byte' = (NumBytes - rest + 1) * Bits
      <4>1. NumBytes * Bits - (rest - 1) * Bits = (NumBytes - rest + 1) * Bits
        BY JobSizes
      <4> QED
        BY <2>5, <3>6, <4>1
    <3>8. ByteAt(Taken + (Len(Queued) + 1)) = (NumBytes - rest + 1) * Bits
      <4>1. owed * NumBytes = IF owed = 0 THEN 0 ELSE IF owed = 1 THEN NumBytes ELSE NumBytes + NumBytes
        BY <2>6, Products
      <4>2. CASE owed = 1
        <5>1. Taken + (Len(Queued) + 1) = NumBytes - rest + 1 /\ ~(NumBytes - rest + 1 > NumBytes)
          BY <2>2, <2>4, <2>6, <2>7, <4>1, <4>2, JobSizes
        <5> QED
          BY <5>1 DEF ByteAt
      <4>3. CASE owed = 2
        <5>1. /\ Taken + (Len(Queued) + 1) > NumBytes
              /\ (Taken + (Len(Queued) + 1)) - NumBytes = NumBytes - rest + 1
          BY <2>2, <2>3, <2>6, <4>1, <4>3, JobSizes
        <5> QED
          BY <5>1 DEF ByteAt
      <4>4. owed # 0
        BY <2>2, <2>4, <2>6, <2>7, <4>1
      <4> QED
        BY <2>6, <4>2, <4>3, <4>4
    <3>9. ASSUME NEW k \in 1 .. Len(Queued') PROVE Queued'[k] = ByteAt(Taken' + k)
      <4>1. CASE k = Len(Queued) + 1
        BY <1>2, <2>6, <3>2, <3>3, <3>7, <3>8, <4>1
      <4>2. CASE k # Len(Queued) + 1
        <5>1. k \in 1 .. Len(Queued)
          BY <2>6, <3>4, <4>2
        <5> QED
          BY <1>2, <2>6, <3>2, <3>3, <5>1
      <4> QED
        BY <4>1, <4>2
    <3> QED
      BY <1>1, <1>2, <1>4, <1>6, <2>1, <2>4, <2>5, <2>6, <2>7, <3>5, <3>9 DEF OwedInv, OrderInv, Balance
  <2>8. CASE r_rx_spi_bit_count # Bits - 1
    <3>1. Queued' = Queued /\ owed' = owed
      BY <1>1, <1>2, <2>4, <2>8 DEF Queued
    <3> QED
      BY <1>1, <1>2, <1>4, <1>6, <2>1, <2>2, <2>4, <2>5, <2>6, <2>8, <3>1 DEF OwedInv, OrderInv, Balance
  <2> QED
    BY <2>7, <2>8
<1> QED
  BY <1>3, <1>5, <1>6

\* Of two words fewer than two bytes on their way: one is all in the framer.
LEMMA OneWordTaken ==
  ASSUME NEW n \in Nat, n > 1, NEW t \in 0 .. n, NEW l \in 0 .. 2, n + n = t + l
  PROVE  t = n /\ l = 2
<1>1. n >= 2 /\ t <= n /\ l <= 2
  OBVIOUS
<1> QED
  BY <1>1, SMT

(* Where a transaction begins, the one before it is all but in the framer. *)
LEMMA RoomForOne ==
  ASSUME JobInv, BeginJob
  PROVE  owed < 2 /\ Balance /\ (\A rest \in Nat : Rest(rest) => rest = 0)
<1>1. i_reset = 0 /\ i_spi_ss = 0 /\ left = 0 /\ r_rx_spi_start = 0
  BY DEF BeginJob, Select, JobInv, RxInv, RegsInv, JobMaster
<1>2. r_rx_spi_bit_count = 0 /\ Whole = <<>>
  BY <1>1 DEF JobInv, RxInv, RegsInv, Whole
<1>3. ASSUME NEW rest \in Nat, Rest(rest) PROVE rest = 0
  <2>1. rest * Bits = 0
    BY <1>1, <1>2, <1>3 DEF Rest
  <2>2. rest # 0 => rest * Bits >= Bits
    BY JobSizes
  <2> QED
    BY <2>1, <2>2, JobSizes
<1>4. PICK p \in 0 .. Levels : InFlight(p)
  BY <1>1 DEF JobInv, RxInv, FlightInv
<1>5. due = <<>> \/ due = <<r_rx_cdc_byte[p]>>
  BY <1>2, <1>4 DEF InFlight
<1>6. Len(Queued) \in 0 .. 2
  <2>1. Pending = <<>> \/ Pending = <<r_write_byte>>
    BY DEF Pending
  <2>2. CASE Pending = <<>>
    BY <1>5, <2>2 DEF Queued
  <2>3. CASE Pending = <<r_write_byte>> /\ due = <<>>
    BY <2>3 DEF Queued
  <2>4. CASE Pending = <<r_write_byte>> /\ due = <<r_rx_cdc_byte[p]>>
    BY <2>4 DEF Queued
  <2> QED
    BY <1>5, <2>1, <2>2, <2>3, <2>4
<1>7. i_master_write_ack = 1 => Len(Queued) \in 0 .. 1
  BY <1>5 DEF Pending, Queued
<1>8. Balance
  BY <1>1 DEF JobInv, OwedInv
<1>9. owed * NumBytes = Taken + Len(Queued)
  <2>1. PICK rest \in Nat : Rest(rest) /\ owed * NumBytes = Taken + Len(Queued) + rest
    BY <1>8 DEF Balance
  <2>2. Taken \in Nat /\ Len(Queued) \in Nat
    BY <1>1, QueuedShort
  <2> QED
    BY <1>3, <2>1, <2>2
<1>10. owed # 2
  <2>1. SUFFICES ASSUME owed = 2 PROVE FALSE
    OBVIOUS
  <2>2. NumBytes + NumBytes = Taken + Len(Queued)
    BY <1>9, <2>1, Products
  <2>3. Taken \in 0 .. NumBytes
    BY <1>1, QueuedShort
  <2>4. Taken = NumBytes /\ Len(Queued) = 2
    <3>1. NumBytes \in Nat /\ NumBytes > 1
      BY JobSizes
    <3> QED
      BY <1>6, <2>2, <2>3, <3>1, OneWordTaken
  <2>5. f_write_stb = 0 /\ f_data_index = NumBytes
    BY <2>4, JobSizes DEF Taken, JobInv, FramerType, Bit
  <2>6. i_master_write_ack = 1
    BY <2>5 DEF JobInv, FramerType
  <2>7. Len(Queued) \in 0 .. 1
    BY <1>7, <2>6
  <2> QED
    BY <2>4, <2>7
<1> QED
  BY <1>3, <1>8, <1>10 DEF JobInv, OwedInv

LEMMA BeginKeepsOrder ==
  ASSUME JobInv, TypeOK', BeginJob
  PROVE  OwedInv' /\ OrderInv' /\ JobIntact'
<1>1. /\ i_reset = 0 /\ i_reset' = 0 /\ i_spi_ss' = 1 /\ spi' = spi /\ due' = due /\ UNCHANGED spiRegs
      /\ UNCHANGED clkRegs /\ i_master_write_ack' = i_master_write_ack /\ UNCHANGED framer /\ owed' = owed + 1
      /\ r_rx_spi_start = 0 /\ left' \in Payloads /\ left = 0
  BY DEF BeginJob, Select, JobInv, JobMaster, RxInv, RegsInv
<1>2. /\ r_rx_spi_bit_count = 0 /\ r_rx_spi_done = 0
      /\ r_rx_spi_bit_count' = 0 /\ r_rx_spi_done' = 0 /\ r_rx_spi_start' = 0
  BY <1>1 DEF JobInv, RxInv, RegsInv, spiRegs
<1>3. left' = NumBytes * Bits
  BY <1>1 DEF Payloads, JobInv, JobMaster
<1>4. Queued' = Queued /\ Taken' = Taken /\ f_data' = f_data /\ JobIntact'
  BY <1>1 DEF Queued, Pending, Taken, framer, clkRegs, JobIntact, JobInv
<1>5. Rest(NumBytes)'
  <2>1. left' + r_rx_spi_bit_count' = NumBytes * Bits
    BY <1>2, <1>3, JobSizes
  <2>2. (NumBytes + 0) % 2 = 0
    BY JobAssumption
  <2> QED
    BY <1>2, <2>1, <2>2 DEF Rest, Ahead
<1>6. owed' \in 0 .. 2
  BY <1>1, RoomForOne DEF JobInv, OwedInv
<1>7. Balance'
  <2>1. PICK rest \in Nat : Rest(rest) /\ owed * NumBytes = Taken + Len(Queued) + rest
    BY RoomForOne DEF Balance
  <2>2. owed * NumBytes = Taken + Len(Queued)
    BY <1>1, <2>1, RoomForOne, QueuedShort
  <2>3. owed' * NumBytes = owed * NumBytes + NumBytes
    BY <1>1, JobSizes DEF JobInv, OwedInv
  <2>4. owed' * NumBytes = Taken' + Len(Queued') + NumBytes
    BY <1>4, <2>2, <2>3
  <2> QED
    BY <1>5, <2>4, JobSizes DEF Balance
<1> QED
  BY <1>1, <1>2, <1>3, <1>4, <1>6, <1>7 DEF JobInv, OwedInv, OrderInv

LEMMA OthersKeepOrder ==
  ASSUME JobInv, TypeOK', EndJob \/ BeginReset \/ EndReset \/ UNCHANGED jobVars
  PROVE  OwedInv' /\ OrderInv' /\ JobIntact'
<1>1. /\ spi' = spi /\ left' = left /\ UNCHANGED spiRegs /\ UNCHANGED clkRegs
      /\ i_master_write_ack' = i_master_write_ack /\ UNCHANGED framer
      /\ i_spi_ss' = 1 => i_spi_ss = 1
  BY DEF EndJob, BeginReset, EndReset, Deselect, AssertReset, ReleaseReset, jobVars, vars, master
<1>2. Pending' = Pending /\ Taken' = Taken /\ f_data' = f_data /\ JobIntact'
  BY <1>1 DEF Pending, Taken, framer, clkRegs, JobIntact, JobInv
<1>3. /\ \A k \in Places : k < Taken' => f_data'[k] = (k + 1) * Bits
      /\ r_rx_spi_start' = 1 => r_rx_spi_byte' = NumBytes * Bits - left'
      /\ i_spi_ss' = 1 /\ r_rx_spi_start' = 0 => left' = NumBytes * Bits
  BY <1>1, <1>2 DEF JobInv, OrderInv, spiRegs
<1>4. ASSUME NEW rest \in Nat, Rest(rest) PROVE Rest(rest)'
  BY <1>1, <1>4 DEF Rest, Ahead, spiRegs
<1>5. CASE EndJob \/ UNCHANGED jobVars
  <2>1. i_reset' = i_reset /\ due' = due /\ owed' = owed
    BY <1>5 DEF EndJob, Deselect, jobVars, vars, master
  <2>2. Queued' = Queued
    BY <1>2, <2>1 DEF Queued
  <2>3. Balance => Balance'
    BY <1>2, <1>4, <2>1, <2>2 DEF Balance
  <2> QED
    BY <1>2, <1>3, <2>1, <2>2, <2>3 DEF JobInv, OwedInv, OrderInv
<1>6. CASE BeginReset
  BY <1>2, <1>3, <1>6 DEF BeginReset, AssertReset, OwedInv, OrderInv
<1>7. CASE EndReset
  <2>1. /\ i_reset = 1 /\ i_reset' = 0 /\ owed' = owed /\ due' = due /\ since = Ratio /\ r_rx_spi_start = 0
    BY <1>7 DEF EndReset, ReleaseReset
  <2>2. since > 0
    BY <2>1, SpiAssumption
  <2>3. /\ owed = 0 /\ due = <<>> /\ r_write_stb = 0 /\ left = 0 /\ r_rx_spi_bit_count = 0 /\ r_rx_spi_done = 0
        /\ f_data_index = 0 /\ f_write_stb = 0
    BY <2>1, <2>2 DEF JobInv, OwedInv, RxInv, RegsInv, FramerType
  <2>4. Queued' = <<>> /\ Taken' = 0
    BY <1>2, <2>1, <2>3 DEF Queued, Pending, Taken
  <2>5. Rest(0)
    BY <2>1, <2>3, JobSizes DEF Rest, Ahead
  <2>6. Rest(0)'
    BY <1>4, <2>5
  <2>7. owed' * NumBytes = Taken' + Len(Queued') + 0
    BY <2>1, <2>3, <2>4, JobSizes
  <2> QED
    BY <1>2, <1>3, <2>1, <2>3, <2>4, <2>6, <2>7 DEF OwedInv, OrderInv, Balance
<1> QED
  BY <1>5, <1>6, <1>7

LEMMA JobInitInv == JobInit => JobInv
<1> SUFFICES ASSUME JobInit PROVE JobInv
  OBVIOUS
<1>1. Init /\ spi = JobMaster /\ f_data_index = 0 /\ f_write_stb = 0 /\ owed = 0 /\ f_data = [c \in Places |-> 0]
  BY JobSizes DEF JobInit
<1>2. TypeOK /\ RxInv
  BY <1>1, TypeInit, RxInit
<1>3. FramerType
  BY <1>1, JobSizes DEF FramerType, Init, Bit
<1>4. OwedInv /\ OrderInv /\ JobIntact
  BY <1>1, JobSizes DEF OwedInv, OrderInv, JobIntact, Init, Taken, Places
<1> QED
  BY <1>1, <1>2, <1>3, <1>4 DEF JobInv

LEMMA JobNextInv == JobInv /\ [JobNext]_jobVars => JobInv'
<1> SUFFICES ASSUME JobInv, [JobNext]_jobVars PROVE JobInv'
  OBVIOUS
<1>1. [Next]_vars
  BY JobStepIsStep
<1>2. TypeOK'
  BY <1>1, TypeNext DEF JobInv
<1>3. Good /\ spi' = JobMaster /\ Good'
  <2>1. spi = JobMaster
    BY DEF JobInv
  <2>2. spi' = spi /\ Good' = Good
    BY <1>1, GoodKept
  <2>3. JobMaster' = JobMaster
    BY DEF JobMaster
  <2> QED
    BY <2>1, <2>2, JobGood
<1>4. RxInv'
  BY <1>1, <1>2, <1>3, RxNext DEF JobInv
<1>5. FramerType'
  BY <1>2, FramerStep
<1>6. OwedInv' /\ OrderInv' /\ JobIntact'
  BY <1>2, OwedClock, OrderClock, BitKeepsOrder, BeginKeepsOrder, OthersKeepOrder DEF JobNext
<1> QED
  BY <1>2, <1>3, <1>4, <1>5, <1>6 DEF JobInv

LEMMA JobAlways == JobSpec => []JobInv
  BY JobInitInv, JobNextInv, PTL DEF JobSpec

(* Miner_Top.v:101-140: the framer is the consumer SpiSlaveRx assumes, so  *)
(* whatever is shown of the slave holds of it in its place in Miner_Top.   *)
THEOREM FramerFitsSlave == JobSpec => Spec
<1>1. JobInit => Init
  BY DEF JobInit
<1> QED
  BY <1>1, JobAlways, JobStepIsStep, PTL DEF JobSpec, Spec

(* Miner_Top.v:101-140: every word the miner loads is one transaction,     *)
(* byte for byte, however many bytes a word has.                           *)
THEOREM JobsStayIntact == JobSpec => []JobIntact
<1>1. JobInv => JobIntact
  BY DEF JobInv
<1> QED
  BY <1>1, JobAlways, PTL

LEMMA QuietAligned == JobInv => Realigned
<1> SUFFICES ASSUME JobInv, Quiet PROVE f_data_index = 0 /\ owed = 0
  BY DEF Realigned
<1>1. /\ i_reset = 0 /\ due = <<>> /\ Pending = <<>> /\ f_write_stb = 0 /\ i_master_write_ack = 0
      /\ left = 0
  BY DEF Quiet, Pending, JobInv, RxInv, RegsInv
<1>2. Len(Queued) = 0 /\ Taken = f_data_index
  BY <1>1 DEF Queued, Taken
<1>3. PICK rest \in Nat : Rest(rest) /\ owed * NumBytes = Taken + Len(Queued) + rest
  BY <1>1 DEF JobInv, OwedInv, Balance
<1>4. rest = 0
  <2>1. rest * Bits \in 0 .. Bits - 1
    BY <1>1, <1>3, JobSizes DEF Rest, JobInv, TypeOK
  <2>2. rest # 0 => rest * Bits >= Bits
    BY JobSizes
  <2> QED
    BY <2>1, <2>2, JobSizes
<1>5. f_data_index \in 0 .. NumBytes - 1
  BY <1>1, JobSizes DEF JobInv, FramerType
<1>6. owed * NumBytes = f_data_index /\ owed \in 0 .. 2
  BY <1>2, <1>3, <1>4, <1>5 DEF JobInv, OwedInv
<1>7. owed = 0
  BY <1>5, <1>6, Products, JobSizes
<1> QED
  BY <1>5, <1>6, <1>7, Products

(* Serial_To_Parallel_Bytes.v:89-111: nothing but a whole word ever brings *)
(* the framer's index back, and still it never gets out of step with the   *)
(* transactions: no byte is lost or taken twice in between.                *)
THEOREM FramerRealigns == JobSpec => []Realigned
  BY QuietAligned, JobAlways, PTL
=============================================================================
