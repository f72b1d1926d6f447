------------------------- MODULE SpiSlaveTx_proofs -------------------------
(***************************************************************************)
(* What the master gets of the bytes on MISO, for every length of a byte,  *)
(* lengths of transactions and times at which the producer writes.         *)
(***************************************************************************)
EXTENDS SpiSlaveTx, SequenceTheorems, TLAPS

(* A leading edge has a trailing one to come, and the slave has seen a     *)
(* rising edge while it was not selected before it is selected.            *)
TypeInv ==
    /\ TypeOK
    /\ i_spi_ss = 1 /\ active /\ CPHA => left > 0
    /\ i_spi_ss = 0 /\ edged => r_preload_miso = 1 /\ r_tx_bit_count = Bits - 1

LEMMA Modulo ==
  ASSUME NEW c \in 0 .. Bits - 1
  PROVE  (c + Bits - 1) % Bits = IF c = 0 THEN Bits - 1 ELSE c - 1
<1>1. Bits \in Nat /\ Bits > 1
  BY TxAssumption
<1>2. CASE c = 0
  BY <1>1, <1>2, (Bits - 1) % Bits = Bits - 1
<1>3. CASE c # 0
  <2>1. c - 1 \in 0 .. Bits - 1 /\ c + Bits - 1 = 1 * Bits + (c - 1)
    BY <1>1, <1>3
  <2>2. (1 * Bits + (c - 1)) % Bits = c - 1
    BY <1>1, <2>1, SMT
  <2> QED
    BY <1>3, <2>1, <2>2
<1> QED
  BY <1>2, <1>3

LEMMA EdgeCases ==
  ASSUME NEW leading \in BOOLEAN, Edge(leading)
  PROVE  /\ active = ~leading /\ active' = leading
         /\ i_spi_ss = 1 /\ leading => left > 0
         /\ UNCHANGED <<setup, i_reset, i_slave_write_stb, i_slave_write_data, r_write_ack,
                        r_tx_byte, i_spi_ss>>
         /\ SlaveEdge(leading) => MisoPreload /\ MisoBitProcess /\ edged' = TRUE
         /\ ~SlaveEdge(leading) => UNCHANGED <<r_tx_bit_count, r_spi_miso_bit, r_preload_miso, edged>>
         /\ CaptureEdge(leading) /\ i_spi_ss = 1 => Capture /\ left' = left - 1
         /\ ~(CaptureEdge(leading) /\ i_spi_ss = 1) => captured' = captured /\ left' = left
  BY DEF Edge, producer, clkRegs, spiRegs

LEMMA TypeInit == Init => TypeInv
<1> SUFFICES ASSUME Init PROVE TypeInv
  OBVIOUS
<1>1. captured \in Seq(MisoBit) /\ Len(captured) = 0 /\ Bits > 1 /\ Bits \in Nat
  BY EmptySeq, TxAssumption DEF Init
<1>2. TypeOK
  <2>1. setup \in Setups /\ i_slave_write_data \in Byte /\ r_tx_bit_count \in 0 .. Bits - 1
        /\ r_spi_miso_bit \in MisoBit /\ r_preload_miso \in Bit /\ r_tx_byte \in Byte
    BY TxAssumption DEF Init
  <2>2. i_reset \in Bit /\ i_spi_ss \in Bit /\ i_slave_write_stb \in Bit /\ r_write_ack \in Bit
        /\ active \in BOOLEAN /\ edged \in BOOLEAN /\ left \in Nat
    BY DEF Init, Bit
  <2> QED
    BY <1>1, <2>1, <2>2 DEF TypeOK
<1> QED
  BY <1>2 DEF Init, TypeInv

LEMMA MuxType == ASSUME TypeOK PROVE w_spi_miso_mux \in MisoBit
  BY TxAssumption DEF TypeOK, w_spi_miso_mux, MisoBit

LEMMA CaptureType ==
  ASSUME TypeOK, Capture
  PROVE  /\ captured' \in Seq(MisoBit) /\ Len(captured') \in 1 .. Bits
         /\ Len(captured') = IF Len(captured) = Bits THEN 1 ELSE Len(captured) + 1
         /\ captured'[Len(captured')] = w_spi_miso_mux
         /\ Len(captured) # Bits => \A k \in 1 .. Len(captured) : captured'[k] = captured[k]
<1>1. w_spi_miso_mux \in MisoBit /\ captured \in Seq(MisoBit) /\ Len(captured) \in 0 .. Bits
  BY MuxType DEF TypeOK
<1> DEFINE x == w_spi_miso_mux
<1> HIDE DEF x
<1>2. captured' = IF Len(captured) = Bits THEN <<x>> ELSE Append(captured, x)
  BY DEF Capture, x
<1>3. Bits \in Nat /\ Bits > 1
  BY TxAssumption
<1> QED
  BY <1>1, <1>2, <1>3 DEF x

LEMMA TypeNext == TypeInv /\ [Next]_vars => TypeInv'
<1> SUFFICES ASSUME TypeInv, [Next]_vars PROVE TypeInv'
  OBVIOUS
<1> USE DEF TypeInv
<1>0. Bits \in Nat /\ Bits > 1
  BY TxAssumption
<1>1. CASE ClkEdge
  <2>1. UNCHANGED <<setup, r_tx_bit_count, r_spi_miso_bit, r_preload_miso,
                    i_spi_ss, left, captured, active, edged>>
    BY <1>1 DEF ClkEdge, spiRegs, master
  <2>2. /\ r_tx_byte' \in Byte /\ r_write_ack' \in Bit
        /\ i_reset' \in Bit /\ i_slave_write_stb' \in Bit /\ i_slave_write_data' \in Byte
    BY <1>1, TxAssumption DEF ClkEdge, TxByteIn, TypeOK, Bit
  <2> QED
    BY <2>1, <2>2 DEF TypeOK, CPHA
<1>2. ASSUME NEW leading \in BOOLEAN, Edge(leading) PROVE TypeInv'
  <2>1. /\ setup' = setup
        /\ UNCHANGED <<i_reset, i_slave_write_stb, i_slave_write_data, r_write_ack,
                       r_tx_byte, i_spi_ss>>
        /\ active' = leading
    BY <1>2, EdgeCases
  <2>2. r_tx_bit_count' \in 0 .. Bits - 1 /\ r_spi_miso_bit' \in MisoBit /\ r_preload_miso' \in Bit
    <3>1. CASE SlaveEdge(leading)
      <4>1. (r_tx_bit_count + Bits - 1) % Bits \in 0 .. Bits - 1
        BY <1>0, Modulo DEF TypeOK
      <4>2. /\ <<r_tx_byte, r_tx_bit_count>> \in MisoBit /\ <<r_tx_byte, Bits - 1>> \in MisoBit
            /\ Bits - 1 \in 0 .. Bits - 1
        BY <1>0 DEF TypeOK, MisoBit
      <4> QED
        <5>1. MisoPreload /\ MisoBitProcess
          BY <1>2, <3>1, EdgeCases
        <5>2. r_preload_miso' \in Bit
          BY <5>1 DEF MisoPreload, TypeOK, Bit
        <5> QED
          BY <4>1, <4>2, <5>1, <5>2 DEF MisoBitProcess
    <3> QED
      BY <1>2, <3>1, EdgeCases DEF TypeOK
  <2>3. captured' \in Seq(MisoBit) /\ Len(captured') <= Bits
    <3>1. CASE Capture
      BY <1>0, <3>1, CaptureType
    <3>2. CASE captured' = captured
      BY <3>2 DEF TypeOK
    <3> QED
      BY <1>2, <3>1, <3>2, EdgeCases
  <2>4. left' \in Nat /\ (i_spi_ss' = 1 /\ active' /\ CPHA' => left' > 0)
    <3>1. CPHA' = CPHA /\ (CaptureEdge(leading) <=> leading = ~CPHA) /\ CPHA \in BOOLEAN
      BY <2>1 DEF CPHA, CaptureEdge
    <3>2. left \in Nat /\ active = ~leading
      BY <1>2, EdgeCases DEF TypeOK
    <3>3. CASE CaptureEdge(leading) /\ i_spi_ss = 1
      <4>1. left' = left - 1
        BY <1>2, <3>3, EdgeCases
      <4>2. left > 0
        <5>1. CASE leading
          BY <1>2, <3>3, <5>1, EdgeCases
        <5>2. CASE ~leading
          BY <3>1, <3>2, <3>3, <5>2
        <5> QED
          BY <5>1, <5>2
      <4>3. active' /\ CPHA' => FALSE
        BY <2>1, <3>1, <3>3
      <4> QED
        BY <3>2, <4>1, <4>2, <4>3
    <3>4. CASE ~(CaptureEdge(leading) /\ i_spi_ss = 1)
      <4>1. left' = left
        BY <1>2, <3>4, EdgeCases
      <4>2. i_spi_ss = 1 /\ leading => left > 0
        BY <1>2, EdgeCases
      <4> QED
        BY <2>1, <3>2, <4>1, <4>2
    <3> QED
      BY <3>3, <3>4
  <2>5. edged' \in BOOLEAN /\ (i_spi_ss' = 0 /\ edged' => r_preload_miso' = 1 /\ r_tx_bit_count' = Bits - 1)
    <3>1. CASE SlaveEdge(leading)
      <4>1. MisoPreload /\ MisoBitProcess /\ edged' = TRUE
        BY <1>2, <3>1, EdgeCases
      <4> QED
        BY <2>1, <4>1 DEF MisoPreload, MisoBitProcess
    <3>2. CASE ~SlaveEdge(leading)
      <4>1. UNCHANGED <<r_tx_bit_count, r_preload_miso, edged>>
        BY <1>2, <3>2, EdgeCases
      <4> QED
        BY <2>1, <4>1 DEF TypeOK
    <3> QED
      BY <3>1, <3>2
  <2> QED
    BY <2>1, <2>2, <2>3, <2>4, <2>5 DEF TypeOK
<1>3. CASE Select
  <2>1. \A n \in ByteCounts : n * Bits \in Nat /\ n * Bits > 0
    BY <1>0, TxAssumption
  <2> QED
    BY <1>0, <1>3, <2>1, EmptySeq DEF Select, producer, clkRegs, spiRegs, TypeOK, CPHA, Bit
<1>4. CASE Deselect
  BY <1>4 DEF Deselect, producer, clkRegs, spiRegs, TypeOK, CPHA, Bit
<1>5. CASE UNCHANGED vars
  BY <1>5 DEF vars, producer, clkRegs, spiRegs, master, TypeOK, CPHA
<1> QED
  BY <1>1, <1>2, <1>3, <1>4, <1>5 DEF Next, LeadingEdge, TrailingEdge

(* The registers of the transmit side and the master keep to their types.  *)
THEOREM TransmitTypeCorrect == Spec => []TypeOK
<1>1. TypeInv => TypeOK
  BY DEF TypeInv
<1> QED
  BY <1>1, TypeInit, TypeNext, PTL DEF Spec

-----------------------------------------------------------------------------
(* Mode 3: the bits of a byte that have been captured, and what stands     *)
(* where the next is.                                                      *)
Taken == IF Len(captured) = Bits THEN 0 ELSE Len(captured)

PlaceInv ==
    setup.mode = 3 /\ i_spi_ss = 1 =>
        IF active
        THEN /\ r_preload_miso = 0 /\ r_spi_miso_bit[2] = Bits - 1 - Taken
             /\ r_tx_bit_count = IF Taken = Bits - 1 THEN Bits - 1 ELSE Bits - 2 - Taken
        ELSE r_tx_bit_count = Bits - 1 - Taken

LEMMA Mode3 ==
  ASSUME setup.mode = 3
  PROVE  /\ SlaveEdge(TRUE) /\ ~CaptureEdge(TRUE)
         /\ ~SlaveEdge(FALSE) /\ CaptureEdge(FALSE)
<1>1. CPOL = TRUE /\ CPHA = TRUE
  BY DEF CPOL, CPHA
<1> QED
  BY <1>1 DEF SlaveEdge, CaptureEdge

LEMMA PlaceNext ==
  ASSUME TypeInv, PlaceInv, BitOrder, [Next]_vars
  PROVE  PlaceInv' /\ BitOrder'
<1>0. Bits \in Nat /\ Bits > 1 /\ Len(captured) \in 0 .. Bits
  BY TxAssumption DEF TypeInv, TypeOK
<1>1. CASE ClkEdge
  BY <1>1 DEF ClkEdge, spiRegs, master, PlaceInv, Taken, BitOrder
<1>2. CASE LeadingEdge /\ setup.mode = 3
  <2>1. SlaveEdge(TRUE) /\ ~CaptureEdge(TRUE) /\ Edge(TRUE)
    BY <1>2, Mode3 DEF LeadingEdge
  <2>2. /\ ~active /\ active' /\ i_spi_ss' = i_spi_ss /\ captured' = captured /\ setup' = setup
        /\ MisoPreload /\ MisoBitProcess
    BY <2>1, EdgeCases
  <2>3. i_spi_ss = 1 => /\ r_tx_bit_count' = IF r_tx_bit_count = 0 THEN Bits - 1 ELSE r_tx_bit_count - 1
                        /\ r_spi_miso_bit'[2] = r_tx_bit_count /\ r_preload_miso' = 0
    BY <2>2, Modulo DEF MisoPreload, MisoBitProcess, TypeInv, TypeOK
  <2>4. i_spi_ss = 1 => r_tx_bit_count = Bits - 1 - Taken
    BY <1>2, <2>2 DEF PlaceInv
  <2>5. Taken' = Taken /\ Taken \in 0 .. Bits - 1
    BY <1>0, <2>2 DEF Taken
  <2>6. BitOrder'
    BY <2>2 DEF BitOrder
  <2>7. ASSUME i_spi_ss = 1
        PROVE  /\ r_preload_miso' = 0 /\ r_spi_miso_bit'[2] = Bits - 1 - Taken'
               /\ r_tx_bit_count' = IF Taken' = Bits - 1 THEN Bits - 1 ELSE Bits - 2 - Taken'
    <3>1. r_preload_miso' = 0 /\ r_spi_miso_bit'[2] = Bits - 1 - Taken'
      BY <2>3, <2>4, <2>5, <2>7
    <3>2. r_tx_bit_count' = IF Taken' = Bits - 1 THEN Bits - 1 ELSE Bits - 2 - Taken'
      BY <1>0, <2>3, <2>4, <2>5, <2>7
    <3> QED
      BY <3>1, <3>2
  <2> QED
    BY <2>2, <2>6, <2>7 DEF PlaceInv
<1>3. CASE TrailingEdge /\ setup.mode = 3
  <2>1. ~SlaveEdge(FALSE) /\ CaptureEdge(FALSE) /\ Edge(FALSE)
    BY <1>3, Mode3 DEF TrailingEdge
  <2>2. /\ active /\ ~active' /\ i_spi_ss' = i_spi_ss /\ setup' = setup
        /\ r_tx_bit_count' = r_tx_bit_count
        /\ i_spi_ss = 1 => Capture
        /\ i_spi_ss # 1 => captured' = captured
    BY <2>1, EdgeCases DEF TypeInv, TypeOK
  <2>3. CASE i_spi_ss # 1
    BY <2>2, <2>3 DEF PlaceInv, BitOrder
  <2>4. CASE i_spi_ss = 1
    <3>1. w_spi_miso_mux[2] = Bits - 1 - Taken
      BY <1>3, <2>2, <2>4 DEF PlaceInv, w_spi_miso_mux
    <3>2. r_tx_bit_count = IF Taken = Bits - 1 THEN Bits - 1 ELSE Bits - 2 - Taken
      BY <1>3, <2>2, <2>4 DEF PlaceInv
    <3>3. /\ Len(captured') = Taken + 1 /\ Len(captured') \in 1 .. Bits
          /\ captured'[Taken + 1] = w_spi_miso_mux
          /\ \A k \in 1 .. Taken : captured'[k] = captured[k]
      BY <1>0, <2>2, <2>4, CaptureType DEF Taken, TypeInv
    <3>4. /\ Taken' = (IF Taken + 1 = Bits THEN 0 ELSE Taken + 1)
          /\ Taken \in 0 .. Bits - 1 /\ Taken <= Len(captured)
      BY <1>0, <3>3 DEF Taken
    <3>5. ASSUME NEW k \in 1 .. Len(captured') PROVE captured'[k][2] = Bits - k
      <4>1. CASE k = Taken + 1
        BY <1>0, <3>1, <3>3, <3>4, <4>1
      <4>2. CASE k # Taken + 1
        <5>1. k \in 1 .. Taken /\ k \in 1 .. Len(captured)
          BY <1>0, <3>3, <3>4, <4>2
        <5> QED
          BY <1>3, <3>3, <5>1 DEF BitOrder
      <4> QED
        BY <4>1, <4>2
    <3>6. r_tx_bit_count' = Bits - 1 - Taken'
      BY <1>0, <2>2, <3>2, <3>4
    <3> QED
      BY <2>2, <3>5, <3>6 DEF PlaceInv, BitOrder
  <2> QED
    BY <2>3, <2>4
<1>4. CASE (LeadingEdge \/ TrailingEdge) /\ setup.mode # 3
  <2>1. setup' = setup
    BY <1>4, EdgeCases DEF LeadingEdge, TrailingEdge
  <2> QED
    BY <1>4, <2>1 DEF PlaceInv, BitOrder
<1>5. CASE Select
  <2>1. /\ captured' = <<>> /\ ~active' /\ r_tx_bit_count' = Bits - 1
    BY <1>5 DEF Select, spiRegs, TypeInv
  <2> QED
    BY <1>0, <2>1 DEF PlaceInv, BitOrder, Taken
<1>6. CASE Deselect
  BY <1>6 DEF Deselect, producer, PlaceInv, BitOrder
<1>7. CASE UNCHANGED vars
  BY <1>7 DEF vars, producer, spiRegs, master, PlaceInv, Taken, BitOrder
<1> QED
  BY <1>1, <1>2, <1>3, <1>4, <1>5, <1>6, <1>7 DEF Next

(* In mode 3 the master captures the bits of every byte from the top one   *)
(* down, each once, for every length of a byte and of a transaction,       *)
(* whenever the byte changes and wherever i_clk's edges fall (SPI_Slave.v: *)
(* 236-270).                                                               *)
THEOREM BitsInOrder == Spec => []BitOrder
<1>1. Init => PlaceInv /\ BitOrder
  BY DEF Init, PlaceInv, BitOrder
<1> QED
  BY <1>1, TypeInit, TypeNext, PlaceNext, PTL DEF Spec

-----------------------------------------------------------------------------
(* With a producer that keeps away, no write is under way while the slave  *)
(* is selected, and all that is on MISO is of the byte there is.           *)
ByteInv ==
    setup.holdOff /\ i_spi_ss = 1 =>
        /\ i_reset = 0 /\ i_slave_write_stb = 0
        /\ r_preload_miso = 0 => r_spi_miso_bit[1] = r_tx_byte
        /\ \A k \in 1 .. Len(captured) : captured[k][1] = r_tx_byte

LEMMA ByteNext ==
  ASSUME TypeInv, ByteInv, WholeByte, [Next]_vars
  PROVE  ByteInv' /\ WholeByte'
<1>0. Bits \in Nat /\ Bits > 1 /\ Len(captured) \in 0 .. Bits
  BY TxAssumption DEF TypeInv, TypeOK
<1>1. CASE ClkEdge
  <2>1. UNCHANGED <<setup, r_spi_miso_bit, r_preload_miso, i_spi_ss, captured>>
    BY <1>1 DEF ClkEdge, spiRegs, master
  <2>2. ASSUME setup.holdOff, i_spi_ss = 1
        PROVE  i_reset' = 0 /\ i_slave_write_stb' = 0 /\ r_tx_byte' = r_tx_byte
    BY <1>1, <2>2 DEF ClkEdge, ByteInv, MayWrite, AcceptByte, TxByteIn
  <2> QED
    BY <2>1, <2>2 DEF ByteInv, WholeByte
<1>2. ASSUME NEW leading \in BOOLEAN, Edge(leading) PROVE ByteInv' /\ WholeByte'
  <2>1. UNCHANGED <<setup, i_reset, i_slave_write_stb, r_tx_byte, i_spi_ss>>
    BY <1>2, EdgeCases
  <2>2. CASE ~(setup.holdOff /\ i_spi_ss = 1)
    <3>1. i_spi_ss # 1 => captured' = captured
      BY <1>2, EdgeCases
    <3> QED
      BY <2>1, <2>2, <3>1 DEF ByteInv, WholeByte
  <2>3. CASE setup.holdOff /\ i_spi_ss = 1
    <3>1. r_preload_miso' = 0 => r_spi_miso_bit'[1] = r_tx_byte
      <4>1. CASE SlaveEdge(leading)
        <5>1. MisoBitProcess
          BY <1>2, <4>1, EdgeCases
        <5> QED
          BY <2>3, <5>1 DEF MisoBitProcess
      <4>2. CASE ~SlaveEdge(leading)
        <5>1. UNCHANGED <<r_spi_miso_bit, r_preload_miso>>
          BY <1>2, <4>2, EdgeCases
        <5> QED
          BY <2>3, <5>1 DEF ByteInv
      <4> QED
        BY <4>1, <4>2
    <3>2. ASSUME NEW k \in 1 .. Len(captured') PROVE captured'[k][1] = r_tx_byte
      <4>1. CASE ~CaptureEdge(leading)
        BY <1>2, <2>3, <4>1, EdgeCases DEF ByteInv
      <4>2. CASE CaptureEdge(leading)
        <5>1. Capture
          BY <1>2, <2>3, <4>2, EdgeCases
        <5>2. w_spi_miso_mux[1] = r_tx_byte
          BY <2>3 DEF w_spi_miso_mux, ByteInv, TypeInv, TypeOK, Bit
        <5>3. k # Len(captured') => /\ k \in 1 .. Len(captured) /\ captured'[k] = captured[k]
          BY <1>0, <5>1, CaptureType DEF TypeInv
        <5> QED
          BY <2>3, <5>1, <5>2, <5>3, CaptureType DEF ByteInv, TypeInv
      <4> QED
        BY <4>1, <4>2
    <3>3. WholeByte'
      <4>1. \A k \in 1 .. Len(captured') : 1 \in 1 .. Len(captured')
        <5>1. Len(captured') \in Nat
          BY <1>2, TypeNext DEF TypeInv, TypeOK, Next, LeadingEdge, TrailingEdge
        <5> QED
          BY <5>1
      <4> QED
        BY <3>2, <4>1 DEF WholeByte
    <3> QED
      BY <2>1, <2>3, <3>1, <3>2, <3>3 DEF ByteInv
  <2> QED
    BY <2>2, <2>3
<1>3. CASE Select
  BY <1>3 DEF Select, producer, clkRegs, spiRegs, TypeInv, ByteInv, WholeByte
<1>4. CASE Deselect
  BY <1>4 DEF Deselect, producer, ByteInv, WholeByte
<1>5. CASE UNCHANGED vars
  BY <1>5 DEF vars, producer, clkRegs, spiRegs, master, ByteInv, WholeByte
<1> QED
  BY <1>1, <1>2, <1>3, <1>4, <1>5 DEF Next, LeadingEdge, TrailingEdge

(* The bits the master captures of a byte are of one byte, in every mode,  *)
(* if the producer waits for the end of the transaction (SPI_Slave.v:      *)
(* 213-270).                                                               *)
THEOREM BitsOfOneByte == Spec => []WholeByte
<1>1. Init => ByteInv /\ WholeByte
  BY DEF Init, ByteInv, WholeByte
<1> QED
  BY <1>1, TypeInit, TypeNext, ByteNext, PTL DEF Spec
=============================================================================
