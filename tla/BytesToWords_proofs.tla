------------------------- MODULE BytesToWords_proofs -------------------------
(***************************************************************************)
(* Proofs about the framer for every word length, index width and byte     *)
(* alphabet: its registers keep their ranges, and every step it takes is a *)
(* step of ByteFraming.                                                    *)
(***************************************************************************)
EXTENDS BytesToWords, TLAPS

(* What TypeOK lacks to be inductive: a full index is always on its way    *)
(* out, either acknowledged (and issued at this edge) or already issued.   *)
IndexOnItsWayOut ==
    /\ r_write_stb = 1 => r_slave_ack = 0
    /\ r_data_index = NumBytes => r_slave_ack = 1 \/ r_write_stb = 1

IInv == TypeOK /\ IndexOnItsWayOut

LEMMA InitIInv == Init => IInv
  BY FramerAssumption DEF Init, IInv, TypeOK, Bit, IndexOnItsWayOut, Cell

LEMMA StepIInv == IInv /\ [Next]_vars => IInv'
<1> SUFFICES ASSUME IInv, [Next]_vars PROVE IInv'
  OBVIOUS
<1> USE FramerAssumption DEF IInv, TypeOK, Bit, IndexOnItsWayOut, Cell
<1>1. CASE UNCHANGED vars
  BY <1>1 DEF vars, inputs, regs
<1>2. CASE Next
  <2>1. i_reset' \in Bit /\ i_slave_write_stb' \in Bit
        /\ i_slave_write_data' \in Byte /\ i_master_write_ack' \in Bit
    BY <1>2 DEF Next, Environment, Produce, Consume
  <2>2. CASE SlaveReset
    <3>1. MasterReset
      BY <1>2, <2>2 DEF Next, Clock, MasterProcess, IssueWord, HoldOrReleaseWord, SlaveReset
    <3> QED
      BY <2>1, <2>2, <3>1 DEF SlaveReset, MasterReset
  <2>3. CASE AcceptByte
    <3>1. r_data_index \in 0 .. NumBytes - 1
      BY <2>3 DEF AcceptByte, CanAccept
    <3>2. r_data_index' = r_data_index + 1
      BY <2>3, <3>1 DEF AcceptByte
    <3>3. HoldOrReleaseWord
      BY <1>2, <2>3 DEF Next, Clock, MasterProcess, IssueWord, MasterReset, AcceptByte, CanAccept, WordComplete
    <3> QED
      BY <2>1, <2>3, <3>1, <3>2, <3>3 DEF AcceptByte, CanAccept, HoldOrReleaseWord
  <2>4. CASE NoByte
    <3>1. CASE IssueWord
      BY <2>1, <2>4, <3>1 DEF NoByte, IssueWord, WordComplete
    <3>2. CASE HoldOrReleaseWord
      BY <2>1, <2>4, <3>2 DEF NoByte, HoldOrReleaseWord, WordComplete
    <3> QED
      BY <1>2, <2>4, <3>1, <3>2 DEF Next, Clock, MasterProcess, MasterReset, NoByte
  <2> QED
    BY <1>2, <2>2, <2>3, <2>4 DEF Next, Clock, SlaveProcess
<1> QED
  BY <1>1, <1>2

(* The index never passes L_NUM_BYTES, whatever the handshakes on the two  *)
(* sides do, so the comparison at Serial_To_Parallel_Bytes.v:122 is met.   *)
THEOREM FramerTypeCorrect == Spec => []TypeOK
<1>1. IInv => TypeOK
  BY DEF IInv
<1> QED
  BY InitIInv, StepIInv, <1>1, PTL DEF Spec

-----------------------------------------------------------------------------
(* The refinement.                                                         *)

LEMMA InitRefined == Init => Framing!Init
  BY FramerAssumption DEF Init, Framing!Init, Offered, Partial, Word

LEMMA PartialAppend ==
    ASSUME IInv, AcceptByte
    PROVE  ([i \in 1 .. r_data_index + 1 |->
                [r_data EXCEPT ![r_data_index] = i_slave_write_data][i - 1]])
           = [i \in 1 .. r_data_index |-> r_data[i - 1]] \o <<i_slave_write_data>>
  BY FramerAssumption DEF IInv, TypeOK, Bit, IndexOnItsWayOut, Cell, AcceptByte, CanAccept

LEMMA ProducerRefined ==
    ASSUME IInv, Next, i_reset = 0, ~AcceptByte
    PROVE  Framing!Producer
  BY DEF IInv, TypeOK, Bit, Next, Clock, SlaveProcess, SlaveReset, NoByte, CanAccept,
         Environment, Produce, Framing!Producer, Offered

LEMMA StepRefined == IInv /\ IInv' /\ [Next]_vars => [Framing!Next]_(Framing!vars)
<1> SUFFICES ASSUME IInv, IInv', [Next]_vars PROVE [Framing!Next]_(Framing!vars)
  OBVIOUS
<1> USE FramerAssumption
<1>1. CASE UNCHANGED vars
  BY <1>1 DEF vars, inputs, regs, Framing!vars, Offered, Partial, Word
<1>2. CASE Next /\ i_reset = 1
  <2>1. r_data_index' = 0 /\ r_write_stb' = 0 /\ i_slave_write_stb' = 0
    BY <1>2 DEF Next, Clock, SlaveProcess, SlaveReset, AcceptByte, NoByte, MasterProcess,
                MasterReset, IssueWord, HoldOrReleaseWord, Environment
  <2>2. Framing!Reset
    BY <2>1 DEF Framing!Reset, Offered, Partial, Word
  <2> QED
    BY <2>2 DEF Framing!Next
<1>3. CASE Next /\ i_reset = 0 /\ AcceptByte
  <2>1. HoldOrReleaseWord /\ r_write_stb = 0
    BY <1>3 DEF Next, Clock, MasterProcess, MasterReset, IssueWord, AcceptByte, CanAccept, WordComplete
  <2>2. r_write_stb' = 0 /\ r_slave_ack' = 1 /\ r_data_index \in 0 .. NumBytes - 1
    BY <1>3, <2>1 DEF HoldOrReleaseWord, AcceptByte, CanAccept, IInv, TypeOK, Bit, IndexOnItsWayOut
  <2>3. Offered = <<i_slave_write_data>> /\ Offered' = <<>>
    BY <1>3, <2>2 DEF Offered, AcceptByte, CanAccept
  <2>4. Word = <<>> /\ Word' = <<>>
    BY <2>1, <2>2 DEF Word
  <2>5. Partial' = Partial \o <<i_slave_write_data>>
    <3>1. r_data_index' = r_data_index + 1
      BY <1>3, <2>2 DEF AcceptByte
    <3> QED
      BY <1>3, <2>1, <2>2, <3>1, PartialAppend DEF Partial, AcceptByte
  <2>6. Len(Partial) = r_data_index
    BY <2>1, <2>2 DEF Partial
  <2>7. Framing!TakeByte
    BY <2>2, <2>3, <2>4, <2>5, <2>6 DEF Framing!TakeByte
  <2> QED
    BY <2>7 DEF Framing!Next
<1>4. CASE Next /\ i_reset = 0 /\ ~AcceptByte
  <2>1. Framing!Producer
    BY <1>4, ProducerRefined
  <2>2. NoByte
    BY <1>4 DEF Next, Clock, SlaveProcess, SlaveReset
  <2>3. CASE IssueWord
    <3>1. r_write_stb = 0 /\ r_data_index = NumBytes
      BY <2>3 DEF IssueWord, WordComplete, IInv, IndexOnItsWayOut, TypeOK, Bit
    <3>2. Word = <<>> /\ Partial' = <<>>
      BY <2>3, <3>1 DEF Word, Partial, IssueWord
    <3>3. Len(Partial) = NumBytes
      BY <3>1 DEF Partial
    <3>4. Word' = Partial
      BY <2>3, <3>1 DEF Word, Partial, IssueWord, Cell, IInv, TypeOK
    <3>5. Framing!FinishWord
      BY <2>1, <3>2, <3>3, <3>4 DEF Framing!FinishWord
    <3> QED
      BY <3>5 DEF Framing!Next
  <2>4. CASE HoldOrReleaseWord /\ r_write_stb = 1 /\ i_master_write_ack = 1
    <3>1. Word # <<>> /\ Word' = <<>>
      BY <2>4 DEF Word, HoldOrReleaseWord
    <3>2. Partial = <<>> /\ Partial' = <<>>
      BY <2>2, <2>4 DEF Partial, NoByte, HoldOrReleaseWord
    <3>3. Framing!DeliverWord
      BY <2>1, <3>1, <3>2 DEF Framing!DeliverWord
    <3> QED
      BY <3>3 DEF Framing!Next
  <2>5. CASE HoldOrReleaseWord /\ ~(r_write_stb = 1 /\ i_master_write_ack = 1)
    <3>1. UNCHANGED <<r_write_stb, r_write_data, r_data>>
      BY <2>2, <2>5 DEF HoldOrReleaseWord, NoByte, IInv, TypeOK, Bit
    <3>2. r_write_stb = 0 => UNCHANGED r_data_index
      BY <2>2 DEF NoByte
    <3>3. Word' = Word /\ Partial' = Partial
      BY <3>1, <3>2 DEF Word, Partial, IInv, TypeOK, Bit
    <3>4. Framing!HoldByte
      BY <2>1, <3>3 DEF Framing!HoldByte
    <3> QED
      BY <3>4 DEF Framing!Next
  <2> QED
    BY <1>4, <2>3, <2>4, <2>5 DEF Next, Clock, MasterProcess, MasterReset
<1> QED
  BY <1>1, <1>2, <1>3, <1>4 DEF IInv, TypeOK, Bit

(* Every byte acknowledged on the link is in exactly one word, in order,   *)
(* for every word length: Serial_To_Parallel_Bytes implements ByteFraming. *)
THEOREM FramerImplementsFraming == Spec => FramingRefined
<1>1. Spec => []IInv
  BY InitIInv, StepIInv, PTL DEF Spec
<1> QED
  BY <1>1, InitRefined, StepRefined, PTL DEF Spec, FramingRefined, Framing!Spec
=============================================================================
