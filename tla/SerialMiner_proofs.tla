------------------------- MODULE SerialMiner_proofs -------------------------
(***************************************************************************)
(* The miners with a serial line.  SerialMiner, for every number of units  *)
(* of work and of nonces: no nonce is lost or counted twice by its         *)
(* threads, and the FPGA mines whole jobs, whose nonces are submitted with *)
(* about the right block, under the conditions on the pool and on the line *)
(* named there.  SerialLink, for any nonces and any number of bytes        *)
(* waiting: a nonce found while the way out is idle is sent, and what the  *)
(* Reader makes a share of is what was hashed.                             *)
(***************************************************************************)
EXTENDS SerialMiner, SerialLink, SequenceTheorems, FiniteSetTheorems, TLAPS

(* Every nonce sent is in the line, was dropped before the threads began,  *)
(* or was read; the submitters are as many as the ids given them.          *)
TypeInv ==
    /\ TypeOK
    /\ nonces + Len(up) <= found
    /\ IsFiniteSet(submitters)
    /\ \A s \in submitters : s.id \in Nat /\ s.id <= nonces /\ (Len(reader) = 2 => s.id < nonces)

-----------------------------------------------------------------------------
LEMMA Pairs ==
  /\ \A c \in Chunk \X Chunk : Len(c) = 2 /\ c # <<>> /\ c # <<"signal">>
                               /\ c[1] \in Chunk /\ c[2] \in Chunk /\ c = <<c[1], c[2]>>
  /\ Len(<<>>) = 0 /\ Len(<<"signal">>) = 1
  OBVIOUS

LEMMA PayloadType ==
  ASSUME block \in Work, midstate \in Work PROVE Payload \in Chunk \X Chunk /\ Payload \in Seq(Chunk)
  BY DEF Payload, Chunk

LEMMA Last ==
  ASSUME NEW S, NEW q \in Seq(S), NEW n \in 0 .. Len(q)
  PROVE  SubSeq(q, n + 1, Len(q)) \in Seq(S) /\ Len(SubSeq(q, n + 1, Len(q))) <= Len(q)
  OBVIOUS

LEMMA TypeInit == Init => TypeInv
<1> SUFFICES ASSUME Init PROVE TypeInv
  OBVIOUS
<1>1. block \in Work /\ midstate \in Work /\ given \in Work
  BY MinerAssumption DEF Init, Work
<1>2. TypeOK
  <2>1. input_buffer \in Chunk \X Chunk /\ input_copy \in Chunk \X Chunk /\ on \in BOOLEAN
    BY <1>1, PayloadType DEF Init
  <2>2. results_queue \in Seq(BOOLEAN) /\ count \in Nat \X Nat /\ down \in Seq(Chunk) /\ up \in Seq(Chunk \X Chunk)
    BY DEF Init
  <2>3. found \in 0 .. MaxNonces /\ nonces \in 0 .. MaxNonces /\ demux_state \in 0 .. 2
    BY MinerAssumption DEF Init
  <2> QED
    BY <1>1, <2>1, <2>2, <2>3 DEF Init, TypeOK
<1>3. IsFiniteSet(submitters) /\ submitters = {}
  BY FS_EmptySet DEF Init
<1> QED
  BY <1>2, <1>3 DEF Init, TypeInv

(* Steps that leave submitters and the line back alone.                    *)
LEMMA QuietType ==
  ASSUME TypeInv, TypeOK', UNCHANGED <<submitters, reader, up, nonces>>, found' >= found
  PROVE  TypeInv'
  BY DEF TypeInv, TypeOK

LEMMA WriterType == ASSUME TypeInv, WriterNext, UNCHANGED setup PROVE TypeInv'
<1> USE DEF writerVars, hostVars, fpga
<1>1. CASE Flush
  <2>1. /\ up' \in Seq(Chunk \X Chunk) /\ Len(up') <= Len(up) /\ writer' = "getwork"
        /\ UNCHANGED <<block, midstate, given, golden, hostVars, down, fpga, nonces, signalled>>
    <3>1. PICK n \in 0 .. Len(up) : up' = SubSeq(up, n + 1, Len(up))
      BY <1>1 DEF Flush
    <3>2. up \in Seq(Chunk \X Chunk)
      BY DEF TypeInv, TypeOK
    <3>3. up' \in Seq(Chunk \X Chunk) /\ Len(up') <= Len(up)
      BY <3>1, <3>2, Last
    <3> QED
      BY <1>1, <3>3 DEF Flush
  <2>2. TypeOK'
    BY <2>1 DEF TypeInv, TypeOK
  <2>3. nonces' + Len(up') <= found'
    BY <2>1, <2>2 DEF TypeInv, TypeOK
  <2> QED
    BY <2>1, <2>2, <2>3 DEF TypeInv
<1>2. CASE GetWork
  <2>1. block' \in Work /\ midstate' \in Work /\ given' \in Work
    BY <1>2, MinerAssumption DEF GetWork, Work, TypeInv, TypeOK
  <2>2. TypeOK'
    BY <1>2, <2>1 DEF GetWork, TypeInv, TypeOK
  <2> QED
    BY <1>2, <2>2, QuietType DEF GetWork, TypeInv, TypeOK
<1>3. CASE GetWorkError
  <2>1. TypeOK'
    BY <1>3 DEF GetWorkError, TypeInv, TypeOK
  <2> QED
    BY <1>3, <2>1, QuietType DEF GetWorkError, TypeInv, TypeOK
<1>4. CASE WritePayload
  <2>1. down' \in Seq(Chunk)
    BY <1>4, PayloadType DEF WritePayload, TypeInv, TypeOK
  <2>2. TypeOK'
    BY <1>4, <2>1 DEF WritePayload, TypeInv, TypeOK
  <2> QED
    BY <1>4, <2>2, QuietType DEF WritePayload, TypeInv, TypeOK
<1>5. CASE WakeUp \/ AskTimeout \/ ClearGolden
  <2>1. TypeOK'
    BY <1>5 DEF WakeUp, AskTimeout, ClearGolden, TypeInv, TypeOK
  <2> QED
    BY <1>5, <2>1, QuietType DEF WakeUp, AskTimeout, ClearGolden, TypeInv, TypeOK
<1> QED
  BY <1>1, <1>2, <1>3, <1>4, <1>5 DEF WriterNext

LEMMA FpgaType == ASSUME TypeInv, FpgaNext, UNCHANGED setup PROVE TypeInv'
<1> USE DEF writerVars, hostVars, fpga
<1>1. CASE ReceiveChunk
  <2>1. Head(down) \in Chunk /\ down' \in Seq(Chunk) /\ input_buffer[2] \in Chunk
    BY <1>1, Pairs DEF ReceiveChunk, TypeInv, TypeOK
  <2>2. input_buffer' \in Chunk \X Chunk /\ demux_state' \in 0 .. 2
    BY <1>1, <2>1 DEF ReceiveChunk, TypeInv, TypeOK
  <2>3. TypeOK'
    BY <1>1, <2>1, <2>2 DEF ReceiveChunk, TypeInv, TypeOK
  <2> QED
    BY <1>1, <2>3, QuietType DEF ReceiveChunk, TypeInv, TypeOK
<1>2. CASE CopyJob
  <2>1. TypeOK'
    BY <1>2 DEF CopyJob, TypeInv, TypeOK
  <2> QED
    BY <1>2, <2>1, QuietType DEF CopyJob, TypeInv, TypeOK
<1>3. CASE FindNonce
  <2>1. up' \in Seq(Chunk \X Chunk) /\ Len(up') = Len(up) + 1 /\ found' \in 0 .. MaxNonces /\ found' = found + 1
    BY <1>3, MinerAssumption DEF FindNonce, TypeInv, TypeOK
  <2>2. TypeOK'
    BY <1>3, <2>1 DEF FindNonce, TypeInv, TypeOK
  <2>3. nonces' + Len(up') <= found'
    BY <1>3, <2>1 DEF FindNonce, TypeInv, TypeOK
  <2> QED
    BY <1>3, <2>2, <2>3 DEF FindNonce, TypeInv
<1>4. CASE Configure
  <2>1. TypeOK'
    BY <1>4 DEF Configure, TypeInv, TypeOK
  <2> QED
    BY <1>4, <2>1, QuietType DEF Configure, TypeInv, TypeOK
<1> QED
  BY <1>1, <1>2, <1>3, <1>4 DEF FpgaNext

LEMMA ReaderType == ASSUME TypeInv, ReaderNext, UNCHANGED setup PROVE TypeInv'
<1> USE DEF writerVars, hostVars, fpga
<1>1. CASE ReadNonce
  <2>1. /\ reader' \in Chunk \X Chunk /\ up' \in Seq(Chunk \X Chunk) /\ Len(up') = Len(up) - 1
        /\ nonces' = nonces + 1 /\ nonces \in Nat /\ found \in 0 .. MaxNonces /\ Len(up') \in Nat
    BY <1>1 DEF ReadNonce, TypeInv, TypeOK
  <2>2. nonces' + Len(up') <= found /\ nonces' \in 0 .. MaxNonces
    BY <2>1, MinerAssumption DEF TypeInv
  <2>3. TypeOK'
    BY <1>1, <2>1, <2>2 DEF ReadNonce, TypeInv, TypeOK
  <2>4. \A s \in submitters' : s.id \in Nat /\ s.id < nonces'
    BY <1>1, <2>1 DEF ReadNonce, TypeInv
  <2> QED
    BY <1>1, <2>2, <2>3, <2>4 DEF ReadNonce, TypeInv
<1>2. CASE StartSubmitter
  <2>1. reader \in Chunk \X Chunk /\ nonces \in Nat /\ block \in Work
    <3>1. reader # <<>> /\ Len(reader) = 2 /\ reader \in {<<>>, <<"signal">>} \cup (Chunk \X Chunk)
      BY <1>2 DEF StartSubmitter, TypeInv, TypeOK
    <3>2. reader # <<"signal">>
      BY <3>1, Pairs
    <3>3. reader \in Chunk \X Chunk
      BY <3>1, <3>2
    <3>4. nonces \in Nat /\ block \in Work
      BY MinerAssumption DEF TypeInv, TypeOK
    <3> QED
      BY <3>3, <3>4
  <2> DEFINE s == [id |-> nonces, block |-> block, nonce |-> reader]
  <2>2. submitters' = submitters \cup {s} /\ reader' = <<"signal">>
    BY <1>2 DEF StartSubmitter
  <2>3. s.id = nonces /\ s.block = block /\ s.nonce = reader
    OBVIOUS
  <2> HIDE DEF s
  <2>4. TypeOK'
    BY <1>2, <2>1, <2>2, <2>3 DEF StartSubmitter, TypeInv, TypeOK
  <2>5. IsFiniteSet(submitters')
    BY <2>2, FS_AddElement DEF TypeInv
  <2>6. \A t \in submitters' : t.id \in Nat /\ t.id <= nonces
    BY <2>1, <2>2, <2>3 DEF TypeInv
  <2> QED
    BY <1>2, <2>2, <2>4, <2>5, <2>6, Pairs DEF StartSubmitter, TypeInv
<1>3. CASE SetGolden
  <2>1. TypeOK'
    BY <1>3 DEF SetGolden, TypeInv, TypeOK
  <2> QED
    BY <1>3, <2>1, Pairs DEF SetGolden, TypeInv
<1> QED
  BY <1>1, <1>2, <1>3 DEF ReaderNext

(* A submission that ends makes one thread less and one result more.       *)
LEMMA SubmitEffect ==
  ASSUME TypeInv, Submit
  PROVE  /\ Len(results_queue') = Len(results_queue) + 1 /\ results_queue' \in Seq(BOOLEAN)
         /\ submitters' \subseteq submitters /\ IsFiniteSet(submitters')
         /\ Cardinality(submitters') = Cardinality(submitters) - 1
<1>1. PICK s \in submitters, r \in BOOLEAN :
          submitters' = submitters \ {s} /\ results_queue' = Append(results_queue, r)
  BY DEF Submit
<1>2. IsFiniteSet(submitters) /\ results_queue \in Seq(BOOLEAN)
  BY DEF TypeInv, TypeOK
<1>3. Cardinality(submitters') = Cardinality(submitters) - 1 /\ IsFiniteSet(submitters')
  BY <1>1, <1>2, FS_RemoveElement
<1>4. Len(results_queue') = Len(results_queue) + 1 /\ results_queue' \in Seq(BOOLEAN)
  BY <1>1, <1>2
<1> QED
  BY <1>1, <1>3, <1>4

(* A result that is counted leaves the queue.                              *)
LEMMA CountEffect ==
  ASSUME TypeInv, CountResult
  PROVE  /\ Len(results_queue') = Len(results_queue) - 1 /\ results_queue' \in Seq(BOOLEAN)
         /\ count' \in Nat \X Nat /\ count'[1] + count'[2] = count[1] + count[2] + 1
<1>1. results_queue \in Seq(BOOLEAN) /\ results_queue # <<>> /\ results_queue' = Tail(results_queue)
  BY DEF CountResult, TypeInv, TypeOK
<1>2. Len(results_queue') = Len(results_queue) - 1 /\ results_queue' \in Seq(BOOLEAN)
  BY <1>1
<1>3. count[1] \in Nat /\ count[2] \in Nat
  BY DEF TypeInv, TypeOK
<1>4. count' = <<count[1] + 1, count[2]>> \/ count' = <<count[1], count[2] + 1>>
  BY DEF CountResult
<1>5. count' \in Nat \X Nat
  BY <1>3, <1>4
<1>6. count'[1] + count'[2] = count[1] + count[2] + 1
  BY <1>3, <1>4
<1> QED
  BY <1>2, <1>5, <1>6

LEMMA TypeStep == ASSUME TypeInv, [Next]_vars PROVE TypeInv'
<1> USE DEF writerVars, hostVars, fpga
<1>1. CASE Submit /\ UNCHANGED setup
  <2>1. TypeOK'
    BY <1>1, SubmitEffect DEF Submit, TypeInv, TypeOK
  <2>2. UNCHANGED <<reader, up, nonces, found>>
    BY <1>1 DEF Submit
  <2> QED
    BY <2>1, <2>2, <1>1, SubmitEffect DEF TypeInv
<1>2. CASE CountResult /\ UNCHANGED setup
  <2>1. TypeOK'
    BY <1>2, CountEffect DEF CountResult, TypeInv, TypeOK
  <2> QED
    BY <1>2, <2>1, QuietType DEF CountResult, TypeInv, TypeOK
<1>3. CASE UNCHANGED vars
  BY <1>3 DEF vars, system, TypeInv, TypeOK
<1> QED
  BY <1>1, <1>2, <1>3, WriterType, FpgaType, ReaderType DEF Next

(* Every variable of the system keeps to its values; a nonce that the      *)
(* Reader has signalled is not taken for one it has read (miner.py).       *)
THEOREM SerialTypeCorrect == Spec => []TypeOK
<1>1. TypeInv => TypeOK
  BY DEF TypeInv
<1> QED
  BY <1>1, TypeInit, TypeStep, PTL DEF Spec

-----------------------------------------------------------------------------
LEMMA Passed ==
  \A n, l, s, r \in Nat : /\ n + (l + 1) + (s - 1) + r = n + l + s + r
                         /\ n + 1 + (l - 1) + s + r = n + l + s + r
  OBVIOUS

LEMMA AccountedStep == ASSUME TypeInv, TypeInv', Accounted, [Next]_vars PROVE Accounted'
<1> DEFINE read == IF Len(reader) = 2 THEN 1 ELSE 0
<1>1. /\ nonces = count[1] + count[2] + Len(results_queue) + Cardinality(submitters) + read
      /\ nonces \in Nat /\ count[1] \in Nat /\ count[2] \in Nat /\ Len(results_queue) \in Nat
      /\ Cardinality(submitters) \in Nat /\ read \in {0, 1}
  BY MinerAssumption, FS_CardinalityType DEF Accounted, TypeInv, TypeOK
<1> HIDE DEF read
<1>2. CASE Submit
  <2>1. UNCHANGED <<nonces, count, reader>>
    BY <1>2 DEF Submit
  <2>2. /\ Len(results_queue') = Len(results_queue) + 1
        /\ Cardinality(submitters') = Cardinality(submitters) - 1
    BY <1>2, SubmitEffect
  <2>3. count[1] + count[2] + Len(results_queue') + Cardinality(submitters') + read
            = count[1] + count[2] + Len(results_queue) + Cardinality(submitters) + read
    <3>1. count[1] + count[2] \in Nat /\ read \in Nat
      BY <1>1
    <3> QED
      BY <1>1, <2>2, <3>1, Passed
  <2> QED
    BY <1>1, <2>1, <2>3 DEF Accounted, read
<1>3. CASE CountResult
  <2>1. count'[1] \in Nat /\ count'[2] \in Nat
    BY <1>3, CountEffect
  <2>2. UNCHANGED <<nonces, submitters, reader>>
    BY <1>3 DEF CountResult
  <2>3. /\ Len(results_queue') = Len(results_queue) - 1
        /\ count'[1] + count'[2] = count[1] + count[2] + 1
    BY <1>3, CountEffect
  <2>4. count'[1] + count'[2] + Len(results_queue') + Cardinality(submitters) + read
            = count[1] + count[2] + Len(results_queue) + Cardinality(submitters) + read
    <3>1. count[1] + count[2] \in Nat /\ read \in Nat
      BY <1>1
    <3> QED
      BY <1>1, <2>1, <2>3, <3>1, Passed
  <2> QED
    BY <1>1, <2>2, <2>4 DEF Accounted, read
<1>4. CASE ReadNonce
  <2>1. Len(reader) # 2 /\ Len(reader') = 2
    BY <1>4, Pairs DEF ReadNonce, TypeInv, TypeOK
  <2> QED
    BY <1>1, <1>4, <2>1 DEF ReadNonce, Accounted, read
<1>5. CASE StartSubmitter
  <2> DEFINE s == [id |-> nonces, block |-> block, nonce |-> reader]
  <2>1. Len(reader) = 2 /\ submitters' = submitters \cup {s} /\ reader' = <<"signal">>
    BY <1>5 DEF StartSubmitter
  <2>2. s \notin submitters
    BY <1>1, <2>1 DEF TypeInv
  <2> HIDE DEF s
  <2>3. Cardinality(submitters') = Cardinality(submitters) + 1
    BY <2>1, <2>2, FS_AddElement DEF TypeInv
  <2>4. Len(reader') # 2
    BY <2>1, Pairs
  <2> QED
    BY <1>1, <1>5, <2>1, <2>3, <2>4 DEF StartSubmitter, Accounted, read
<1>6. CASE SetGolden
  <2>1. Len(reader) # 2 /\ Len(reader') # 2
    BY <1>6, Pairs DEF SetGolden
  <2> QED
    BY <1>1, <1>6, <2>1 DEF SetGolden, Accounted, read
<1>7. CASE WriterNext \/ FpgaNext \/ UNCHANGED vars
  BY <1>7 DEF WriterNext, Flush, GetWork, GetWorkError, WritePayload, WakeUp, AskTimeout, ClearGolden,
              FpgaNext, ReceiveChunk, CopyJob, FindNonce, Configure, hostVars, vars, system, Accounted
<1> QED
  BY <1>2, <1>3, <1>4, <1>5, <1>6, <1>7 DEF Next, ReaderNext

(* Every nonce that the Reader reads is submitted once, and its result is  *)
(* counted once, in whatever order the Submitter threads return            *)
(* (miner.py: Reader, Submitter, Display_stats).                           *)
THEOREM EveryNonceCounted == Spec => []Accounted
<1>1. Init => TypeInv /\ Accounted
  <2>1. Init => Accounted
    BY FS_EmptySet, Pairs DEF Init, Accounted
  <2> QED
    BY <2>1, TypeInit
<1>2. TypeInv /\ Accounted /\ [Next]_vars => (TypeInv /\ Accounted)'
  BY TypeStep, AccountedStep
<1> QED
  BY <1>1, <1>2, PTL DEF Spec

-----------------------------------------------------------------------------
(* The framing.  The receiver has no start of a job to look for: it counts *)
(* chunks, so that what is on the line must be what is left of a job.      *)

Job(w) == <<<<"mid", w>>, <<"data", w>>>>
Jobs   == {Job(w) : w \in Work}

Framed ==
    /\ on /\ midstate = block /\ block = given
    /\ input_copy \in Jobs
    /\ demux_state \in {0, 2} => down = <<>> \/ down \in Jobs
    /\ demux_state = 1 => \E w \in Work : input_buffer[2] = <<"mid", w>> /\ down = <<<<"data", w>>>>
    /\ demux_state = 2 => input_buffer \in Jobs

LEMMA JobFacts ==
  ASSUME NEW j \in Jobs
  PROVE  /\ IsJob(j) /\ j # <<>> /\ Len(j) = 2
         /\ \E w \in Work : /\ j = Job(w) /\ Head(j) = <<"mid", w>> /\ Tail(j) = <<<<"data", w>>>>
                            /\ j[2] = <<"data", w>>
<1>1. PICK w \in Work : j = Job(w)
  BY DEF Jobs
<1>2. /\ j # <<>> /\ Len(j) = 2 /\ j[1] = <<"mid", w>> /\ j[2] = <<"data", w>>
      /\ Head(j) = <<"mid", w>> /\ Tail(j) = <<<<"data", w>>>>
  BY <1>1 DEF Job
<1>3. IsJob(j)
  BY <1>2 DEF IsJob
<1> QED
  BY <1>1, <1>2, <1>3

LEMMA FramedInit == ASSUME Init, InStep PROVE Framed
<1>1. 0 \in Work
  BY MinerAssumption DEF Work
<1>2. Job(0) = Payload /\ Job(0) \in Jobs
  BY <1>1 DEF Init, Job, Jobs, Payload
<1> QED
  BY <1>2 DEF Init, InStep, Framed

(* What the FPGA receives while it counts.                                 *)
LEMMA FramedReceive ==
  ASSUME TypeInv, Framed, ReceiveChunk PROVE Framed'
<1>1. /\ down # <<>> /\ demux_state \in {0, 1} /\ down' = Tail(down)
      /\ input_buffer' = <<input_buffer[2], Head(down)>> /\ demux_state' = demux_state + 1
      /\ UNCHANGED <<midstate, block, given, on, input_copy>>
  BY DEF ReceiveChunk, Framed, TypeInv, TypeOK, writerVars
<1>2. CASE demux_state = 0
  <2>1. down \in Jobs
    BY <1>1, <1>2 DEF Framed
  <2>2. PICK w \in Work : Head(down) = <<"mid", w>> /\ Tail(down) = <<<<"data", w>>>>
    BY <2>1, JobFacts
  <2>3. demux_state' = 1 /\ input_buffer'[2] = <<"mid", w>> /\ down' = <<<<"data", w>>>>
    BY <1>1, <1>2, <2>2
  <2>4. \E v \in Work : input_buffer'[2] = <<"mid", v>> /\ down' = <<<<"data", v>>>>
    BY <2>3
  <2>5. demux_state' \notin {0, 2} /\ demux_state' = 1
    BY <2>3
  <2> QED
    BY <1>1, <2>4, <2>5 DEF Framed
<1>3. CASE demux_state = 1
  <2>1. PICK w \in Work : input_buffer[2] = <<"mid", w>> /\ down = <<<<"data", w>>>>
    BY <1>3 DEF Framed
  <2>2. down' = <<>> /\ input_buffer' = Job(w) /\ demux_state' = 2
    BY <1>1, <1>3, <2>1 DEF Job
  <2> QED
    BY <1>1, <2>2 DEF Framed, Jobs
<1> QED
  BY <1>1, <1>2, <1>3

LEMMA FramedStep ==
  ASSUME TypeInv, setup.midstates, Framed, [Next]_vars PROVE Framed'
<1> USE DEF writerVars, fpga
<1>1. CASE GetWork
  BY <1>1 DEF GetWork, Framed
<1>2. CASE WritePayload
  <2>1. down' = Job(block) /\ block \in Work
    BY <1>2 DEF WritePayload, Framed, Payload, Job, TypeInv, TypeOK
  <2>2. down' \in Jobs /\ demux_state # 1
    BY <1>2, <2>1 DEF WritePayload, Framed, Jobs
  <2>3. UNCHANGED <<on, midstate, block, given, input_copy, input_buffer, demux_state>>
    BY <1>2 DEF WritePayload
  <2> QED
    BY <2>2, <2>3 DEF Framed
<1>3. CASE CopyJob
  <2>1. input_copy' \in Jobs /\ demux_state' = 0 /\ (down' = <<>> \/ down' \in Jobs)
    BY <1>3 DEF CopyJob, Framed
  <2>2. UNCHANGED <<on, midstate, block, given>>
    BY <1>3 DEF CopyJob
  <2> QED
    BY <2>1, <2>2 DEF Framed
<1>4. CASE Flush \/ GetWorkError \/ WakeUp \/ AskTimeout \/ ClearGolden
  BY <1>4 DEF Flush, GetWorkError, WakeUp, AskTimeout, ClearGolden, Framed
<1>5. CASE ReaderNext \/ Submit \/ CountResult
  BY <1>5 DEF ReaderNext, ReadNonce, StartSubmitter, SetGolden, Submit, CountResult, Framed
<1>6. CASE FindNonce \/ Configure
  BY <1>6 DEF FindNonce, Configure, Framed
<1>7. CASE UNCHANGED vars
  BY <1>7 DEF vars, system, Framed
<1> QED
  BY <1>1, <1>2, <1>3, <1>4, <1>5, <1>6, <1>7, FramedReceive DEF Next, WriterNext, FpgaNext

LEMMA InStepKept == ASSUME [Next]_vars PROVE InStep' = InStep /\ setup' = setup
  BY DEF Next, vars, InStep

(* The miner works on a unit of work, midstate and data of one getwork, if *)
(* every reply has a midstate and the FPGA has seen the line since the     *)
(* threads began (serial.v:30-31, serial_receive).                         *)
THEOREM MinesWholeJobs == Spec => []JobWhole
<1> DEFINE Inv == TypeInv /\ (InStep => Framed)
<1>1. Init => Inv
  BY TypeInit, FramedInit
<1>2. Inv /\ [Next]_vars => Inv'
  <2>1. ASSUME Inv, [Next]_vars, InStep' PROVE Framed'
    BY <2>1, InStepKept, FramedStep DEF InStep
  <2> QED
    BY <2>1, TypeStep
<1>3. Inv => JobWhole
  BY JobFacts DEF JobWhole, Framed
<1> QED
  BY <1>1, <1>2, <1>3, PTL DEF Spec

-----------------------------------------------------------------------------
(* The block a nonce is submitted with.  All work on its way is that of    *)
(* the Writer's block or of the one before, as long as no call of getwork  *)
(* returns with older work about; behind all of it is the Writer's block.  *)

Close(w) == w \in {block - 1, block}

Newest ==
    /\ down # <<>> => down[Len(down)][2] = block
    /\ down = <<>> /\ demux_state = 2 => input_buffer[2][2] = block
    /\ down = <<>> /\ demux_state = 0 => input_copy[2][2] = block

Near ==
    /\ Close(input_copy[2][2])
    /\ \A i \in DOMAIN up : Close(up[i][2][2])
    /\ Len(reader) = 2 => Close(reader[2][2])
    /\ demux_state = 2 => Close(input_buffer[2][2])
    /\ down # <<>> => Close(down[Len(down)][2])
    /\ writer # "write" => Newest
    /\ \A s \in submitters : s.block - s.nonce[2][2] \in {0, 1}

LEMMA NearInit == ASSUME Init PROVE Near
<1>1. /\ block = 0 /\ input_copy[2][2] = 0 /\ up = <<>> /\ reader = <<>> /\ demux_state = 0 /\ down = <<>>
      /\ submitters = {}
  BY DEF Init, Payload
<1> QED
  BY <1>1, Pairs DEF Near, Newest, Close

(* The next unit of work comes when all else is of the one before.         *)
LEMMA NearGetWork ==
  ASSUME TypeInv, Framed, Near, setup.prompt, GetWork PROVE Near'
<1>1. /\ writer = "getwork" /\ Settled /\ block' = block + 1 /\ writer' = "write"
      /\ UNCHANGED <<reader, submitters, down, up, input_copy, input_buffer, demux_state>>
  BY DEF GetWork, Framed, hostVars, fpga
<1>2. down = <<>> /\ demux_state = 0
  BY <1>1 DEF Settled, Framed, TypeInv, TypeOK
<1>3. block \in Nat /\ input_copy[2][2] = block
  BY <1>1, <1>2 DEF Near, Newest, TypeInv, TypeOK, Work
<1>4. \A i \in DOMAIN up : up[i][2][2] = block
  BY <1>1, <1>3 DEF Settled
<1>5. Len(reader) = 2 => reader[2][2] = block
  BY <1>1, <1>3 DEF Settled
<1>6. block = block' - 1 /\ Close(block)'
  BY <1>1, <1>3 DEF Close
<1> QED
  BY <1>1, <1>2, <1>3, <1>4, <1>5, <1>6 DEF Near, Close

LEMMA NearWrite ==
  ASSUME TypeInv, Framed, Near, WritePayload PROVE Near'
<1>1. /\ down' = Payload /\ writer' = "wait"
      /\ UNCHANGED <<block, reader, submitters, up, input_copy, input_buffer, demux_state>>
  BY DEF WritePayload, writerVars, hostVars, fpga
<1>2. down' # <<>> /\ down'[Len(down')][2] = block
  BY <1>1 DEF Payload
<1> QED
  BY <1>1, <1>2 DEF Near, Newest, Close

LEMMA NearReceive ==
  ASSUME TypeInv, Framed, Framed', Near, ReceiveChunk PROVE Near'
<1>1. /\ down # <<>> /\ demux_state \in {0, 1} /\ down' = Tail(down)
      /\ input_buffer' = <<input_buffer[2], Head(down)>> /\ demux_state' = demux_state + 1
      /\ UNCHANGED <<block, writer, reader, submitters, up, input_copy>>
  BY DEF ReceiveChunk, Framed, TypeInv, TypeOK, writerVars, hostVars
<1>2. CASE demux_state = 0
  <2>1. down \in Jobs
    BY <1>1, <1>2 DEF Framed
  <2>2. PICK w \in Work : Len(down) = 2 /\ down[2] = <<"data", w>> /\ Tail(down) = <<<<"data", w>>>>
    BY <2>1, JobFacts
  <2>3. demux_state' = 1 /\ down' # <<>> /\ down'[Len(down')][2] = w /\ down[Len(down)][2] = w
    BY <1>1, <1>2, <2>2
  <2> QED
    BY <1>1, <2>3 DEF Near, Newest, Close
<1>3. CASE demux_state = 1
  <2>1. PICK w \in Work : down = <<<<"data", w>>>>
    BY <1>3 DEF Framed
  <2>2. down' = <<>> /\ input_buffer'[2][2] = w /\ demux_state' = 2 /\ down[Len(down)][2] = w
    BY <1>1, <1>3, <2>1
  <2> QED
    BY <1>1, <2>2 DEF Near, Newest, Close
<1> QED
  BY <1>1, <1>2, <1>3

(* Steps of the threads and the line that give out no work.                *)
LEMMA NearThreads ==
  ASSUME TypeInv, Framed, Near,
         Flush \/ GetWorkError \/ WakeUp \/ AskTimeout \/ ClearGolden \/ ReaderNext \/ Submit \/ CountResult
  PROVE  Near'
<1> USE DEF writerVars, hostVars, fpga
<1>1. UNCHANGED <<block, down, input_copy, input_buffer, demux_state>>
  BY DEF Flush, GetWorkError, WakeUp, AskTimeout, ClearGolden, ReaderNext, ReadNonce, StartSubmitter,
         SetGolden, Submit, CountResult
<1>2. writer' # "write" => Newest'
  <2>1. CASE writer = "flush"
    <3>1. Newest
      BY <2>1 DEF Near
    <3> QED
      BY <1>1, <3>1 DEF Newest
  <2>2. CASE writer' # "write" /\ writer # "flush"
    <3>1. writer # "write"
      BY <2>2 DEF Flush, GetWorkError, WakeUp, AskTimeout, ClearGolden, ReaderNext, ReadNonce,
                  StartSubmitter, SetGolden, Submit, CountResult
    <3> QED
      BY <1>1, <3>1 DEF Near, Newest
  <2> QED
    BY <2>1, <2>2
<1>3. \A i \in DOMAIN up' : Close(up'[i][2][2])
  <2>1. CASE Flush
    <3>1. PICK n \in 0 .. Len(up) : up' = SubSeq(up, n + 1, Len(up))
      BY <2>1 DEF Flush
    <3>2. ASSUME NEW i \in DOMAIN up' PROVE \E k \in DOMAIN up : up'[i] = up[k]
      <4>1. up \in Seq(Chunk \X Chunk) /\ Len(up) \in Nat
        BY DEF TypeInv, TypeOK
      <4>2. i \in 1 .. Len(up) - n /\ up'[i] = up[n + i] /\ n + i \in 1 .. Len(up)
        BY <3>1, <3>2, <4>1
      <4> QED
        BY <4>1, <4>2
    <3> QED
      BY <3>2 DEF Near
  <2>2. CASE ReadNonce
    <3>1. up \in Seq(Chunk \X Chunk) /\ up # <<>> /\ up' = Tail(up)
      BY <2>2 DEF ReadNonce, TypeInv, TypeOK
    <3>2. ASSUME NEW i \in DOMAIN up' PROVE \E k \in DOMAIN up : up'[i] = up[k]
      <4>1. up'[i] = up[i + 1] /\ i + 1 \in DOMAIN up
        BY <3>1, <3>2
      <4> QED
        BY <4>1
    <3> QED
      BY <3>2 DEF Near
  <2>3. CASE ~Flush /\ ~ReadNonce
    <3>1. up' = up
      BY <2>3 DEF GetWorkError, WakeUp, AskTimeout, ClearGolden, ReaderNext, StartSubmitter,
                  SetGolden, Submit, CountResult
    <3> QED
      BY <3>1 DEF Near
  <2> QED
    BY <2>1, <2>2, <2>3
<1>4. Len(reader') = 2 => Close(reader'[2][2])
  <2>1. CASE ReadNonce
    <3>1. up \in Seq(Chunk \X Chunk) /\ reader' = up[1] /\ 1 \in DOMAIN up
      BY <2>1 DEF ReadNonce, TypeInv, TypeOK
    <3> QED
      BY <3>1 DEF Near
  <2>2. CASE ~ReadNonce
    <3>1. reader' \in {reader, <<>>, <<"signal">>}
      BY <2>2 DEF Flush, GetWorkError, WakeUp, AskTimeout, ClearGolden, ReaderNext, StartSubmitter,
                  SetGolden, Submit, CountResult
    <3>2. Len(reader') = 2 => reader' = reader
      BY <3>1, Pairs
    <3> QED
      BY <3>2 DEF Near
  <2> QED
    BY <2>1, <2>2
<1>5. \A s \in submitters' : s.block - s.nonce[2][2] \in {0, 1}
  <2>1. CASE StartSubmitter
    <3> DEFINE s == [id |-> nonces, block |-> block, nonce |-> reader]
    <3>1. submitters' = submitters \cup {s} /\ Len(reader) = 2
      BY <2>1 DEF StartSubmitter
    <3>2. s.block = block /\ s.nonce = reader /\ block \in Int
      BY DEF TypeInv, TypeOK, Work
    <3> HIDE DEF s
    <3>3. s.block - s.nonce[2][2] \in {0, 1}
      BY <3>1, <3>2 DEF Near, Close
    <3> QED
      BY <3>1, <3>3 DEF Near
  <2>2. CASE ~StartSubmitter
    <3>1. submitters' \subseteq submitters
      BY <2>2 DEF Flush, GetWorkError, WakeUp, AskTimeout, ClearGolden, ReaderNext, ReadNonce,
                  SetGolden, Submit, CountResult
    <3> QED
      BY <3>1 DEF Near
  <2> QED
    BY <2>1, <2>2
<1> QED
  BY <1>1, <1>2, <1>3, <1>4, <1>5 DEF Near, Close

LEMMA NearFpga ==
  ASSUME TypeInv, Framed, Near, CopyJob \/ FindNonce \/ Configure PROVE Near'
<1> USE DEF writerVars, hostVars
<1>1. UNCHANGED <<block, writer, submitters, reader, down, input_buffer>>
  BY DEF CopyJob, FindNonce, Configure
<1>2. CASE CopyJob
  <2>1. input_copy' = input_buffer /\ demux_state = 2 /\ demux_state' = 0 /\ up' = up
    BY <1>2 DEF CopyJob
  <2>2. Newest => Newest'
    BY <1>1, <2>1 DEF Newest
  <2> QED
    BY <1>1, <2>1, <2>2 DEF Near, Close
<1>3. CASE FindNonce
  <2>1. up' = Append(up, input_copy) /\ up \in Seq(Chunk \X Chunk) /\ UNCHANGED <<input_copy, demux_state>>
    BY <1>3 DEF FindNonce, TypeInv, TypeOK
  <2>2. ASSUME NEW i \in DOMAIN up' PROVE Close(up'[i][2][2])
    <3>1. (i \in DOMAIN up /\ up'[i] = up[i]) \/ up'[i] = input_copy
      BY <2>1, <2>2
    <3> QED
      BY <3>1 DEF Near
  <2> QED
    BY <1>1, <2>1, <2>2 DEF Near, Newest, Close
<1>4. CASE Configure
  BY <1>1, <1>4 DEF Configure, Framed
<1> QED
  BY <1>2, <1>3, <1>4

LEMMA NearStep ==
  ASSUME TypeInv, Framed, Framed', Near, setup.prompt, [Next]_vars PROVE Near'
<1>1. CASE UNCHANGED vars
  BY <1>1 DEF vars, system, writerVars, hostVars, fpga, Near, Newest, Close
<1> QED
  BY <1>1, NearGetWork, NearWrite, NearReceive, NearThreads, NearFpga DEF Next, WriterNext, FpgaNext

(* miner.py:61-62, a nonce is submitted with the block the Writer has by   *)
(* then.  If the line is quicker than the pool, that is the block mined or *)
(* the next, however long a Submitter takes and whatever else happens.     *)
THEOREM SubmitsAlmostRightBlock == Spec => []AlmostRightBlock
<1> DEFINE Inv == TypeInv /\ (InStep => Framed) /\ (InStep /\ setup.prompt => Near)
<1>1. Init => Inv
  BY TypeInit, FramedInit, NearInit
<1>2. Inv /\ [Next]_vars => Inv'
  <2>1. ASSUME Inv, [Next]_vars, InStep' PROVE Framed'
    BY <2>1, InStepKept, FramedStep DEF InStep
  <2>2. ASSUME Inv, [Next]_vars, InStep', setup'.prompt PROVE Near'
    BY <2>1, <2>2, InStepKept, NearStep
  <2> QED
    BY <2>1, <2>2, TypeStep
<1>3. Inv => AlmostRightBlock
  BY DEF AlmostRightBlock, Near
<1> QED
  BY <1>1, <1>2, <1>3, PTL DEF Spec

-----------------------------------------------------------------------------
(* The way of a nonce, byte by byte.                                       *)

(* The bytes of the present word that the UART has been given.             *)
Sent == Len(line) % 4

(* The transmitter: the state says which byte is next, which is the top    *)
(* byte of word_copy until it is started; a byte started meets an idle     *)
(* UART, so that none is lost.                                             *)
SendInv ==
    /\ mux_state % 2 = 1 => serial_start = 1 /\ TxD_busy = 0 /\ out_byte = <<word_copy[1], Sent>>
    /\ mux_state % 2 = 0 => serial_start = 0
    /\ mux_state = 0 => Sent = 0
    /\ Active => /\ word_copy[1] \in Word /\ Sent = (mux_state - 8) \div 2
                 /\ word_copy[2] = Sent + (mux_state % 2)
    /\ serial_send = 1 => golden_nonce \in Word
    /\ Len(line) <= 4

(* A nonce found with the way out idle stands until the next clock.        *)
OwedInv == owed # None => golden_nonce = owed /\ serial_send = 1 /\ ~busy

TransmitInv == ReportTypeOK /\ SendInv /\ OwedInv

(* Bytes from the first of a word on: each in its place, the ones of a     *)
(* word of one nonce, and the next to come is number sent of word.         *)
Aligned(bytes, sent, word) ==
    /\ Len(bytes) % 4 = sent
    /\ \A i \in 1 .. Len(bytes) : bytes[i][1] \in Word /\ bytes[i][2] = (i - 1) % 4
    /\ \A i \in 1 .. Len(bytes) - 1 : i % 4 # 0 => bytes[i + 1][1] = bytes[i][1]
    /\ sent # 0 => bytes[Len(bytes)][1] = word

OneNonce == submitted # <<>> => \E w \in Word : submitted = [k \in 1 .. 4 |-> <<w, k - 1>>]

ReaderInv ==
    /\ flushing \in BOOLEAN /\ split \in BOOLEAN
    /\ buffer \in Seq(WordByte) /\ got \in Seq(WordByte) /\ Len(got) < 4
    /\ flushing => buffer = <<>> /\ got = <<>>
    /\ ~flushing /\ ~split => Aligned(got \o buffer, Sent, word_copy[1])
    /\ OneNonce

LEMMA TransmitInit == ReportInit => TransmitInv
<1> SUFFICES ASSUME ReportInit PROVE TransmitInv
  OBVIOUS
<1>1. line \in Seq(WordByte) /\ Len(line) = 0
  BY EmptySeq DEF ReportInit
<1>2. ReportTypeOK
  BY <1>1 DEF ReportInit, ReportTypeOK, Bit, WordByte
<1>3. SendInv /\ OwedInv
  BY <1>1 DEF ReportInit, SendInv, OwedInv, Sent, Active
<1> QED
  BY <1>2, <1>3 DEF TransmitInv

(* The UART takes every byte that is started, and no other.                *)
LEMMA SentNext ==
  ASSUME TransmitInv, History
  PROVE  /\ UartTakes <=> mux_state % 2 = 1
         /\ line' \in Seq(WordByte) /\ Len(line') <= 4
         /\ Sent \in 0 .. 3
         /\ Sent' = IF UartTakes THEN (IF Sent = 3 THEN 0 ELSE Sent + 1) ELSE Sent
<1>1. /\ line \in Seq(WordByte) /\ Len(line) \in 0 .. 4 /\ out_byte \in WordByte
      /\ mux_state \in {0} \cup 8 .. 15
  <2>1. line \in Seq(WordByte) /\ Len(line) <= 4
    BY DEF TransmitInv, ReportTypeOK, SendInv
  <2>2. Len(line) \in Nat
    BY <2>1, LenProperties
  <2>3. Len(line) \in 0 .. 4
    <3>1. \A n \in Nat : n <= 4 => n \in 0 .. 4
      OBVIOUS
    <3> QED
      BY <2>1, <2>2, <3>1, Zenon
  <2> QED
    BY <2>1, <2>3 DEF TransmitInv, ReportTypeOK
<1>2. line' = IF UartTakes THEN (IF Len(line) = 4 THEN <<out_byte>> ELSE Append(line, out_byte)) ELSE line
  BY DEF History
<1>3. UartTakes <=> mux_state % 2 = 1
  BY <1>1 DEF TransmitInv, SendInv, UartTakes
<1>4. line' \in Seq(WordByte) /\ Len(line') = IF UartTakes THEN (IF Len(line) = 4 THEN 1 ELSE Len(line) + 1) ELSE Len(line)
  <2>1. CASE UartTakes /\ Len(line) = 4
    <3>1. line' = <<out_byte>>
      BY <1>2, <2>1
    <3> QED
      BY <1>1, <2>1, <3>1
  <2>2. CASE UartTakes /\ Len(line) # 4
    <3>1. line' = Append(line, out_byte)
      BY <1>2, <2>2
    <3> QED
      BY <1>1, <2>2, <3>1
  <2>3. CASE ~UartTakes
    BY <1>1, <1>2, <2>3
  <2> QED
    BY <2>1, <2>2, <2>3
<1> DEFINE n == Len(line)
           m == Len(line')
<1>5. n \in 0 .. 4 /\ m = IF UartTakes THEN (IF n = 4 THEN 1 ELSE n + 1) ELSE n
  BY <1>1, <1>4
<1>6. Sent = n % 4 /\ Sent' = m % 4
  BY DEF Sent
<1> HIDE DEF n, m
<1>7. n % 4 \in 0 .. 3 /\ m % 4 = IF UartTakes THEN (IF n % 4 = 3 THEN 0 ELSE (n % 4) + 1) ELSE n % 4
  BY <1>5
<1>8. m <= 4
  BY <1>5
<1> QED
  BY <1>3, <1>4, <1>6, <1>7, <1>8 DEF m

(* What one clock does to what the transmitter holds.                      *)
LEMMA SendNext ==
  ASSUME TransmitInv, ReportNext
  PROVE  SendInv'
<1>1. /\ UartTakes <=> mux_state % 2 = 1
      /\ Len(line') <= 4 /\ Sent \in 0 .. 3
      /\ Sent' = IF UartTakes THEN (IF Sent = 3 THEN 0 ELSE Sent + 1) ELSE Sent
  BY SentNext DEF ReportNext
<1>2. mux_state \in {0} \cup 8 .. 15 /\ TxD_busy \in {0, 1}
  BY DEF TransmitInv, ReportTypeOK, Bit
<1>3. serial_send' = 1 => golden_nonce' \in Word
  BY DEF ReportNext, ReportNonce, TransmitInv, SendInv, ReportTypeOK
<1> USE DEF Active
<1>4. CASE CopyWord
  <2>1. mux_state = 0 /\ mux_state' = 8 /\ serial_start' = serial_start /\ word_copy' = <<golden_nonce, 0>>
        /\ golden_nonce \in Word
    BY <1>4 DEF CopyWord, busy, TransmitInv, SendInv
  <2>2. serial_start' = 0 /\ Sent' = 0
    BY <1>1, <2>1 DEF TransmitInv, SendInv
  <2> QED
    BY <1>1, <1>3, <2>1, <2>2 DEF SendInv
<1>5. CASE StartByte
  <2>1. /\ mux_state \in 8 .. 15 /\ mux_state % 2 = 0 /\ mux_state' = mux_state + 1
        /\ TxD_busy = 0 /\ serial_start' = 1 /\ out_byte' = word_copy /\ word_copy' = Shift(word_copy)
    BY <1>2, <1>5 DEF StartByte, busy, Waiting
  <2>2. serial_start = 0 /\ word_copy[1] \in Word /\ Sent = (mux_state - 8) \div 2 /\ word_copy[2] = Sent
    BY <1>1, <2>1 DEF TransmitInv, SendInv
  <2>3. TxD_busy' = 0
    BY <2>1, <2>2 DEF ReportNext, Uart
  <2>4. Sent' = Sent
    BY <1>1, <2>1
  <2>5. word_copy = <<word_copy[1], word_copy[2]>>
    BY DEF TransmitInv, ReportTypeOK, WordByte
  <2>6. word_copy'[1] = word_copy[1] /\ word_copy'[2] = Sent + 1
    BY <1>1, <2>1, <2>2 DEF Shift
  <2>7. out_byte' = <<word_copy'[1], Sent'>>
    BY <2>1, <2>2, <2>4, <2>5, <2>6
  <2>8. mux_state' % 2 = 1 /\ (mux_state' - 8) \div 2 = Sent' /\ mux_state' # 0
    BY <2>1, <2>2, <2>4
  <2> QED
    BY <1>1, <1>3, <2>1, <2>2, <2>3, <2>4, <2>6, <2>7, <2>8 DEF SendInv
<1>6. CASE WaitStage
  <2>1. mux_state \in 8 .. 15 /\ mux_state % 2 = 1 /\ TxD_busy = 0 /\ mux_state' = (mux_state + 1) % 16
        /\ serial_start' = 0 /\ word_copy' = word_copy
    BY <1>2, <1>6 DEF WaitStage, Waiting, TransmitInv, SendInv
  <2>2. word_copy[1] \in Word /\ Sent = (mux_state - 8) \div 2 /\ word_copy[2] = Sent + 1
    BY <1>1, <2>1 DEF TransmitInv, SendInv
  <2>3. mux_state' % 2 = 0 /\ (mux_state' = 0 => Sent' = 0)
        /\ (mux_state' >= 8 => Sent' = (mux_state' - 8) \div 2 /\ word_copy[2] = Sent')
    BY <1>1, <2>1, <2>2
  <2> QED
    BY <1>1, <1>3, <2>1, <2>2, <2>3 DEF SendInv
<1>7. CASE Idle
  <2>1. /\ mux_state' = mux_state /\ serial_start' = serial_start
        /\ word_copy' = word_copy
    BY <1>7 DEF Idle, sertx
  <2>2. mux_state % 2 = 0
    BY <1>2, <1>7 DEF Idle, Waiting
  <2>3. Sent' = Sent
    BY <1>1, <2>2
  <2> QED
    BY <1>1, <1>3, <2>1, <2>2, <2>3 DEF SendInv, TransmitInv
<1> QED
  BY <1>4, <1>5, <1>6, <1>7 DEF ReportNext, SerialTransmit

LEMMA OwedNext ==
  ASSUME TransmitInv, ReportNext
  PROVE  OwedInv' /\ (CopyWord /\ owed # None => word_copy'[1] = owed)
<1>1. CASE is_golden_ticket = 1 /\ ~busy /\ serial_send = 0
  <2>1. golden_nonce' = ticket_nonce /\ serial_send' = 1 /\ owed' = ticket_nonce
    BY <1>1 DEF ReportNext, ReportNonce, History
  <2>2. mux_state' = mux_state /\ ~CopyWord
    BY <1>1 DEF ReportNext, SerialTransmit, CopyWord, StartByte, WaitStage, Waiting, Active, Idle, sertx, busy
  <2> QED
    BY <1>1, <2>1, <2>2 DEF OwedInv, busy
<1>2. CASE ~(is_golden_ticket = 1 /\ ~busy /\ serial_send = 0) /\ owed # None
  <2>1. golden_nonce = owed /\ serial_send = 1 /\ ~busy
    BY <1>2 DEF TransmitInv, OwedInv
  <2>2. CopyWord
    BY <2>1 DEF ReportNext, SerialTransmit, StartByte, WaitStage, Waiting, Active, Idle, busy
  <2>3. owed' = None
    BY <1>2, <2>2 DEF ReportNext, History
  <2> QED
    BY <2>1, <2>2, <2>3 DEF OwedInv, CopyWord
<1>3. CASE ~(is_golden_ticket = 1 /\ ~busy /\ serial_send = 0) /\ owed = None
  BY <1>3 DEF ReportNext, History, OwedInv
<1> QED
  BY <1>1, <1>2, <1>3

LEMMA TransmitNext == TransmitInv /\ [ReportNext]_reportVars => TransmitInv'
<1> SUFFICES ASSUME TransmitInv, [ReportNext]_reportVars PROVE TransmitInv'
  OBVIOUS
<1>1. CASE ReportNext
  <2>1. line' \in Seq(WordByte)
    BY <1>1, SentNext DEF ReportNext
  <2>2. /\ is_golden_ticket' \in Bit /\ ticket_nonce' \in Word /\ TxD_busy' \in Bit
        /\ golden_nonce' \in Word \cup {None} /\ serial_send' \in Bit /\ owed' \in Word \cup {None}
    BY <1>1 DEF ReportNext, Ticket, Uart, ReportNonce, History, TransmitInv, ReportTypeOK, Bit
  <2>3. mux_state' \in {0} \cup 8 .. 15 /\ serial_start' \in Bit /\ word_copy' \in WordByte /\ out_byte' \in WordByte
    <3> USE <1>1 DEF TransmitInv, ReportTypeOK, Bit
    <3>1. CASE CopyWord
      BY <3>1 DEF CopyWord, WordByte
    <3>2. CASE StartByte
      <4>1. Shift(word_copy) \in WordByte
        BY DEF Shift, WordByte
      <4> QED
        BY <3>2, <4>1 DEF StartByte, Waiting, Active
    <3>3. CASE WaitStage
      <4>1. mux_state' \in {0} \cup 8 .. 15
        BY <3>3 DEF WaitStage, Waiting, Active
      <4> QED
        BY <3>3, <4>1 DEF WaitStage
    <3>4. CASE Idle
      BY <3>4 DEF Idle, sertx
    <3> QED
      BY <3>1, <3>2, <3>3, <3>4 DEF ReportNext, SerialTransmit
  <2>4. ReportTypeOK'
    BY <2>1, <2>2, <2>3 DEF ReportTypeOK
  <2> QED
    BY <1>1, <2>4, SendNext, OwedNext DEF TransmitInv
<1>2. CASE UNCHANGED reportVars
  BY <1>2 DEF reportVars, top, sertx, TransmitInv, ReportTypeOK, SendInv, OwedInv, Sent, Active, busy
<1> QED
  BY <1>1, <1>2

-----------------------------------------------------------------------------
(* Taking the first byte of those waiting leaves the bytes as they were.   *)
LEMMA ReadKeepsBytes ==
  ASSUME NEW S, NEW s \in Seq(S), NEW t \in Seq(S), t # <<>>
  PROVE  Append(s, Head(t)) \o Tail(t) = s \o t
<1> DEFINE a == Append(s, Head(t))
           u == Tail(t)
<1>1. Head(t) \in S /\ Head(t) = t[1] /\ u \in Seq(S) /\ Len(u) = Len(t) - 1
      /\ \A i \in 1 .. Len(u) : u[i] = t[i + 1]
  BY HeadTailProperties
<1>2. /\ a \in Seq(S) /\ Len(a) = Len(s) + 1 /\ a[Len(s) + 1] = t[1]
      /\ \A i \in 1 .. Len(s) : a[i] = s[i]
  BY <1>1, AppendProperties
<1>3. Len(s) \in Nat /\ Len(t) \in Nat /\ Len(u) \in Nat
  BY <1>1, LenProperties
<1> HIDE DEF a, u
<1>4. /\ a \o u \in Seq(S) /\ Len(a \o u) = Len(s) + Len(t)
      /\ \A i \in 1 .. Len(s) + Len(t) : (a \o u)[i] = IF i <= Len(a) THEN a[i] ELSE u[i - Len(a)]
  <2>1. Len(a) + Len(u) = Len(s) + Len(t)
    BY <1>1, <1>2, <1>3
  <2>2. /\ a \o u \in Seq(S) /\ Len(a \o u) = Len(a) + Len(u)
        /\ \A i \in 1 .. Len(a) + Len(u) : (a \o u)[i] = IF i <= Len(a) THEN a[i] ELSE u[i - Len(a)]
    BY <1>1, <1>2, ConcatProperties
  <2> QED
    BY <2>1, <2>2, Zenon
<1>5. /\ s \o t \in Seq(S) /\ Len(s \o t) = Len(s) + Len(t)
      /\ \A i \in 1 .. Len(s) + Len(t) : (s \o t)[i] = IF i <= Len(s) THEN s[i] ELSE t[i - Len(s)]
  BY ConcatProperties
<1>6. ASSUME NEW i \in 1 .. Len(s) + Len(t) PROVE (a \o u)[i] = (s \o t)[i]
  <2>1. CASE i <= Len(s)
    <3>1. i \in 1 .. Len(s) /\ i <= Len(a)
      BY <1>2, <1>3, <2>1
    <3> QED
      BY <1>2, <1>4, <1>5, <2>1, <3>1
  <2>2. CASE i = Len(s) + 1
    <3>1. i <= Len(a) /\ ~(i <= Len(s)) /\ i - Len(s) = 1
      BY <1>2, <1>3, <2>2
    <3> QED
      BY <1>2, <1>4, <1>5, <2>2, <3>1
  <2>3. CASE i > Len(s) + 1
    <3>1. /\ ~(i <= Len(a)) /\ ~(i <= Len(s)) /\ i - Len(a) \in 1 .. Len(u)
          /\ i - Len(a) + 1 = i - Len(s)
      BY <1>1, <1>2, <1>3, <2>3
    <3>2. u[i - Len(a)] = t[i - Len(s)]
      BY <1>1, <3>1
    <3> QED
      BY <1>4, <1>5, <3>1, <3>2
  <2>4. i <= Len(s) \/ i = Len(s) + 1 \/ i > Len(s) + 1
    BY <1>3
  <2> QED
    BY <2>1, <2>2, <2>3, <2>4
<1>7. a \o u = s \o t
  <2>1. \A i \in 1 .. Len(a \o u) : (a \o u)[i] = (s \o t)[i]
    BY <1>4, <1>6
  <2> QED
    BY <1>4, <1>5, <2>1, SeqEqual
<1> QED
  BY <1>7 DEF a, u

(* A byte more, the one that is due, is in step with those before it.      *)
LEMMA AlignedAppend ==
  ASSUME NEW s \in Seq(WordByte), NEW n \in 0 .. 3, NEW w \in Word, Aligned(s, n, w)
  PROVE  Aligned(Append(s, <<w, n>>), IF n = 3 THEN 0 ELSE n + 1, w)
<1> DEFINE t == Append(s, <<w, n>>)
<1>1. /\ Len(s) \in Nat /\ Len(t) = Len(s) + 1 /\ t[Len(s) + 1] = <<w, n>>
      /\ \A i \in 1 .. Len(s) : t[i] = s[i]
  BY AppendProperties, LenProperties, <<w, n>> \in WordByte DEF WordByte
<1> HIDE DEF t
<1>2. Len(s) % 4 = n /\ Len(t) % 4 = IF n = 3 THEN 0 ELSE n + 1
  <2>1. Len(s) % 4 = n
    BY DEF Aligned
  <2>2. \A l \in Nat : (l + 1) % 4 = IF l % 4 = 3 THEN 0 ELSE (l % 4) + 1
    OBVIOUS
  <2>3. (Len(s) + 1) % 4 = IF Len(s) % 4 = 3 THEN 0 ELSE (Len(s) % 4) + 1
    BY <1>1, <2>2, Zenon
  <2> QED
    BY <1>1, <2>1, <2>3
<1>3. ASSUME NEW i \in 1 .. Len(t) PROVE t[i][1] \in Word /\ t[i][2] = (i - 1) % 4
  <2>1. CASE i = Len(s) + 1
    BY <1>1, <1>2, <2>1
  <2>2. CASE i # Len(s) + 1
    <3>1. i \in 1 .. Len(s)
      BY <1>1, <2>2
    <3> QED
      BY <1>1, <3>1 DEF Aligned
  <2> QED
    BY <2>1, <2>2
<1>4. ASSUME NEW i \in 1 .. Len(t) - 1, i % 4 # 0 PROVE t[i + 1][1] = t[i][1]
  <2>1. CASE i = Len(s)
    BY <1>1, <1>2, <1>4, <2>1 DEF Aligned
  <2>2. CASE i # Len(s)
    <3>1. i \in 1 .. Len(s) - 1 /\ i + 1 \in 1 .. Len(s) /\ i \in 1 .. Len(s)
      BY <1>1, <2>2
    <3>2. t[i + 1] = s[i + 1] /\ t[i] = s[i]
      BY <1>1, <3>1
    <3>3. s[i + 1][1] = s[i][1]
      BY <1>4, <3>1 DEF Aligned
    <3> QED
      BY <3>2, <3>3
  <2> QED
    BY <2>1, <2>2
<1>5. Aligned(t, IF n = 3 THEN 0 ELSE n + 1, w)
  <2>1. t[Len(t)] = <<w, n>>
    BY <1>1
  <2> DEFINE next == IF n = 3 THEN 0 ELSE n + 1
  <2>2. Len(t) % 4 = next
    BY <1>2
  <2> HIDE DEF next
  <2>3. Aligned(t, next, w)
    BY <1>3, <1>4, <2>1, <2>2 DEF Aligned
  <2> QED
    BY <2>3 DEF next
<1> QED
  BY <1>5 DEF t

(* The first four are one nonce, and what is left is in step without them. *)
LEMMA AlignedTail ==
  ASSUME NEW s \in Seq(WordByte), NEW t \in Seq(WordByte), NEW n \in 0 .. 3, NEW w, Aligned(s, n, w),
         Len(s) = Len(t) + 4, \A i \in 1 .. Len(t) : t[i] = s[i + 4]
  PROVE  /\ Aligned(t, n, w)
         /\ s[1][1] \in Word /\ \A k \in 1 .. 4 : s[k][1] = s[1][1] /\ s[k][2] = k - 1
<1>1. Len(t) \in Nat /\ Len(s) \in Nat
  BY LenProperties
<1>2. Len(t) % 4 = n
  BY <1>1 DEF Aligned
<1>3. ASSUME NEW i \in 1 .. Len(t) PROVE t[i][1] \in Word /\ t[i][2] = (i - 1) % 4
  <2>1. i + 4 \in 1 .. Len(s) /\ (i + 4 - 1) % 4 = (i - 1) % 4
    BY <1>1
  <2> QED
    BY <2>1 DEF Aligned
<1>4. ASSUME NEW i \in 1 .. Len(t) - 1, i % 4 # 0 PROVE t[i + 1][1] = t[i][1]
  <2>1. i + 4 \in 1 .. Len(s) - 1 /\ (i + 4) % 4 # 0 /\ i \in 1 .. Len(t)
        /\ i + 1 \in 1 .. Len(t) /\ i + 4 + 1 = i + 1 + 4
    <3>1. \A j \in Nat : j % 4 # 0 => (j + 4) % 4 # 0
      OBVIOUS
    <3>2. (i + 4) % 4 # 0
      BY <1>1, <1>4, <3>1
    <3> QED
      BY <1>1, <1>4, <3>2
  <2>2. s[i + 4 + 1][1] = s[i + 4][1]
    BY <2>1 DEF Aligned
  <2>3. t[i] = s[i + 4] /\ t[i + 1] = s[i + 1 + 4]
    BY <2>1
  <2> QED
    BY <2>1, <2>2, <2>3
<1>5. n # 0 => t[Len(t)][1] = w
  BY <1>1, <1>2 DEF Aligned
<1>6. /\ s[1][1] \in Word /\ s[1][2] = 0 /\ s[2][2] = 1 /\ s[3][2] = 2 /\ s[4][2] = 3
      /\ s[2][1] = s[1][1] /\ s[3][1] = s[2][1] /\ s[4][1] = s[3][1]
  <2>1. 1 \in 1 .. Len(s) - 1 /\ 2 \in 1 .. Len(s) - 1 /\ 3 \in 1 .. Len(s) - 1
        /\ 1 \in 1 .. Len(s) /\ 2 \in 1 .. Len(s) /\ 3 \in 1 .. Len(s) /\ 4 \in 1 .. Len(s)
    BY <1>1
  <2> QED
    BY <2>1 DEF Aligned
<1>7. \A k \in 1 .. 4 : s[k][1] = s[1][1] /\ s[k][2] = k - 1
  BY <1>6
<1> QED
  BY <1>2, <1>3, <1>4, <1>5, <1>6, <1>7 DEF Aligned

LEMMA AlignedEmpty == ASSUME NEW w PROVE Aligned(<<>>, 0, w)
  BY EmptySeq DEF Aligned

(* The byte that the UART takes is the next of the word.                   *)
LEMMA ByteOnLine ==
  ASSUME TransmitInv, ReportNext
  PROVE  /\ Sent \in 0 .. 3
         /\ UartTakes => /\ out_byte = <<word_copy[1], Sent>> /\ word_copy[1] \in Word
                         /\ word_copy' = word_copy
                         /\ Sent' = IF Sent = 3 THEN 0 ELSE Sent + 1
         /\ ~UartTakes => Sent' = Sent /\ (Sent # 0 => word_copy'[1] = word_copy[1])
<1>1. /\ UartTakes <=> mux_state % 2 = 1
      /\ Sent \in 0 .. 3
      /\ Sent' = IF UartTakes THEN (IF Sent = 3 THEN 0 ELSE Sent + 1) ELSE Sent
  BY SentNext DEF ReportNext
<1>2. mux_state \in {0} \cup 8 .. 15
  BY DEF TransmitInv, ReportTypeOK
<1>3. CASE UartTakes
  <2>1. mux_state \in 8 .. 15 /\ mux_state % 2 = 1
    BY <1>1, <1>2, <1>3
  <2>2. word_copy' = word_copy
    BY <2>1 DEF ReportNext, SerialTransmit, CopyWord, StartByte, WaitStage, Idle, sertx, busy, Waiting, Active
  <2> QED
    BY <1>1, <1>3, <2>1, <2>2 DEF TransmitInv, SendInv, Active
<1>4. CASE ~UartTakes
  <2>1. Sent # 0 => mux_state # 0
    BY DEF TransmitInv, SendInv
  <2>2. Sent # 0 => word_copy'[1] = word_copy[1]
    BY <2>1 DEF ReportNext, SerialTransmit, CopyWord, StartByte, WaitStage, Idle, sertx, busy, Shift
  <2> QED
    BY <1>1, <1>4, <2>2
<1> QED
  BY <1>1, <1>3, <1>4

LEMMA BetweenWords == Between => Sent = 0
<1> SUFFICES ASSUME Between PROVE Sent = 0
  OBVIOUS
<1>1. Len(line) = 0 \/ Len(line) = 4
  BY DEF Between
<1>2. 0 % 4 = 0 /\ 4 % 4 = 0
  OBVIOUS
<1> QED
  BY <1>1, <1>2, Zenon DEF Sent

LEMMA ReadNext ==
  ASSUME TransmitInv, ReaderInv, [LinkNext]_linkVars
  PROVE  ReaderInv'
<1>0. /\ buffer \in Seq(WordByte) /\ got \in Seq(WordByte) /\ Len(got) \in 0 .. 3 /\ Len(buffer) \in Nat
      /\ got \o buffer \in Seq(WordByte) /\ Len(got \o buffer) = Len(got) + Len(buffer)
      /\ \A i \in 1 .. Len(got) + Len(buffer) :
             (got \o buffer)[i] = IF i <= Len(got) THEN got[i] ELSE buffer[i - Len(got)]
  <2>1. buffer \in Seq(WordByte) /\ got \in Seq(WordByte) /\ Len(got) < 4
    BY DEF ReaderInv
  <2>2. Len(got) \in Nat /\ Len(buffer) \in Nat
    BY <2>1, LenProperties
  <2>3. Len(got) \in 0 .. 3
    <3>1. \A n \in Nat : n < 4 => n \in 0 .. 3
      OBVIOUS
    <3> QED
      BY <2>1, <2>2, <3>1, Zenon
  <2> QED
    BY <2>1, <2>2, <2>3, ConcatProperties
<1>1. CASE Edge
  <2>1. /\ ReportNext /\ flushing' = flushing /\ got' = got /\ submitted' = submitted /\ split' = split
        /\ buffer' = IF UartTakes /\ ~flushing THEN Append(buffer, out_byte) ELSE buffer
    BY <1>1 DEF Edge
  <2>2. out_byte \in WordByte
    BY DEF TransmitInv, ReportTypeOK
  <2>3. CASE UartTakes /\ ~flushing
    <3>1. buffer' = Append(buffer, out_byte)
      BY <2>1, <2>3
    <3>2. buffer' \in Seq(WordByte)
      BY <1>0, <2>2, <3>1, AppendProperties
    <3>3. ~split => Aligned(got' \o buffer', Sent', word_copy'[1])
      <4>1. got \o Append(buffer, out_byte) = Append(got \o buffer, out_byte)
        <5>1. Append(buffer, out_byte) = buffer \o <<out_byte>> /\ <<out_byte>> \in Seq(WordByte)
              /\ Append(got \o buffer, out_byte) = (got \o buffer) \o <<out_byte>>
          BY <1>0, <2>2, AppendIsConcat
        <5> QED
          BY <1>0, <5>1, ConcatAssociative
      <4>2. /\ out_byte = <<word_copy[1], Sent>> /\ word_copy[1] \in Word /\ Sent \in 0 .. 3
            /\ word_copy' = word_copy /\ Sent' = IF Sent = 3 THEN 0 ELSE Sent + 1
        BY <2>1, <2>3, ByteOnLine
      <4>3. ~split => Aligned(got \o buffer, Sent, word_copy[1])
        BY <2>3 DEF ReaderInv
      <4>4. ~split => Aligned(Append(got \o buffer, out_byte), Sent', word_copy[1])
        BY <1>0, <4>2, <4>3, AlignedAppend
      <4>5. got' \o buffer' = Append(got \o buffer, out_byte)
        BY <2>1, <3>1, <4>1
      <4> QED
        BY <4>2, <4>4, <4>5
    <3> QED
      BY <2>1, <2>3, <3>2, <3>3 DEF ReaderInv, OneNonce
  <2>4. CASE ~UartTakes /\ ~flushing
    <3>1. buffer' = buffer
      BY <2>1, <2>4
    <3>2. Sent' = Sent /\ (Sent # 0 => word_copy'[1] = word_copy[1])
      BY <2>1, <2>4, ByteOnLine
    <3>3. ~split => Aligned(got' \o buffer', Sent', word_copy'[1])
      BY <2>1, <2>4, <3>1, <3>2 DEF ReaderInv, Aligned
    <3> QED
      BY <2>1, <3>1, <3>3 DEF ReaderInv, OneNonce
  <2>5. CASE flushing
    BY <2>1, <2>5 DEF ReaderInv, OneNonce
  <2> QED
    BY <2>3, <2>4, <2>5 DEF ReaderInv
<1>2. CASE FlushEnds
  <2>1. /\ flushing /\ flushing' = FALSE /\ split' = ~Between /\ UNCHANGED <<buffer, got, submitted>>
        /\ Sent' = Sent
    BY <1>2 DEF FlushEnds, reportVars, Sent
  <2>2. got' \o buffer' = <<>>
    BY <2>1, <1>0 DEF ReaderInv
  <2>3. ~split' => Aligned(got' \o buffer', Sent', word_copy'[1])
    BY <2>1, <2>2, BetweenWords, AlignedEmpty
  <2> QED
    BY <2>1, <2>3 DEF ReaderInv, OneNonce, Between
<1>3. CASE ReadByte
  <2>1. /\ ~flushing /\ buffer # <<>> /\ Len(got) < 3
        /\ got' = Append(got, Head(buffer)) /\ buffer' = Tail(buffer)
        /\ UNCHANGED <<reportVars, flushing, submitted, split>>
    BY <1>3 DEF ReadByte
  <2>2. /\ Head(buffer) \in WordByte /\ Tail(buffer) \in Seq(WordByte)
        /\ got' \in Seq(WordByte) /\ Len(got') < 4
    <3>1. Head(buffer) \in WordByte /\ Tail(buffer) \in Seq(WordByte)
      BY <1>0, <2>1, HeadTailProperties
    <3>2. got' \in Seq(WordByte) /\ Len(got') = Len(got) + 1
      BY <1>0, <2>1, <3>1, AppendProperties
    <3> QED
      BY <1>0, <2>1, <3>1, <3>2
  <2>3. got' \o buffer' = got \o buffer
    BY <1>0, <2>1, ReadKeepsBytes
  <2>4. Sent' = Sent /\ word_copy' = word_copy
    BY <2>1 DEF reportVars, sertx, Sent
  <2> QED
    BY <2>1, <2>2, <2>3, <2>4 DEF ReaderInv, OneNonce
<1>4. CASE ReadLastByte
  <2>1. /\ ~flushing /\ buffer # <<>> /\ Len(got) = 3
        /\ submitted' = (IF split THEN <<>> ELSE Append(got, Head(buffer)))
        /\ got' = <<>> /\ buffer' = Tail(buffer)
        /\ UNCHANGED <<reportVars, flushing, split>>
    BY <1>4 DEF ReadLastByte
  <2>2. /\ Tail(buffer) \in Seq(WordByte) /\ Len(buffer) = Len(Tail(buffer)) + 1
        /\ Head(buffer) = buffer[1]
        /\ \A i \in 1 .. Len(Tail(buffer)) : Tail(buffer)[i] = buffer[i + 1]
    BY <1>0, <2>1, HeadTailProperties
  <2>3. got' \o buffer' = buffer'
    BY <2>1, <2>2
  <2>4. CASE ~split
    <3>1. Aligned(got \o buffer, Sent, word_copy[1])
      BY <2>1, <2>4 DEF ReaderInv
    <3>2. Sent \in 0 .. 3 /\ Sent' = Sent /\ word_copy' = word_copy
      BY <2>1 DEF reportVars, sertx, Sent
    <3>3. /\ Len(got \o buffer) = Len(Tail(buffer)) + 4
          /\ \A i \in 1 .. Len(Tail(buffer)) : Tail(buffer)[i] = (got \o buffer)[i + 4]
      BY <1>0, <2>1, <2>2
    <3>4. Aligned(Tail(buffer), Sent, word_copy[1])
      BY <1>0, <2>2, <3>1, <3>2, <3>3, AlignedTail
    <3>5. PICK w \in Word : \A k \in 1 .. 4 : (got \o buffer)[k][1] = w /\ (got \o buffer)[k][2] = k - 1
      BY <1>0, <2>2, <3>1, <3>2, <3>3, AlignedTail
    <3>6. submitted' = [k \in 1 .. 4 |-> <<w, k - 1>>]
      <4>1. Head(buffer) \in WordByte /\ submitted' = Append(got, Head(buffer))
        BY <1>0, <2>1, <2>4, HeadTailProperties
      <4>2. submitted' \in Seq(WordByte) /\ Len(submitted') = 4
            /\ submitted'[4] = Head(buffer) /\ \A k \in 1 .. 3 : submitted'[k] = got[k]
        BY <1>0, <2>1, <4>1, AppendProperties
      <4>3. submitted' \in [1 .. 4 -> WordByte]
        BY <4>2, LenProperties
      <4>4. \A k \in 1 .. 4 : submitted'[k] = (got \o buffer)[k]
        <5>1. (got \o buffer)[4] = buffer[1]
          BY <1>0, <2>1, <2>2
        <5>2. \A k \in 1 .. 3 : (got \o buffer)[k] = got[k]
          BY <1>0, <2>1, <2>2
        <5>3. \A k \in 1 .. 4 : k = 4 \/ k \in 1 .. 3
          OBVIOUS
        <5> QED
          BY <2>2, <4>2, <5>1, <5>2, <5>3, Zenon
      <4>5. \A k \in 1 .. 4 : submitted'[k] = <<submitted'[k][1], submitted'[k][2]>>
        BY <4>3 DEF WordByte
      <4> QED
        BY <3>5, <4>3, <4>4, <4>5
    <3>7. OneNonce'
      BY <3>6 DEF OneNonce
    <3>8. Aligned(got' \o buffer', Sent', word_copy'[1])
      BY <2>1, <2>3, <3>2, <3>4
    <3>9. got' \in Seq(WordByte) /\ Len(got') < 4 /\ buffer' \in Seq(WordByte)
      BY <2>1, <2>2, EmptySeq
    <3> QED
      BY <2>1, <3>7, <3>8, <3>9 DEF ReaderInv
  <2>5. CASE split
    BY <1>0, <2>1, <2>2, <2>5 DEF ReaderInv, OneNonce
  <2> QED
    BY <2>4, <2>5 DEF ReaderInv
<1>5. CASE ReadTimeout
  <2>1. /\ ~flushing /\ buffer = <<>> /\ got' = <<>> /\ split' = ~Between
        /\ UNCHANGED <<reportVars, flushing, buffer, submitted>>
    BY <1>5 DEF ReadTimeout
  <2>2. Sent' = Sent /\ got' \o buffer' = <<>> /\ got' \in Seq(WordByte) /\ Len(got') < 4
    BY <2>1 DEF reportVars, Sent
  <2>3. ~split' => Aligned(got' \o buffer', Sent', word_copy'[1])
    BY <2>1, <2>2, BetweenWords, AlignedEmpty
  <2> QED
    BY <2>1, <2>2, <2>3 DEF ReaderInv, OneNonce, Between
<1>6. CASE UNCHANGED linkVars
  BY <1>6 DEF linkVars, readerVars, reportVars, sertx, ReaderInv, OneNonce, Sent
<1> QED
  BY <1>1, <1>2, <1>3, <1>4, <1>5, <1>6 DEF LinkNext

-----------------------------------------------------------------------------
(* The transmitter, the report and the Reader, whatever the nonces are and *)
(* however many bytes wait to be read.                                     *)
LEMMA LinkInvariant == LinkSpec => [](TransmitInv /\ ReaderInv)
<1>1. LinkInit => TransmitInv /\ ReaderInv
  <2> SUFFICES ASSUME LinkInit PROVE TransmitInv /\ ReaderInv
    OBVIOUS
  <2>1. TransmitInv /\ Sent = 0
    BY TransmitInit DEF LinkInit, ReportInit, Sent
  <2>2. <<>> \o <<>> = <<>> /\ <<>> \in Seq(WordByte) /\ Len(<<>>) = 0
    BY EmptySeq
  <2>3. Aligned(got \o buffer, Sent, word_copy[1])
    BY <2>1, <2>2, AlignedEmpty DEF LinkInit
  <2>4. flushing = TRUE /\ split = FALSE /\ got = <<>> /\ buffer = <<>> /\ submitted = <<>>
    BY DEF LinkInit
  <2>5. Len(got) < 4 /\ got \in Seq(WordByte) /\ buffer \in Seq(WordByte)
    BY <2>2, <2>4
  <2>6. OneNonce
    BY <2>4 DEF OneNonce
  <2> QED
    BY <2>1, <2>3, <2>4, <2>5, <2>6 DEF ReaderInv
<1>2. TransmitInv /\ [LinkNext]_linkVars => TransmitInv'
  <2>1. [LinkNext]_linkVars => [ReportNext]_reportVars
    BY DEF LinkNext, Edge, FlushEnds, ReadByte, ReadLastByte, ReadTimeout, linkVars
  <2> QED
    BY <2>1, TransmitNext
<1> QED
  BY <1>1, <1>2, ReadNext, PTL DEF LinkSpec

(* The registers and wires of the way out keep to their types.             *)
THEOREM ReportTypeCorrect == LinkSpec => []ReportTypeOK
<1>1. TransmitInv => ReportTypeOK
  BY DEF TransmitInv
<1> QED
  BY <1>1, LinkInvariant, PTL

(* The nonce found while the way out is idle is the one copied into        *)
(* word_copy, whatever is found in the clock between (fpgaminer_top.v:     *)
(* 152-165, serial.v:98-102).                                              *)
THEOREM IdleFindIsSent == LinkSpec => IdleFindSent
<1>1. TransmitInv /\ [LinkNext]_linkVars => [CopyWord /\ owed # None => word_copy'[1] = owed]_reportVars
  <2>1. [LinkNext]_linkVars => [ReportNext]_reportVars
    BY DEF LinkNext, Edge, FlushEnds, ReadByte, ReadLastByte, ReadTimeout, linkVars
  <2> QED
    BY <2>1, OwedNext
<1> QED
  BY <1>1, LinkInvariant, PTL DEF LinkSpec, IdleFindSent

(* A share submitted is of the header that was hashed, the nonce and the   *)
(* block turned round as the chip turned them, and all four bytes of one   *)
(* nonce, as long as no timeout has split a word (miner.py:56-65, 113-131).*)
THEOREM SharesAreHashed == LinkSpec => []ShareIsHashed
<1>1. OneNonce => ShareIsHashed
  <2> SUFFICES ASSUME OneNonce, submitted # <<>> PROVE \E word \in Word : Share(submitted) = Hashed(word)
    BY DEF ShareIsHashed
  <2>1. PICK w \in Word : submitted = [k \in 1 .. 4 |-> <<w, k - 1>>]
    BY DEF OneNonce
  <2>2. ASSUME NEW i \in 64 .. 79 PROVE Share(submitted)[i] = Hashed(w)[i]
    <3>1. CASE i < 76
      <4>1. i - 64 \in 0 .. 31 /\ 31 - (i - 64) \in 0 .. 31 /\ 95 - (31 - (i - 64)) = i
        BY <3>1
      <4>2. data2[i - 64] = i
        BY <4>1 DEF data2, rdata2
      <4> QED
        BY <3>1, <4>2 DEF Share, Hashed
    <3>2. CASE ~(i < 76)
      <4>1. 80 - i \in 1 .. 4 /\ (80 - i) - 1 = 79 - i
        BY <3>2
      <4>2. submitted[80 - i] = <<w, 79 - i>>
        BY <2>1, <4>1
      <4> QED
        BY <3>2, <4>2 DEF Share, Hashed
    <3> QED
      BY <3>1, <3>2
  <2>3. Share(submitted) = [i \in 64 .. 79 |-> Share(submitted)[i]] /\ Hashed(w) = [i \in 64 .. 79 |-> Hashed(w)[i]]
    BY DEF Share, Hashed
  <2> QED
    BY <2>2, <2>3
<1>2. ReaderInv => OneNonce
  BY DEF ReaderInv
<1> QED
  BY <1>1, <1>2, LinkInvariant, PTL
=============================================================================
