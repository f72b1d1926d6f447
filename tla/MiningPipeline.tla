--------------------------- MODULE MiningPipeline ---------------------------
(***************************************************************************)
(* The hashing core of the classic miners: the control unit of             *)
(* fpgaminer_top.v and its two sha256_transform pipelines, clock by clock. *)
(*                                                                         *)
(* A word of SHA-256 state in the pipeline is known by the job and the     *)
(* nonce it comes from and by the rounds it has been through; a round with *)
(* the wrong constant, or a final addition of another job's midstate,      *)
(* makes Garbage of it.  Every finished hash is taken to be golden: what   *)
(* the properties say of the nonce reported they say of any golden hash.   *)
(*                                                                         *)
(* A build is a choice of LOOP_LOG2 (0 to 5) and of the core: inputRegs is *)
(* 0 for cores/unoptimized/sha256_transform.v and 1 for the makomk core,   *)
(* which registers its input (state_d0, input_d0) first; offset is what    *)
(* its control unit subtracts from nonce when LOOP is 1; and the nonces,   *)
(* 2^32 in the source, wrap at nonceMod.                                   *)
(***************************************************************************)
EXTENDS Integers, FiniteSets

Build == [loopLog2 : 0 .. 5, inputRegs : {0, 1}, offset : Nat, nonceMod : Nat \ {0}]

CONSTANTS Builds,  \* the builds to look at
          Rounds,  \* rounds of one transform: 64
          Jobs     \* jobs are numbered 0 (power up) to Jobs

ASSUME PipelineAssumption ==
    /\ Rounds \in Nat \ {0} /\ Jobs \in Nat
    /\ Builds \subseteq Build
    /\ \A b \in Builds : Rounds % (2 ^ b.loopLog2) = 0
    /\ \A b \in Builds : b.inputRegs = 1 => b.loopLog2 = 0  \* only its first stage can take feedback

VARIABLES
    build,  \* the build: no step changes it
    job_vw, job_buf,             \* midstate and data: of the host's wires, buffered
    cnt, feedback, feedback_d1, nonce,
    data,                        \* the state and data registers
    input_d0, hashers, hash,     \* first transform: input register, stages, tx_hash
    input2_d0, hashers2, hash2,  \* second transform
    ticket,        \* the hash is_golden_ticket was computed from
    golden_nonce,
    reported,      \* the hash golden_nonce was written for (history)
    age            \* clocks since job_vw changed, up to AgeMax (history)

LOOP     == 2 ^ build.loopLog2
NonceMod  == build.nonceMod

control == <<cnt, feedback, feedback_d1, nonce>>
jobs    == <<job_vw, job_buf>>
first   == <<input_d0, hashers, hash>>
second  == <<input2_d0, hashers2, hash2>>
output  == <<ticket, golden_nonce, reported>>
vars    == <<build, jobs, control, data, first, second, output, age>>

Stage   == 0 .. (Rounds \div LOOP) - 1
Last    == (Rounds \div LOOP) - 1
Item    == [job : 0 .. Jobs, n : 0 .. NonceMod - 1, round : -1 .. Rounds]
Garbage == [job |-> 0, n |-> 0, round |-> -1]

Finished(x) == x.round = Rounds
Fresh(x)    == IF Finished(x) THEN [x EXCEPT !.round = 0] ELSE Garbage

(* The longest a nonce of the job before stays in the second transform.    *)
StaleMax == Rounds + LOOP + build.inputRegs + 3
AgeMax   == StaleMax + 1

-----------------------------------------------------------------------------
(* sha256_transform.v: stage i has the constants LOOP * i to LOOP * i +    *)
(* LOOP - 1 and uses the one cnt selects.                                  *)

Digest(x, k) == IF x.round = k THEN [x EXCEPT !.round = k + 1] ELSE Garbage

StagesNeverFeedBack(h, rx) ==
    [i \in Stage |-> Digest(IF i = 0 THEN rx ELSE h[i - 1], LOOP * i + cnt)]
Stages(h, rx) ==
    [i \in Stage |-> Digest(IF feedback THEN h[i] ELSE IF i = 0 THEN rx ELSE h[i - 1],
                            LOOP * i + cnt)]

(* tx_hash adds the midstate on the input now, not the one the hash began  *)
(* with.                                                                   *)
AddStateLatched(x, job) == IF Finished(x) THEN x ELSE Garbage
AddState(x, job) == IF Finished(x) /\ x.job = job THEN x ELSE Garbage

TransformInput(d, d0) == IF build.inputRegs = 1 THEN d0 ELSE d

FirstTransform ==
    /\ input_d0' = IF build.inputRegs = 1 THEN data ELSE input_d0
    /\ hashers' = Stages(hashers, TransformInput(data, input_d0))
    /\ hash' = IF feedback THEN hash ELSE AddState(hashers[Last], data.job)

SecondTransform ==
    /\ input2_d0' = IF build.inputRegs = 1 THEN Fresh(hash) ELSE input2_d0
    /\ hashers2' = Stages(hashers2, TransformInput(Fresh(hash), input2_d0))
    /\ hash2' = IF feedback THEN hash2 ELSE AddState(hashers2[Last], hashers2[Last].job)

-----------------------------------------------------------------------------
(* The control unit of fpgaminer_top.v.                                    *)

CountOneMore  == (cnt + 1) % (LOOP + 1)
cnt_next      == (cnt + 1) % LOOP
feedback_next == cnt_next # 0

NonceNextEveryClock == (nonce + 1) % NonceMod
nonce_next == IF feedback_next THEN nonce ELSE (nonce + 1) % NonceMod

GoldenOffsetOfRounds == 2 ^ (7 - build.loopLog2)
GoldenOffset == IF LOOP = 1 THEN build.offset
                ELSE IF LOOP = 2 THEN 66
                ELSE 2 ^ (7 - build.loopLog2) + 1

Buffers ==
    /\ job_buf' = job_vw
    /\ data' = [job |-> job_buf, n |-> nonce_next, round |-> 0]

Counters ==
    /\ cnt' = cnt_next
    /\ feedback' = feedback_next
    /\ feedback_d1' = feedback
    /\ nonce' = nonce_next

TestHash   == ticket' = IF feedback_d1 THEN Garbage ELSE hash2

Report ==
    IF Finished(ticket)
    THEN golden_nonce' = (nonce - GoldenOffset) % NonceMod /\ reported' = ticket
    ELSE UNCHANGED <<golden_nonce, reported>>

Clock == Buffers /\ Counters /\ FirstTransform /\ SecondTransform /\ TestHash /\ Report

(* The host's wires may change at any clock, both at once.                 *)
NewJob ==
    IF job_vw < Jobs
    THEN \/ UNCHANGED job_vw /\ age' = IF age < AgeMax THEN age + 1 ELSE age
         \/ job_vw' = job_vw + 1 /\ age' = 0
    ELSE UNCHANGED job_vw /\ age' = IF age < AgeMax THEN age + 1 ELSE age

Init ==
    /\ build \in Builds
    /\ job_vw = 0 /\ job_buf = 0
    /\ cnt = 0 /\ feedback = FALSE /\ feedback_d1 = TRUE /\ nonce = 0
    /\ data = Garbage /\ input_d0 = Garbage /\ input2_d0 = Garbage
    /\ hashers = [i \in Stage |-> Garbage] /\ hashers2 = [i \in Stage |-> Garbage]
    /\ hash = Garbage /\ hash2 = Garbage /\ ticket = Garbage
    /\ golden_nonce = 0 /\ reported = Garbage
    /\ age = AgeMax

Next == Clock /\ NewJob /\ UNCHANGED build

Spec == Init /\ [][Next]_vars
FairSpec == Spec /\ WF_vars(Next)

-----------------------------------------------------------------------------
TypeOK ==
    /\ build \in Builds
    /\ job_vw \in 0 .. Jobs /\ job_buf \in 0 .. Jobs
    /\ cnt \in 0 .. LOOP - 1 /\ feedback = (cnt # 0) /\ feedback_d1 \in BOOLEAN
    /\ nonce \in 0 .. NonceMod - 1 /\ golden_nonce \in 0 .. NonceMod - 1
    /\ {data, input_d0, input2_d0, hash, hash2, ticket, reported} \subseteq Item
    /\ hashers \in [Stage -> Item] /\ hashers2 \in [Stage -> Item]
    /\ age \in 0 .. AgeMax

(* The nonce reported is the one the golden hash was computed from: the    *)
(* offset of fpgaminer_top.v is the depth of the two pipelines, whatever   *)
(* LOOP is, and the nonce counter may wrap in between.                     *)
GoldenNonceRight == Finished(reported) => golden_nonce = reported.n

(* Within a job the nonces are hashed one after the other, none left out   *)
(* and none twice.                                                         *)
NoNonceSkipped ==
    [][reported' # reported /\ Finished(reported) /\ reported'.job = reported.job
         => reported'.n = (reported.n + 1) % NonceMod]_vars

(* After a new job is on the wires, nonces of the job before come out for  *)
(* one transform's latency and no longer.                                  *)
StaleBounded == [][reported' # reported /\ age > StaleMax => reported'.job = job_vw]_vars

(* A job that stays on the wires gets its nonces hashed: no job change     *)
(* leaves the pipelines out of step with cnt for good.                     *)
JobHashed == <>[](job_vw = Jobs) => <>[](reported.job = Jobs /\ Finished(reported))
=============================================================================
