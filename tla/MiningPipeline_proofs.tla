----------------------- MODULE MiningPipeline_proofs -----------------------
(***************************************************************************)
(* The two pipelines of the classic miners, for every LOOP_LOG2, with and  *)
(* without input registers, and for every width of the nonce counter: the  *)
(* offset of the golden nonce is the depth of the pipelines, an old job is *)
(* soon over, and no nonce of a job is left out.                           *)
(***************************************************************************)
EXTENDS MiningPipeline, TLAPS

(* The builds of the source: SHA-256 has 64 rounds, and with LOOP = 1 131  *)
(* is subtracted, 133 by the makomk core.                                  *)
SourceBuilds ==
    /\ Rounds = 64
    /\ \A b \in Builds : b.loopLog2 = 0 => b.offset = 131 + 2 * b.inputRegs

-----------------------------------------------------------------------------
(* Numbers of loops, stages and rounds.                                    *)

Depth == Rounds \div LOOP
R     == build.inputRegs

LEMMA Powers == ASSUME NEW k \in 0 .. 5
                PROVE  /\ 2 ^ k \in {1, 2, 4, 8, 16, 32}
                       /\ 2 ^ k = 1 <=> k = 0
<1>1. 2 ^ 0 = 1 /\ 2 ^ 1 = 2 /\ 2 ^ 2 = 4 /\ 2 ^ 3 = 8 /\ 2 ^ 4 = 16 /\ 2 ^ 5 = 32
  BY SMT
<1>2. CASE k = 0
  BY <1>1, <1>2
<1>3. CASE k = 1
  BY <1>1, <1>3
<1>4. CASE k = 2
  BY <1>1, <1>4
<1>5. CASE k = 3
  BY <1>1, <1>5
<1>6. CASE k = 4
  BY <1>1, <1>6
<1>7. CASE k = 5
  BY <1>1, <1>7
<1> QED
  BY <1>2, <1>3, <1>4, <1>5, <1>6, <1>7

LEMMA LoopDepth == ASSUME build \in Builds
                   PROVE  /\ LOOP \in Nat \ {0} /\ Depth \in Nat \ {0}
                          /\ LOOP * Depth = Rounds
                          /\ Stage = 0 .. Depth - 1 /\ Last = Depth - 1 /\ Last \in Stage /\ 0 \in Stage
                          /\ R \in {0, 1} /\ (R = 1 => LOOP = 1)
                          /\ NonceMod \in Nat \ {0}
<1>1. build \in Build /\ Rounds % LOOP = 0 /\ (R = 1 => build.loopLog2 = 0) /\ Rounds \in Nat \ {0}
  BY PipelineAssumption DEF LOOP, R
<1>2. LOOP \in {1, 2, 4, 8, 16, 32} /\ (R = 1 => LOOP = 1)
  BY <1>1, Powers DEF Build, LOOP
<1>3. LOOP \in Nat \ {0} /\ Depth \in Nat \ {0} /\ LOOP * Depth = Rounds
  <2>1. ASSUME NEW l \in {1, 2, 4, 8, 16, 32}, NEW r \in Nat \ {0}, r % l = 0
        PROVE  l \in Nat \ {0} /\ r \div l \in Nat \ {0} /\ l * (r \div l) = r
    BY <2>1
  <2> QED
    BY <1>1, <1>2, <2>1 DEF Depth
<1>4. Stage = 0 .. Depth - 1 /\ Last = Depth - 1 /\ Last \in Stage /\ 0 \in Stage
  BY <1>3 DEF Stage, Last, Depth
<1> QED
  BY <1>1, <1>2, <1>3, <1>4 DEF Build, R, NonceMod

LEMMA ItemType == ASSUME build \in Builds
                  PROVE  /\ Garbage \in Item
                         /\ \A x \in Item : Fresh(x) \in Item
<1>1. NonceMod \in Nat \ {0}
  BY LoopDepth
<1>2. Garbage \in Item
  BY <1>1, PipelineAssumption DEF Item, Garbage
<1>3. ASSUME NEW x \in Item PROVE Fresh(x) \in Item
  <2>1. [x EXCEPT !.round = 0] = [job |-> x.job, n |-> x.n, round |-> 0]
    BY DEF Item
  <2>2. [x EXCEPT !.round = 0] \in Item
    BY <2>1, PipelineAssumption DEF Item
  <2> QED
    BY <1>2, <2>2 DEF Fresh
<1> QED
  BY <1>2, <1>3

-----------------------------------------------------------------------------
(* What is in the pipelines, and how far.  From(y, x): y is x further on,  *)
(* or garbage.                                                             *)

From(y, x) == y.round # -1 => x.round # -1 /\ y.n = x.n /\ y.job = x.job

(* The rounds a stage is through, beyond those of the stages before.       *)
Phase == IF cnt = 0 THEN LOOP ELSE cnt

RoundsInv ==
    /\ \A x \in {data, input_d0, input2_d0} : x.round \in {-1, 0}
    /\ \A x \in {hash, hash2, ticket, reported} : x.round \in {-1, Rounds}
    /\ \A i \in Stage : hashers[i].round \in {-1, LOOP * i + Phase}
    /\ \A i \in Stage : hashers2[i].round \in {-1, LOOP * i + Phase}

(* Clocks since the hashes were loaded, which are tested one clock later.  *)
Since == IF cnt = 0 THEN LOOP - 1 ELSE cnt - 1

TestInv == ~feedback_d1 => Since = 0

LEMMA Digested ==
  ASSUME build \in Builds, NEW x \in Item, NEW k \in 0 .. Rounds - 1
  PROVE  /\ Digest(x, k) \in Item
         /\ Digest(x, k).round \in {-1, k + 1}
         /\ From(Digest(x, k), x)
         /\ x.round = k => Digest(x, k).round = k + 1
<1>1. CASE x.round = k
  <2>1. Digest(x, k) = [job |-> x.job, n |-> x.n, round |-> k + 1]
    BY <1>1 DEF Digest, Item
  <2>2. x.job \in 0 .. Jobs /\ x.n \in 0 .. NonceMod - 1 /\ k + 1 \in -1 .. Rounds /\ x.round # -1
    BY <1>1, PipelineAssumption DEF Item
  <2> QED
    BY <1>1, <2>1, <2>2 DEF From, Item
<1>2. CASE x.round # k
  BY <1>2, ItemType DEF Digest, From, Garbage
<1> QED
  BY <1>1, <1>2

(* The rounds of a stage.                                                  *)
LEMMA RoundOfStage ==
  ASSUME build \in Builds, NEW i \in Stage, NEW c \in 0 .. LOOP - 1
  PROVE  /\ LOOP * i + c \in 0 .. Rounds - 1
         /\ i # 0 => i - 1 \in Stage /\ LOOP * (i - 1) + LOOP = LOOP * i
<1> DEFINE l == LOOP
           d == Depth
<1>1. l \in Nat \ {0} /\ d \in Nat \ {0} /\ l * d = Rounds /\ i \in 0 .. d - 1 /\ c \in 0 .. l - 1 /\ Stage = 0 .. d - 1
  BY LoopDepth
<1> HIDE DEF l, d
<1>2. l * i \in Nat /\ l * (d - 1 - i) \in Nat
  BY <1>1
<1>3. l * d = l * i + l * (d - 1 - i) + l
  BY <1>1
<1>4. l * i + c \in 0 .. Rounds - 1
  BY <1>1, <1>2, <1>3
<1>5. i # 0 => l * (i - 1) + l = l * i
  BY <1>1
<1> QED
  BY <1>1, <1>4, <1>5 DEF l

(* What a stage works on.                                                  *)
Source(h, rx, i) == IF feedback THEN h[i] ELSE IF i = 0 THEN rx ELSE h[i - 1]

LEMMA StagesStep ==
  ASSUME build \in Builds, cnt \in 0 .. LOOP - 1, feedback = (cnt # 0),
         NEW h \in [Stage -> Item], NEW rx \in Item, rx.round \in {-1, 0},
         \A i \in Stage : h[i].round \in {-1, LOOP * i + Phase}
  PROVE  /\ Stages(h, rx) \in [Stage -> Item]
         /\ \A i \in Stage : /\ Source(h, rx, i) \in Item
                             /\ Stages(h, rx)[i].round \in {-1, LOOP * i + cnt + 1}
                             /\ From(Stages(h, rx)[i], Source(h, rx, i))
                             /\ From(Source(h, rx, i), Stages(h, rx)[i])
<1>1. ASSUME NEW i \in Stage
      PROVE  /\ Source(h, rx, i) \in Item
             /\ Stages(h, rx)[i] \in Item
             /\ Stages(h, rx)[i].round \in {-1, LOOP * i + cnt + 1}
             /\ From(Stages(h, rx)[i], Source(h, rx, i))
             /\ From(Source(h, rx, i), Stages(h, rx)[i])
  <2> DEFINE x == Source(h, rx, i)
             k == LOOP * i + cnt
  <2>0. (feedback => cnt # 0) /\ (~feedback => cnt = 0)
    OBVIOUS
  <2>1. k \in 0 .. Rounds - 1 /\ (i # 0 => i - 1 \in Stage /\ LOOP * (i - 1) + LOOP = LOOP * i)
    BY RoundOfStage
  <2>2. x \in Item
    BY <2>1 DEF Source
  <2>3. x.round \in {-1, k}
    <3>1. CASE feedback
      BY <2>0, <3>1 DEF Source, Phase
    <3>2. CASE ~feedback /\ i = 0
      BY <2>0, <2>1, <3>2, LoopDepth DEF Source
    <3>3. CASE ~feedback /\ i # 0
      <4>1. h[i - 1].round \in {-1, LOOP * i}
        BY <2>0, <2>1, <3>3 DEF Phase
      <4>2. k = LOOP * i
        BY <2>0, <2>1, <3>3, LoopDepth
      <4> QED
        BY <3>3, <4>1, <4>2 DEF Source
    <3> QED
      BY <3>1, <3>2, <3>3
  <2>4. Stages(h, rx)[i] = Digest(x, k)
    BY DEF Stages, Source
  <2> HIDE DEF x, k
  <2>5. /\ Digest(x, k) \in Item
        /\ Digest(x, k).round \in {-1, k + 1}
        /\ From(Digest(x, k), x)
        /\ x.round = k => Digest(x, k).round = k + 1
    BY <2>1, <2>2, Digested
  <2>6. From(x, Digest(x, k))
    BY <2>1, <2>3, <2>5 DEF From
  <2> QED
    BY <2>2, <2>4, <2>5, <2>6 DEF x, k
<1>2. Stages(h, rx) = [i \in Stage |-> Stages(h, rx)[i]]
  BY DEF Stages
<1> QED
  BY <1>1, <1>2

LEMMA Remainder == ASSUME NEW m \in Nat \ {0}, NEW q \in Int, NEW r \in 0 .. m - 1
                   PROVE  (q * m + r) % m = r
  BY SMT

(* A counter that counts modulo m.                                         *)
LEMMA CountModulo == ASSUME NEW m \in Nat \ {0}, NEW c \in 0 .. m - 1
                     PROVE  (c + 1) % m = IF c + 1 = m THEN 0 ELSE c + 1
<1>1. CASE c + 1 = m
  BY <1>1, Remainder, 1 * m + 0 = m
<1>2. CASE c + 1 # m
  <2>1. c + 1 \in 0 .. m - 1 /\ 0 * m + (c + 1) = c + 1
    BY <1>2
  <2> QED
    BY <1>2, <2>1, Remainder
<1> QED
  BY <1>1, <1>2

(* The counters after a clock; Tick is 1 when a new nonce begins.          *)
Tick == IF cnt_next = 0 THEN 1 ELSE 0

LEMMA CountersStep ==
  ASSUME build \in Builds, cnt \in 0 .. LOOP - 1, feedback = (cnt # 0), nonce \in 0 .. NonceMod - 1, Counters
  PROVE  /\ cnt' \in 0 .. LOOP - 1 /\ feedback' = (cnt' # 0)
         /\ cnt + 1 = LOOP => cnt' = 0
         /\ cnt + 1 # LOOP => cnt' = cnt + 1
         /\ nonce' \in 0 .. NonceMod - 1
         /\ nonce' = nonce + Tick \/ nonce' = nonce + Tick - NonceMod
         /\ cnt' = cnt_next /\ nonce' = nonce_next
<1>1. cnt_next = IF cnt + 1 = LOOP THEN 0 ELSE cnt + 1
  BY LoopDepth, CountModulo DEF cnt_next
<1>2. (nonce + 1) % NonceMod = IF nonce + 1 = NonceMod THEN 0 ELSE nonce + 1
  BY LoopDepth, CountModulo
<1>3. cnt' = cnt_next /\ feedback' = (cnt' # 0) /\ nonce' = IF cnt_next = 0 THEN (nonce + 1) % NonceMod ELSE nonce
  BY DEF Counters, feedback_next, nonce_next
<1>4. LOOP \in Nat \ {0} /\ NonceMod \in Nat \ {0}
  BY LoopDepth
<1>5. /\ cnt' \in 0 .. LOOP - 1
      /\ cnt + 1 = LOOP => cnt' = 0
      /\ cnt + 1 # LOOP => cnt' = cnt + 1
  BY <1>1, <1>3, <1>4
<1>6. /\ nonce' \in 0 .. NonceMod - 1
      /\ nonce' = nonce + Tick \/ nonce' = nonce + Tick - NonceMod
  BY <1>2, <1>3, <1>4 DEF Tick
<1> QED
  BY <1>3, <1>5, <1>6 DEF Counters

-----------------------------------------------------------------------------
TypeInv == TypeOK /\ RoundsInv /\ TestInv

LEMMA TypeInit == Init => TypeInv
<1> SUFFICES ASSUME Init PROVE TypeInv
  OBVIOUS
<1>1. build \in Builds /\ Garbage \in Item /\ LOOP \in Nat \ {0} /\ NonceMod \in Nat \ {0} /\ R \in {0, 1}
  BY ItemType, LoopDepth DEF Init
<1>2. AgeMax \in 0 .. AgeMax
  BY <1>1, PipelineAssumption DEF AgeMax, StaleMax, R
<1>3. TypeOK
  <2>0. feedback = (cnt # 0)
    <3>1. feedback = FALSE /\ cnt = 0
      BY DEF Init
    <3> QED
      BY <3>1
  <2>1. cnt \in 0 .. LOOP - 1 /\ nonce \in 0 .. NonceMod - 1 /\ golden_nonce \in 0 .. NonceMod - 1
    BY <1>1 DEF Init
  <2>2. {data, input_d0, input2_d0, hash, hash2, ticket, reported} \subseteq Item
    BY <1>1 DEF Init
  <2>3. hashers \in [Stage -> Item] /\ hashers2 \in [Stage -> Item]
    BY <1>1 DEF Init
  <2> QED
    BY <1>1, <1>2, <2>0, <2>1, <2>2, <2>3, PipelineAssumption DEF Init, TypeOK
<1>4. RoundsInv
  BY DEF Init, RoundsInv, Garbage
<1>5. TestInv
  BY DEF Init, TestInv
<1> QED
  BY <1>3, <1>4, <1>5 DEF TypeInv

(* Every register of the pipelines, after a clock, from what it was made.  *)
LEMMA PipelinesStep ==
  ASSUME TypeInv, Clock
  PROVE  /\ data' = [job |-> job_buf, n |-> nonce', round |-> 0]
         /\ data' \in Item
         /\ input_d0' \in Item /\ input_d0'.round \in {-1, 0}
         /\ hashers' \in [Stage -> Item]
         /\ \A i \in Stage :
               /\ hashers'[i].round \in {-1, LOOP * i + cnt + 1}
               /\ From(hashers'[i], Source(hashers, TransformInput(data, input_d0), i))
               /\ From(Source(hashers, TransformInput(data, input_d0), i), hashers'[i])
         /\ hash' \in Item /\ hash'.round \in {-1, Rounds}
         /\ input2_d0' \in Item /\ input2_d0'.round \in {-1, 0}
         /\ hashers2' \in [Stage -> Item]
         /\ \A i \in Stage :
               /\ hashers2'[i].round \in {-1, LOOP * i + cnt + 1}
               /\ From(hashers2'[i], Source(hashers2, TransformInput(Fresh(hash), input2_d0), i))
               /\ From(Source(hashers2, TransformInput(Fresh(hash), input2_d0), i), hashers2'[i])
         /\ hash2' \in Item /\ hash2'.round \in {-1, Rounds}
         /\ ticket' \in Item /\ ticket'.round \in {-1, Rounds}
         /\ reported' \in Item /\ reported'.round \in {-1, Rounds}
<1> USE DEF TypeInv
<1>1. /\ build \in Builds /\ cnt \in 0 .. LOOP - 1 /\ feedback = (cnt # 0) /\ nonce \in 0 .. NonceMod - 1
      /\ {data, input_d0, input2_d0, hash, hash2, ticket, reported} \subseteq Item
      /\ hashers \in [Stage -> Item] /\ hashers2 \in [Stage -> Item] /\ job_buf \in 0 .. Jobs
  BY DEF TypeOK
<1>2. LOOP \in Nat \ {0} /\ Last \in Stage /\ Garbage \in Item /\ Garbage.round = -1 /\ Rounds \in Nat
  BY <1>1, LoopDepth, ItemType, PipelineAssumption DEF Garbage
<1>3. data' = [job |-> job_buf, n |-> nonce', round |-> 0] /\ data' \in Item
  <2>1. data' = [job |-> job_buf, n |-> nonce', round |-> 0] /\ nonce' \in 0 .. NonceMod - 1
    BY <1>1, CountersStep DEF Clock, Buffers
  <2> QED
    BY <1>1, <1>2, <2>1 DEF Item
<1>4. input_d0' \in Item /\ input_d0'.round \in {-1, 0}
  BY <1>1 DEF RoundsInv, Clock, FirstTransform
<1>5. TransformInput(data, input_d0) \in Item /\ TransformInput(data, input_d0).round \in {-1, 0}
  BY <1>1 DEF RoundsInv, TransformInput
<1>6. hashers' = Stages(hashers, TransformInput(data, input_d0))
  BY DEF Clock, FirstTransform
<1>7. hash' \in Item /\ hash'.round \in {-1, Rounds}
  <2>1. hashers[Last] \in Item
    BY <1>1, <1>2
  <2> QED
    BY <1>1, <1>2, <2>1 DEF RoundsInv, Clock, FirstTransform, AddState, Finished
<1>8. Fresh(hash) \in Item /\ Fresh(hash).round \in {-1, 0}
  BY <1>1, ItemType DEF Fresh, Garbage, Item
<1>9. input2_d0' \in Item /\ input2_d0'.round \in {-1, 0}
  BY <1>1, <1>8 DEF RoundsInv, Clock, SecondTransform
<1>10. TransformInput(Fresh(hash), input2_d0) \in Item /\ TransformInput(Fresh(hash), input2_d0).round \in {-1, 0}
  BY <1>1, <1>8 DEF RoundsInv, TransformInput
<1>11. hashers2' = Stages(hashers2, TransformInput(Fresh(hash), input2_d0))
  BY DEF Clock, SecondTransform
<1>12. hash2' \in Item /\ hash2'.round \in {-1, Rounds}
  <2>1. hashers2[Last] \in Item
    BY <1>1, <1>2
  <2> QED
    BY <1>1, <1>2, <2>1 DEF RoundsInv, Clock, SecondTransform, AddState, Finished
<1>13. ticket' \in Item /\ ticket'.round \in {-1, Rounds}
  BY <1>1, <1>2 DEF RoundsInv, Clock, TestHash
<1>14. reported' \in Item /\ reported'.round \in {-1, Rounds}
  BY <1>1 DEF RoundsInv, Clock, Report
<1>15. \A i \in Stage : hashers[i].round \in {-1, LOOP * i + Phase} /\ hashers2[i].round \in {-1, LOOP * i + Phase}
  BY DEF RoundsInv
<1>16. /\ hashers' \in [Stage -> Item]
       /\ \A i \in Stage :
             /\ hashers'[i].round \in {-1, LOOP * i + cnt + 1}
             /\ From(hashers'[i], Source(hashers, TransformInput(data, input_d0), i))
             /\ From(Source(hashers, TransformInput(data, input_d0), i), hashers'[i])
  BY <1>1, <1>5, <1>6, <1>15, StagesStep
<1>17. /\ hashers2' \in [Stage -> Item]
       /\ \A i \in Stage :
             /\ hashers2'[i].round \in {-1, LOOP * i + cnt + 1}
             /\ From(hashers2'[i], Source(hashers2, TransformInput(Fresh(hash), input2_d0), i))
             /\ From(Source(hashers2, TransformInput(Fresh(hash), input2_d0), i), hashers2'[i])
  BY <1>1, <1>10, <1>11, <1>15, StagesStep
<1> QED
  BY <1>3, <1>4, <1>7, <1>9, <1>12, <1>13, <1>14, <1>16, <1>17

LEMMA TypeNext == TypeInv /\ [Next]_vars => TypeInv'
<1> SUFFICES ASSUME TypeInv, [Next]_vars PROVE TypeInv'
  OBVIOUS
<1>1. CASE Next
  <2> USE <1>1
  <2>1. build' = build /\ Clock /\ NewJob
    BY DEF Next
  <2>2. /\ build \in Builds /\ job_vw \in 0 .. Jobs /\ job_buf \in 0 .. Jobs
        /\ cnt \in 0 .. LOOP - 1 /\ feedback = (cnt # 0) /\ feedback_d1 \in BOOLEAN /\ nonce \in 0 .. NonceMod - 1
        /\ golden_nonce \in 0 .. NonceMod - 1 /\ age \in 0 .. AgeMax
    BY DEF TypeInv, TypeOK
  <2>3. LOOP' = LOOP /\ NonceMod' = NonceMod /\ Stage' = Stage /\ Item' = Item /\ AgeMax' = AgeMax
    BY <2>1 DEF LOOP, NonceMod, Stage, Item, AgeMax, StaleMax
  <2>4. LOOP \in Nat \ {0} /\ NonceMod \in Nat \ {0} /\ R \in {0, 1} /\ GoldenOffset \in Int
    <3>1. build \in Build /\ LOOP \in Nat \ {0} /\ NonceMod \in Nat \ {0} /\ R \in {0, 1}
      BY <2>2, LoopDepth, PipelineAssumption
    <3>2. 2 ^ (7 - build.loopLog2) \in Int
      BY <3>1 DEF Build
    <3> QED
      BY <3>1, <3>2 DEF GoldenOffset, Build
  <2>5. job_vw' \in 0 .. Jobs /\ job_buf' \in 0 .. Jobs /\ age' \in 0 .. AgeMax
    <3>1. AgeMax \in Nat
      BY <2>4, PipelineAssumption DEF AgeMax, StaleMax, R
    <3> QED
      BY <2>1, <2>2, <3>1, PipelineAssumption DEF Clock, Buffers, NewJob
  <2>6. /\ cnt' \in 0 .. LOOP - 1 /\ feedback' = (cnt' # 0) /\ feedback_d1' \in BOOLEAN
        /\ nonce' \in 0 .. NonceMod - 1
    BY <2>1, <2>2, CountersStep DEF Clock, Counters
  <2>7. golden_nonce' \in 0 .. NonceMod - 1
    BY <2>1, <2>2, <2>4 DEF Clock, Report
  <2>8. TypeOK'
    BY <2>1, <2>2, <2>3, <2>5, <2>6, <2>7, PipelinesStep DEF TypeOK
  <2>9. Phase' = cnt + 1
    <3>1. Phase' = IF cnt' = 0 THEN LOOP ELSE cnt'
      BY <2>3 DEF Phase
    <3>2. /\ cnt + 1 = LOOP => cnt' = 0
          /\ cnt + 1 # LOOP => cnt' = cnt + 1
      BY <2>1, <2>2, CountersStep DEF Clock
    <3>3. CASE cnt + 1 = LOOP
      BY <3>1, <3>2, <3>3
    <3>4. CASE cnt + 1 # LOOP
      <4>1. cnt \in Nat /\ cnt' = cnt + 1
        BY <2>2, <2>4, <3>2, <3>4
      <4> QED
        BY <3>1, <4>1
    <3> QED
      BY <3>3, <3>4
  <2>10. RoundsInv'
    <3>1. \A i \in Stage : LOOP * i + Phase' = LOOP * i + cnt + 1
      BY <2>2, <2>4, <2>9, LoopDepth
    <3>2. \A i \in Stage : /\ hashers'[i].round \in {-1, LOOP * i + Phase'}
                           /\ hashers2'[i].round \in {-1, LOOP * i + Phase'}
      BY <2>1, <3>1, PipelinesStep
    <3>3. \A x \in {data', input_d0', input2_d0'} : x.round \in {-1, 0}
      BY <2>1, PipelinesStep
    <3>4. \A x \in {hash', hash2', ticket', reported'} : x.round \in {-1, Rounds}
      BY <2>1, PipelinesStep
    <3> QED
      BY <2>3, <3>2, <3>3, <3>4 DEF RoundsInv
  <2>11. TestInv'
    <3>1. ~feedback_d1' => ~feedback
      BY <2>1 DEF Clock, Counters
    <3>2. ~feedback => cnt = 0
      BY <2>2
    <3>3. ~feedback => cnt' = IF LOOP = 1 THEN 0 ELSE 1
      BY <2>1, <2>2, <2>4, <3>2, CountersStep DEF Clock
    <3> QED
      BY <2>3, <2>4, <3>1, <3>3 DEF TestInv, Since
  <2> QED
    BY <2>8, <2>10, <2>11 DEF TypeInv
<1>2. CASE UNCHANGED vars
  BY <1>2 DEF TypeInv, TypeOK, RoundsInv, Phase, TestInv, Since, vars, control, jobs, first, second, output,
              LOOP, NonceMod, Stage, Item, AgeMax, StaleMax
<1> QED
  BY <1>1, <1>2

(* Every register of the pipelines keeps to its values, for every build.   *)
THEOREM PipelineTypeCorrect == Spec => []TypeOK
<1>1. TypeInv => TypeOK
  BY DEF TypeInv
<1> QED
  BY <1>1, TypeInit, TypeNext, PTL DEF Spec

-----------------------------------------------------------------------------
(* How many nonces ago what is in the pipelines was in data, when the      *)
(* nonce is n.                                                             *)
Ago(n, x, d) == x.round # -1 => \E q \in Int : n - d = q * NonceMod + x.n

Late == IF cnt = 0 THEN 1 ELSE 0

(* The depth of both pipelines and what the tests behind them take.        *)
TestDepth == 2 * Depth + 1 + 2 * R + (IF LOOP = 1 THEN 2 ELSE IF LOOP = 2 THEN 1 ELSE 0)

LagInv ==
    /\ Ago(nonce, data, 0)
    /\ R = 1 => Ago(nonce, input_d0, 1) /\ Ago(nonce, input2_d0, Depth + 3)
    /\ \A i \in Stage : Ago(nonce, hashers[i], i + R + Late)
    /\ Ago(nonce, hash, Depth + R + Late)
    /\ \A i \in Stage : Ago(nonce, hashers2[i], Depth + 1 + 2 * R + i + Late)
    /\ Ago(nonce, hash2, 2 * Depth + 1 + 2 * R + Late)
    /\ Ago(nonce, ticket, TestDepth)

(* The offset of fpgaminer_top.v is that depth.                            *)
LEMMA OffsetIsDepth ==
  ASSUME SourceBuilds, build \in Builds
  PROVE  GoldenOffset = TestDepth
<1> DEFINE k == build.loopLog2
<1>1. k \in 0 .. 5 /\ Rounds = 64 /\ (k = 0 => build.offset = 131 + 2 * R) /\ R \in {0, 1} /\ (R = 1 => k = 0)
  BY PipelineAssumption, LoopDepth DEF SourceBuilds, Build, R
<1>2. /\ 2 ^ 0 = 1 /\ 2 ^ 1 = 2 /\ 2 ^ 2 = 4 /\ 2 ^ 3 = 8 /\ 2 ^ 4 = 16 /\ 2 ^ 5 = 32
      /\ 2 ^ (7 - 2) = 32 /\ 2 ^ (7 - 3) = 16 /\ 2 ^ (7 - 4) = 8 /\ 2 ^ (7 - 5) = 4
  BY SMT
<1>3. CASE k = 0
  BY <1>1, <1>2, <1>3 DEF GoldenOffset, TestDepth, Depth, LOOP
<1>4. CASE k = 1
  BY <1>1, <1>2, <1>4 DEF GoldenOffset, TestDepth, Depth, LOOP
<1>5. CASE k = 2
  BY <1>1, <1>2, <1>5 DEF GoldenOffset, TestDepth, Depth, LOOP
<1>6. CASE k = 3
  BY <1>1, <1>2, <1>6 DEF GoldenOffset, TestDepth, Depth, LOOP
<1>7. CASE k = 4
  BY <1>1, <1>2, <1>7 DEF GoldenOffset, TestDepth, Depth, LOOP
<1>8. CASE k = 5
  BY <1>1, <1>2, <1>8 DEF GoldenOffset, TestDepth, Depth, LOOP
<1> QED
  BY <1>1, <1>3, <1>4, <1>5, <1>6, <1>7, <1>8

LEMMA AgoItself == ASSUME NEW n \in Int, NEW x, x.n = n, NonceMod \in Nat PROVE Ago(n, x, 0)
<1>1. n - 0 = 0 * NonceMod + x.n
  OBVIOUS
<1> QED
  BY <1>1 DEF Ago

(* The clock goes on, and what was d nonces ago is so one more if a new    *)
(* nonce has begun.                                                        *)
LEMMA AgoLater ==
  ASSUME NEW n \in Int, NEW m \in Int, NEW t \in Int, NEW d \in Int, NEW x, NEW y,
         NonceMod \in Nat, x.n \in Int, From(y, x), Ago(n, x, d),
         m = n + t \/ m = n + t - NonceMod
  PROVE  Ago(m, y, d + t)
<1> SUFFICES ASSUME y.round # -1 PROVE \E q \in Int : m - (d + t) = q * NonceMod + y.n
  BY DEF Ago
<1>1. y.n = x.n /\ x.round # -1
  BY DEF From
<1>2. PICK q \in Int : n - d = q * NonceMod + x.n
  BY <1>1 DEF Ago
<1>3. CASE m = n + t
  BY <1>1, <1>2, <1>3
<1>4. CASE m = n + t - NonceMod
  <2>1. (q - 1) * NonceMod = q * NonceMod - NonceMod
    OBVIOUS
  <2>2. q * NonceMod \in Int
    OBVIOUS
  <2>3. m - (d + t) = (q - 1) * NonceMod + y.n
    BY <1>1, <1>2, <1>4, <2>1, <2>2
  <2>4. q - 1 \in Int
    OBVIOUS
  <2> QED
    BY <2>3, <2>4, Zenon
<1> QED
  BY <1>3, <1>4

LEMMA AgoExactly ==
  ASSUME NEW n \in Int, NEW d \in Int, NEW x, x.round # -1, NonceMod \in Nat \ {0},
         x.n \in 0 .. NonceMod - 1, Ago(n, x, d)
  PROVE  (n - d) % NonceMod = x.n
<1>1. PICK q \in Int : n - d = q * NonceMod + x.n
  BY DEF Ago
<1> QED
  BY <1>1, Remainder

LEMMA LagInit == Init => LagInv
<1> SUFFICES ASSUME Init PROVE LagInv
  OBVIOUS
<1>1. Garbage.round = -1 /\ Rounds # -1
  BY PipelineAssumption DEF Garbage
<1>2. \A n, d : Ago(n, Garbage, d)
  BY <1>1 DEF Ago
<1> QED
  BY <1>2 DEF Init, LagInv

LEMMA FreshFrom == ASSUME NEW x PROVE From(Fresh(x), x)
  BY PipelineAssumption DEF Fresh, From, Finished, Garbage

LEMMA FreshSame == ASSUME NEW x PROVE Fresh(x).round # -1 => x.round # -1 /\ Fresh(x).n = x.n
  BY FreshFrom DEF From

LEMMA AddedFrom == ASSUME NEW x, NEW j PROVE From(AddState(x, j), x)
<1>1. Rounds # -1
  BY PipelineAssumption
<1> QED
  BY <1>1 DEF AddState, From, Finished, Garbage

(* What a stage works on, when its transform is given what was in data e   *)
(* nonces ago.                                                             *)
LEMMA SourceAgo ==
  ASSUME build \in Builds, cnt \in 0 .. LOOP - 1, feedback = (cnt # 0), nonce \in 0 .. NonceMod - 1,
         NEW h \in [Stage -> Item], NEW rx \in Item, NEW e \in Int,
         ~feedback => Ago(nonce, rx, e), \A i \in Stage : Ago(nonce, h[i], e + i + Late),
         NEW i \in Stage
  PROVE  Source(h, rx, i) \in Item /\ Ago(nonce, Source(h, rx, i), e + i)
<1>1. i \in Nat /\ (i # 0 => i - 1 \in Stage)
  <2>1. Stage = 0 .. Depth - 1 /\ Depth \in Nat
    BY LoopDepth
  <2> QED
    BY <2>1
<1>2. (feedback => Late = 0) /\ (~feedback => Late = 1)
  <2>1. (feedback => cnt # 0) /\ (~feedback => cnt = 0)
    OBVIOUS
  <2> QED
    BY <2>1 DEF Late
<1>3. CASE feedback
  BY <1>1, <1>2, <1>3 DEF Source
<1>4. CASE ~feedback /\ i = 0
  BY <1>4 DEF Source
<1>5. CASE ~feedback /\ i # 0
  <2>1. i - 1 \in Stage /\ e + (i - 1) + Late = e + i
    BY <1>1, <1>2, <1>5
  <2>2. h[i - 1] \in Item /\ Ago(nonce, h[i - 1], e + (i - 1) + Late)
    BY <2>1
  <2> QED
    BY <1>5, <2>1, <2>2 DEF Source
<1> QED
  BY <1>3, <1>4, <1>5

LEMMA LagNext ==
  ASSUME TypeInv, LagInv, Next
  PROVE  LagInv'
<1>1. build' = build /\ Clock
  BY DEF Next
<1>2. /\ build \in Builds
      /\ cnt \in 0 .. LOOP - 1 /\ feedback = (cnt # 0) /\ feedback_d1 \in BOOLEAN /\ nonce \in 0 .. NonceMod - 1
      /\ {data, input_d0, input2_d0, hash, hash2, ticket, reported} \subseteq Item
      /\ hashers \in [Stage -> Item] /\ hashers2 \in [Stage -> Item]
  BY DEF TypeInv, TypeOK
<1>3. /\ LOOP \in Nat \ {0} /\ Depth \in Nat \ {0} /\ NonceMod \in Nat \ {0} /\ R \in {0, 1} /\ (R = 1 => LOOP = 1)
      /\ Last \in Stage /\ Last = Depth - 1 /\ Stage = 0 .. Depth - 1
  BY <1>2, LoopDepth
<1>4. /\ LOOP' = LOOP /\ NonceMod' = NonceMod /\ Stage' = Stage /\ Depth' = Depth /\ R' = R
      /\ TestDepth' = TestDepth
  BY <1>1 DEF LOOP, NonceMod, Stage, Depth, R, TestDepth
<1>5. /\ cnt' \in 0 .. LOOP - 1
      /\ cnt + 1 = LOOP => cnt' = 0
      /\ cnt + 1 # LOOP => cnt' = cnt + 1
      /\ nonce' \in 0 .. NonceMod - 1 /\ cnt' = cnt_next
      /\ nonce' = nonce + Tick \/ nonce' = nonce + Tick - NonceMod
  BY <1>1, <1>2, CountersStep DEF Clock
<1>6. Tick \in {0, 1} /\ Late' = Tick /\ Late \in {0, 1} /\ (LOOP = 1 => Tick = 1 /\ cnt = 0)
  BY <1>2, <1>3, <1>5 DEF Tick, Late
<1>7. /\ (feedback => Late = 0) /\ (~feedback => Late = 1)
      /\ (LOOP = 1 => ~feedback)
  <2>1. (feedback => cnt # 0) /\ (~feedback => cnt = 0)
    BY <1>2
  <2> QED
    BY <2>1, <1>6 DEF Late
<1>8. ASSUME NEW x, NEW y, x.n \in Int, From(y, x), NEW d \in Int, Ago(nonce, x, d)
      PROVE  Ago(nonce', y, d + Tick)
  BY <1>2, <1>3, <1>5, <1>6, <1>8, AgoLater
<1>9. \A x : x.n \in Int => From(x, x)
  BY DEF From
<1>10. ASSUME NEW x \in Item PROVE x.n \in Int /\ x.n \in 0 .. NonceMod - 1
  BY <1>3 DEF Item
<1>11. Ago(nonce', data', 0)
  <2>1. data'.n = nonce'
    BY <1>1, PipelinesStep
  <2> QED
    BY <1>3, <1>5, <2>1, AgoItself
<1>12. R = 1 => Ago(nonce', input_d0', 1) /\ Ago(nonce', input2_d0', Depth + 3)
  <2> SUFFICES ASSUME R = 1 PROVE Ago(nonce', input_d0', 1) /\ Ago(nonce', input2_d0', Depth + 3)
    OBVIOUS
  <2>1. input_d0' = data /\ input2_d0' = Fresh(hash) /\ Tick = 1 /\ Late = 1
    BY <1>1, <1>3, <1>6, <1>7 DEF Clock, FirstTransform, SecondTransform, R
  <2>2. Ago(nonce', data, 0 + Tick)
    BY <1>2, <1>8, <1>9, <1>10 DEF LagInv
  <2>3. From(Fresh(hash), hash) /\ hash \in Item
    BY <1>2, FreshFrom
  <2>4. Depth + 2 \in Int /\ Ago(nonce, hash, Depth + 2)
    <3>1. Depth + R + Late = Depth + 2
      BY <1>3, <2>1
    <3> QED
      BY <1>3, <3>1 DEF LagInv
  <2>5. Ago(nonce', Fresh(hash), (Depth + 2) + Tick)
    BY <1>8, <1>10, <2>3, <2>4
  <2>6. (Depth + 2) + Tick = Depth + 3 /\ 0 + Tick = 1
    BY <1>3, <2>1
  <2> QED
    BY <2>1, <2>2, <2>5, <2>6
<1>13. ASSUME NEW i \in Stage
       PROVE  Ago(nonce', hashers'[i], i + R + Tick)
  <2> DEFINE rx == TransformInput(data, input_d0)
             x  == Source(hashers, rx, i)
  <2>1. From(hashers'[i], x)
    BY <1>1, PipelinesStep
  <2>2. rx \in Item /\ Ago(nonce, rx, R)
    BY <1>2, <1>3 DEF TransformInput, LagInv, R
  <2>3. \A j \in Stage : Ago(nonce, hashers[j], R + j + Late)
    <3>1. ASSUME NEW j \in Stage PROVE Ago(nonce, hashers[j], R + j + Late)
      <4>1. R + j + Late = j + R + Late
        BY <1>3, <1>6
      <4> QED
        BY <4>1 DEF LagInv
    <3> QED
      BY <3>1
  <2>4. R \in Int /\ R + i \in Int
    BY <1>3
  <2> HIDE DEF rx
  <2>7. Source(hashers, rx, i) \in Item /\ Ago(nonce, Source(hashers, rx, i), R + i)
    BY <1>2, <2>2, <2>3, <2>4, SourceAgo
  <2>5. Ago(nonce', hashers'[i], (R + i) + Tick)
    BY <1>8, <1>10, <2>1, <2>4, <2>7 DEF x
  <2>6. (R + i) + Tick = i + R + Tick
    BY <1>3, <1>6
  <2> QED
    BY <2>5, <2>6
<1>14. ASSUME ~feedback, NEW h \in [Stage -> Item], NEW e \in Int,
              Ago(nonce, h[Last], e + Last + Late), NEW y, From(y, h[Last])
       PROVE  Ago(nonce', y, e + Depth + Tick)
  <2>1. e + Last + Late = e + Depth /\ h[Last].n \in Int /\ e + Depth \in Int
    BY <1>3, <1>7, <1>10, <1>14
  <2> QED
    BY <1>8, <1>14, <2>1
<1>15. Ago(nonce', hash', Depth + R + Tick)
  <2>1. CASE feedback
    <3>1. hash' = hash /\ Late = 0
      BY <1>1, <1>7, <2>1 DEF Clock, FirstTransform
    <3>2. Depth + R + Late = Depth + R /\ Depth + R \in Int
      BY <1>3, <3>1
    <3>3. Ago(nonce, hash, Depth + R)
      BY <3>2 DEF LagInv
    <3> QED
      BY <1>2, <1>8, <1>9, <1>10, <3>1, <3>2, <3>3
  <2>2. CASE ~feedback
    <3>1. From(hash', hashers[Last])
      BY <1>1, <2>2, AddedFrom DEF Clock, FirstTransform
    <3>2. Ago(nonce, hashers[Last], Last + R + Late) /\ Last + R + Late = R + Last + Late
      BY <1>3, <1>6 DEF LagInv
    <3>3. Ago(nonce', hash', R + Depth + Tick)
      BY <1>2, <1>3, <1>14, <2>2, <3>1, <3>2
    <3>4. R + Depth + Tick = Depth + R + Tick
      BY <1>3, <1>6
    <3> QED
      BY <3>3, <3>4
  <2> QED
    BY <2>1, <2>2
<1>16. ASSUME NEW i \in Stage
       PROVE  Ago(nonce', hashers2'[i], Depth + 1 + 2 * R + i + Tick)
  <2> DEFINE rx == TransformInput(Fresh(hash), input2_d0)
             e  == Depth + 1 + 2 * R
  <2>1. From(hashers2'[i], Source(hashers2, rx, i))
    BY <1>1, PipelinesStep
  <2>2. Fresh(hash) \in Item /\ e \in Int /\ e + i \in Int
    BY <1>2, <1>3, ItemType
  <2>3. rx \in Item
    BY <1>2, <2>2 DEF TransformInput
  <2>4. ~feedback => Ago(nonce, rx, e)
    <3> SUFFICES ASSUME ~feedback PROVE Ago(nonce, rx, e)
      OBVIOUS
    <3>1. CASE R = 1
      BY <1>3, <3>1 DEF LagInv, TransformInput, R
    <3>2. CASE R = 0
      <4>1. rx = Fresh(hash)
        BY <3>2 DEF TransformInput, R
      <4>2. Depth + R + Late = e
        BY <1>3, <1>7, <3>2
      <4>3. Ago(nonce, hash, e)
        BY <4>2 DEF LagInv
      <4>4. Ago(nonce, Fresh(hash), e)
        BY <4>3, FreshSame DEF Ago
      <4> QED
        BY <4>1, <4>4
    <3> QED
      BY <1>3, <3>1, <3>2
  <2>5. \A j \in Stage : Ago(nonce, hashers2[j], e + j + Late)
    BY DEF LagInv
  <2> HIDE DEF rx, e
  <2>6. Source(hashers2, rx, i) \in Item /\ Ago(nonce, Source(hashers2, rx, i), e + i)
    BY <1>2, <2>2, <2>3, <2>4, <2>5, SourceAgo
  <2>7. Ago(nonce', hashers2'[i], (e + i) + Tick)
    BY <1>8, <1>10, <2>1, <2>2, <2>6
  <2> QED
    BY <2>7 DEF e
<1>17. Ago(nonce', hash2', 2 * Depth + 1 + 2 * R + Tick)
  <2>1. CASE feedback
    <3>1. hash2' = hash2 /\ Late = 0
      BY <1>1, <1>7, <2>1 DEF Clock, SecondTransform
    <3>2. 2 * Depth + 1 + 2 * R + Late = 2 * Depth + 1 + 2 * R /\ 2 * Depth + 1 + 2 * R \in Int
      BY <1>3, <3>1
    <3>3. Ago(nonce, hash2, 2 * Depth + 1 + 2 * R)
      BY <3>2 DEF LagInv
    <3> QED
      BY <1>2, <1>8, <1>9, <1>10, <3>1, <3>2, <3>3
  <2>2. CASE ~feedback
    <3>1. From(hash2', hashers2[Last])
      BY <1>1, <2>2, AddedFrom DEF Clock, SecondTransform
    <3>2. Ago(nonce, hashers2[Last], (Depth + 1 + 2 * R) + Last + Late) /\ Depth + 1 + 2 * R \in Int
      BY <1>3 DEF LagInv
    <3>3. Ago(nonce', hash2', (Depth + 1 + 2 * R) + Depth + Tick)
      BY <1>2, <1>14, <2>2, <3>1, <3>2
    <3>4. (Depth + 1 + 2 * R) + Depth + Tick = 2 * Depth + 1 + 2 * R + Tick
      BY <1>3, <1>6
    <3> QED
      BY <3>3, <3>4
  <2> QED
    BY <2>1, <2>2
<1>18. Ago(nonce', ticket', TestDepth)
  <2>1. CASE feedback_d1
    BY <1>1, <2>1 DEF Clock, TestHash, Ago, Garbage
  <2>2. CASE ~feedback_d1
    <3>1. ticket' = hash2
      BY <1>1, <2>2 DEF Clock, TestHash
    <3>2. cnt = IF LOOP = 1 THEN 0 ELSE 1
      <4>1. Since = 0
        BY <2>2 DEF TypeInv, TestInv
      <4> QED
        BY <1>2, <1>3, <4>1 DEF Since
    <3>3. Late + Tick = IF LOOP = 1 THEN 2 ELSE IF LOOP = 2 THEN 1 ELSE 0
      BY <1>3, <1>5, <3>2 DEF Late, Tick
    <3>4. 2 * Depth + 1 + 2 * R + Late \in Int /\ Ago(nonce, hash2, 2 * Depth + 1 + 2 * R + Late)
      BY <1>3, <1>6 DEF LagInv
    <3>5. Ago(nonce', hash2, (2 * Depth + 1 + 2 * R + Late) + Tick)
      BY <1>2, <1>8, <1>9, <1>10, <3>4
    <3>6. (2 * Depth + 1 + 2 * R + Late) + Tick = TestDepth
      BY <1>3, <1>6, <3>3 DEF TestDepth
    <3> QED
      BY <3>1, <3>5, <3>6
  <2> QED
    BY <2>1, <2>2
<1> QED
  BY <1>4, <1>6, <1>11, <1>12, <1>13, <1>15, <1>16, <1>17, <1>18 DEF LagInv, Ago

LEMMA LagStutter == LagInv /\ UNCHANGED vars => LagInv'
  BY DEF LagInv, Ago, Late, R, Depth, LOOP, NonceMod, Stage, TestDepth,
         vars, control, jobs, first, second, output

LEMMA TypeLag == Spec => [](TypeInv /\ LagInv)
<1>1. Init => TypeInv /\ LagInv
  BY TypeInit, LagInit
<1>2. TypeInv /\ LagInv /\ [Next]_vars => TypeInv' /\ LagInv'
  BY TypeNext, LagNext, LagStutter
<1> QED
  BY <1>1, <1>2, PTL DEF Spec

LEMMA GoldenStep ==
  ASSUME SourceBuilds, TypeInv, LagInv, GoldenNonceRight, [Next]_vars
  PROVE  GoldenNonceRight'
<1>1. CASE Next /\ Finished(ticket)
  <2>1. golden_nonce' = (nonce - GoldenOffset) % NonceMod /\ reported' = ticket
    BY <1>1 DEF Next, Clock, Report
  <2>2. build \in Builds /\ nonce \in Int /\ ticket \in Item
    BY DEF TypeInv, TypeOK
  <2>3. NonceMod \in Nat \ {0} /\ Depth \in Int /\ R \in Int
    BY <2>2, LoopDepth
  <2>4. ticket.round # -1 /\ ticket.n \in 0 .. NonceMod - 1
    BY <1>1, <2>2, PipelineAssumption DEF Finished, Item
  <2>5. GoldenOffset \in Int /\ Ago(nonce, ticket, GoldenOffset)
    BY <2>2, <2>3, OffsetIsDepth DEF LagInv, TestDepth
  <2> QED
    BY <2>1, <2>2, <2>3, <2>4, <2>5, AgoExactly DEF GoldenNonceRight
<1>2. CASE Next /\ ~Finished(ticket)
  BY <1>2 DEF Next, Clock, Report, GoldenNonceRight, Finished
<1>3. CASE UNCHANGED vars
  BY <1>3 DEF vars, output, GoldenNonceRight, Finished
<1> QED
  BY <1>1, <1>2, <1>3

(* The nonce reported is the one the golden hash was computed from, for    *)
(* every LOOP_LOG2, both cores and every width of the nonce counter, which *)
(* may wrap meanwhile (fpgaminer_top.v, GOLDEN_NONCE_OFFSET).              *)
THEOREM OffsetFindsNonce ==
  ASSUME SourceBuilds
  PROVE  Spec => []GoldenNonceRight
<1>1. Init => GoldenNonceRight
  BY PipelineAssumption DEF Init, GoldenNonceRight, Finished, Garbage
<1> QED
  BY <1>1, TypeLag, GoldenStep, PTL DEF Spec

-----------------------------------------------------------------------------
(* What is of the job on the wires, when that has been there for a number  *)
(* of clocks a.  Every round takes a clock, so that the rounds of what is  *)
(* in the second transform tell how long it has been there.                *)

Newest(x, t, a, job) == x.round # -1 /\ a >= t => x.job = job

AgeInv ==
    /\ age >= 1 => job_buf = job_vw
    /\ age >= 2 => data.job = job_vw
    /\ Newest(hash, 3 + Since, age, job_vw)
    /\ R = 1 => Newest(input2_d0, 4, age, job_vw)
    /\ \A i \in Stage : Newest(hashers2[i], LOOP + 2 + R + LOOP * i + Phase, age, job_vw)
    /\ Newest(hash2, LOOP + 3 + R + Rounds + Since, age, job_vw)
    /\ Newest(ticket, LOOP + 4 + R + Rounds, age, job_vw)

LEMMA AgeInit == Init => AgeInv
<1> SUFFICES ASSUME Init PROVE AgeInv
  OBVIOUS
<1>1. Garbage.round = -1 /\ Garbage.job = 0
  BY DEF Garbage
<1> QED
  BY <1>1 DEF Init, AgeInv, Newest

LEMMA AgeNext ==
  ASSUME TypeInv, AgeInv, Next
  PROVE  AgeInv'
<1>1. build' = build /\ Clock /\ NewJob
  BY DEF Next
<1>2. /\ build \in Builds
      /\ cnt \in 0 .. LOOP - 1 /\ feedback = (cnt # 0) /\ feedback_d1 \in BOOLEAN /\ age \in 0 .. AgeMax
      /\ {data, input_d0, input2_d0, hash, hash2, ticket, reported} \subseteq Item
      /\ hashers \in [Stage -> Item] /\ hashers2 \in [Stage -> Item] /\ nonce \in 0 .. NonceMod - 1
  BY DEF TypeInv, TypeOK
<1>3. /\ LOOP \in Nat \ {0} /\ Depth \in Nat \ {0} /\ R \in {0, 1} /\ (R = 1 => LOOP = 1) /\ LOOP * Depth = Rounds
      /\ Last \in Stage /\ Last = Depth - 1 /\ Stage = 0 .. Depth - 1 /\ 0 \in Stage /\ Rounds \in Nat
      /\ \A i \in Stage : LOOP * i \in Nat
  BY <1>2, LoopDepth, PipelineAssumption
<1>4. LOOP' = LOOP /\ Stage' = Stage /\ R' = R
  BY <1>1 DEF LOOP, Stage, R
<1>5. (feedback => cnt # 0) /\ (~feedback => cnt = 0)
  BY <1>2
<1>6. cnt' = IF cnt + 1 = LOOP THEN 0 ELSE cnt + 1
  BY <1>1, <1>2, CountersStep DEF Clock
<1>7. Phase' = cnt + 1 /\ (feedback => Phase = cnt) /\ (~feedback => Phase = LOOP)
  <2>1. Phase' = IF cnt' = 0 THEN LOOP ELSE cnt'
    BY <1>4 DEF Phase
  <2>2. cnt + 1 = LOOP => Phase' = cnt + 1
    BY <1>6, <2>1
  <2>3. cnt + 1 # LOOP => Phase' = cnt + 1
    BY <1>2, <1>3, <1>6, <2>1
  <2> QED
    BY <1>5, <2>2, <2>3 DEF Phase
<1>8. /\ feedback => Since' = Since + 1
      /\ ~feedback => Since' = 0 /\ Since = LOOP - 1
      /\ Since \in Nat /\ Since' \in Nat
  <2>1. Since' = IF cnt' = 0 THEN LOOP - 1 ELSE cnt' - 1
    BY <1>4 DEF Since
  <2>2. Since' = cnt
    BY <1>2, <1>3, <1>6, <2>1
  <2>3. feedback => Since = cnt - 1 /\ cnt # 0
    BY <1>5 DEF Since
  <2>4. ~feedback => Since = LOOP - 1 /\ cnt = 0
    BY <1>5 DEF Since
  <2>5. cnt \in Nat /\ LOOP - 1 \in Nat
    BY <1>2, <1>3
  <2> QED
    BY <2>2, <2>3, <2>4, <2>5
<1>9. age' \in Nat /\ age \in Nat /\ (age' = 0 \/ (job_vw' = job_vw /\ age' <= age + 1))
  <2>1. AgeMax \in Nat
    BY <1>3 DEF AgeMax, StaleMax, R
  <2> QED
    BY <1>1, <1>2, <2>1 DEF NewJob
<1>10. ASSUME NEW x, NEW y, From(y, x), NEW t \in Nat, Newest(x, t, age, job_vw)
       PROVE  Newest(y, t + 1, age', job_vw')
  BY <1>9, <1>10 DEF Newest, From
<1>11. \A x : From(x, x)
  BY DEF From
<1>12. (age' >= 1 => job_buf' = job_vw') /\ (age' >= 2 => data'.job = job_vw')
  <2>1. job_buf' = job_vw /\ data'.job = job_buf
    BY <1>1 DEF Clock, Buffers
  <2> QED
    BY <1>9, <2>1 DEF AgeInv
<1>13. Newest(hash', 3 + Since', age', job_vw')
  <2>1. CASE feedback
    <3>1. hash' = hash /\ (3 + Since) + 1 = 3 + Since' /\ 3 + Since \in Nat
      BY <1>1, <1>8, <2>1 DEF Clock, FirstTransform
    <3>2. Newest(hash, 3 + Since, age, job_vw)
      BY DEF AgeInv
    <3>3. Newest(hash, (3 + Since) + 1, age', job_vw')
      BY <1>10, <1>11, <3>1, <3>2
    <3> QED
      BY <3>1, <3>3
  <2>2. CASE ~feedback
    <3>1. hash'.round # -1 => hash'.job = data.job
      BY <1>1, <2>2, PipelineAssumption DEF Clock, FirstTransform, AddState, Garbage, Finished
    <3> QED
      BY <1>8, <1>9, <2>2, <3>1 DEF AgeInv, Newest
  <2> QED
    BY <2>1, <2>2
<1>14. R = 1 => Newest(input2_d0', 4, age', job_vw')
  <2> SUFFICES ASSUME R = 1 PROVE Newest(input2_d0', 4, age', job_vw')
    OBVIOUS
  <2>1. input2_d0' = Fresh(hash) /\ LOOP = 1
    BY <1>1, <1>3 DEF Clock, SecondTransform, R
  <2>2. 3 + Since = 3
    BY <1>2, <2>1 DEF Since
  <2>3. Newest(Fresh(hash), 3 + 1, age', job_vw')
    BY <1>10, <2>2, FreshFrom DEF AgeInv
  <2> QED
    BY <2>1, <2>3
<1>15. ASSUME NEW i \in Stage
       PROVE  Newest(hashers2'[i], LOOP + 2 + R + LOOP * i + Phase', age', job_vw')
  <2> DEFINE rx == TransformInput(Fresh(hash), input2_d0)
             x  == Source(hashers2, rx, i)
             t  == LOOP + 2 + R + LOOP * i + cnt
  <2>1. From(hashers2'[i], x)
    BY <1>1, PipelinesStep
  <2>2. LOOP * i \in Nat /\ t \in Nat /\ t + 1 = LOOP + 2 + R + LOOP * i + Phase'
    BY <1>2, <1>3, <1>7
  <2>3. Newest(x, t, age, job_vw)
    <3>1. CASE feedback
      BY <1>7, <3>1 DEF AgeInv, Source
    <3>2. CASE ~feedback /\ i = 0
      <4>1. t = LOOP + 2 + R /\ x = rx
        BY <1>3, <1>5, <3>2 DEF Source
      <4>2. CASE R = 1
        BY <1>3, <4>1, <4>2 DEF AgeInv, TransformInput, R
      <4>3. CASE R = 0
        <5>1. 3 + Since = t /\ rx = Fresh(hash)
          BY <1>3, <1>8, <3>2, <4>1, <4>3 DEF TransformInput, R
        <5>2. Newest(hash, t, age, job_vw)
          BY <5>1 DEF AgeInv
        <5> QED
          BY <4>1, <5>1, <5>2, FreshFrom DEF Newest, From
      <4> QED
        BY <1>3, <4>2, <4>3
    <3>3. CASE ~feedback /\ i # 0
      <4>1. i - 1 \in Stage /\ LOOP * (i - 1) + LOOP = LOOP * i
        BY <1>2, <1>3, <3>3, RoundOfStage
      <4>2. LOOP + 2 + R + LOOP * (i - 1) + Phase = t
        BY <1>3, <1>5, <1>7, <2>2, <3>3, <4>1
      <4> QED
        BY <3>3, <4>1, <4>2 DEF AgeInv, Source
    <3> QED
      BY <3>1, <3>2, <3>3
  <2> HIDE DEF x, t
  <2> QED
    BY <1>10, <2>1, <2>2, <2>3
<1>16. Newest(hash2', LOOP + 3 + R + Rounds + Since', age', job_vw')
  <2>1. CASE feedback
    <3> DEFINE t == LOOP + 3 + R + Rounds + Since
    <3>1. hash2' = hash2 /\ t + 1 = LOOP + 3 + R + Rounds + Since' /\ t \in Nat
      BY <1>1, <1>3, <1>8, <2>1 DEF Clock, SecondTransform
    <3>2. Newest(hash2, t, age, job_vw)
      BY DEF AgeInv
    <3> HIDE DEF t
    <3>3. Newest(hash2, t + 1, age', job_vw')
      BY <1>10, <1>11, <3>1, <3>2
    <3> QED
      BY <3>1, <3>3
  <2>2. CASE ~feedback
    <3> DEFINE t == LOOP + 2 + R + LOOP * Last + Phase
    <3>1. From(hash2', hashers2[Last])
      BY <1>1, <2>2, AddedFrom DEF Clock, SecondTransform
    <3>2. LOOP * Last + LOOP = Rounds
      BY <1>3
    <3>3. t \in Nat /\ t + 1 = LOOP + 3 + R + Rounds + Since'
      BY <1>3, <1>7, <1>8, <2>2, <3>2
    <3>4. Newest(hashers2[Last], t, age, job_vw)
      BY <1>3 DEF AgeInv
    <3> HIDE DEF t
    <3> QED
      BY <1>10, <3>1, <3>3, <3>4
  <2> QED
    BY <2>1, <2>2
<1>17. Newest(ticket', LOOP + 4 + R + Rounds, age', job_vw')
  <2>1. CASE feedback_d1
    BY <1>1, <2>1 DEF Clock, TestHash, Newest, Garbage
  <2>2. CASE ~feedback_d1
    <3> DEFINE t == LOOP + 3 + R + Rounds
    <3>1. ticket' = hash2 /\ Since = 0
      BY <1>1, <2>2 DEF Clock, TestHash, TypeInv, TestInv
    <3>2. t \in Nat /\ t + 1 = LOOP + 4 + R + Rounds /\ LOOP + 3 + R + Rounds + Since = t
      BY <1>3, <3>1
    <3>3. Newest(hash2, t, age, job_vw)
      BY <3>2 DEF AgeInv
    <3> HIDE DEF t
    <3>4. Newest(hash2, t + 1, age', job_vw')
      BY <1>10, <1>11, <3>2, <3>3
    <3> QED
      BY <3>1, <3>2, <3>4
  <2> QED
    BY <2>1, <2>2
<1> QED
  BY <1>4, <1>12, <1>13, <1>14, <1>15, <1>16, <1>17 DEF AgeInv, Newest

LEMMA AgeStutter == AgeInv /\ UNCHANGED vars => AgeInv'
  BY DEF AgeInv, Newest, Since, Phase, R, LOOP, Stage, vars, control, jobs, first, second, output

(* Nonces of the job before the one on the wires are reported for one      *)
(* transform's latency after the change and no longer, for every build and *)
(* number of rounds, changed at whatever clock (fpgaminer_top.v,           *)
(* sha256_transform.v).                                                    *)
THEOREM OldJobSoonOver == Spec => StaleBounded
<1>1. Init => TypeInv /\ AgeInv
  BY TypeInit, AgeInit
<1>2. TypeInv /\ AgeInv /\ [Next]_vars => TypeInv' /\ AgeInv'
  BY TypeNext, AgeNext, AgeStutter
<1>3. TypeInv /\ AgeInv /\ [Next]_vars => [reported' # reported /\ age > StaleMax => reported'.job = job_vw]_vars
  <2> SUFFICES ASSUME TypeInv, AgeInv, Next, reported' # reported, age > StaleMax
               PROVE  reported'.job = job_vw
    OBVIOUS
  <2>1. reported' = ticket /\ ticket.round # -1
    BY PipelineAssumption DEF Next, Clock, Report, Finished
  <2>2. build \in Builds /\ age \in Int
    BY DEF TypeInv, TypeOK, AgeMax, StaleMax
  <2>3. LOOP \in Int /\ R \in Int /\ Rounds \in Int
    BY <2>2, LoopDepth, PipelineAssumption
  <2>4. age >= LOOP + 4 + R + Rounds
    BY <2>2, <2>3 DEF StaleMax, R
  <2> QED
    BY <2>1, <2>4 DEF AgeInv, Newest
<1> QED
  BY <1>1, <1>2, <1>3, PTL DEF Spec, StaleBounded

-----------------------------------------------------------------------------
(* The jobs in the pipelines, in the order of the clocks they came in: of  *)
(* the first transform and what feeds it, and of the second and what is    *)
(* behind it, up to the hash last reported.                                *)

JobOf(x) == IF x.round = -1 THEN -1 ELSE x.job

FirstEnd == Depth + R
FirstItem(k) == IF k = 0 THEN data ELSE IF k <= R THEN input_d0 ELSE hashers[k - R - 1]

Front == Depth + R + (IF LOOP = 1 THEN 2 ELSE 1)
SecondItem(k) ==
    IF k = 0 THEN hash ELSE IF k <= R THEN input2_d0
    ELSE IF k <= Depth + R THEN hashers2[k - R - 1]
    ELSE IF k = Depth + R + 1 THEN hash2 ELSE ticket

Before == [k \in 0 .. FirstEnd |-> JobOf(FirstItem(k))]
After  == [k \in 0 .. Front + 1 |-> IF k <= Front THEN JobOf(SecondItem(k)) ELSE JobOf(reported)]

(* Jobs follow each other without gaps: between two hashes of one job      *)
(* there is nothing but hashes of it.  What the first transform drops is   *)
(* of a job that is over.                                                  *)
InOrder(e, g) ==
    /\ \A i, j \in DOMAIN e : i < j /\ e[j] >= 0 => e[i] >= e[j]
    /\ \A p \in DOMAIN g : \A i \in DOMAIN e : g[p] >= 0 => e[i] >= g[p]
    /\ \A q, p \in DOMAIN g : q < p /\ g[p] >= 0 /\ g[q] >= 0 => g[q] >= g[p]
    /\ \A r, p \in DOMAIN g : r < p /\ g[p] >= 0 /\ g[r] = -1 => g[p] < e[0]
    /\ \A q, r, p \in DOMAIN g : q < r /\ r < p /\ g[p] >= 0 /\ g[r] = -1 /\ g[q] >= 0 => g[p] < g[q]

(* The clock of a loop in which a hash is reported, if it is golden.       *)
Reporting == cnt = IF LOOP > 2 THEN 2 ELSE 0

(* How long ago it was in data what is reported, if no other job's hash    *)
(* and no gap has come since.                                              *)
ReportAge == TestDepth + IF cnt <= IF LOOP > 2 THEN 2 ELSE 0 THEN 1 ELSE 0

FlowInv ==
    /\ InOrder(Before, After)
    /\ data.job <= job_buf /\ (\A k \in 0 .. FirstEnd : Before[k] <= job_buf) /\ job_buf <= job_vw
    /\ LOOP > 1 /\ cnt = 1 => ~feedback_d1
    /\ LOOP = 1 /\ feedback_d1 => hash2.round = -1
    /\ LOOP > 1 => JobOf(ticket) = IF Reporting THEN JobOf(hash2) ELSE -1
    /\ JobOf(reported) >= 0 /\ (\E q \in 0 .. Front : After[q] = JobOf(reported))
         => Ago(nonce, reported, ReportAge)

(* Positions may be left out of an order, or doubled.                      *)
Places(o, f, g, F, L, H) ==
    /\ g \in [L .. H -> Int] /\ f \in [0 .. F -> Int] /\ o \in [0 .. F -> L .. H]
    /\ \A p \in 0 .. F : f[p] = g[o[p]]
    /\ \A q, p \in 0 .. F : q < p => o[q] <= o[p]

LEMMA OrderOfSome ==
  ASSUME NEW D \in Nat, NEW F \in Nat, NEW H \in Int, NEW L \in Int, NEW g, NEW f, NEW o,
         NEW e \in [0 .. D -> Int], InOrder(e, g), Places(o, f, g, F, L, H)
  PROVE  InOrder(e, f)
<1> USE DEF Places
<1>1. \A i, j \in DOMAIN e : i < j /\ e[j] >= 0 => e[i] >= e[j]
  BY DEF InOrder
<1>2. ASSUME NEW p \in DOMAIN f, NEW i \in DOMAIN e, f[p] >= 0 PROVE e[i] >= f[p]
  BY <1>2 DEF InOrder
<1>3. ASSUME NEW q \in DOMAIN f, NEW p \in DOMAIN f, q < p, f[p] >= 0, f[q] >= 0 PROVE f[q] >= f[p]
  <2>1. o[q] \in L .. H /\ o[p] \in L .. H /\ o[q] <= o[p] /\ f[p] = g[o[p]] /\ f[q] = g[o[q]]
    BY <1>3
  <2>2. CASE o[q] = o[p]
    BY <1>3, <2>1, <2>2
  <2>3. CASE o[q] < o[p]
    BY <1>3, <2>1, <2>3 DEF InOrder
  <2> QED
    BY <2>1, <2>2, <2>3
<1>4. ASSUME NEW r \in DOMAIN f, NEW p \in DOMAIN f, r < p, f[p] >= 0, f[r] = -1 PROVE f[p] < e[0]
  <2>1. o[r] \in L .. H /\ o[p] \in L .. H /\ o[r] <= o[p] /\ f[p] = g[o[p]] /\ f[r] = g[o[r]]
    BY <1>4
  <2>2. o[r] # o[p]
    BY <1>4, <2>1
  <2>3. o[r] < o[p]
    BY <2>1, <2>2
  <2> QED
    BY <1>4, <2>1, <2>3 DEF InOrder
<1>5. ASSUME NEW q \in DOMAIN f, NEW r \in DOMAIN f, NEW p \in DOMAIN f, q < r, r < p,
             f[p] >= 0, f[r] = -1, f[q] >= 0
      PROVE  f[p] < f[q]
  <2>1. /\ o[r] \in L .. H /\ o[p] \in L .. H /\ o[q] \in L .. H /\ o[r] <= o[p] /\ o[q] <= o[r]
        /\ f[p] = g[o[p]] /\ f[r] = g[o[r]] /\ f[q] = g[o[q]]
    BY <1>5
  <2>2. o[r] # o[p] /\ o[q] # o[r]
    <3>1. f[r] # f[p] /\ f[q] # f[r]
      <4>1. \A a \in Int : a >= 0 => a # -1
        OBVIOUS
      <4>2. f[p] \in Int /\ f[q] \in Int
        BY <2>1
      <4> QED
        BY <1>5, <4>1, <4>2, Zenon
    <3> QED
      BY <2>1, <3>1, Zenon
  <2>3. o[r] < o[p] /\ o[q] < o[r]
    <3>1. o[r] \in Int /\ o[p] \in Int /\ o[q] \in Int
      BY <2>1
    <3>2. \A a, b \in Int : a <= b /\ a # b => a < b
      OBVIOUS
    <3> QED
      BY <2>1, <2>2, <3>1, <3>2, Zenon
  <2>4. \A i, k, j \in DOMAIN g : i < k /\ k < j /\ g[j] >= 0 /\ g[k] = -1 /\ g[i] >= 0 => g[j] < g[i]
    BY DEF InOrder
  <2>5. DOMAIN g = L .. H
    OBVIOUS
  <2> QED
    BY <1>5, <2>1, <2>3, <2>4, <2>5, Zenon
<1> QED
  BY <1>1, <1>2, <1>3, <1>4, <1>5 DEF InOrder

(* A job comes in, and the first transform puts one out if it is the one   *)
(* on its input.                                                           *)
Shift(e, f, g, h, D, F, b) ==
    /\ e \in [0 .. D -> Int] /\ f \in [0 .. D -> Int] /\ g \in [0 .. F -> Int] /\ h \in [-1 .. F -> Int]
    /\ \A i \in 0 .. D : e[i] <= b /\ e[i] >= -1
    /\ f[0] = b /\ \A k \in 1 .. D : f[k] = e[k - 1]
    /\ h[-1] = IF e[D] = e[0] THEN e[0] ELSE -1
    /\ \A k \in 0 .. F : h[k] = g[k]

LEMMA OrderOfShift ==
  ASSUME NEW D \in Nat, NEW F \in Nat, NEW b \in Nat, NEW e, NEW f, NEW g, NEW h,
         InOrder(e, g), Shift(e, f, g, h, D, F, b)
  PROVE  InOrder(f, h)
<1> USE DEF Shift
<1> USE DEF InOrder
<1>1. ASSUME NEW i \in 0 .. D, NEW j \in 0 .. D, i < j, f[j] >= 0 PROVE f[i] >= f[j]
  <2>1. j - 1 \in 0 .. D /\ f[j] = e[j - 1]
    BY <1>1
  <2>2. CASE i = 0
    BY <2>1, <2>2
  <2>3. CASE i # 0
    BY <1>1, <2>1, <2>3, i - 1 \in 0 .. D
  <2> QED
    BY <2>2, <2>3
<1>2. ASSUME NEW i \in 0 .. D PROVE f[i] = b \/ \E k \in 0 .. D : f[i] = e[k]
  <2>1. i # 0 => i - 1 \in 0 .. D
    OBVIOUS
  <2> QED
    BY <2>1
<1>3. h[-1] >= 0 => h[-1] = e[0] /\ \A i \in 0 .. D : e[i] >= e[0]
  <2> SUFFICES ASSUME h[-1] >= 0, NEW i \in 0 .. D PROVE h[-1] = e[0] /\ e[i] >= e[0]
    OBVIOUS
  <2>1. h[-1] = e[0] /\ e[D] = e[0] /\ e[D] >= 0 /\ D \in 0 .. D
    OBVIOUS
  <2>2. CASE i = D
    BY <2>1, <2>2
  <2>3. CASE i < D
    BY <2>1, <2>3
  <2> QED
    BY <2>2, <2>3
<1>4. h[-1] = -1 => \A p \in 0 .. F : g[p] >= 0 => g[p] < e[0]
  <2> SUFFICES ASSUME h[-1] = -1, NEW p \in 0 .. F, g[p] >= 0 PROVE g[p] < e[0]
    OBVIOUS
  <2>1. e[D] >= g[p] /\ e[0] >= g[p] /\ 0 \in 0 .. D /\ D \in 0 .. D
    OBVIOUS
  <2>2. e[D] # e[0] /\ D # 0
    BY <2>1
  <2>3. e[0] >= e[D]
    BY <2>1, <2>2
  <2> QED
    BY <2>1, <2>2, <2>3
<1>5. ASSUME NEW p \in -1 .. F, NEW i \in 0 .. D, h[p] >= 0 PROVE f[i] >= h[p]
  <2>1. CASE p = -1
    BY <1>2, <1>3, <1>5, <2>1, 0 \in 0 .. D
  <2>2. CASE p # -1
    <3>1. p \in 0 .. F /\ h[p] = g[p] /\ 0 \in 0 .. D
      BY <2>2
    <3>2. b >= g[p]
      BY <1>5, <3>1
    <3>3. f[i] \in Int /\ b \in Int /\ g[p] \in Int
      BY <3>1
    <3>4. CASE f[i] = b
      BY <3>1, <3>2, <3>4
    <3>5. CASE \E k \in 0 .. D : f[i] = e[k]
      <4>1. PICK k \in 0 .. D : f[i] = e[k]
        BY <3>5
      <4>2. e[k] >= g[p]
        BY <1>5, <3>1
      <4> QED
        BY <3>1, <4>1, <4>2
    <3> QED
      BY <1>2, <3>4, <3>5
  <2> QED
    BY <2>1, <2>2
<1>6. ASSUME NEW q \in -1 .. F, NEW p \in -1 .. F, q < p, h[p] >= 0, h[q] >= 0 PROVE h[q] >= h[p]
  <2>1. p \in 0 .. F /\ h[p] = g[p] /\ 0 \in 0 .. D
    BY <1>6
  <2>2. CASE q = -1
    BY <1>3, <1>6, <2>1, <2>2
  <2>3. CASE q # -1
    BY <1>6, <2>1, <2>3, q \in 0 .. F
  <2> QED
    BY <2>2, <2>3
<1>7. ASSUME NEW r \in -1 .. F, NEW p \in -1 .. F, r < p, h[p] >= 0, h[r] = -1 PROVE h[p] < f[0]
  <2>1. p \in 0 .. F /\ h[p] = g[p] /\ 0 \in 0 .. D /\ e[0] <= b
    BY <1>7
  <2>2. CASE r = -1
    BY <1>4, <1>7, <2>1, <2>2
  <2>3. CASE r # -1
    BY <1>7, <2>1, <2>3, r \in 0 .. F
  <2> QED
    BY <2>2, <2>3
<1>8. ASSUME NEW q \in -1 .. F, NEW r \in -1 .. F, NEW p \in -1 .. F, q < r, r < p, h[p] >= 0, h[r] = -1, h[q] >= 0
      PROVE  h[p] < h[q]
  <2>1. p \in 0 .. F /\ r \in 0 .. F /\ h[p] = g[p] /\ h[r] = g[r]
    BY <1>8
  <2>2. CASE q = -1
    BY <1>3, <1>8, <2>1, <2>2
  <2>3. CASE q # -1
    BY <1>8, <2>1, <2>3, q \in 0 .. F
  <2> QED
    BY <2>2, <2>3
<1> QED
  BY <1>1, <1>5, <1>6, <1>7, <1>8

LEMMA SameJob == ASSUME NEW x, NEW y, From(y, x), From(x, y) PROVE JobOf(y) = JobOf(x)
  BY DEF From, JobOf

LEMMA FlowType ==
  ASSUME TypeInv
  PROVE  /\ \A x \in Item : JobOf(x) \in Int /\ JobOf(x) >= -1
         /\ FirstEnd \in Nat /\ Front \in Nat \ {0} /\ FirstEnd = Depth + R
         /\ \A k \in 0 .. FirstEnd : FirstItem(k) \in Item
         /\ \A k \in 0 .. Front : SecondItem(k) \in Item
         /\ Before \in [0 .. FirstEnd -> Int] /\ \A k \in 0 .. FirstEnd : Before[k] >= -1
         /\ After \in [0 .. Front + 1 -> Int] /\ \A k \in 0 .. Front + 1 : After[k] >= -1
<1>1. /\ build \in Builds
      /\ {data, input_d0, input2_d0, hash, hash2, ticket, reported} \subseteq Item
      /\ hashers \in [Stage -> Item] /\ hashers2 \in [Stage -> Item]
  BY DEF TypeInv, TypeOK
<1>2. LOOP \in Nat \ {0} /\ Depth \in Nat \ {0} /\ R \in {0, 1} /\ Stage = 0 .. Depth - 1
  BY <1>1, LoopDepth
<1>3. FirstEnd \in Nat /\ Front \in Nat \ {0} /\ FirstEnd = Depth + R
  BY <1>2 DEF FirstEnd, Front
<1>4. \A x \in Item : JobOf(x) \in Int /\ JobOf(x) >= -1
  BY PipelineAssumption DEF Item, JobOf
<1>5. ASSUME NEW k \in 0 .. FirstEnd PROVE FirstItem(k) \in Item
  <2>1. k > R => k - R - 1 \in Stage
    BY <1>2, <1>3
  <2> QED
    BY <1>1, <1>2, <2>1 DEF FirstItem
<1>6. ASSUME NEW k \in 0 .. Front PROVE SecondItem(k) \in Item
  <2>1. k > R /\ k <= Depth + R => k - R - 1 \in Stage
    BY <1>2, <1>3
  <2> QED
    BY <1>1, <1>2, <2>1 DEF SecondItem
<1>7. Before \in [0 .. FirstEnd -> Int] /\ \A k \in 0 .. FirstEnd : Before[k] >= -1
  BY <1>4, <1>5 DEF Before
<1>8. After \in [0 .. Front + 1 -> Int] /\ \A k \in 0 .. Front + 1 : After[k] >= -1
  <2> DEFINE J(k) == IF k <= Front THEN JobOf(SecondItem(k)) ELSE JobOf(reported)
  <2>1. ASSUME NEW k \in 0 .. Front + 1 PROVE J(k) \in Int /\ J(k) >= -1
    <3>1. k <= Front => k \in 0 .. Front
      BY <1>3
    <3> QED
      BY <1>1, <1>4, <1>6, <3>1
  <2>2. After = [k \in 0 .. Front + 1 |-> J(k)]
    BY DEF After
  <2> HIDE DEF J
  <2> QED
    BY <2>1, <2>2
<1> QED
  BY <1>3, <1>4, <1>5, <1>6, <1>7, <1>8

LEMMA BeforeStep ==
  ASSUME TypeInv, Next
  PROVE  /\ Before' \in [0 .. FirstEnd -> Int] /\ Before'[0] = job_buf
         /\ \A k \in 1 .. FirstEnd : Before'[k] = IF feedback THEN Before[k] ELSE Before[k - 1]
<1>1. build' = build /\ Clock
  BY DEF Next
<1>2. /\ build \in Builds /\ feedback = (cnt # 0) /\ job_buf \in 0 .. Jobs /\ cnt \in 0 .. LOOP - 1
      /\ TypeInv'
  BY TypeNext DEF TypeInv, TypeOK
<1>3. /\ LOOP \in Nat \ {0} /\ Depth \in Nat \ {0} /\ R \in {0, 1} /\ (R = 1 => LOOP = 1) /\ Stage = 0 .. Depth - 1
      /\ FirstEnd = Depth + R /\ FirstEnd \in Nat
  BY <1>2, LoopDepth, FlowType
<1>4. R' = R /\ FirstEnd' = FirstEnd
  BY <1>1 DEF R, FirstEnd, Depth, LOOP
<1> DEFINE Item2(k) == IF k = 0 THEN data' ELSE IF k <= R THEN input_d0' ELSE hashers'[k - R - 1]
<1>5. Before' = [k \in 0 .. FirstEnd |-> JobOf(Item2(k))]
  BY <1>4 DEF Before, FirstItem, JobOf
<1>6. Before'[0] = job_buf
  <2>1. data'.job = job_buf /\ data'.round = 0
    BY <1>1, PipelinesStep
  <2> QED
    BY <1>3, <1>5, <2>1 DEF JobOf
<1>7. (feedback => cnt # 0 /\ LOOP # 1) /\ (~feedback => cnt = 0)
  <2>1. (feedback => cnt # 0) /\ (~feedback => cnt = 0)
    BY <1>2
  <2> QED
    BY <1>2, <1>3, <2>1
<1>8. ASSUME NEW k \in 1 .. FirstEnd PROVE Before'[k] = IF feedback THEN Before[k] ELSE Before[k - 1]
  <2> DEFINE rx == TransformInput(data, input_d0)
  <2>1. Before'[k] = JobOf(Item2(k)) /\ Before[k] = JobOf(FirstItem(k)) /\ Before[k - 1] = JobOf(FirstItem(k - 1))
    <3>1. k \in 0 .. FirstEnd /\ k - 1 \in 0 .. FirstEnd
      BY <1>3
    <3> HIDE DEF Item2
    <3> QED
      BY <1>5, <3>1 DEF Before
  <2>2. CASE k <= R
    <3>1. R = 1 /\ k = 1 /\ ~feedback
      BY <1>3, <1>7, <2>2
    <3>2. Item2(k) = data /\ FirstItem(k - 1) = data
      BY <1>1, <3>1 DEF Clock, FirstTransform, FirstItem, R
    <3> QED
      BY <2>1, <3>1, <3>2
  <2>3. CASE k > R
    <3> DEFINE i == k - R - 1
    <3>1. i \in Stage /\ Item2(k) = hashers'[i]
      BY <1>3, <2>3
    <3>2. JobOf(Item2(k)) = JobOf(Source(hashers, rx, i))
      BY <1>1, <3>1, PipelinesStep, SameJob
    <3>3. CASE feedback
      BY <1>3, <2>1, <2>3, <3>1, <3>2, <3>3 DEF Source, FirstItem
    <3>4. CASE ~feedback /\ i = 0
      <4>1. FirstItem(k - 1) = rx
        BY <1>3, <3>4 DEF FirstItem, TransformInput, R
      <4> QED
        BY <2>1, <3>2, <3>4, <4>1 DEF Source
    <3>5. CASE ~feedback /\ i # 0
      <4>1. FirstItem(k - 1) = hashers[i - 1]
        BY <1>3, <2>3, <3>1, <3>5 DEF FirstItem
      <4> QED
        BY <2>1, <3>2, <3>5, <4>1 DEF Source
    <3> QED
      BY <3>3, <3>4, <3>5
  <2> QED
    BY <1>3, <2>2, <2>3
<1>9. Before' \in [0 .. FirstEnd -> Int]
  <2>1. ASSUME NEW k \in 0 .. FirstEnd PROVE JobOf(Item2(k)) \in Int
    <3>1. data' \in Item /\ input_d0' \in Item /\ hashers' \in [Stage -> Item]
      BY <1>1, PipelinesStep
    <3>2. k > R => k - R - 1 \in Stage
      BY <1>3
    <3>3. Item2(k) \in Item
      BY <1>3, <3>1, <3>2
    <3> QED
      BY <3>3, FlowType
  <2> HIDE DEF Item2
  <2> QED
    BY <1>5, <2>1
<1> QED
  BY <1>6, <1>8, <1>9

LEMMA FreshJob == ASSUME NEW x \in Item, x.round \in {-1, Rounds} PROVE JobOf(Fresh(x)) = JobOf(x)
<1>1. Rounds # -1 /\ Rounds # 0
  BY PipelineAssumption
<1>2. CASE x.round = Rounds
  BY <1>1, <1>2 DEF Fresh, Finished, JobOf, Item
<1>3. CASE x.round = -1
  BY <1>1, <1>3 DEF Fresh, Finished, JobOf, Garbage
<1> QED
  BY <1>2, <1>3

(* What the first transform puts out.                                      *)
LEMMA OutOfFirst ==
  ASSUME TypeInv, Next, InOrder(Before, After), ~feedback
  PROVE  JobOf(hash') = IF Before[FirstEnd] = Before[0] THEN Before[0] ELSE -1
<1>1. /\ build \in Builds /\ feedback = (cnt # 0) /\ data \in Item /\ hashers \in [Stage -> Item]
  BY DEF TypeInv, TypeOK
<1>2. /\ LOOP \in Nat \ {0} /\ Depth \in Nat \ {0} /\ R \in {0, 1} /\ LOOP * Depth = Rounds
      /\ Last \in Stage /\ Last = Depth - 1 /\ Rounds \in Nat
  BY <1>1, LoopDepth, PipelineAssumption
<1>3. FirstEnd = Depth + R /\ FirstEnd \in Nat /\ FirstEnd # 0
  BY <1>2, FlowType
<1>4. hashers[Last].round \in {-1, Rounds} /\ hashers[Last] \in Item
  <2>1. LOOP * Last + LOOP = Rounds
    BY <1>2
  <2>2. cnt = 0
    BY <1>1
  <2> QED
    BY <1>1, <1>2, <2>1, <2>2 DEF TypeInv, RoundsInv, Phase
<1>5. Before[FirstEnd] = JobOf(hashers[Last]) /\ Before[0] = JobOf(data)
  BY <1>2, <1>3 DEF Before, FirstItem
<1>6. Before[FirstEnd] >= 0 => Before[0] >= Before[FirstEnd]
  <2>1. DOMAIN Before = 0 .. FirstEnd
    BY DEF Before
  <2> QED
    BY <1>3, <2>1 DEF InOrder
<1>7. hash' = IF Finished(hashers[Last]) /\ hashers[Last].job = data.job THEN hashers[Last] ELSE Garbage
  BY DEF Next, Clock, FirstTransform, AddState
<1>8. /\ hashers[Last].job \in Nat /\ data.job \in Nat
  BY <1>1, <1>4, PipelineAssumption DEF Item
<1>9. CASE hashers[Last].round = -1
  BY <1>2, <1>5, <1>6, <1>7, <1>8, <1>9 DEF Finished, JobOf, Garbage
<1>10. CASE hashers[Last].round = Rounds
  <2>1. Before[FirstEnd] = hashers[Last].job /\ Before[0] = data.job
    BY <1>2, <1>5, <1>6, <1>8, <1>10 DEF JobOf
  <2> QED
    BY <1>2, <1>7, <1>10, <2>1 DEF Finished, JobOf, Garbage
<1> QED
  BY <1>4, <1>9, <1>10

(* What is reported.                                                       *)
LEMMA ReportStep ==
  ASSUME TypeInv, Next, FlowInv
  PROVE  /\ After[Front + 1] = JobOf(reported)
         /\ Reporting /\ After[Front] >= 0 => /\ reported' = ticket /\ JobOf(ticket) = After[Front]
                                              /\ Finished(ticket) /\ ticket.round # -1
         /\ ~(Reporting /\ After[Front] >= 0) => reported' = reported /\ ~Finished(ticket)
<1>1. /\ build \in Builds /\ cnt \in 0 .. LOOP - 1 /\ ticket \in Item
      /\ ticket.round \in {-1, Rounds} /\ Clock
  BY DEF TypeInv, TypeOK, RoundsInv, Next
<1>2. /\ LOOP \in Nat \ {0} /\ Depth \in Nat \ {0} /\ R \in {0, 1}
      /\ Front \in Nat \ {0} /\ Front = Depth + R + (IF LOOP = 1 THEN 2 ELSE 1)
  BY <1>1, LoopDepth, FlowType DEF Front
<1>3. After[Front] = JobOf(SecondItem(Front)) /\ After[Front + 1] = JobOf(reported)
  BY <1>2 DEF After
<1>4. JobOf(ticket) = IF Reporting THEN After[Front] ELSE -1
  <2>1. CASE LOOP = 1
    BY <1>1, <1>2, <1>3, <2>1 DEF SecondItem, Reporting
  <2>2. CASE LOOP # 1
    <3>1. SecondItem(Front) = hash2
      BY <1>2, <2>2 DEF SecondItem
    <3>2. LOOP > 1
      BY <1>2, <2>2
    <3> QED
      BY <1>3, <3>1, <3>2 DEF FlowInv
  <2> QED
    BY <2>1, <2>2
<1>5. (Finished(ticket) <=> JobOf(ticket) >= 0) /\ (Finished(ticket) => ticket.round # -1)
  <2>1. ticket.job \in Nat /\ Rounds # -1
    BY <1>1, PipelineAssumption DEF Item
  <2> QED
    BY <1>1, <2>1 DEF Finished, JobOf
<1>6. reported' = IF Finished(ticket) THEN ticket ELSE reported
  BY <1>1 DEF Clock, Report
<1> QED
  BY <1>3, <1>4, <1>5, <1>6

LEMMA AfterStep ==
  ASSUME TypeInv, Next, FlowInv
  PROVE  /\ After' \in [0 .. Front + 1 -> Int]
         /\ feedback => \A k \in 0 .. Front : After'[k] = After[k]
         /\ ~feedback => /\ After'[0] = IF Before[FirstEnd] = Before[0] THEN Before[0] ELSE -1
                         /\ \A k \in 1 .. Front : After'[k] = After[k - 1]
         /\ After'[Front + 1] = IF Reporting /\ After[Front] >= 0 THEN After[Front] ELSE After[Front + 1]
<1>1. build' = build /\ Clock
  BY DEF Next
<1>2. /\ build \in Builds /\ feedback = (cnt # 0) /\ cnt \in 0 .. LOOP - 1 /\ feedback_d1 \in BOOLEAN
      /\ {data, input_d0, input2_d0, hash, hash2, ticket, reported} \subseteq Item
      /\ hashers \in [Stage -> Item] /\ hashers2 \in [Stage -> Item]
  BY DEF TypeInv, TypeOK
<1>3. /\ LOOP \in Nat \ {0} /\ Depth \in Nat \ {0} /\ R \in {0, 1} /\ (R = 1 => LOOP = 1) /\ Stage = 0 .. Depth - 1
      /\ LOOP * Depth = Rounds /\ Last \in Stage /\ Last = Depth - 1 /\ Rounds \in Nat \ {0}
      /\ Front \in Nat \ {0} /\ Front = Depth + R + (IF LOOP = 1 THEN 2 ELSE 1)
  BY <1>2, LoopDepth, FlowType, PipelineAssumption DEF Front
<1>4. R' = R /\ Front' = Front /\ Depth' = Depth
  BY <1>1 DEF R, Front, Depth, LOOP
<1>5. (feedback => cnt # 0 /\ LOOP # 1 /\ R = 0) /\ (~feedback => cnt = 0)
  <2>1. (feedback => cnt # 0) /\ (~feedback => cnt = 0)
    BY <1>2
  <2> QED
    BY <1>2, <1>3, <2>1
<1> DEFINE Item2(k) == IF k = 0 THEN hash' ELSE IF k <= R THEN input2_d0'
                       ELSE IF k <= Depth + R THEN hashers2'[k - R - 1]
                       ELSE IF k = Depth + R + 1 THEN hash2' ELSE ticket'
<1>6. After' = [k \in 0 .. Front + 1 |-> IF k <= Front THEN JobOf(Item2(k)) ELSE JobOf(reported')]
  BY <1>4 DEF After, SecondItem, JobOf
<1>7. /\ \A k \in 0 .. Front : After'[k] = JobOf(Item2(k)) /\ After[k] = JobOf(SecondItem(k))
      /\ After'[Front + 1] = JobOf(reported') /\ After[Front + 1] = JobOf(reported)
  <2> HIDE DEF Item2
  <2>1. \A k \in 0 .. Front : k \in 0 .. Front + 1 /\ k <= Front
    BY <1>3
  <2>2. Front + 1 \in 0 .. Front + 1 /\ ~(Front + 1 <= Front)
    BY <1>3
  <2> QED
    BY <1>6, <2>1, <2>2 DEF After
<1>8. After' \in [0 .. Front + 1 -> Int]
  <2>1. hash' \in Item /\ input2_d0' \in Item /\ hashers2' \in [Stage -> Item] /\ hash2' \in Item /\ ticket' \in Item
        /\ reported' \in Item
    BY <1>1, PipelinesStep
  <2>2. ASSUME NEW k \in 0 .. Front + 1
        PROVE  (IF k <= Front THEN JobOf(Item2(k)) ELSE JobOf(reported')) \in Int
    <3>1. k > R /\ k <= Depth + R => k - R - 1 \in Stage
      BY <1>3
    <3>2. Item2(k) \in Item
      BY <1>3, <2>1, <3>1
    <3> QED
      BY <2>1, <3>2, FlowType
  <2> HIDE DEF Item2
  <2> QED
    BY <1>6, <2>2
<1>9. hash.round \in {-1, Rounds} /\ hash2.round \in {-1, Rounds} /\ ticket.round \in {-1, Rounds}
      /\ reported.round \in {-1, Rounds}
  BY DEF TypeInv, RoundsInv
<1>10. JobOf(Fresh(hash)) = JobOf(hash)
  <2>1. hash \in Item
    BY <1>2
  <2> QED
    BY <1>9, <2>1, FreshJob
<1>11. ASSUME feedback, NEW k \in 0 .. Front PROVE After'[k] = After[k]
  <2>1. hash' = hash /\ hash2' = hash2 /\ LOOP # 1 /\ R = 0 /\ k <= Depth + 1
    BY <1>1, <1>3, <1>5, <1>11 DEF Clock, FirstTransform, SecondTransform
  <2>2. CASE k = 0 \/ k = Depth + 1
    <3>1. Item2(k) = SecondItem(k)
      BY <1>3, <2>1, <2>2 DEF SecondItem
    <3> QED
      BY <1>7, <3>1
  <2>3. CASE ~(k = 0 \/ k = Depth + 1)
    <3>1. k - R - 1 \in Stage /\ Item2(k) = hashers2'[k - R - 1] /\ SecondItem(k) = hashers2[k - R - 1]
      BY <1>3, <2>1, <2>3 DEF SecondItem
    <3>2. JobOf(hashers2'[k - R - 1]) = JobOf(Source(hashers2, TransformInput(Fresh(hash), input2_d0), k - R - 1))
      BY <1>1, <3>1, PipelinesStep, SameJob
    <3>3. JobOf(hashers2'[k - R - 1]) = JobOf(hashers2[k - R - 1])
      BY <1>11, <3>2 DEF Source
    <3> QED
      BY <1>7, <3>1, <3>3
  <2> QED
    BY <2>2, <2>3
<1>12. ASSUME ~feedback
       PROVE  After'[0] = IF Before[FirstEnd] = Before[0] THEN Before[0] ELSE -1
  <2>1. After'[0] = JobOf(hash')
    BY <1>3, <1>7
  <2> QED
    BY <1>12, <2>1, OutOfFirst DEF FlowInv
<1>13. ASSUME ~feedback, NEW k \in 1 .. Front PROVE After'[k] = After[k - 1]
  <2> DEFINE rx == TransformInput(Fresh(hash), input2_d0)
             i  == k - R - 1
  <2>1. After'[k] = JobOf(Item2(k)) /\ After[k - 1] = JobOf(SecondItem(k - 1))
    <3>1. k \in 0 .. Front /\ k - 1 \in 0 .. Front
      BY <1>3
    <3> HIDE DEF Item2
    <3> QED
      BY <1>7, <3>1
  <2>2. CASE k <= R
    <3>1. R = 1 /\ k = 1 /\ Item2(k) = Fresh(hash) /\ SecondItem(k - 1) = hash
      BY <1>1, <1>3, <2>2 DEF Clock, SecondTransform, SecondItem, R
    <3> QED
      BY <1>10, <2>1, <3>1
  <2>3. CASE k > R /\ k <= Depth + R
    <3>1. i \in Stage /\ Item2(k) = hashers2'[i]
      BY <1>3, <2>3
    <3>2. JobOf(Item2(k)) = JobOf(Source(hashers2, rx, i))
      BY <1>1, <3>1, PipelinesStep, SameJob
    <3>3. CASE i = 0
      <4>1. JobOf(SecondItem(k - 1)) = JobOf(rx)
        <5>1. CASE R = 0
          BY <1>3, <1>10, <3>3, <5>1 DEF SecondItem, TransformInput, R
        <5>2. CASE R = 1
          BY <1>3, <3>3, <5>2 DEF SecondItem, TransformInput, R
        <5> QED
          BY <1>3, <5>1, <5>2
      <4> QED
        BY <1>13, <2>1, <3>2, <3>3, <4>1 DEF Source
    <3>4. CASE i # 0
      <4>1. SecondItem(k - 1) = hashers2[i - 1]
        BY <1>3, <2>3, <3>1, <3>4 DEF SecondItem
      <4> QED
        BY <1>13, <2>1, <3>2, <3>4, <4>1 DEF Source
    <3> QED
      BY <3>3, <3>4
  <2>4. CASE k = Depth + R + 1
    <3>1. Item2(k) = hash2' /\ SecondItem(k - 1) = hashers2[Last]
      BY <1>3, <2>4 DEF SecondItem
    <3>2. hash2' = AddState(hashers2[Last], hashers2[Last].job)
      BY <1>1, <1>13 DEF Clock, SecondTransform
    <3>3. hashers2[Last].round \in {-1, Rounds}
      <4>1. LOOP * Last + LOOP = Rounds
        BY <1>3
      <4> QED
        BY <1>3, <1>5, <1>13, <4>1 DEF TypeInv, RoundsInv, Phase
    <3>4. JobOf(hash2') = JobOf(hashers2[Last])
      BY <1>3, <3>2, <3>3 DEF AddState, Finished, JobOf, Garbage
    <3> QED
      BY <2>1, <3>1, <3>4
  <2>5. CASE k > Depth + R + 1
    <3>1. LOOP = 1 /\ Item2(k) = ticket' /\ SecondItem(k - 1) = hash2
      BY <1>3, <2>5 DEF SecondItem
    <3>2. JobOf(ticket') = JobOf(hash2)
      BY <1>1, <1>2, <3>1 DEF Clock, TestHash, FlowInv, JobOf, Garbage
    <3> QED
      BY <2>1, <3>1, <3>2
  <2> QED
    BY <1>3, <2>2, <2>3, <2>4, <2>5
<1>14. After'[Front + 1] = IF Reporting /\ After[Front] >= 0 THEN After[Front] ELSE After[Front + 1]
  <2> HIDE DEF Item2
  <2> QED
    BY <1>7, ReportStep
<1> QED
  BY <1>8, <1>11, <1>12, <1>13, <1>14

(* A job comes in and nothing moves.                                       *)
Stay(e, f, g, D, H, b) ==
    /\ e \in [0 .. D -> Int] /\ f \in [0 .. D -> Int] /\ g \in [0 .. H -> Int]
    /\ \A i \in 0 .. D : e[i] <= b
    /\ f[0] = b /\ \A k \in 1 .. D : f[k] = e[k]

LEMMA OrderOfStay ==
  ASSUME NEW D \in Nat, NEW H \in Nat, NEW b \in Nat, NEW e, NEW f, NEW g,
         InOrder(e, g), Stay(e, f, g, D, H, b)
  PROVE  InOrder(f, g)
<1> USE DEF Stay
<1>1. \A i \in 0 .. D : f[i] >= e[i] /\ (i # 0 => f[i] = e[i])
  OBVIOUS
<1>2. ASSUME NEW i \in 0 .. D, NEW j \in 0 .. D, i < j, f[j] >= 0 PROVE f[i] >= f[j]
  <2>1. f[j] = e[j] /\ e[i] >= e[j] /\ f[i] >= e[i]
    BY <1>1, <1>2 DEF InOrder
  <2> QED
    BY <2>1
<1>3. ASSUME NEW p \in 0 .. H, NEW i \in 0 .. D, g[p] >= 0 PROVE f[i] >= g[p]
  <2>1. e[i] >= g[p] /\ f[i] >= e[i]
    BY <1>1, <1>3 DEF InOrder
  <2> QED
    BY <2>1
<1>4. ASSUME NEW r \in 0 .. H, NEW p \in 0 .. H, r < p, g[p] >= 0, g[r] = -1 PROVE g[p] < f[0]
  <2>1. g[p] < e[0] /\ f[0] >= e[0] /\ 0 \in 0 .. D
    BY <1>1, <1>4 DEF InOrder
  <2> QED
    BY <2>1
<1> QED
  BY <1>2, <1>3, <1>4 DEF InOrder

(* A clock: the second order is as it was, or shifted by one, and its last *)
(* place, the report, takes what is before it or stays.                    *)
Flow(e, e2, g, g2, D, F, b, stay, end) ==
    /\ e \in [0 .. D -> Int] /\ e2 \in [0 .. D -> Int]
    /\ g \in [0 .. F + 1 -> Int] /\ g2 \in [0 .. F + 1 -> Int]
    /\ \A i \in 0 .. D : e[i] <= b /\ e[i] >= -1
    /\ e2[0] = b /\ \A k \in 1 .. D : e2[k] = IF stay THEN e[k] ELSE e[k - 1]
    /\ stay => \A k \in 0 .. F : g2[k] = g[k]
    /\ ~stay => g2[0] = IF e[D] = e[0] THEN e[0] ELSE -1
    /\ ~stay => \A k \in 1 .. F : g2[k] = g[k - 1]
    /\ g2[F + 1] = g[end]

LEMMA OrderStep ==
  ASSUME NEW D \in Nat, NEW F \in Nat, NEW b \in Nat, NEW stay \in BOOLEAN, NEW end \in {F, F + 1},
         NEW e, NEW e2, NEW g, NEW g2,
         InOrder(e, g), Flow(e, e2, g, g2, D, F, b, stay, end)
  PROVE  InOrder(e2, g2)
<1> USE DEF Flow
<1>1. F + 1 \in Nat /\ F + 1 \in Int /\ 0 \in Int /\ -1 \in Int /\ end \in 0 .. F + 1 /\ end >= F
  OBVIOUS
<1>2. CASE stay
  <2>1. \A k \in 1 .. D : e2[k] = e[k]
    BY <1>2
  <2>2. InOrder(e2, g)
    <3>1. Stay(e, e2, g, D, F + 1, b)
      BY <2>1 DEF Stay
    <3> HIDE DEF Flow
    <3> QED
      BY <1>1, <3>1, OrderOfStay
  <2> DEFINE o == [p \in 0 .. F + 1 |-> IF p <= F THEN p ELSE end]
  <2>3. o \in [0 .. F + 1 -> 0 .. F + 1] /\ \A q, p \in 0 .. F + 1 : q < p => o[q] <= o[p]
    BY <1>1
  <2>4. ASSUME NEW p \in 0 .. F + 1 PROVE g2[p] = g[o[p]]
    <3>1. CASE p <= F
      <4>1. p \in 0 .. F /\ o[p] = p
        BY <3>1
      <4> QED
        BY <1>2, <4>1
    <3>2. CASE p = F + 1
      <4>1. o[p] = end
        BY <3>2
      <4> QED
        BY <3>2, <4>1
    <3> QED
      BY <3>1, <3>2
  <2> HIDE DEF o
  <2>5. \A p \in 0 .. F + 1 : g2[p] = g[o[p]]
    BY <2>4
  <2>6. Places(o, g2, g, F + 1, 0, F + 1)
    BY <2>3, <2>5 DEF Places
  <2>7. e2 \in [0 .. D -> Int]
    OBVIOUS
  <2> HIDE DEF Flow
  <2> QED
    BY <1>1, <2>2, <2>6, <2>7, OrderOfSome
<1>3. CASE ~stay
  <2> DEFINE h == [k \in -1 .. F + 1 |-> IF k = -1 THEN g2[0] ELSE g[k]]
             o == [p \in 0 .. F + 1 |-> IF p <= F THEN p - 1 ELSE end]
  <2>1. h \in [-1 .. F + 1 -> Int] /\ h[-1] = g2[0] /\ \A k \in 0 .. F + 1 : h[k] = g[k]
    OBVIOUS
  <2>2. o \in [0 .. F + 1 -> -1 .. F + 1] /\ \A q, p \in 0 .. F + 1 : q < p => o[q] <= o[p]
    BY <1>1
  <2>3. ASSUME NEW p \in 0 .. F + 1 PROVE g2[p] = h[o[p]]
    <3>1. CASE p = 0
      <4>1. o[p] = -1
        BY <3>1
      <4> QED
        BY <2>1, <3>1, <4>1
    <3>2. CASE p # 0 /\ p <= F
      <4>1. o[p] = p - 1 /\ p \in 1 .. F /\ p - 1 \in 0 .. F + 1
        BY <3>2
      <4> HIDE DEF o, h
      <4> QED
        BY <1>3, <2>1, <4>1
    <3>3. CASE p = F + 1
      <4>1. o[p] = end
        BY <3>3
      <4> HIDE DEF o, h
      <4> QED
        BY <1>1, <2>1, <3>3, <4>1
    <3> QED
      BY <3>1, <3>2, <3>3
  <2> HIDE DEF o, h
  <2>4. \A k \in 1 .. D : e2[k] = e[k - 1]
    BY <1>3
  <2>5. h[-1] = IF e[D] = e[0] THEN e[0] ELSE -1
    BY <1>3, <2>1
  <2>6. InOrder(e2, h)
    <3>1. Shift(e, e2, g, h, D, F + 1, b)
      BY <2>1, <2>4, <2>5 DEF Shift
    <3> QED
      BY <1>1, <3>1, OrderOfShift
  <2>7. \A p \in 0 .. F + 1 : g2[p] = h[o[p]]
    BY <2>3
  <2> QED
    <3>1. Places(o, g2, h, F + 1, -1, F + 1)
      BY <2>1, <2>2, <2>7 DEF Places
    <3>2. e2 \in [0 .. D -> Int]
      OBVIOUS
    <3> HIDE DEF Flow
    <3> QED
      BY <1>1, <2>6, <3>1, <3>2, OrderOfSome
<1> QED
  BY <1>2, <1>3

LEMMA InOrderStep ==
  ASSUME TypeInv, Next, FlowInv
  PROVE  InOrder(Before', After')
<1>1. /\ FirstEnd \in Nat /\ Front \in Nat
      /\ Before \in [0 .. FirstEnd -> Int] /\ After \in [0 .. Front + 1 -> Int]
      /\ \A k \in 0 .. FirstEnd : Before[k] >= -1
  BY FlowType
<1>2. job_buf \in Nat /\ feedback \in BOOLEAN
  BY PipelineAssumption DEF TypeInv, TypeOK
<1>3. InOrder(Before, After) /\ \A k \in 0 .. FirstEnd : Before[k] <= job_buf
  BY DEF FlowInv
<1>4. /\ Before' \in [0 .. FirstEnd -> Int] /\ Before'[0] = job_buf
      /\ \A k \in 1 .. FirstEnd : Before'[k] = IF feedback THEN Before[k] ELSE Before[k - 1]
  BY BeforeStep
<1> DEFINE end == IF Reporting /\ After[Front] >= 0 THEN Front ELSE Front + 1
<1>5. /\ After' \in [0 .. Front + 1 -> Int]
      /\ feedback => \A k \in 0 .. Front : After'[k] = After[k]
      /\ ~feedback => After'[0] = IF Before[FirstEnd] = Before[0] THEN Before[0] ELSE -1
      /\ ~feedback => \A k \in 1 .. Front : After'[k] = After[k - 1]
      /\ After'[Front + 1] = After[end] /\ end \in {Front, Front + 1}
  BY AfterStep
<1> HIDE DEF end
<1>6. InOrder(Before, After) /\ \A k \in 0 .. FirstEnd : Before[k] <= job_buf /\ Before[k] >= -1
  BY <1>1, <1>3
<1> QED
  <2>1. Flow(Before, Before', After, After', FirstEnd, Front, job_buf, feedback, end)
    BY <1>1, <1>4, <1>5, <1>6 DEF Flow
  <2> QED
    BY <1>1, <1>2, <1>5, <1>6, <2>1, OrderStep

(* If the job reported goes on, its next hash is the next one reported.    *)
LEMMA JobGoesOn ==
  ASSUME TypeInv, Next, FlowInv, JobOf(reported) >= 0,
         NEW q \in 0 .. Front, After'[q] = JobOf(reported)
  PROVE  After[Front] = JobOf(reported)
<1> DEFINE j == JobOf(reported)
<1>1. /\ FirstEnd \in Nat /\ Front \in Nat \ {0}
      /\ Before \in [0 .. FirstEnd -> Int] /\ After \in [0 .. Front + 1 -> Int]
      /\ \A k \in 0 .. Front + 1 : After[k] >= -1
      /\ DOMAIN Before = 0 .. FirstEnd /\ DOMAIN After = 0 .. Front + 1
  BY FlowType DEF Before, After
<1>2. InOrder(Before, After) /\ After[Front + 1] = j /\ j >= 0
  BY ReportStep DEF FlowInv
<1>3. /\ Front + 1 \in 0 .. Front + 1 /\ Front \in 0 .. Front + 1 /\ Front < Front + 1 /\ 0 \in 0 .. FirstEnd
      /\ j \in Int /\ After[Front] \in Int /\ Before[0] \in Int
  BY <1>1, <1>2
<1> HIDE DEF j
<1>4. After[Front] >= 0 => After[Front] >= j
  BY <1>1, <1>2, <1>3 DEF InOrder
<1>5. ASSUME NEW k \in 0 .. Front, After[k] = j PROVE After[Front] = j
  <2>1. CASE k = Front
    BY <1>5, <2>1
  <2>2. CASE k < Front /\ After[Front] >= 0
    <3>1. After[k] >= After[Front]
      BY <1>1, <1>2, <1>3, <1>5, <2>2 DEF InOrder
    <3> QED
      BY <1>3, <1>4, <1>5, <2>2, <3>1
  <2>3. CASE k < Front /\ After[Front] < 0
    <3>1. After[Front] = -1
      BY <1>1, <1>3, <2>3
    <3>2. j < After[k]
      BY <1>1, <1>2, <1>3, <1>5, <2>3, <3>1 DEF InOrder
    <3> QED
      BY <1>3, <1>5, <3>2
  <2> QED
    BY <1>1, <1>3, <2>1, <2>2, <2>3
<1>6. ASSUME Before[0] = j PROVE After[Front] = j
  <2>1. CASE After[Front] >= 0
    <3>1. Before[0] >= After[Front]
      BY <1>1, <1>2, <1>3, <2>1 DEF InOrder
    <3> QED
      BY <1>3, <1>4, <1>6, <2>1, <3>1
  <2>2. CASE After[Front] < 0
    <3>1. After[Front] = -1
      BY <1>1, <1>3, <2>2
    <3>2. j < Before[0]
      BY <1>1, <1>2, <1>3, <3>1 DEF InOrder
    <3> QED
      BY <1>3, <1>6, <3>2
  <2> QED
    BY <1>3, <2>1, <2>2
<1>7. CASE feedback
  BY <1>5, <1>7, AfterStep DEF j
<1>8. CASE ~feedback /\ q # 0
  <2>1. q \in 1 .. Front /\ q - 1 \in 0 .. Front
    BY <1>1, <1>8
  <2>2. After[q - 1] = j
    BY <1>8, <2>1, AfterStep DEF j
  <2> QED
    BY <1>5, <2>1, <2>2 DEF j
<1>9. CASE ~feedback /\ q = 0
  <2>1. After'[0] = IF Before[FirstEnd] = Before[0] THEN Before[0] ELSE -1
    BY <1>9, AfterStep
  <2>2. Before[0] = j
    BY <1>2, <1>9, <2>1 DEF j
  <2> QED
    BY <1>6, <2>2 DEF j
<1> QED
  BY <1>7, <1>8, <1>9

LEMMA FlowInit == Init => FlowInv
<1> SUFFICES ASSUME Init PROVE FlowInv
  OBVIOUS
<1>1. JobOf(Garbage) = -1 /\ Garbage.round = -1 /\ Garbage.job = 0
  BY DEF JobOf, Garbage
<1>2. build \in Builds /\ job_buf = 0 /\ job_vw = 0 /\ cnt = 0 /\ feedback_d1 = TRUE
  BY DEF Init
<1>3. /\ LOOP \in Nat \ {0} /\ Depth \in Nat \ {0} /\ R \in {0, 1} /\ Stage = 0 .. Depth - 1
      /\ FirstEnd = Depth + R /\ FirstEnd \in Nat /\ Front \in Nat
  BY <1>2, LoopDepth, TypeInit, FlowType
<1>4. ASSUME NEW k \in 0 .. FirstEnd PROVE FirstItem(k) = Garbage
  <2>1. k > R => k - R - 1 \in Stage
    BY <1>3
  <2> QED
    BY <1>3, <2>1 DEF FirstItem, Init
<1>5. ASSUME NEW k \in 0 .. Front PROVE SecondItem(k) = Garbage
  <2>1. k > R /\ k <= Depth + R => k - R - 1 \in Stage
    BY <1>3
  <2> QED
    BY <1>3, <2>1 DEF SecondItem, Init
<1>6. Before = [k \in 0 .. FirstEnd |-> -1]
  BY <1>1, <1>4 DEF Before
<1>7. After = [k \in 0 .. Front + 1 |-> -1]
  <2>1. \A k \in 0 .. Front + 1 : k <= Front => k \in 0 .. Front
    BY <1>3
  <2>2. JobOf(reported) = -1
    BY <1>1 DEF Init
  <2> QED
    BY <1>1, <1>5, <2>1, <2>2 DEF After
<1>8. InOrder(Before, After)
  BY <1>6, <1>7 DEF InOrder
<1>9. ticket = Garbage /\ hash2 = Garbage /\ reported = Garbage /\ data = Garbage
  BY DEF Init
<1>10. LOOP > 1 => JobOf(ticket) = IF Reporting THEN JobOf(hash2) ELSE -1
  BY <1>1, <1>9
<1>11. \A k \in 0 .. FirstEnd : Before[k] <= job_buf
  BY <1>2, <1>6
<1> QED
  BY <1>1, <1>2, <1>8, <1>9, <1>10, <1>11 DEF FlowInv

LEMMA FlowNext ==
  ASSUME TypeInv, LagInv, FlowInv, Next
  PROVE  FlowInv'
<1>1. /\ build' = build /\ Clock /\ Counters /\ NewJob /\ TestHash
      /\ job_buf' = job_vw /\ data'.job = job_buf
  BY DEF Next, Clock, Buffers
<1>2. /\ build \in Builds /\ cnt \in 0 .. LOOP - 1 /\ feedback_d1 \in BOOLEAN
      /\ nonce \in 0 .. NonceMod - 1 /\ job_vw \in 0 .. Jobs /\ job_buf \in 0 .. Jobs
      /\ (feedback => cnt # 0) /\ (~feedback => cnt = 0) /\ feedback = (cnt # 0)
      /\ {ticket, reported, hash2} \subseteq Item
  BY DEF TypeInv, TypeOK
<1>3. /\ LOOP \in Nat \ {0} /\ NonceMod \in Nat \ {0} /\ Depth \in Nat \ {0} /\ R \in {0, 1}
      /\ FirstEnd \in Nat /\ Front \in Nat \ {0} /\ Jobs \in Nat /\ TestDepth \in Int
  <2>1. /\ LOOP \in Nat \ {0} /\ NonceMod \in Nat \ {0} /\ Depth \in Nat \ {0} /\ R \in {0, 1}
        /\ FirstEnd \in Nat /\ Front \in Nat \ {0} /\ Jobs \in Nat
    BY <1>2, LoopDepth, FlowType, PipelineAssumption
  <2> QED
    BY <2>1 DEF TestDepth
<1>4. /\ LOOP' = LOOP /\ FirstEnd' = FirstEnd /\ Front' = Front /\ NonceMod' = NonceMod /\ TestDepth' = TestDepth
  BY <1>1 DEF LOOP, FirstEnd, Front, NonceMod, TestDepth, Depth, R
<1>5. /\ cnt + 1 = LOOP => cnt' = 0
      /\ cnt + 1 # LOOP => cnt' = cnt + 1
      /\ cnt' \in 0 .. LOOP - 1
      /\ nonce' = nonce + Tick \/ nonce' = nonce + Tick - NonceMod
      /\ nonce' \in Int /\ cnt' = cnt_next
  BY <1>1, <1>2, CountersStep, <1>3
<1>6. Tick = IF cnt' = 0 THEN 1 ELSE 0
  BY <1>5 DEF Tick
<1>7. InOrder(Before', After')
  BY InOrderStep
<1>8. job_buf <= job_vw /\ (\A k \in 0 .. FirstEnd : Before[k] <= job_buf) /\ job_vw <= job_vw'
  <2>1. job_vw <= job_vw'
    BY <1>1, <1>2, <1>3 DEF NewJob
  <2> QED
    BY <2>1 DEF FlowInv
<1>9. job_buf' <= job_vw' /\ data'.job <= job_buf' /\ \A k \in 0 .. FirstEnd : Before'[k] <= job_buf'
  <2>1. ASSUME NEW k \in 0 .. FirstEnd PROVE Before'[k] <= job_vw
    <3>1. CASE k = 0
      BY <1>8, <3>1, BeforeStep
    <3>2. CASE k # 0
      <4>1. k \in 1 .. FirstEnd /\ k - 1 \in 0 .. FirstEnd
        BY <1>3, <3>2
      <4>2. Before'[k] = Before[k] \/ Before'[k] = Before[k - 1]
        BY <4>1, BeforeStep
      <4>3. Before[k] <= job_buf /\ Before[k - 1] <= job_buf /\ Before[k] \in Int /\ Before[k - 1] \in Int
        BY <1>8, <4>1, FlowType
      <4> QED
        BY <1>2, <1>8, <4>2, <4>3
    <3> QED
      BY <3>1, <3>2
  <2> QED
    BY <1>1, <1>8, <2>1
<1>10. LOOP > 1 /\ cnt' = 1 => ~feedback_d1'
  BY <1>1, <1>2, <1>5 DEF Counters
<1>11. LOOP = 1 => ~feedback_d1'
  BY <1>1, <1>2 DEF Counters
<1>12. LOOP > 1 => JobOf(ticket') = IF (cnt' = IF LOOP > 2 THEN 2 ELSE 0) THEN JobOf(hash2') ELSE -1
  <2> SUFFICES ASSUME LOOP > 1
               PROVE  JobOf(ticket') = IF (cnt' = IF LOOP > 2 THEN 2 ELSE 0) THEN JobOf(hash2') ELSE -1
    OBVIOUS
  <2>1. ~feedback_d1 <=> cnt = 1
    <3>1. ~feedback_d1 => cnt = 1
      BY <1>2, <1>3 DEF TypeInv, TestInv, Since
    <3> QED
      BY <3>1 DEF FlowInv
  <2>2. (cnt' = IF LOOP > 2 THEN 2 ELSE 0) <=> cnt = 1
    BY <1>2, <1>3, <1>5
  <2>3. cnt = 1 => hash2' = hash2
    BY <1>1, <1>2 DEF Clock, SecondTransform
  <2>4. ticket' = IF feedback_d1 THEN Garbage ELSE hash2
    BY <1>1 DEF TestHash
  <2>5. JobOf(Garbage) = -1
    BY DEF JobOf, Garbage
  <2> QED
    BY <2>1, <2>2, <2>3, <2>4, <2>5
<1>13. ASSUME JobOf(reported') >= 0, NEW q \in 0 .. Front, After'[q] = JobOf(reported')
       PROVE  Ago(nonce', reported', ReportAge')
  <2>1. CASE Reporting /\ After[Front] >= 0
    <3>1. reported' = ticket /\ Ago(nonce, ticket, TestDepth)
      BY <2>1, ReportStep DEF LagInv
    <3>2. TestDepth + Tick = ReportAge'
      BY <1>2, <1>3, <1>4, <1>5, <1>6, <2>1 DEF Reporting, ReportAge
    <3>3. Ago(nonce', ticket, TestDepth + Tick)
      <4>1. Tick \in Int /\ nonce \in Int /\ ticket.n \in Int /\ From(ticket, ticket)
        BY <1>2, <1>3, ItemType DEF Tick, From, Item
      <4> QED
        BY <1>3, <1>5, <3>1, <4>1, AgoLater
    <3> QED
      BY <3>1, <3>2, <3>3
  <2>2. CASE ~(Reporting /\ After[Front] >= 0)
    <3>1. reported' = reported
      BY <2>2, ReportStep
    <3>2. After[Front] = JobOf(reported) /\ ~Reporting
      <4>1. After[Front] = JobOf(reported)
        BY <1>13, <3>1, JobGoesOn
      <4> QED
        BY <1>13, <2>2, <3>1, <4>1
    <3>3. Ago(nonce, reported, ReportAge)
      <4>1. Front \in 0 .. Front
        BY <1>3
      <4> QED
        BY <1>13, <3>1, <3>2, <4>1 DEF FlowInv
    <3>4. ReportAge + Tick = ReportAge'
      BY <1>2, <1>3, <1>4, <1>5, <1>6, <3>2 DEF Reporting, ReportAge
    <3>5. Ago(nonce', reported, ReportAge + Tick)
      <4>1. Tick \in Int /\ nonce \in Int /\ reported.n \in Int /\ From(reported, reported) /\ ReportAge \in Int
        BY <1>2, <1>3 DEF Tick, From, Item, ReportAge
      <4> QED
        BY <1>3, <1>5, <3>3, <4>1, AgoLater
    <3> QED
      BY <3>1, <3>4, <3>5
  <2> QED
    BY <2>1, <2>2
<1>14. JobOf(reported') >= 0 /\ (\E q \in 0 .. Front : After'[q] = JobOf(reported'))
         => Ago(nonce', reported', ReportAge')
  BY <1>13, Zenon
<1> QED
  BY <1>4, <1>7, <1>9, <1>10, <1>11, <1>12, <1>14 DEF FlowInv, Reporting, JobOf, Ago

LEMMA FlowStutter == FlowInv /\ UNCHANGED vars => FlowInv'
<1> SUFFICES ASSUME FlowInv, UNCHANGED vars PROVE FlowInv'
  OBVIOUS
<1>1. /\ build' = build /\ cnt' = cnt /\ feedback_d1' = feedback_d1 /\ nonce' = nonce
      /\ job_vw' = job_vw /\ job_buf' = job_buf /\ data' = data /\ hash' = hash /\ hash2' = hash2
      /\ input_d0' = input_d0 /\ hashers' = hashers /\ input2_d0' = input2_d0 /\ hashers2' = hashers2
      /\ ticket' = ticket /\ reported' = reported
  BY DEF vars, control, jobs, first, second, output
<1>2. LOOP' = LOOP /\ R' = R /\ Depth' = Depth /\ NonceMod' = NonceMod
  BY <1>1 DEF LOOP, R, Depth, NonceMod
<1>3. FirstEnd' = FirstEnd /\ Front' = Front /\ TestDepth' = TestDepth
  BY <1>2 DEF FirstEnd, Front, TestDepth
<1>4. Before' = Before
  BY <1>1, <1>2, <1>3 DEF Before, FirstItem, JobOf
<1>5. After' = After
  BY <1>1, <1>2, <1>3 DEF After, SecondItem, JobOf
<1>6. (Reporting <=> Reporting') /\ ReportAge' = ReportAge
  BY <1>1, <1>2, <1>3 DEF Reporting, ReportAge
<1>7. InOrder(Before, After) => InOrder(Before', After')
  BY <1>4, <1>5 DEF InOrder
<1>8. Ago(nonce, reported, ReportAge) => Ago(nonce', reported', ReportAge')
  BY <1>1, <1>2, <1>6 DEF Ago
<1>9. JobOf(reported') = JobOf(reported) /\ JobOf(ticket') = JobOf(ticket) /\ JobOf(hash2') = JobOf(hash2)
  BY <1>1
<1>10. InOrder(Before', After')
  BY <1>7 DEF FlowInv
<1>11. job_buf' <= job_vw' /\ data'.job <= job_buf' /\ \A k \in 0 .. FirstEnd : Before'[k] <= job_buf'
  BY <1>1, <1>4 DEF FlowInv
<1>12. /\ LOOP > 1 /\ cnt' = 1 => ~feedback_d1'
       /\ LOOP = 1 /\ feedback_d1' => hash2'.round = -1
  BY <1>1 DEF FlowInv
<1>13. LOOP > 1 => JobOf(ticket') = IF (cnt' = IF LOOP > 2 THEN 2 ELSE 0) THEN JobOf(hash2') ELSE -1
  BY <1>1, <1>9 DEF FlowInv, Reporting
<1>14. JobOf(reported') >= 0 /\ (\E q \in 0 .. Front : After'[q] = JobOf(reported'))
         => Ago(nonce', reported', ReportAge')
  BY <1>5, <1>8, <1>9 DEF FlowInv
<1> QED
  BY <1>2, <1>3, <1>10, <1>11, <1>12, <1>13, <1>14 DEF FlowInv, Reporting, JobOf, Ago

(* Within a job the nonces are hashed one after the other, none left out   *)
(* and none twice, for every LOOP_LOG2, both cores, every number of rounds *)
(* and every width of the nonce counter, whatever jobs came before         *)
(* (fpgaminer_top.v, sha256_transform.v).                                  *)
THEOREM NoncesOneByOne == Spec => NoNonceSkipped
<1>1. Init => TypeInv /\ FlowInv
  BY TypeInit, FlowInit
<1>2. TypeInv /\ LagInv /\ FlowInv /\ [Next]_vars => FlowInv'
  BY FlowNext, FlowStutter
<1>3. TypeInv /\ LagInv /\ FlowInv /\ [Next]_vars
        => [reported' # reported /\ Finished(reported) /\ reported'.job = reported.job
              => reported'.n = (reported.n + 1) % NonceMod]_vars
  <2> SUFFICES ASSUME TypeInv, LagInv, FlowInv, Next, reported' # reported, Finished(reported),
                      reported'.job = reported.job
               PROVE  reported'.n = (reported.n + 1) % NonceMod
    OBVIOUS
  <2>1. /\ reported' = ticket /\ Reporting /\ After[Front] = JobOf(ticket) /\ ticket.round # -1
    BY ReportStep
  <2>2. /\ build \in Builds /\ nonce \in Int /\ {ticket, reported} \subseteq Item
        /\ cnt \in 0 .. LOOP - 1
    BY DEF TypeInv, TypeOK
  <2>3. /\ NonceMod \in Nat \ {0} /\ Depth \in Int /\ R \in Int /\ Front \in Nat
    BY <2>2, LoopDepth, FlowType
  <2>4. TestDepth \in Int
    BY <2>3 DEF TestDepth
  <2>5. ReportAge = TestDepth + 1
    BY <2>1, <2>2 DEF Reporting, ReportAge
  <2>6. reported.round # -1 /\ JobOf(reported) >= 0 /\ After[Front] = JobOf(reported)
    <3>1. Rounds # -1 /\ reported.job >= 0
      BY <2>2, PipelineAssumption DEF Item
    <3> QED
      BY <2>1, <3>1 DEF Finished, JobOf
  <2>7. Ago(nonce, reported, TestDepth + 1) /\ Ago(nonce, ticket, TestDepth)
    <3>1. Front \in 0 .. Front
      BY <2>3
    <3> QED
      BY <2>5, <2>6, <3>1 DEF FlowInv, LagInv
  <2>8. PICK q1 \in Int : nonce - (TestDepth + 1) = q1 * NonceMod + reported.n
    BY <2>6, <2>7 DEF Ago
  <2>9. PICK q2 \in Int : nonce - TestDepth = q2 * NonceMod + ticket.n
    BY <2>1, <2>7 DEF Ago
  <2>10. ticket.n \in 0 .. NonceMod - 1 /\ reported.n \in Int
    BY <2>2, <2>3 DEF Item
  <2>11. reported.n + 1 = (q2 - q1) * NonceMod + ticket.n
    BY <2>2, <2>3, <2>4, <2>8, <2>9, <2>10
  <2>12. ((q2 - q1) * NonceMod + ticket.n) % NonceMod = ticket.n
    <3>1. q2 - q1 \in Int
      OBVIOUS
    <3> QED
      BY <2>3, <2>10, <3>1, Remainder
  <2> QED
    BY <2>1, <2>11, <2>12
<1> QED
  BY <1>1, <1>2, <1>3, TypeLag, PTL DEF Spec, NoNonceSkipped
=============================================================================
