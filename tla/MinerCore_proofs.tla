-------------------------- MODULE MinerCore_proofs --------------------------
(***************************************************************************)
(* The counters of the miner, for every unwrap level, width of nonce, seed *)
(* and jump: the steps and the ROM stay together, and the nonces are timed *)
(* by the steps.  The rings never put out a whole hash.                    *)
(***************************************************************************)
EXTENDS MinerCore, TLAPS

(* Waiting, the counters rest at 0; mining, they are in step.              *)
StepsInv ==
    /\ r_count \in Step /\ r_ks_addr \in Step
    /\ r_stb_waiting \in Bit /\ r_slave_write_stb \in Bit
    /\ i_reset \in Bit /\ i_slave_write_stb \in Bit
    /\ r_stb_waiting = 1 => r_slave_write_stb = 0 /\ r_count = 0 /\ r_ks_addr = 0
    /\ RomInStep

(* The age of a nonce is the step it is in, but for the first of a job.    *)
NonceInv ==
    /\ r_nonce_next \in Nonce
    /\ held \in Nat
    /\ r_stb_waiting = 1 => r_nonce_next = P_NONCE_SEED
    /\ r_stb_waiting = 0 => held <= r_count + 1
    /\ r_stb_waiting = 0 /\ r_nonce_next # P_NONCE_SEED => held = r_count + 1

LEMMA StepsInit == Init => StepsInv
  BY MinerCoreAssumption DEF Init, StepsInv, RomInStep, Step, Bit

(* The step after is always one more, around the level: Counting is only   *)
(* false where the count wraps, or where the miner waits.                  *)
LEMMA AroundLevel ==
  ASSUME NEW c \in Step
  PROVE  /\ (c + 1) % L_UNWRAP_LEVEL \in Step
         /\ c < L_UNWRAP_LEVEL - 1 => (c + 1) % L_UNWRAP_LEVEL = c + 1
         /\ ~(c < L_UNWRAP_LEVEL - 1) => (c + 1) % L_UNWRAP_LEVEL = 0
<1>1. CASE c < L_UNWRAP_LEVEL - 1
  BY <1>1, MinerCoreAssumption DEF Step
<1>2. CASE ~(c < L_UNWRAP_LEVEL - 1)
  <2>1. c + 1 = L_UNWRAP_LEVEL
    BY <1>2, MinerCoreAssumption DEF Step
  <2> QED
    BY <1>2, <2>1, MinerCoreAssumption DEF Step
<1> QED
  BY <1>1, <1>2

LEMMA NeverExhausted == ASSUME StepsInv PROVE ~Exhausted
  BY MinerCoreAssumption DEF StepsInv, Exhausted, Step

LEMMA StepsStep ==
  ASSUME StepsInv, StepsCount, Rom, i_reset' \in Bit, i_slave_write_stb' \in Bit
  PROVE  StepsInv'
<1> USE DEF StepsInv, Bit
<1>1. CASE i_reset = 1
  BY <1>1, MinerCoreAssumption DEF StepsCount, RomInStep, Step
<1>2. CASE i_reset # 1 /\ r_stb_waiting = 1 /\ i_slave_write_stb # 1
  BY <1>2, NeverExhausted, MinerCoreAssumption
     DEF StepsCount, Counting, Addressing, RomInStep, Step
<1>3. CASE i_reset # 1 /\ r_stb_waiting = 1 /\ i_slave_write_stb = 1
  <2>1. r_count' = 0 /\ r_stb_waiting' = 0 /\ r_slave_write_stb' = 1 /\ w_k_mem' = 0
    BY <1>3, NeverExhausted DEF StepsCount, Counting, Addressing, Rom
  <2>2. r_ks_addr' = (0 + 1) % L_UNWRAP_LEVEL
    BY <1>3 DEF StepsCount, Addressing
  <2>3. 0 \in Step
    BY MinerCoreAssumption DEF Step
  <2> QED
    BY <2>1, <2>2, <2>3, AroundLevel DEF RomInStep
<1>4. CASE i_reset # 1 /\ r_stb_waiting = 0
  <2>1. r_count' = (r_count + 1) % L_UNWRAP_LEVEL
    BY <1>4, AroundLevel DEF StepsCount, Counting
  <2>2. r_ks_addr' = (r_ks_addr + 1) % L_UNWRAP_LEVEL
    BY <1>4, AroundLevel DEF StepsCount, Addressing
  <2>3. w_k_mem' = r_ks_addr /\ r_ks_addr = r_count'
    BY <1>4, <2>1 DEF Rom, RomInStep
  <2>4. r_stb_waiting' = 0 /\ r_slave_write_stb' \in Bit
    BY <1>4, NeverExhausted DEF StepsCount
  <2> QED
    BY <2>1, <2>2, <2>3, <2>4, AroundLevel DEF RomInStep
<1> QED
  BY <1>1, <1>2, <1>3, <1>4

LEMMA StepsNext == StepsInv /\ [Next]_vars => StepsInv'
<1> SUFFICES ASSUME StepsInv, [Next]_vars PROVE StepsInv'
  OBVIOUS
<1>1. CASE Next
  <2>1. i_reset' \in Bit /\ i_slave_write_stb' \in Bit
    BY <1>1 DEF Next, Environment, Bit
  <2> QED
    BY <1>1, <2>1, StepsStep DEF Next, Clock
<1>2. CASE UNCHANGED vars
  BY <1>2 DEF vars, inputs, steps, StepsInv, RomInStep
<1> QED
  BY <1>1, <1>2

LEMMA StepsAlways == Spec => []StepsInv
  BY StepsInit, StepsNext, PTL DEF Spec

(* The row of round constants on the ROM's port is the one of the step the *)
(* miner is in, for every unwrap level (Miner.v:326-352).                  *)
THEOREM RomStaysInStep == Spec => []RomInStep
<1>1. StepsInv => RomInStep
  BY DEF StepsInv
<1> QED
  BY <1>1, StepsAlways, PTL

(* Once mining, only a reset makes the miner wait: r_count == -1 can never *)
(* be, whatever the widths of the two counters (Miner.v:347).              *)
THEOREM MinesUntilReset == Spec => NeverWaitsAgain
<1>1. StepsInv /\ [Next]_vars
        => [r_stb_waiting = 0 /\ r_stb_waiting' = 1 => i_reset = 1]_vars
  BY NeverExhausted DEF Next, Clock, StepsCount
<1> QED
  BY <1>1, StepsAlways, PTL DEF Spec, NeverWaitsAgain

-----------------------------------------------------------------------------
(* Where the nonce counter goes: around NonceMod, over the jumps.          *)
LEMMA NonceStep ==
  ASSUME NEW n \in Nonce, NEW d \in {1, Skip}
  PROVE  /\ (n + d) % NonceMod \in Nonce
         /\ (n + d) % NonceMod # n
         /\ n + d < NonceMod => (n + d) % NonceMod = n + d
         /\ n + d >= NonceMod => (n + d) % NonceMod = n + d - NonceMod
<1>1. d \in Nat /\ d > 0 /\ d < NonceMod
  BY MinerCoreAssumption
<1>2. NonceMod \in Nat /\ NonceMod > 0
  BY MinerCoreAssumption
<1>3. CASE n + d < NonceMod
  BY <1>1, <1>2, <1>3 DEF Nonce
<1>4. CASE n + d >= NonceMod
  <2>1. n + d - NonceMod \in 0 .. NonceMod - 1
    BY <1>1, <1>2, <1>4 DEF Nonce
  <2>2. (n + d) % NonceMod = n + d - NonceMod
    BY <1>1, <1>2, <1>4, <2>1 DEF Nonce
  <2> QED
    BY <1>1, <1>2, <1>4, <2>1, <2>2 DEF Nonce
<1> QED
  BY <1>1, <1>2, <1>3, <1>4 DEF Nonce

LEMMA NonceInit == Init => NonceInv /\ GapLeftOut
  BY MinerCoreAssumption DEF Init, NonceInv, GapLeftOut, Nonce

(* One clock of the process Nonce Increment: a tick moves the nonce and    *)
(* begins its age again, in step with the count.                           *)
LEMMA NonceTick ==
  ASSUME StepsInv, NonceInv, Next
  PROVE  NonceInv'
<1> USE DEF StepsInv, NonceInv, Bit
<1>1. CASE i_reset = 1
  BY <1>1, MinerCoreAssumption DEF Next, Clock, StepsCount, NonceIncrement, History, Nonce
<1>2. CASE i_reset # 1 /\ i_slave_write_stb = 1
  <2>1. r_nonce_next' = P_NONCE_SEED /\ held' = 1
    BY <1>2 DEF Next, Clock, NonceIncrement, History
  <2>2. r_count' \in Step
    BY <1>2, StepsNext DEF Next
  <2>3. PICK c \in Step : r_count' = c
    BY <2>2
  <2>4. P_NONCE_SEED \in Nonce
    BY MinerCoreAssumption DEF Nonce
  <2>5. held' \in Nat /\ held' <= r_count' + 1
    BY <2>1, <2>3, MinerCoreAssumption DEF Step
  <2>6. r_nonce_next' \in Nonce
    BY <2>1, <2>4
  <2> QED
    BY <2>1, <2>5, <2>6
<1>3. CASE i_reset # 1 /\ i_slave_write_stb # 1 /\ r_stb_waiting = 1
  <2>1. r_stb_waiting' = 1
    BY <1>3, NeverExhausted DEF Next, Clock, StepsCount, Addressing
  <2>2. ~NonceTicks
    BY <1>3, MinerCoreAssumption DEF NonceTicks
  <2>3. r_nonce_next' = r_nonce_next
    BY <1>3, <2>2 DEF Next, Clock, NonceIncrement
  <2>4. held' \in Nat
    BY <1>3 DEF Next, History
  <2> QED
    BY <1>3, <2>1, <2>3, <2>4
<1>4. CASE i_reset # 1 /\ i_slave_write_stb # 1 /\ r_stb_waiting = 0 /\ NonceTicks
  <2>1. r_nonce_next' \in Nonce /\ r_nonce_next' # r_nonce_next
    BY <1>4, NonceStep DEF Next, Clock, NonceIncrement
  <2>2. held' = 1
    BY <2>1 DEF Next, History
  <2>3. r_count' \in Step
    BY StepsNext DEF Next
  <2>4. r_stb_waiting' = 0
    BY <1>4, NeverExhausted DEF Next, Clock, StepsCount
  <2>5. r_count' = 0
    BY <1>4, AroundLevel DEF Next, Clock, StepsCount, Counting, NonceTicks
  <2> QED
    BY <2>1, <2>2, <2>4, <2>5
<1>5. CASE i_reset # 1 /\ i_slave_write_stb # 1 /\ r_stb_waiting = 0 /\ ~NonceTicks
  <2>1. r_nonce_next' = r_nonce_next
    BY <1>5 DEF Next, Clock, NonceIncrement
  <2>2. r_count' = r_count + 1 /\ r_count < L_UNWRAP_LEVEL - 1
    BY <1>5, AroundLevel, MinerCoreAssumption
       DEF Next, Clock, StepsCount, Counting, NonceTicks, Step
  <2>3. held' = held + 1
    BY <1>5, <2>1, <2>2, MinerCoreAssumption DEF Next, History, Step
  <2>4. r_stb_waiting' = 0
    BY <1>5, NeverExhausted DEF Next, Clock, StepsCount
  <2> QED
    BY <1>5, <2>1, <2>2, <2>3, <2>4 DEF Step
<1> QED
  BY <1>1, <1>2, <1>3, <1>4, <1>5

LEMMA GapStep ==
  ASSUME NonceInv, GapLeftOut, Next
  PROVE  GapLeftOut'
<1> USE DEF NonceInv, GapLeftOut
<1>1. r_nonce_next \in Nonce
  OBVIOUS
<1>2. CASE r_nonce_next' = P_NONCE_SEED
  BY <1>2, MinerCoreAssumption
<1>3. CASE r_nonce_next' = r_nonce_next
  BY <1>3
<1>4. CASE r_nonce_next' = (r_nonce_next + Skip) % NonceMod /\ Jumps
  <2>1. CASE r_nonce_next = NonceMod - 1 - Low
    <3>1. r_nonce_next' = NonceMod - 1 - Low + Skip
      BY <1>1, <1>4, <2>1, NonceStep, MinerCoreAssumption
    <3> QED
      BY <3>1, MinerCoreAssumption
  <2>2. CASE r_nonce_next = NonceMod - 1
    <3>1. r_nonce_next' = Skip - 1
      BY <1>1, <1>4, <2>2, NonceStep, MinerCoreAssumption
    <3> QED
      BY <3>1, MinerCoreAssumption
  <2> QED
    BY <1>4, <2>1, <2>2 DEF Jumps
<1>5. CASE r_nonce_next' = (r_nonce_next + 1) % NonceMod /\ ~Jumps
  <2>1. r_nonce_next < NonceMod - 1 /\ r_nonce_next # NonceMod - 1 - Low
    BY <1>1, <1>5, MinerCoreAssumption DEF Jumps, Nonce
  <2>2. r_nonce_next + 1 < NonceMod
    BY <1>1, <2>1, MinerCoreAssumption DEF Nonce
  <2>3. (r_nonce_next + 1) % NonceMod = r_nonce_next + 1
    BY <1>1, <2>2, NonceStep
  <2> QED
    BY <1>1, <1>5, <2>1, <2>3, MinerCoreAssumption DEF Nonce
<1> QED
  BY <1>2, <1>3, <1>4, <1>5 DEF Next, Clock, NonceIncrement

LEMMA NonceNext == StepsInv /\ NonceInv /\ GapLeftOut /\ [Next]_vars => (NonceInv /\ GapLeftOut)'
<1>1. CASE UNCHANGED vars
  BY <1>1 DEF vars, steps, nonces, NonceInv, GapLeftOut
<1> QED
  BY <1>1, NonceTick, GapStep

LEMMA NonceAlways == Spec => [](NonceInv /\ GapLeftOut)
  BY NonceInit, NonceNext, StepsAlways, PTL DEF Spec

(* A nonce lasts as many clocks as the unwrap level, only the first of a   *)
(* job less (Miner.v:365-373).                                             *)
THEOREM NonceLastsLevel == Spec => []NonceLasts
<1>1. StepsInv /\ NonceInv => NonceLasts
  BY MinerCoreAssumption DEF StepsInv, NonceInv, NonceLasts, NonceTicks, Step
<1> QED
  BY <1>1, StepsAlways, NonceAlways, PTL

(* The nonces that the jump passes over are never reached, for every seed  *)
(* below them and every number of laps (Miner.v:366-369).                  *)
THEOREM JumpLeavesGap == Spec => []GapLeftOut
  BY NonceAlways, PTL

-----------------------------------------------------------------------------
(* The rings.  A stage only ever holds an item in its first lap: the one   *)
(* that leaves the last stage meets the constant of its next round at the  *)
(* first stage only if the row on the ROM's port is row 1 (RoundOf), and   *)
(* it got to the last stage with row L_HASHERS_NUM - 1, a clock before.    *)
FirstLap(h) == \A i \in Stage : h[i].round \in {-1, i + 1}
RingsInv ==
    /\ hashers0 \in [Stage -> Item] /\ hashers1 \in [Stage -> Item]
    /\ hash0 \in Item /\ hash1 \in Item
    /\ i_slave_write_data \in 0 .. Jobs /\ w_k_mem \in Step
    /\ FirstLap(hashers0)
    /\ hashers0[Last].round = L_HASHERS_NUM => w_k_mem # 1
    /\ \A i \in Stage : hashers1[i].round = -1
    /\ hash0.round = -1 /\ hash1.round = -1

LEMMA Sizes ==
  /\ L_HASHERS_NUM \in Nat /\ L_HASHERS_NUM > 0 /\ L_UNWRAP_LEVEL \in Nat /\ L_UNWRAP_LEVEL > 1
  /\ L_HASHERS_NUM < Rounds /\ Rounds \in Nat /\ Last \in Stage /\ 0 \in Stage
<1> DEFINE L == L_UNWRAP_LEVEL
<1>1. L \in Nat /\ L > 1 /\ Rounds \in Nat /\ Rounds > 0 /\ Rounds % L = 0
  BY MinerCoreAssumption
<1> HIDE DEF L
<1>2. Rounds \div L \in Nat /\ Rounds \div L > 0 /\ Rounds \div L < Rounds
  BY <1>1
<1> QED
  BY <1>1, <1>2 DEF L_HASHERS_NUM, Stage, Last, L

LEMMA RoundOfFacts ==
  ASSUME NEW row \in Step, NEW i \in Stage
  PROVE  /\ RoundOf(row, i) \in Nat
         /\ RoundOf(row, i) = i => (row - i) % L_UNWRAP_LEVEL = 0
         /\ i > 0 => RoundOf(row, i) # i + 1
         /\ i = 0 /\ RoundOf(row, i) = L_HASHERS_NUM => row = 1
<1> DEFINE k == (row - i) % L_UNWRAP_LEVEL
<1>1. k \in 0 .. L_UNWRAP_LEVEL - 1
  BY Sizes DEF Step, Stage
<1>2. i = 0 => k = row
  BY Sizes DEF Step
<1>3. RoundOf(row, i) = L_HASHERS_NUM * k + i
  BY DEF RoundOf
<1> HIDE DEF k
<1>4. L_HASHERS_NUM * k \in Nat
  BY <1>1, Sizes
<1>5. L_HASHERS_NUM * k = 0 => k = 0
  BY <1>1, Sizes
<1>6. L_HASHERS_NUM * k = L_HASHERS_NUM => k = 1
  BY <1>1, Sizes
<1>7. L_HASHERS_NUM * k = 1 => L_HASHERS_NUM = 1
  BY <1>1, Sizes
<1>8. i \in Nat /\ (i > 0 => L_HASHERS_NUM > 1)
  BY Sizes DEF Stage
<1> QED
  BY <1>1, <1>2, <1>3, <1>4, <1>5, <1>6, <1>7, <1>8, Sizes DEF k

(* Row 0 would follow row L_HASHERS_NUM - 1 by this.                       *)
LEMMA LastRow ==
  ASSUME L_HASHERS_NUM % L_UNWRAP_LEVEL # 1
  PROVE  (0 - Last) % L_UNWRAP_LEVEL # 0
<1> DEFINE L == L_UNWRAP_LEVEL
           H == L_HASHERS_NUM
<1>1. H \in Nat /\ H > 0 /\ L \in Nat /\ L > 1
  BY Sizes
<1>2. Last = H - 1
  BY DEF Last
<1> HIDE DEF H, L
<1>3. (0 - (H - 1)) % L = 0 => H % L = 1
  BY <1>1
<1> QED
  BY <1>2, <1>3 DEF H, L

LEMMA ItemFacts ==
  /\ NoItem \in Item
  /\ \A x \in Item : \A r \in -1 .. Rounds :
        [x EXCEPT !.round = r] \in Item /\ [x EXCEPT !.round = r].round = r
<1>1. Rounds \in Nat /\ NonceMod \in Nat /\ NonceMod > 0 /\ Jobs \in Nat
  BY MinerCoreAssumption
<1>2. NoItem \in Item
  BY <1>1 DEF NoItem, Item, Nonce
<1> QED
  BY <1>2 DEF Item

(* One clock of a ring, in which no item ready for the first round again   *)
(* leaves the last stage.                                                  *)
LEMMA RingStep ==
  ASSUME NEW h \in [Stage -> Item], NEW rx \in Item, rx.round \in {-1, 0}, w_k_mem \in Step,
         FirstLap(h), h[Last].round = L_HASHERS_NUM => w_k_mem # 1
  PROVE  /\ Ring(h, rx) \in [Stage -> Item] /\ FirstLap(Ring(h, rx))
         /\ Ring(h, rx)[Last].round = L_HASHERS_NUM => (w_k_mem - Last) % L_UNWRAP_LEVEL = 0
         /\ rx.round = -1 /\ (\A i \in Stage : h[i].round = -1)
               => \A i \in Stage : Ring(h, rx)[i].round = -1
<1> DEFINE from(i) == IF r_slave_write_stb = 0 THEN h[IF i = 0 THEN Last ELSE i - 1]
                      ELSE IF i = 0 THEN rx ELSE h[i]
           to(i)   == Ring(h, rx)[i]
<1>1. ASSUME NEW i \in Stage
      PROVE  /\ to(i) \in Item
             /\ from(i) \in Item
             /\ to(i).round \in {-1, i + 1}
             /\ to(i).round = i + 1 /\ to(i).round # -1 => (w_k_mem - i) % L_UNWRAP_LEVEL = 0
             /\ from(i).round = -1 => to(i).round = -1
  <2>1. from(i) \in Item
    BY Sizes DEF Stage
  <2>2. to(i) = Digest(from(i), RoundOf(w_k_mem, i))
    BY DEF Ring
  <2>3. /\ RoundOf(w_k_mem, i) \in Nat
        /\ RoundOf(w_k_mem, i) = i => (w_k_mem - i) % L_UNWRAP_LEVEL = 0
        /\ i > 0 => RoundOf(w_k_mem, i) # i + 1
        /\ i = 0 /\ RoundOf(w_k_mem, i) = L_HASHERS_NUM => w_k_mem = 1
    BY RoundOfFacts
  <2>4. i \in 0 .. L_HASHERS_NUM - 1
    BY DEF Stage
  <2>5. from(i).round = RoundOf(w_k_mem, i) => RoundOf(w_k_mem, i) = i
    <3>1. CASE r_slave_write_stb = 0 /\ i = 0
      <4>1. from(i).round \in {-1, L_HASHERS_NUM} /\ (from(i).round = L_HASHERS_NUM => w_k_mem # 1)
        BY <3>1, Sizes DEF FirstLap, Last
      <4> QED
        BY <2>3, <3>1, <4>1, Sizes
    <3>2. CASE r_slave_write_stb = 0 /\ i # 0
      <4>1. i - 1 \in Stage /\ i - 1 + 1 = i
        BY <2>4, <3>2, Sizes DEF Stage
      <4>2. from(i).round \in {-1, i}
        BY <3>2, <4>1 DEF FirstLap
      <4> QED
        BY <2>3, <4>2
    <3>3. CASE r_slave_write_stb # 0 /\ i = 0
      BY <2>3, <3>3
    <3>4. CASE r_slave_write_stb # 0 /\ i # 0
      <4>1. from(i).round \in {-1, i + 1} /\ i > 0
        BY <2>4, <3>4, Sizes DEF FirstLap
      <4> QED
        BY <2>3, <4>1
    <3> QED
      BY <3>1, <3>2, <3>3, <3>4
  <2> HIDE DEF from, to
  <2>6. CASE from(i).round = RoundOf(w_k_mem, i)
    <3>1. to(i) = [from(i) EXCEPT !.round = RoundOf(w_k_mem, i) + 1]
      BY <2>2, <2>6 DEF Digest
    <3>2. RoundOf(w_k_mem, i) = i /\ i + 1 \in -1 .. Rounds /\ i # -1
      BY <2>4, <2>5, <2>6, Sizes
    <3>3. to(i) \in Item /\ to(i).round = i + 1
      BY <2>1, <3>1, <3>2, ItemFacts
    <3> QED
      BY <2>1, <2>3, <2>6, <3>2, <3>3
  <2>7. CASE from(i).round # RoundOf(w_k_mem, i)
    <3>1. to(i) = [from(i) EXCEPT !.round = -1] /\ -1 \in -1 .. Rounds
      BY <2>2, <2>7, Sizes DEF Digest
    <3>2. to(i) \in Item /\ to(i).round = -1
      BY <2>1, <3>1, ItemFacts
    <3> QED
      BY <2>1, <2>4, <3>2
  <2> QED
    BY <2>6, <2>7
<1>2. Ring(h, rx) \in [Stage -> Item]
  <2>1. Ring(h, rx) = [i \in Stage |-> Ring(h, rx)[i]]
    BY DEF Ring
  <2> QED
    BY <1>1, <2>1
<1>3. FirstLap(Ring(h, rx))
  BY <1>1 DEF FirstLap
<1>4. Ring(h, rx)[Last].round = L_HASHERS_NUM => (w_k_mem - Last) % L_UNWRAP_LEVEL = 0
  BY <1>1, Sizes DEF Last
<1>5. rx.round = -1 /\ (\A i \in Stage : h[i].round = -1) => \A i \in Stage : Ring(h, rx)[i].round = -1
  <2> SUFFICES ASSUME rx.round = -1, \A i \in Stage : h[i].round = -1, NEW i \in Stage
               PROVE  Ring(h, rx)[i].round = -1
    OBVIOUS
  <2>1. i > 0 => i - 1 \in Stage
    BY Sizes DEF Stage
  <2>2. from(i).round = -1
    BY <2>1, Sizes DEF Stage
  <2> QED
    BY <1>1, <2>2
<1> QED
  BY <1>2, <1>3, <1>4, <1>5

LEMMA RingsInit == Init => RingsInv
<1> SUFFICES ASSUME Init PROVE RingsInv
  OBVIOUS
<1>1. NoItem \in Item /\ NoItem.round = -1
  BY ItemFacts DEF NoItem
<1>2. \A i \in Stage : hashers0[i] = NoItem /\ hashers1[i] = NoItem
  BY DEF Init
<1>3. hashers0[Last].round # L_HASHERS_NUM
  BY <1>1, <1>2, Sizes
<1>4. i_slave_write_data \in 0 .. Jobs /\ w_k_mem \in Step
  BY MinerCoreAssumption DEF Init, Step
<1> QED
  BY <1>1, <1>2, <1>3, <1>4 DEF Init, RingsInv, FirstLap

LEMMA RingsStep ==
  ASSUME L_HASHERS_NUM % L_UNWRAP_LEVEL # 1, StepsInv, NonceInv, RingsInv, Next
  PROVE  RingsInv'
<1> DEFINE rx0 == [job |-> i_slave_write_data, n |-> r_nonce_next, round |-> 0]
           rx1 == [hash0 EXCEPT !.round = IF @ = Rounds THEN 0 ELSE -1]
<1>1. /\ hashers0' = Ring(hashers0, rx0) /\ hash0' = AddState(hashers0[Last], i_slave_write_data)
      /\ hashers1' = Ring(hashers1, rx1) /\ hash1' = AddState(hashers1[Last], hashers1[Last].job)
      /\ w_k_mem' = r_ks_addr
  BY DEF Next, Clock, Transforms, Rom
<1>2. w_k_mem' \in Step
  BY <1>1 DEF StepsInv
<1>3. w_k_mem' = 1 => w_k_mem = 0
  <2>1. CASE r_stb_waiting = 1
    BY <1>1, <2>1 DEF StepsInv
  <2>2. CASE r_stb_waiting = 0
    <3>1. w_k_mem' = (w_k_mem + 1) % L_UNWRAP_LEVEL /\ w_k_mem \in Step
      BY <1>1, <2>2 DEF StepsInv, RomInStep, RingsInv
    <3> QED
      BY <3>1, AroundLevel, MinerCoreAssumption DEF Step
  <2> QED
    BY <2>1, <2>2 DEF StepsInv, Bit
<1>4. i_slave_write_data' \in 0 .. Jobs
  <2>1. /\ i_slave_write_stb' \in IF i_slave_write_stb = 0 /\ i_reset = 0 /\ i_slave_write_data < Jobs
                                  THEN {0, 1} ELSE {0}
        /\ i_slave_write_data' = i_slave_write_data + i_slave_write_stb'
    BY DEF Next, Environment, Bit
  <2>2. i_slave_write_data \in 0 .. Jobs /\ Jobs \in Nat
    BY MinerCoreAssumption DEF RingsInv
  <2>3. i_slave_write_stb' = 0 \/ (i_slave_write_stb' = 1 /\ i_slave_write_data < Jobs)
    BY <2>1
  <2>4. CASE i_slave_write_stb' = 0
    <3>1. i_slave_write_data' = i_slave_write_data + 0
      BY <2>1, <2>4
    <3> QED
      BY <2>2, <3>1
  <2>5. CASE i_slave_write_stb' = 1 /\ i_slave_write_data < Jobs
    <3>1. i_slave_write_data' = i_slave_write_data + 1
      BY <2>1, <2>5
    <3> QED
      BY <2>2, <2>5, <3>1
  <2> QED
    BY <2>3, <2>4, <2>5
<1>5. rx0 \in Item /\ rx0.round = 0
  BY Sizes DEF Item, NonceInv, RingsInv
<1>6. rx1 \in Item /\ rx1.round = -1
  <2>1. hash0.round # Rounds /\ -1 \in -1 .. Rounds
    BY Sizes DEF RingsInv
  <2>2. rx1 = [hash0 EXCEPT !.round = -1]
    BY <2>1
  <2> QED
    BY <2>1, <2>2, ItemFacts DEF RingsInv
<1> HIDE DEF rx0, rx1
<1>7. /\ hashers0' \in [Stage -> Item] /\ FirstLap(hashers0')
      /\ hashers0'[Last].round = L_HASHERS_NUM => w_k_mem' # 1
  <2>1. /\ hashers0' \in [Stage -> Item] /\ FirstLap(hashers0')
        /\ hashers0'[Last].round = L_HASHERS_NUM => (w_k_mem - Last) % L_UNWRAP_LEVEL = 0
    BY <1>1, <1>5, RingStep DEF RingsInv
  <2> QED
    BY <1>3, <2>1, LastRow
<1>8. hashers1' \in [Stage -> Item] /\ \A i \in Stage : hashers1'[i].round = -1
  <2>1. FirstLap(hashers1) /\ hashers1[Last].round # L_HASHERS_NUM
    BY Sizes DEF RingsInv, FirstLap
  <2> QED
    BY <1>1, <1>6, <2>1, RingStep DEF RingsInv
<1>9. ASSUME NEW x \in Item, NEW j, x.round # Rounds
      PROVE  AddState(x, j) \in Item /\ AddState(x, j).round = -1
  <2>1. AddState(x, j) = [x EXCEPT !.round = -1]
    BY <1>9 DEF AddState, WholeHash
  <2>2. -1 \in -1 .. Rounds
    BY Sizes
  <2> QED
    BY <2>1, <2>2, ItemFacts
<1>10. hash0' \in Item /\ hash0'.round = -1
  <2>1. hashers0[Last] \in Item /\ hashers0[Last].round # Rounds
    BY Sizes DEF RingsInv, FirstLap, Last
  <2> QED
    BY <1>1, <1>9, <2>1
<1>11. hash1' \in Item /\ hash1'.round = -1
  <2>1. hashers1[Last] \in Item /\ hashers1[Last].round # Rounds
    BY Sizes DEF RingsInv
  <2> QED
    BY <1>1, <1>9, <2>1
<1> QED
  BY <1>2, <1>4, <1>7, <1>8, <1>10, <1>11 DEF RingsInv

(* An item could go on into a second lap only if the number of hashers     *)
(* were one more than a multiple of the number of rows.                    *)
LEMMA RowsMiss ==
  ASSUME L_HASHERS_NUM % L_UNWRAP_LEVEL # 1
  PROVE  Spec => []NeverHashes
<1>1. RingsInv => NeverHashes
  BY Sizes DEF RingsInv, NeverHashes
<1>2. StepsInv /\ NonceInv /\ RingsInv /\ [Next]_vars => RingsInv'
  <2>1. CASE UNCHANGED vars
    BY <2>1 DEF vars, inputs, steps, rings, RingsInv, FirstLap
  <2> QED
    BY <2>1, RingsStep
<1> QED
  BY <1>1, <1>2, RingsInit, StepsAlways, NonceAlways, PTL DEF Spec

(* With the 64 rounds of SHA-256 no unwrap level makes a whole hash, not   *)
(* only the level 16 that is built (SHA256_Transform.v:71-77): there are   *)
(* 32, 16, 8, 4 or 2 hashers and 2, 4, 8, 16 or 32 rows of constants.      *)
THEOREM NeverAWholeHash ==
  ASSUME Rounds = 64
  PROVE  Spec => []NeverHashes
<1>1. P_LOOP_LOG2 \in 1 .. 5
  BY MinerCoreAssumption
<1>2. CASE P_LOOP_LOG2 = 1
  <2>1. L_UNWRAP_LEVEL = 2
    BY <1>2 DEF L_UNWRAP_LEVEL
  <2> QED
    BY <2>1, RowsMiss DEF L_HASHERS_NUM
<1>3. CASE P_LOOP_LOG2 = 2
  <2>1. L_UNWRAP_LEVEL = 4
    BY <1>3 DEF L_UNWRAP_LEVEL
  <2> QED
    BY <2>1, RowsMiss DEF L_HASHERS_NUM
<1>4. CASE P_LOOP_LOG2 = 3
  <2>1. L_UNWRAP_LEVEL = 8
    BY <1>4 DEF L_UNWRAP_LEVEL
  <2> QED
    BY <2>1, RowsMiss DEF L_HASHERS_NUM
<1>5. CASE P_LOOP_LOG2 = 4
  <2>1. L_UNWRAP_LEVEL = 16
    BY <1>5 DEF L_UNWRAP_LEVEL
  <2> QED
    BY <2>1, RowsMiss DEF L_HASHERS_NUM
<1>6. CASE P_LOOP_LOG2 = 5
  <2>1. L_UNWRAP_LEVEL = 32
    BY <1>6 DEF L_UNWRAP_LEVEL
  <2> QED
    BY <2>1, RowsMiss DEF L_HASHERS_NUM
<1> QED
  BY <1>1, <1>2, <1>3, <1>4, <1>5, <1>6
=============================================================================
