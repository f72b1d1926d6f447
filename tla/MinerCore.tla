----------------------------- MODULE MinerCore -----------------------------
(***************************************************************************)
(* Miner.v with its two SHA256_Transform.v, clock by clock: the step       *)
(* counter and the address of the ROM of round constants, the nonce        *)
(* counter, the offer of a hit to the FIFO, and the rings of hashers.      *)
(*                                                                         *)
(* A word of SHA-256 state is known by the job and the nonce it comes from *)
(* and by the rounds it has been through, -1 once a round had the constant *)
(* of another.  With four bits to be zero (line 317) any hash may be a     *)
(* hit, the ones of unfinished state too: w_write_stb is chosen freely.    *)
(***************************************************************************)
EXTENDS Integers

CONSTANTS P_LOOP_LOG2,  \* 4 wherever the design is built
          Rounds,       \* 64
          NonceMod,     \* 2^32
          Low,          \* 2^27, the bit a jump does not look at
          Skip,         \* 0x07000000, how far a jump goes
          P_NONCE_SEED,
          Jobs          \* jobs loaded in a behaviour: a bound

L_UNWRAP_LEVEL == 2 ^ P_LOOP_LOG2
L_HASHERS_NUM  == Rounds \div L_UNWRAP_LEVEL
L_NONCE_OFFSET == 2 ^ (7 - P_LOOP_LOG2) + 1

ASSUME MinerCoreAssumption ==
    /\ P_LOOP_LOG2 \in 1 .. 5
    /\ L_UNWRAP_LEVEL \in Nat /\ L_UNWRAP_LEVEL > 1
    /\ Rounds \in Nat \ {0} /\ Rounds % L_UNWRAP_LEVEL = 0
    /\ NonceMod \in Nat /\ NonceMod > L_UNWRAP_LEVEL  \* r_count has fewer bits than a nonce
    /\ Low \in Nat /\ Skip \in Nat \ {0} /\ Skip < Low /\ 2 * Low <= NonceMod
    /\ P_NONCE_SEED \in 0 .. NonceMod - Low - 1
    /\ Jobs \in Nat

VARIABLES
    i_reset, i_slave_write_stb, i_slave_write_data, i_master_write_ack,
    w_write_stb,
    r_count, r_ks_addr, r_stb_waiting, r_slave_write_stb,
    r_nonce_next, r_write_stb,
    w_k_mem,         \* the row of constants on the port of the ROM
    hashers0, hash0, hashers1, hash1,
    held             \* clocks r_nonce_next has had its value (history)

inputs == <<i_reset, i_slave_write_stb, i_slave_write_data, i_master_write_ack, w_write_stb>>
steps  == <<r_count, r_ks_addr, r_stb_waiting, r_slave_write_stb, w_k_mem>>
nonces == <<r_nonce_next, r_write_stb>>
rings  == <<hashers0, hash0, hashers1, hash1>>
vars   == <<inputs, steps, nonces, rings, held>>

Bit    == {0, 1}
Step   == 0 .. L_UNWRAP_LEVEL - 1
Nonce  == 0 .. NonceMod - 1
Stage  == 0 .. L_HASHERS_NUM - 1
Last   == L_HASHERS_NUM - 1
Item   == [job : 0 .. Jobs, n : Nonce, round : -1 .. Rounds]
NoItem == [job |-> 0, n |-> 0, round |-> -1]

-----------------------------------------------------------------------------
(* mem2_4.mem: word i of row r is the constant of this round.              *)
RoundOf(row, i) == L_HASHERS_NUM * ((row - i) % L_UNWRAP_LEVEL) + i

Digest(x, k) == [x EXCEPT !.round = IF x.round = k THEN k + 1 ELSE -1]

(* One ring: the last stage feeds the first, except in the clock a job is  *)
(* loaded; then the other stages keep their own.                           *)
RingByItem(h, rx) ==  \* each item meets the constant of its own next round
    [i \in Stage |-> LET x == IF r_slave_write_stb = 0 THEN h[IF i = 0 THEN Last ELSE i - 1]
                              ELSE IF i = 0 THEN rx ELSE h[i]
                     IN Digest(x, x.round)]
Ring(h, rx) ==
    [i \in Stage |-> Digest(IF r_slave_write_stb = 0 THEN h[IF i = 0 THEN Last ELSE i - 1]
                            ELSE IF i = 0 THEN rx ELSE h[i],
                            RoundOf(w_k_mem, i))]

WholeHash(x, job) == x.round = Rounds /\ x.job = job

(* tx_hash adds the midstate on the input to the last stage, every clock.  *)
AddState(x, job) == IF WholeHash(x, job) THEN x ELSE [x EXCEPT !.round = -1]

Transforms ==
    /\ hashers0' = Ring(hashers0, [job |-> i_slave_write_data, n |-> r_nonce_next, round |-> 0])
    /\ hash0' = AddState(hashers0[Last], i_slave_write_data)
    /\ hashers1' = Ring(hashers1, [hash0 EXCEPT !.round = IF @ = Rounds THEN 0 ELSE -1])
    /\ hash1' = AddState(hashers1[Last], hashers1[Last].job)

-----------------------------------------------------------------------------
(* The process Steps Count.                                                *)

CountingShort == r_slave_write_stb = 1 \/ (r_count < L_UNWRAP_LEVEL - 2 /\ r_stb_waiting = 0)
Counting   == r_slave_write_stb = 1 \/ (r_count < L_UNWRAP_LEVEL - 1 /\ r_stb_waiting = 0)
Addressing == i_slave_write_stb = 1 \/ (r_ks_addr < L_UNWRAP_LEVEL - 1 /\ r_stb_waiting = 0)

(* r_count == -1: r_count is extended with zeros to the width of -1.       *)
ExhaustedAtLastStep == r_nonce_next = NonceMod - 1 /\ r_count = L_UNWRAP_LEVEL - 1
Exhausted == r_nonce_next = NonceMod - 1 /\ r_count = NonceMod - 1

StepsCountUnstarted ==
    IF i_reset = 1
    THEN r_count' = 0 /\ r_ks_addr' = 0 /\ r_stb_waiting' = 1 /\ r_slave_write_stb' = 0
    ELSE /\ r_count' = IF Counting THEN (r_count + 1) % L_UNWRAP_LEVEL ELSE 0
         /\ r_ks_addr' = IF Counting THEN (r_ks_addr + 1) % L_UNWRAP_LEVEL ELSE 0
         /\ r_stb_waiting' = IF i_slave_write_stb = 1 THEN 0 ELSE r_stb_waiting
         /\ r_slave_write_stb' = i_slave_write_stb
StepsCount ==
    IF i_reset = 1
    THEN r_count' = 0 /\ r_ks_addr' = 0 /\ r_stb_waiting' = 1 /\ r_slave_write_stb' = 0
    ELSE /\ r_count' = IF Counting THEN (r_count + 1) % L_UNWRAP_LEVEL ELSE 0
         /\ r_ks_addr' = IF Addressing THEN (r_ks_addr + 1) % L_UNWRAP_LEVEL ELSE 0
         /\ r_stb_waiting' = IF Exhausted THEN 1
                             ELSE IF Addressing THEN 0 ELSE r_stb_waiting
         /\ r_slave_write_stb' = i_slave_write_stb

Rom == w_k_mem' = r_ks_addr

-----------------------------------------------------------------------------
(* The process Nonce Increment.                                            *)

JumpsNever == FALSE
Jumps == r_nonce_next \in {NonceMod - 1 - Low, NonceMod - 1}

NonceTicks == r_count = L_UNWRAP_LEVEL - 1

NonceIncrement ==
    r_nonce_next' =
        IF i_reset = 1 \/ i_slave_write_stb = 1 THEN P_NONCE_SEED
        ELSE IF ~NonceTicks THEN r_nonce_next
        ELSE (r_nonce_next + IF Jumps THEN Skip ELSE 1) % NonceMod

OfferHit ==
    r_write_stb' =
        IF i_reset = 1 \/ i_slave_write_stb = 1 \/ i_master_write_ack = 1 THEN 0
        ELSE IF w_write_stb = 1 THEN 1 ELSE r_write_stb

o_master_write_stb ==
    IF r_stb_waiting = 0 /\ (r_write_stb = 1 \/ w_write_stb = 1) THEN 1 ELSE 0
o_master_write_data == (r_nonce_next - L_NONCE_OFFSET) % NonceMod

Clock == Transforms /\ StepsCount /\ Rom /\ NonceIncrement /\ OfferHit

-----------------------------------------------------------------------------
(* The neighbours: jobs come as strobes of one clock with the data left on *)
(* the wires (the word register of Serial_To_Parallel_Bytes), and the      *)
(* consumer of the hits acknowledges when it likes.                        *)

Environment ==
    /\ i_reset' \in Bit
    /\ i_slave_write_stb' \in IF i_slave_write_stb = 0 /\ i_reset = 0 /\ i_slave_write_data < Jobs
                              THEN Bit ELSE {0}
    /\ i_slave_write_data' = i_slave_write_data + i_slave_write_stb'
    /\ w_write_stb' \in Bit
    /\ i_master_write_ack' \in IF o_master_write_stb = 1 /\ i_master_write_ack = 0 /\ i_reset = 0
                               THEN Bit ELSE {0}

History ==
    held' = IF i_reset = 1 \/ i_slave_write_stb = 1 \/ r_nonce_next' # r_nonce_next THEN 1
            ELSE IF held <= L_UNWRAP_LEVEL THEN held + 1 ELSE held

Init ==
    /\ i_reset = 1 /\ i_slave_write_stb = 0 /\ i_slave_write_data = 0 /\ i_master_write_ack = 0
    /\ w_write_stb \in Bit
    /\ r_count = 0 /\ r_ks_addr = 0 /\ r_stb_waiting = 1 /\ r_slave_write_stb = 0
    /\ r_nonce_next = P_NONCE_SEED /\ r_write_stb = 0
    /\ w_k_mem = 0
    /\ hashers0 = [i \in Stage |-> NoItem] /\ hashers1 = [i \in Stage |-> NoItem]
    /\ hash0 = NoItem /\ hash1 = NoItem
    /\ held = 1

Next == Clock /\ History /\ Environment

Spec == Init /\ [][Next]_vars

-----------------------------------------------------------------------------
TypeOK ==
    /\ i_reset \in Bit /\ i_slave_write_stb \in Bit /\ i_master_write_ack \in Bit
    /\ i_slave_write_data \in 0 .. Jobs /\ w_write_stb \in Bit
    /\ r_count \in Step /\ r_ks_addr \in Step /\ w_k_mem \in Step
    /\ r_stb_waiting \in Bit /\ r_slave_write_stb \in Bit
    /\ r_nonce_next \in Nonce /\ r_write_stb \in Bit
    /\ hashers0 \in [Stage -> Item] /\ hashers1 \in [Stage -> Item]
    /\ hash0 \in Item /\ hash1 \in Item
    /\ held \in Nat

(* While mining, the row of constants on the ROM's port is the one of the  *)
(* step r_count names, the address a step ahead to hide the ROM's latency, *)
(* whatever resets come and wherever in a count a new job arrives.         *)
RomInStep ==
    r_stb_waiting = 0 => w_k_mem = r_count /\ r_ks_addr = (r_count + 1) % L_UNWRAP_LEVEL

(* Once it has a job the miner never says again that it waits for one, not *)
(* even when the nonces run out (lines 347-349): only a reset makes it.    *)
NeverWaitsAgain == [][r_stb_waiting = 0 /\ r_stb_waiting' = 1 => i_reset = 1]_vars

(* A nonce lasts L_UNWRAP_LEVEL clocks; only the first of a job, loaded in *)
(* the middle of a count, may last less.  None lasts longer.               *)
NonceLasts ==
    /\ r_stb_waiting = 0 => held <= L_UNWRAP_LEVEL
    /\ r_stb_waiting = 0 /\ r_nonce_next # P_NONCE_SEED /\ NonceTicks => held = L_UNWRAP_LEVEL

(* The jump leaves a stretch of nonces out for good, F8000000 to FEFFFFFE  *)
(* in the source, however often the counter comes round.                   *)
GapLeftOut == r_nonce_next \notin NonceMod - Low .. NonceMod - Low + Skip - 2

(* Neither transform ever puts out a whole hash, of any nonce of any job:  *)
(* an item goes round its stages (SHA256_Transform.v:71-77) in             *)
(* L_HASHERS_NUM clocks while the constants advance a row every clock over *)
(* L_UNWRAP_LEVEL rows, so that after its first lap the constants it meets *)
(* are those of other rounds.  SHA256_Transform.v:11-12 promises one hash  *)
(* every P_UNWRAP_LEVEL cycles.                                            *)
NeverHashes == hash0.round # Rounds /\ hash1.round # Rounds
=============================================================================
