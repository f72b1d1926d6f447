CONSTANTS
    P_LOOP_LOG2 = 4
    Rounds = 64
    NonceMod = 32
    Low = 8
    Skip = 7
    P_NONCE_SEED = 0
    Jobs = 2
SPECIFICATION Spec
INVARIANTS
    RomInStep
    NonceLasts
    GapLeftOut
    NeverHashes
PROPERTIES
    NeverWaitsAgain
