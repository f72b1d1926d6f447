CONSTANTS
    FifoWord <- MCWord
    P_SYNC_FIFO_DEPTH = 3
    FifoIndexMod = 4
    FlowCtrl = 1
SPECIFICATION FifoSpec
INVARIANTS
    OneWordDeep
PROPERTIES
    DataWithStrobe
