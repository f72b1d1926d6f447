CONSTANTS
    MaxWork = 2
    MaxNonces = 2
    Setups <- MCSetups
SPECIFICATION FairSpec
INVARIANTS
    JobWhole
    AlmostRightBlock
    Accounted
PROPERTIES
    GoldenBringsWork
    WorkReachesMiner
