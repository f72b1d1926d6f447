CONSTANTS
    Word <- MCWord
    Sizes <- MCSizes
    IndexMod = 4
    Depth = 3
    FifoMod = 4
SPECIFICATION Spec
INVARIANTS
    ByteOrder
PROPERTIES
    StreamNeverEnds
