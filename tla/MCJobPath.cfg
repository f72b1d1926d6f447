CONSTANTS
    Bits = 4
    Levels = 3
    Ratio = 1
    NumBytes = 4
    IndexMod = 8
    TagMod = 32
    MaxDue = 3
    Masters <- JobMasters
SPECIFICATION FairJobSpec
INVARIANTS
    JobIntact
    Realigned
PROPERTIES
    JobLoaded
