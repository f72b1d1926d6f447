CONSTANTS
    Bits = 4
    Levels = 3
    Ratio = 4
    Masters <- MCMasters
    TagMod = 32
    MaxDue = 3
SPECIFICATION FairSpec
PROPERTIES
    HandOver
    AllHandedOver
