CONSTANTS
    w1 = w1
    w2 = w2
    None = None
    Word <- MCWord
    MaxBuffer = 5
SPECIFICATION LinkSpec
INVARIANT ShareIsHashed
PROPERTIES
    IdleFindSent
    WordLeaves
