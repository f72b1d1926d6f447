CONSTANTS
    Builds <- MCBuilds
    Rounds = 64
    Jobs = 1
SPECIFICATION FairSpec
INVARIANTS
    GoldenNonceRight
PROPERTIES
    NoNonceSkipped
    StaleBounded
    JobHashed
