CONSTANTS
    Servers = 2
    Buffer = 2
    DisableFor = 1
    RetryStales = 1
    Share = {"s1", "s2", "s3"}
    Setups <- MCSetups
SPECIFICATION HostSpec
INVARIANTS
    StaleBounded
    JobsAccounted
    SharesAccounted
    PercentSane
PROPERTY NewBlockMined
CHECK_DEADLOCK FALSE
