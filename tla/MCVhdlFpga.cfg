CONSTANTS
    JobBytes = 2
    MaxJobs = 5
    MaxHits = 3
    MaxInjections = 2
SPECIFICATION Spec
INVARIANTS
    CreditRight
    OlderOnlyAmidInjection
    GoodFpgaPasses
    JobsWhole
PROPERTY FailureNoticed
CHECK_DEADLOCK FALSE
