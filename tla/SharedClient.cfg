CONSTANTS
    Worker = {w1, w2}
    Threshold = 2
    RecoveryTimeout = 1
    OutageEnd = 2
    MaxTime = 4
    Absent = Absent
    MaxAttempts = 2
    AttemptTime = 1
    BaseDelay = 1
    MaxDelay = 1
    NoHint = NoHint
    Hints <- RetryAfterHints
SPECIFICATION FairSharedSpec
INVARIANTS
    SharedTypeOK
    PoolCountsFailures
    RequestWithinBudget
PROPERTIES
    SharedRequestEnds
    Recovers
