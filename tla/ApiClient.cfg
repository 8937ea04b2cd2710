CONSTANTS
    Thread = {t1, t2}
    Threshold = 3
    RecoveryTimeout = 2
    MaxTime = 4
    OutageEnd = 3
    MaxAttempts = 3
    BaseDelay = 1
    MaxDelay = 3
    HeaderValues <- RetryAfterValues
    NoHint = NoHint
SPECIFICATION FairClientSpec
INVARIANTS
    ClientTypeOK
    InsideOnlyWhileTrying
PROPERTIES
    UpstreamIsSpared
    FailFastIsJustified
    RequestEnds
