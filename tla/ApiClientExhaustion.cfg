CONSTANTS
    Thread = {t1, t2}
    Threshold = 2
    RecoveryTimeout = 2
    MaxTime = 3
    OutageEnd = 3
    MaxAttempts = 2
    BaseDelay = 1
    MaxDelay = 2
    HeaderValues <- RetryAfterValues
    NoHint = NoHint
SPECIFICATION ClientSpec
INVARIANT ExhaustionIsPublic
