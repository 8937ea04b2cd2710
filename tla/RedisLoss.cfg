CONSTANTS
    Worker = {w1, w2}
    Threshold = 2
    RecoveryTimeout = 2
    OutageEnd = 4
    MaxTime = 6
    Absent = Absent
SPECIFICATION Spec
INVARIANT RedisLossTolerated
