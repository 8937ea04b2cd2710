CONSTANTS
    Thread = {t1, t2, t3}
    Threshold = 2
    RecoveryTimeout = 2
    MaxTime = 5
SPECIFICATION Spec
INVARIANTS
    TypeOK
    StateAgreesWithCount
    HalfOpenIsRested
PROPERTY ImplementsContract
