CONSTANTS
    Worker = {w1, w2, w3}
    Threshold = 2
    RecoveryTimeout = 2
    OutageEnd = 3
    MaxTime = 5
    Absent = Absent
SPECIFICATION Spec
SYMMETRY Workers
INVARIANTS
    TypeOK
    FieldsAgree
PROPERTIES
    OpenBlocks
    RefusalIsJustified
    ImplementsPool
