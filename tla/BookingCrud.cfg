SPECIFICATION Spec
CONSTANTS
    None = None
    Word <- MCWord
    WordLength <- MCWordLength
    Environment <- MCEnvironment
    Blank = {"blank"}
    Tag = {"create", "update", "run"}
    NoTag = "untagged"
    Defect <- MCDefect
    Draw <- MCDraw
    LateBound = 2
INVARIANTS
    CrudTypeOK
    FailureIsExplained
    PassedMeansHeld
    AbsenceIsReal
    Traceable
    WireMeetsContract
    TokenIsNeverRefused
    VerificationIsForced
