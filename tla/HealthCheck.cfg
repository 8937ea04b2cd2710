CONSTANTS
    Worker = {w1, w2, w3}
    Leftover = {"absent", "pass", "fail"}
SPECIFICATION FairSpec
INVARIANTS
    TypeOK
    OneLeaderAtATime
    FollowersFindResult
    FollowersHonourFailure
PROPERTIES
    EveryWorkerDecides
    ImplementsElection
CHECK_DEADLOCK FALSE
