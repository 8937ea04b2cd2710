CONSTANTS
    Worker = {w1, w2}
    Leftover = {"absent"}
SPECIFICATION CalmSpec
INVARIANT ExactlyOneHit
CHECK_DEADLOCK FALSE
