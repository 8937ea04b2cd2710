CONSTANTS
    MaxBookings = 3
    MaxAttempts = 2
    TokenTTL = 1
    TokenLife = 3
    CallTime = 1
    MaxTime = 6
SPECIFICATION FairSpec
INVARIANTS
    TypeOK
    NothingSlipsThrough
    RegisteredOnce
    TeardownIsAuthorised
PROPERTY EveryBookingSettles
CHECK_DEADLOCK FALSE
