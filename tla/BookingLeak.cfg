CONSTANTS
    MaxBookings = 3
    MaxAttempts = 2
    TokenTTL = 1
    TokenLife = 3
    CallTime = 1
    MaxTime = 4
SPECIFICATION CalmSpec
INVARIANT EveryCreatedIsTracked
CHECK_DEADLOCK FALSE
