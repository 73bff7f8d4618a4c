SPECIFICATION FairSpec
CONSTANTS
    Callers = {c1, c2}
    MaxAttempts = 3
    TaskTimeout = 3
    RetryAfter = {0, 1, 2, 3}
    Limits = {1}
    InitialLimit = 1
INVARIANTS
    ResultIsReal
PROPERTIES
    CallsEnd
CHECK_DEADLOCK FALSE
