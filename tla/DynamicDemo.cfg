SPECIFICATION FairSpec
CONSTANTS
    Tasks = {t1, t2, t3}
    High = 2
    Low = 1
    MaxEvents = 1
    MaxPermits = 1
INVARIANTS
    AssertionsHold
PROPERTIES
    EndsInTime
CHECK_DEADLOCK FALSE
