SPECIFICATION FairSpec
CONSTANTS
    Callers = {c1, c2}
    Openers = {o1}
    Refreshers = {}
    NoRefresher = none
    MaxAttempts = 2
    MaxRevision = 1
    Limits = {1}
    InitialLimit = 1
INVARIANTS
    NoMissedWakeup
    NotStartedIsTrue
PROPERTIES
    WaitersServed
CHECK_DEADLOCK FALSE
