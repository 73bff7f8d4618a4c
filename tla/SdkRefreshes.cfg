SPECIFICATION FairSpec
CONSTANTS
    Callers = {c1}
    Openers = {o1}
    Refreshers = {r1}
    NoRefresher = none
    MaxAttempts = 1
    MaxRevision = 2
    Limits = {1, 2}
    InitialLimit = 1
PROPERTIES
    PolicyAdvances
    ClosedIsQuiet
    Recovers
CHECK_DEADLOCK FALSE
