SPECIFICATION FairSpec
CONSTANTS
    Jobs = {j1, j2}
    MaxAttempts = 2
    Capacity = 1
    Limits = {1}
    InitialLimit = 1
INVARIANTS
    NotStartedIsTrue
    ExecutedOnce
    ExitsDrained
PROPERTIES
    NothingSentAfterEnd
    AttemptsAnswered
CHECK_DEADLOCK FALSE
