SPECIFICATION FairSpec
CONSTANTS
    Requests = {watched, one, other}
    Watched = watched
INVARIANTS
    SuccessDrains
    CheckIsSound
PROPERTIES
    Stops
CHECK_DEADLOCK FALSE
