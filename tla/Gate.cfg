SPECIFICATION FairSpec
CONSTANTS
    Workers = {w1, w2}
    Main = main
    Ceilings = {1, 2}
    LastRevision = 3
INVARIANTS
    NoMissedChange
    DrainedForGood
PROPERTIES
    StopDrains
CHECK_DEADLOCK FALSE
