SPECIFICATION FairSpec
CONSTANTS
    Runs = {r1, r2}
    Commits = {main, other}
    Reports = {report}
    PublishedByHand <- Anything
    HandCommit = main
    None = none
    Hand = hand
    Drift = drift
INVARIANTS
    OneBundle
    AttachedFirst
    NotesTruthful
PROPERTIES
    Completes
CHECK_DEADLOCK FALSE
