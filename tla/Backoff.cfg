SPECIFICATION FairSpec
CONSTANTS
    InitialInterval = 500
    MaxInterval = 60000
    MaxElapsedTime = 10000
    Times = {0, 2000}
    Longest = 2000
    MaxAttempts = 8
    Schedule <- MCSchedule
    Horizon = 60000
CHECK_DEADLOCK FALSE
INVARIANTS BoundedHold FewAttempts
PROPERTIES CommitEnds
