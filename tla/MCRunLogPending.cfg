SPECIFICATION FairSpec
CONSTANTS
    Runs = {r1, r2}
    MaxSaves = 1
    MaxEvents = 2
PROPERTIES
    PendingEnds
CHECK_DEADLOCK FALSE
