SPECIFICATION FairSpec
CONSTANTS
    Users = {ann}
    FirstUser = ann
    MaxPendingWrites = 4
    MaxWrites = 4
    MaxEvents = 1
INVARIANTS
    FailureIsTrue
CHECK_DEADLOCK FALSE
