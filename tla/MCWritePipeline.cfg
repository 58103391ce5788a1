SPECIFICATION FairSpec
CONSTANTS
    Users = {ann, bob}
    FirstUser = ann
    MaxPendingWrites = 3
    MaxWrites = 4
    MaxEvents = 2
INVARIANTS
    TypeOK
    PipelineIsRight
    StreamIsRight
    OneIdentity
    WritesAreKept
PROPERTIES
    CallbacksAreRight
    LedgerSpec
    Drains
CHECK_DEADLOCK FALSE
