SPECIFICATION FairSpec
CONSTANTS
    Queries = {q1}
    MaxListens = 3
    MaxEvents = 2
INVARIANTS
    TypeOK
    StreamIsRight
PROPERTIES
    CacheIsForOffline
    SyncedByItsOwn
    ListenersAreAnswered
CHECK_DEADLOCK FALSE
