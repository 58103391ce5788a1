SPECIFICATION FairSpec
CONSTANTS
    Runs = {r1, r2}
    MaxSaves = 2
    MaxEvents = 2
INVARIANTS
    TypeOK
    MetadataIsTrue
    SavedIsShown
    QuietIsRight
PROPERTIES
    ImplementsRunTable
    Converges
CHECK_DEADLOCK FALSE
