CONSTANTS
    Outcomes = {"answer", "noBody", "offline", "throws"}
    Reclaims = TRUE
    MaxSearches = 3
SPECIFICATION Spec
INVARIANTS
    TypeOK
    ListMirrorsData
    
    SettledShowsLast
PROPERTIES
    LoadingEnds
