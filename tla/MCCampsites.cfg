CONSTANTS
    co = co
    ca = ca
    fl = fl
    States <- MCStates
    First = co
    Outcomes = {"ok", "undecodable", "cut", "status", "offline"}
    WheelSpins = TRUE
    MaxSearches = 3
SPECIFICATION Spec
INVARIANTS
    TypeOK
    AtMostOneFetch
    ResultsAreFresh
    TitleMatchesResults
PROPERTIES
    NeverOlder
    SearchEnds
