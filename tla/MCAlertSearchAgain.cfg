CONSTANTS
    Outcomes = {"answer"}
    Reclaims = FALSE
    MaxSearches = 3
SPECIFICATION Spec
INVARIANT NewSearchShowsBar
