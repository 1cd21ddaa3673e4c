SPECIFICATION MCSpec
CONSTANTS
    a = a
    b = b
    Sources = {"local", "remote"}
    Items <- MCItems
    Searches <- MCSearches
    Hits <- MCHits
    PagesChecked <- Pages
    MaxGestures = 2
INVARIANTS
    TypeOK
    AskedLast
    FreshAtRest
PROPERTIES
    LoadingEnds
CHECK_DEADLOCK FALSE
