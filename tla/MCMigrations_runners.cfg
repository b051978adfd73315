SPECIFICATION Spec
CONSTANTS
    Runner = {p1, p2}
    Revision <- Chain
    Parents <- ChildFirst
    Providers <- AllProviders
    MaxCalls = 3
INVARIANTS
    HistoryIsTrue
    AncestorsApplied
PROPERTIES
    CallsEnd
CHECK_DEADLOCK FALSE
