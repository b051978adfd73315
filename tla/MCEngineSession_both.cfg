\* Two sessions of either form and a caller token, under a dispose() that runs on.
SPECIFICATION FairSpec
CONSTANTS
    s1 = s1  s2 = s2  c1 = c1
    Session <- TwoSessions
    Caller <- OneCaller
    Form <- BothForms
INVARIANTS LifecycleReachesUnstreamed LentFollowsSession ActiveSessionsExact
PROPERTIES DisposeReachesSessions
CHECK_DEADLOCK FALSE
