\* Two tasks calling and rotating, against dispose, invalidation, DDL and expiry.
SPECIFICATION CacheSpec
CONSTANTS
    t1 = t1  t2 = t2  table = table  caps = caps
    Task <- TwoTasks
    Key <- BothKeys
    Capabilities = caps
    MaxGen = 2
    MaxVersion = 1
    MaxTime = 1
    Ttl = 1
    MaxAttempts = 2
SYMMETRY TaskSymmetry
INVARIANTS CacheIsCurrent RefreshIsNew
PROPERTIES AnswersAreCurrent
CHECK_DEADLOCK FALSE
