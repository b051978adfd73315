\* Three tasks, two permits, two sets of credentials.
SPECIFICATION FairSpec
CONSTANTS
    t1 = t1  t2 = t2  t3 = t3  k1 = k1  k2 = k2
    c1 = c1  c2 = c2
    Task <- ThreeTasks
    Key <- TwoKeys
    Client <- TwoClients
    NoClient = NoClient
    Max = 2
INVARIANTS PoolBounded OwnedOnce
PROPERTIES WaitersServed
