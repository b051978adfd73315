\* Two tokens, two threads: creation, cancellation and drops interleaved.
SPECIFICATION FairSpec
CONSTANTS
    t1 = t1  t2 = t2  a = a  b = b
    w1 = w1  c1 = c1  c2 = c2
    NoToken = NoToken
    Worker = Worker
    Token <- TwoTokens
    Thread <- TwoThreads
    Waiter <- NoWaiters
    Context <- OneContext
    MaxTime = 0
    MaxArm = 1
    Threshold = 1
INVARIANTS NoLostCancellation ParentIsADecision
PROPERTIES CancellationReachesChildren
CHECK_DEADLOCK FALSE
