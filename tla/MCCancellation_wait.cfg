\* A deadline in the future: one token, one thread, the worker, one future.
SPECIFICATION FairSpec
CONSTANTS
    t1 = t1  t2 = t2  a = a  b = b
    w1 = w1  c1 = c1  c2 = c2
    NoToken = NoToken
    Worker = Worker
    Token <- OneToken
    Thread <- OneThread
    Waiter <- OneWaiter
    Context <- TwoContexts
    MaxTime = 1
    MaxArm = 1
    Threshold = 1
INVARIANTS NoLostWakeup
PROPERTIES CancelledIsObserved DeadlineIsObserved
CHECK_DEADLOCK FALSE
