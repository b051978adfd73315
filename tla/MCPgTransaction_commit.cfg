\* One transaction, a COMMIT after a failed statement.
SPECIFICATION Spec
CONSTANTS
    t1 = t1  t2 = t2  c1 = c1  c2 = c2
    NoTxn = NoTxn  NoConn = NoConn
    Txn <- OneTxn
    Conn <- OneConn
    MaxOps = 1
INVARIANTS CommittedIsDurable
CHECK_DEADLOCK FALSE
