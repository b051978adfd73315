\* Two transactions that may share a pooled connection.
SPECIFICATION Spec
CONSTANTS
    t1 = t1  t2 = t2  c1 = c1  c2 = c2
    NoTxn = NoTxn  NoConn = NoConn
    Txn <- TwoTxns
    Conn <- TwoConns
    MaxOps = 2
SYMMETRY TxnSymmetry
INVARIANTS CommittedIsApplied NotCommittedNotApplied OwnTransaction PoolIsClean
CHECK_DEADLOCK FALSE
