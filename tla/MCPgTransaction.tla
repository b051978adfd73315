--------------------------- MODULE MCPgTransaction ---------------------------
(* Finite instances of PgTransaction.                                      *)
EXTENDS PgTransaction, TLC

CONSTANTS t1, t2, c1, c2

OneTxn == {t1}
TwoTxns == {t1, t2}
OneConn == {c1}
TwoConns == {c1, c2}
TxnSymmetry == Permutations(TwoTxns) \cup Permutations(TwoConns)
=============================================================================
