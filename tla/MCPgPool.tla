------------------------------ MODULE MCPgPool ------------------------------
(* Finite instances of PgPool.                                             *)
EXTENDS PgPool

CONSTANTS t1, t2, t3, k1, k2, c1, c2

ThreeTasks == {t1, t2, t3}
TwoKeys == {k1, k2}
TwoClients == {c1, c2}
=============================================================================
