----------------------------- MODULE AdapterScopes -----------------------------
(***************************************************************************)
(* A caller's transaction on any of the adapters but PostgreSQL, which     *)
(* PgTransaction models with its pool.                                     *)
(***************************************************************************)
EXTENDS CallerScope

Mysql == INSTANCE MysqlScope
SqlServer == INSTANCE SqlServerScope
Oracle == INSTANCE OracleScope
Db2 == INSTANCE Db2Scope

Init == ScopeInit

Calls ==
    \/ adapter = "mysql" /\ Mysql!Next
    \/ adapter = "sqlserver" /\ SqlServer!Next
    \/ adapter = "oracle" /\ Oracle!Next
    \/ adapter = "db2" /\ Db2!Next

ServerAnswers ==
    \/ adapter = "mysql" /\ Process(Mysql!Serves(wire))
    \/ adapter = "sqlserver" /\ Process(SqlServer!Serves(wire))
    \/ adapter = "oracle" /\ Process(Oracle!Serves(wire))
    \/ adapter = "db2" /\ Process(Db2!Serves(wire))

Drops ==
    \/ adapter = "mysql" /\ Mysql!Drop
    \/ adapter = "sqlserver" /\ SqlServer!Drop
    \/ adapter = "oracle" /\ Oracle!Drop
    \/ adapter = "db2" /\ Db2!Drop

Next == Calls \/ ServerAnswers \/ Break \/ Hangup \/ Drops

Spec == Init /\ [][Next]_vars
=============================================================================
