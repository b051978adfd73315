---------------------------- MODULE AdapterWrites ----------------------------
(***************************************************************************)
(* A write through the retry executor on any of the adapters: each module  *)
(* gives the steps of an attempt and the answers of its server.            *)
(***************************************************************************)
EXTENDS WriteAttempt

Postgres == INSTANCE PgWrite
Mysql == INSTANCE MysqlWrite
Oracle == INSTANCE OracleWrite
SqlServer == INSTANCE SqlServerWrite
Db2 == INSTANCE Db2Write

Stages ==
    CASE adapter = "postgres"  -> Postgres!Stage
      [] adapter = "mysql"     -> Mysql!Stage
      [] adapter = "oracle"    -> Oracle!Stage
      [] adapter = "sqlserver" -> SqlServer!Stage
      [] adapter = "db2"       -> Db2!Stage

\* The state of the call, the attempt and the server, an attempt of each
\* adapter at a stage of its own.
TypeOK == WriteTypeOK(Stages)

Init == WriteInit

AttemptNext ==
    \/ adapter = "postgres" /\ Postgres!Next
    \/ adapter = "mysql" /\ Mysql!Next
    \/ adapter = "oracle" /\ Oracle!Next
    \/ adapter = "sqlserver" /\ SqlServer!Next
    \/ adapter = "db2" /\ Db2!Next

ServerAnswers(a) ==
    \/ adapter = "postgres" /\ Process(a, Postgres!Served(Head(pipe[a]), srv[a], work[a]))
    \/ adapter = "mysql" /\ Process(a, Mysql!Serves(Head(pipe[a]), srv[a], work[a]))
    \/ adapter = "oracle" /\ Process(a, Oracle!Serves(Head(pipe[a]), srv[a], work[a]))
    \/ adapter = "sqlserver" /\ Process(a, SqlServer!Serves(Head(pipe[a]), srv[a], work[a]))
    \/ adapter = "db2" /\ Process(a, Db2!Serves(Head(pipe[a]), srv[a], work[a]))

Dropped ==
    \/ adapter = "postgres" /\ Postgres!Dropped
    \/ adapter = "mysql" /\ Mysql!Dropped
    \/ adapter = "oracle" /\ Oracle!Dropped
    \/ adapter = "sqlserver" /\ SqlServer!Dropped
    \/ adapter = "db2" /\ Db2!Dropped

Executor(A) == A /\ UNCHANGED <<fixed, attempting, remote, client>>

Next ==
    \/ Executor(RetryNext)
    \/ AttemptNext
    \/ \E a \in Attempts : ServerAnswers(a) \/ Break(a) \/ Hangup(a)
    \/ Dropped

\* The runtime polls the call; the server reads what it was sent.
Fairness ==
    /\ WF_vars(Executor(CheckToken \/ Judge \/ WakeUp))
    /\ WF_vars(AttemptNext)
    /\ \A a \in Attempts : WF_vars(ServerAnswers(a))

Spec == Init /\ [][Next]_vars /\ Fairness
=============================================================================
