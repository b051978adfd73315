---------------------------- MODULE PgTransaction ----------------------------
(***************************************************************************)
(* Transactions of the PostgreSQL adapter over pooled connections          *)
(* (plenora-db-postgres: transaction/mod.rs, transaction/stream.rs,        *)
(* connect_session and open_transaction of lib.rs, PooledClient's drop).   *)
(*                                                                         *)
(* tokio-postgres pipelines: a command whose future is interrupted or      *)
(* dropped stays on its way, and the server answers commands in order.     *)
(* PgServer says what the server (external) answers.                       *)
(***************************************************************************)
EXTENDS PgServer, Naturals, Sequences

CONSTANTS
    Txn,          \* transactions a run may open
    Conn,         \* connections a run may open
    NoTxn, NoConn,
    MaxOps        \* bound on the operations of one transaction

ASSUME PgTransactionAssumption ==
    NoTxn \notin Txn /\ NoConn \notin Conn /\ MaxOps \in Nat

VARIABLES
    link,         \* each connection: not opened yet, up, or closed
    pipe,         \* commands sent and not processed yet
    srv,          \* the server session: no transaction, open, aborted
    cur,          \* whose BEGIN opened the server's transaction
    work,         \* what became of each transaction's writes
    spoiled,      \* history: its COMMIT met an aborted transaction
    idle,         \* PostgresPool.idle
    abandoned,    \* history: connections put back while a call was awaited
    st,           \* where each transaction is in the adapter
    on,           \* the connection of its PooledClient
    open,         \* PostgresTransaction.open
    reusable,     \* PooledClient.reusable
    reply,        \* the answer to the command it awaits
    ops,          \* operations done so far
    report        \* what the caller was told at the end

server == <<pipe, srv, cur, work, spoiled>>
pool == <<link, idle, abandoned>>
client == <<st, on, open, reusable, reply, ops, report>>
vars == <<server, pool, client>>

Command == {"discard", "guard", "begin", "verify", "context", "execute", "read", "rollbackto",
            "fetch", "commit", "rollback"}
Opening == {"discard", "guard", "begin", "verify", "unverify", "context", "uncontext"}
Operating == {"execute", "update", "read", "rollbackto", "fetch"}
Waiting == Opening \cup Operating \cup {"commit", "rollback"}
Report == {"none", "committed", "rolledback", "unknown", "refused", "failed", "dropped",
           "abandoned"}

TypeOK ==
    /\ link \in [Conn -> {"unborn", "up", "down"}]
    /\ pipe \in [Conn -> Seq(Command \X Txn)]
    /\ srv \in [Conn -> {"none", "open", "aborted"}]
    /\ cur \in [Conn -> Txn \cup {NoTxn}]
    /\ work \in [Txn -> {"none", "pending", "applied", "discarded"}]
    /\ spoiled \in [Txn -> BOOLEAN]
    /\ idle \in SUBSET Conn
    /\ abandoned \in SUBSET Conn
    /\ st \in [Txn -> Waiting \cup {"new", "ready", "done"}]
    /\ on \in [Txn -> Conn \cup {NoConn}]
    /\ open \in [Txn -> BOOLEAN]
    /\ reusable \in [Txn -> BOOLEAN]
    /\ reply \in [Txn -> {"none", "ok", "error", "proven"}]
    /\ ops \in [Txn -> 0 .. MaxOps]
    /\ report \in [Txn -> Report]

Init ==
    /\ link = [c \in Conn |-> "unborn"]
    /\ pipe = [c \in Conn |-> <<>>]
    /\ srv = [c \in Conn |-> "none"]
    /\ cur = [c \in Conn |-> NoTxn]
    /\ work = [t \in Txn |-> "none"]
    /\ spoiled = [t \in Txn |-> FALSE]
    /\ idle = {} /\ abandoned = {}
    /\ st = [t \in Txn |-> "new"]
    /\ on = [t \in Txn |-> NoConn]
    /\ open = [t \in Txn |-> FALSE]
    /\ reusable = [t \in Txn |-> TRUE]
    /\ reply = [t \in Txn |-> "none"]
    /\ ops = [t \in Txn |-> 0]
    /\ report = [t \in Txn |-> "none"]

-----------------------------------------------------------------------------
(* The server.                                                             *)

\* The server takes the next command, also after the client is gone; the
\* client learns the answer if it still awaits this very command.
Process(c) ==
    /\ pipe[c] # <<>>
    /\ LET cmd == Head(pipe[c])[1]
           t == Head(pipe[c])[2]
       IN  \E o \in Served(cmd, srv[c], work[t]) :
              /\ srv' = [srv EXCEPT ![c] = o.srv]
              /\ cur' = [cur EXCEPT ![c] = CASE o.srv = "none" -> NoTxn
                                             [] o.srv # "none" /\ srv[c] = "none" -> t
                                             [] OTHER -> @]
              /\ work' = [work EXCEPT ![t] = o.work]
              /\ spoiled' = [spoiled EXCEPT ![t] = @ \/ (cmd = "commit" /\ srv[c] = "aborted")]
              /\ reply' = IF link[c] = "up" /\ on[t] = c /\ Len(pipe[c]) = 1 /\ st[t] \in Waiting
                          THEN [reply EXCEPT ![t] = o.answer] ELSE reply
    /\ pipe' = [pipe EXCEPT ![c] = Tail(@)]
    /\ UNCHANGED <<pool, st, on, open, reusable, ops, report>>

\* The network or the server process fails.
Break(c) ==
    /\ link[c] = "up"
    /\ link' = [link EXCEPT ![c] = "down"]
    /\ UNCHANGED <<server, idle, abandoned, client>>

\* The server notices a closed connection: what it has not read is lost and
\* the open transaction is rolled back.
Hangup(c) ==
    /\ link[c] = "down"
    /\ srv[c] # "none" \/ pipe[c] # <<>>
    /\ pipe' = [pipe EXCEPT ![c] = <<>>]
    /\ srv' = [srv EXCEPT ![c] = "none"]
    /\ cur' = [cur EXCEPT ![c] = NoTxn]
    /\ work' = [t \in Txn |-> IF cur[c] = t /\ work[t] = "pending" THEN "discarded" ELSE work[t]]
    /\ UNCHANGED <<spoiled, pool, client>>

-----------------------------------------------------------------------------
(* The parts of a client step.                                             *)

\* The adapter sends cmd and waits in state s; nothing leaves a closed
\* connection.
Send(t, c, cmd, s) ==
    /\ pipe' = IF link[c] = "down" THEN pipe ELSE [pipe EXCEPT ![c] = Append(@, <<cmd, t>>)]
    /\ st' = [st EXCEPT ![t] = s]
    /\ reply' = [reply EXCEPT ![t] = "none"]
    /\ UNCHANGED <<srv, cur, work, spoiled>>

Closed(t) == link[on[t]] = "down" /\ reply[t] = "none"
Answered(t, s, a) == st[t] = s /\ reply[t] = a
Refused(t, s) == st[t] = s /\ (reply[t] \in {"error", "proven"} \/ Closed(t))

\* PooledClient's drop, at the end of the call or of the transaction.
Release(t, keep, r) ==
    /\ st' = [st EXCEPT ![t] = "done"]
    /\ report' = [report EXCEPT ![t] = r]
    /\ on' = [on EXCEPT ![t] = NoConn]
    /\ reply' = [reply EXCEPT ![t] = "none"]
    /\ open' = [open EXCEPT ![t] = FALSE]
    /\ IF keep /\ link[on[t]] = "up"
       THEN idle' = idle \cup {on[t]} /\ UNCHANGED link
       ELSE link' = [link EXCEPT ![on[t]] = "down"] /\ UNCHANGED idle
    /\ UNCHANGED <<server, reusable, ops>>

\* The call goes on in state s, nothing sent.
Resume(t, s) ==
    /\ st' = [st EXCEPT ![t] = s]
    /\ reply' = [reply EXCEPT ![t] = "none"]
    /\ UNCHANGED <<server, pool, on, ops, report>>

(* Opening: checkout, connect_session, PostgresTransaction::begin.         *)

\* Fault: a reused connection is handed over as it is.
CheckoutUnreset(t, c) ==
    /\ st[t] = "new"
    /\ c \in idle /\ link[c] = "up"
    /\ idle' = idle \ {c}
    /\ on' = [on EXCEPT ![t] = c]
    /\ Send(t, c, "guard", "guard")
    /\ UNCHANGED <<link, abandoned, open, reusable, ops, report>>

\* A reused connection is reset first.
Checkout(t, c) ==
    /\ st[t] = "new"
    /\ c \in idle /\ link[c] = "up"
    /\ idle' = idle \ {c}
    /\ on' = [on EXCEPT ![t] = c]
    /\ Send(t, c, "discard", "discard")
    /\ UNCHANGED <<link, abandoned, open, reusable, ops, report>>

\* No idle connection, or the one taken is closed and is thrown away.
Connect(t, c) ==
    /\ st[t] = "new"
    /\ link[c] = "unborn"
    /\ link' = [link EXCEPT ![c] = "up"]
    /\ \/ idle = {} /\ UNCHANGED idle
       \/ \E d \in idle : link[d] = "down" /\ idle' = idle \ {d}
    /\ on' = [on EXCEPT ![t] = c]
    /\ Send(t, c, "guard", "guard")
    /\ UNCHANGED <<abandoned, open, reusable, ops, report>>

AfterDiscard(t) ==
    \/ /\ Answered(t, "discard", "ok")
       /\ Send(t, on[t], "guard", "guard")
       /\ UNCHANGED <<pool, on, open, reusable, ops, report>>
    \/ /\ Refused(t, "discard")
       /\ Release(t, FALSE, "failed")
       /\ UNCHANGED abandoned

\* guard_search_path, then the cancellation check of begin.
AfterGuard(t) ==
    \/ /\ Answered(t, "guard", "ok")
       /\ Send(t, on[t], "begin", "begin")
       /\ UNCHANGED <<pool, on, open, reusable, ops, report>>
    \/ /\ Answered(t, "guard", "ok") \/ Refused(t, "guard")
       /\ Release(t, TRUE, "failed")
       /\ UNCHANGED abandoned

\* The isolation level and the session context are both optional.
AfterBegin(t) ==
    \/ /\ Answered(t, "begin", "ok")
       /\ \/ \E cmd \in {"verify", "context"} :
                /\ Send(t, on[t], cmd, cmd)
                /\ UNCHANGED <<pool, on, open, reusable, ops, report>>
          \/ /\ Resume(t, "ready")
             /\ open' = [open EXCEPT ![t] = TRUE]
             /\ UNCHANGED reusable
    \/ /\ Refused(t, "begin")
       /\ Release(t, FALSE, "failed")
       /\ UNCHANGED abandoned

\* A level other than the one asked for is a failure as well.
AfterVerify(t) ==
    \/ /\ Answered(t, "verify", "ok")
       /\ \/ /\ Send(t, on[t], "context", "context")
             /\ UNCHANGED <<pool, on, open, reusable, ops, report>>
          \/ /\ Resume(t, "ready")
             /\ open' = [open EXCEPT ![t] = TRUE]
             /\ UNCHANGED reusable
    \/ /\ Answered(t, "verify", "ok") \/ Refused(t, "verify")
       /\ Send(t, on[t], "rollback", "unverify")
       /\ UNCHANGED <<pool, on, open, reusable, ops, report>>

AfterUnverify(t) ==
    /\ \/ Answered(t, "unverify", "ok") /\ Release(t, TRUE, "failed")
       \/ Refused(t, "unverify") /\ Release(t, FALSE, "failed")
    /\ UNCHANGED abandoned

AfterContext(t) ==
    \/ /\ Answered(t, "context", "ok")
       /\ Resume(t, "ready")
       /\ open' = [open EXCEPT ![t] = TRUE]
       /\ UNCHANGED reusable
    \/ /\ Refused(t, "context")
       /\ Send(t, on[t], "rollback", "uncontext")
       /\ UNCHANGED <<pool, on, open, reusable, ops, report>>

AfterUncontext(t) ==
    /\ Answered(t, "uncontext", "ok") \/ Refused(t, "uncontext")
    /\ Release(t, FALSE, "failed")
    /\ UNCHANGED abandoned

(* Operations of an open transaction.                                      *)

\* ensure_open, then one command; a prepared statement's two round trips
\* are one command here.
Operate(t, cmd, s) ==
    /\ st[t] = "ready" /\ open[t] /\ ops[t] < MaxOps
    /\ ops' = [ops EXCEPT ![t] = @ + 1]
    /\ Send(t, on[t], cmd, s)
    /\ UNCHANGED <<pool, on, open, reusable, report>>

Execute(t) == Operate(t, "execute", "execute")
Query(t) == Operate(t, "read", "read")
Savepoint(t) == Operate(t, "read", "read")
ReleaseSavepoint(t) == Operate(t, "read", "read")
RollbackToSavepoint(t) == Operate(t, "rollbackto", "rollbackto")
ReadCatalog(t) == Operate(t, "read", "read")
QueryStream(t) == Operate(t, "read", "read")
NextBatch(t) == Operate(t, "fetch", "fetch")

\* execute_conditional_update: the update, and the key probe when it touched
\* another number of rows than expected.
ConditionalUpdate(t) == Operate(t, "execute", "update")

ProbeKey(t) ==
    /\ Answered(t, "update", "ok")
    /\ Send(t, on[t], "read", "read")
    /\ UNCHANGED <<pool, on, open, reusable, ops, report>>

\* Only the writes quarantine the session when they find the connection
\* closed (and not while they prepare).
AfterOperation(t) ==
    /\ st[t] \in Operating
    /\ reply[t] # "none" \/ Closed(t)
    /\ Resume(t, "ready")
    /\ \/ UNCHANGED <<open, reusable>>
       \/ /\ st[t] \in {"execute", "update"} /\ Closed(t)
          /\ open' = [open EXCEPT ![t] = FALSE]
          /\ reusable' = [reusable EXCEPT ![t] = FALSE]

\* Fault: the interrupted session is closed but not quarantined.
InterruptNoQuarantine(t) ==
    /\ st[t] \in Operating
    /\ Resume(t, "ready")
    /\ open' = [open EXCEPT ![t] = FALSE]
    /\ UNCHANGED reusable

\* The token is cancelled first: the session is quarantined and closed, but
\* for a FETCH, which only ends its stream.
Interrupt(t) ==
    /\ st[t] \in Operating
    /\ Resume(t, "ready")
    /\ IF st[t] = "fetch" THEN UNCHANGED <<open, reusable>>
       ELSE /\ open' = [open EXCEPT ![t] = FALSE]
            /\ reusable' = [reusable EXCEPT ![t] = FALSE]

(* Ending.                                                                 *)

Commit(t) ==
    /\ st[t] = "ready" /\ open[t]
    /\ Send(t, on[t], "commit", "commit")
    /\ UNCHANGED <<pool, on, open, reusable, ops, report>>

\* Closed by an interruption, or cancelled before the COMMIT is sent: the
\* drop of the transaction quarantines a session that is still open.
CommitRefused(t) ==
    /\ st[t] = "ready"
    /\ Release(t, ~open[t] /\ reusable[t], "refused")
    /\ UNCHANGED abandoned

\* Fault: every refusal of a COMMIT counts as a rollback, a lost connection
\* included.
AfterCommitSure(t) ==
    /\ \/ Answered(t, "commit", "ok") /\ Release(t, reusable[t], "committed")
       \/ Refused(t, "commit") /\ Release(t, FALSE, "rolledback")
    /\ UNCHANGED abandoned

\* Fault: an interrupted or unanswered COMMIT counts as committed.
AfterCommitHopeful(t) ==
    /\ \/ Answered(t, "commit", "ok") /\ Release(t, reusable[t], "committed")
       \/ Answered(t, "commit", "proven") /\ Release(t, reusable[t], "rolledback")
       \/ Refused(t, "commit") /\ reply[t] # "proven" /\ Release(t, FALSE, "committed")
    /\ UNCHANGED abandoned

\* commit_failure: unknown, unless the SQLSTATE proves the rollback.
AfterCommit(t) ==
    /\ \/ Answered(t, "commit", "ok") /\ Release(t, reusable[t], "committed")
       \/ Answered(t, "commit", "proven") /\ Release(t, reusable[t], "rolledback")
       \/ Refused(t, "commit") /\ reply[t] # "proven" /\ Release(t, FALSE, "unknown")
    /\ UNCHANGED abandoned

InterruptCommit(t) ==
    /\ st[t] = "commit"
    /\ Release(t, FALSE, "unknown")
    /\ UNCHANGED abandoned

\* rollback() looks neither at `open` nor at the token.
Rollback(t) ==
    /\ st[t] = "ready"
    /\ Send(t, on[t], "rollback", "rollback")
    /\ UNCHANGED <<pool, on, open, reusable, ops, report>>

AfterRollback(t) ==
    /\ \/ Answered(t, "rollback", "ok") /\ Release(t, reusable[t], "rolledback")
       \/ Refused(t, "rollback") /\ Release(t, FALSE, "unknown")
    /\ UNCHANGED abandoned

\* Drop for PostgresTransaction: an open one is quarantined.
Drop(t) ==
    /\ st[t] = "ready"
    /\ Release(t, ~open[t] /\ reusable[t], "dropped")
    /\ UNCHANGED abandoned

\* The caller drops the future of a call in flight.  While opening, the
\* PooledClient is a local of the call and nothing has invalidated it.
DropCall(t) ==
    \/ /\ st[t] \in Opening
       /\ abandoned' = abandoned \cup {on[t]}
       /\ Release(t, TRUE, "failed")
    \/ /\ st[t] \in Operating
       /\ Resume(t, "ready")
       /\ UNCHANGED <<open, reusable>>
    \/ /\ st[t] \in {"commit", "rollback"}
       /\ Release(t, ~open[t] /\ reusable[t], "abandoned")
       /\ UNCHANGED abandoned

Next ==
    \/ \E c \in Conn : Process(c) \/ Break(c) \/ Hangup(c)
    \/ \E t \in Txn :
          \/ \E c \in Conn : Checkout(t, c) \/ Connect(t, c)
          \/ AfterDiscard(t) \/ AfterGuard(t) \/ AfterBegin(t)
          \/ AfterVerify(t) \/ AfterUnverify(t) \/ AfterContext(t) \/ AfterUncontext(t)
          \/ Execute(t) \/ Query(t) \/ Savepoint(t) \/ ReleaseSavepoint(t)
          \/ RollbackToSavepoint(t) \/ ReadCatalog(t) \/ QueryStream(t) \/ NextBatch(t)
          \/ ConditionalUpdate(t) \/ ProbeKey(t)
          \/ AfterOperation(t) \/ Interrupt(t)
          \/ Commit(t) \/ CommitRefused(t) \/ AfterCommit(t) \/ InterruptCommit(t)
          \/ Rollback(t) \/ AfterRollback(t) \/ Drop(t) \/ DropCall(t)

Spec == Init /\ [][Next]_vars

-----------------------------------------------------------------------------
(* Properties.                                                             *)

\* CommitOutcome::Committed, "Il commit e stato confermato dal server": the
\* writes of a transaction reported committed are applied.
CommittedIsDurable == \A t \in Txn : report[t] = "committed" => work[t] = "applied"

\* The same, but for a COMMIT the server received in an aborted transaction:
\* no interruption, dropped call, lost connection or reused session makes the
\* adapter report a commit that did not happen.
CommittedIsApplied ==
    \A t \in Txn : report[t] = "committed" /\ ~spoiled[t] => work[t] = "applied"

\* A transaction reported rolled back, refused, or dropped without a COMMIT
\* leaves no write behind, now or later, whatever is still on its way.
NotCommittedNotApplied ==
    \A t \in Txn : report[t] \in {"rolledback", "refused", "dropped", "failed"}
                       => work[t] # "applied"

\* A session is only used inside a server transaction its own BEGIN opened:
\* no statement joins somebody else's transaction, or runs in autocommit.
OwnTransaction ==
    \A t \in Txn : st[t] \in Operating \cup {"ready", "verify", "context", "commit"} /\ link[on[t]] = "up"
                       /\ (st[t] = "commit" => reply[t] = "none")
                   => cur[on[t]] = t

\* An idle connection has no transaction and nothing on its way, unless the
\* call that opened on it was dropped half-way.
PoolIsClean ==
    \A c \in idle : c \notin abandoned => srv[c] = "none" /\ pipe[c] = <<>>
=============================================================================
