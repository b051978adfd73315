---------------------------- MODULE SqlServerScope ----------------------------
(***************************************************************************)
(* SqlServerTransaction (plenora-db-sqlserver: transaction.rs,             *)
(* connection.rs, recovery.rs).  Under XACT_ABORT an error ends the        *)
(* transaction and what runs next commits alone; the session then only     *)
(* allows a rollback.  A stream reads the client directly: neither its     *)
(* errors nor its end change the session.                                  *)
(***************************************************************************)
EXTENDS CallerScope

\* External.  Some errors leave the transaction; 1205 proves its end.
Serves(cmd) ==
    CASE cmd = "execute" -> {Executed(FALSE, "ok"), Unmoved("error"), Aborted("error"), Aborted("undone")}
      [] cmd \in {"query", "stream"} -> {Unmoved("ok"), Unmoved("error"), Aborted("error"), Aborted("undone")}
      [] cmd = "save" -> IF tx.live THEN {Saved("caller"), Aborted("error")} ELSE {Unmoved("error")}
      [] cmd = "rollback_to" -> {UndoneTo("caller"), Aborted("error")}
      [] cmd = "commit" ->
            IF tx.live THEN {Committing("ok"), Committing("error"), Aborted("error"), Aborted("undone")}
                       ELSE {Unmoved("error")}
      [] OTHER -> {Aborted("ok"), Unmoved("error")}

Tracked == {"execute", "query", "save", "rollback_to"}

\* TransactionState::apply: StatementFailed leaves a transaction that can only
\* be rolled back; quarantine destroys the client.
StatementFailed == Returns(open, recovery, "uncommittable", link)
Quarantine == Returns(open, recovery, "gone", "down")

-----------------------------------------------------------------------------
(* Calls.                                                                  *)

Execute == Start("execute", "execute")
Query == Start("query", "query")
ConditionalUpdate == Start("conditional", "execute")
SavepointCall == Start("save", "save")
RollbackToSavepoint == mark >= 0 /\ Start("rollback_to", "rollback_to")

\* execute_query_tracked and execute_write_query_tracked.
TrackedAnswered ==
    /\ at \in Tracked
    /\ \/ reply = "ok" /\ call # "conditional" /\ Succeeds
       \/ reply = "error" /\ StatementFailed
       \/ reply = "undone" /\ ToldRolledBack(open, recovery, "uncommittable", link)
       \/ reply = "none" /\ Quarantine

\* The UPDATE matched the rows, or did not: then a probe, if there is one,
\* chooses the error.
ConditionalUpdateAnswered ==
    /\ call = "conditional" /\ reply = "ok"
    /\ \/ at = "execute" /\ Succeeds
       \/ at = "execute" /\ Then("query", "ok")
       \/ Fails

\* A stream ends, fails, is dropped, or sees the token between two rows.
QueryStream == Start("stream", "stream")
StreamDone == at = "stream" /\ Fails

-----------------------------------------------------------------------------
(* The end of the scope: commit wants a transaction, rollback one that is  *)
(* not quarantined.                                                        *)

CommitRefused ==
    /\ at = "idle" /\ state # "ready"
    /\ EndsWith(NewError("commit"), FALSE)

Commit == Start("commit", "commit")

\* Fault: every refusal of COMMIT proves the rollback.
CommitAnsweredSure ==
    /\ at = "commit"
    /\ \/ reply = "ok" /\ EndsWith(Committed, TRUE)
       \/ reply \in {"error", "undone"}
             /\ EndsWith(AfterCommitSent(Error("commit", "rolled_back", "safe"), TRUE), FALSE)
       \/ reply = "none" /\ EndsWith(OutcomeUnknown, FALSE)

\* commit_failure: 1205 alone proves the rollback.
CommitAnswered ==
    /\ at = "commit"
    /\ \/ reply = "ok" /\ EndsWith(Committed, TRUE)
       \/ reply = "undone" /\ EndsWith(AfterCommitSent(Error("commit", "rolled_back", "safe"), TRUE), FALSE)
       \/ reply \in {"none", "error"} /\ EndsWith(OutcomeUnknown, FALSE)

RollbackRefused ==
    /\ at = "idle" /\ state = "gone"
    /\ EndsWith(Unconfirmed, FALSE)

\* IF @@TRANCOUNT > 0 ROLLBACK.
Rollback ==
    /\ at = "idle" /\ state # "gone"
    /\ call' = "rollback" /\ Send("rollback")
    /\ UNCHANGED <<count, result, committing>>

RollbackAnswered ==
    /\ at = "rollback"
    /\ \/ reply = "ok" /\ EndsWith(RolledBack, TRUE)
       \/ reply # "ok" /\ EndsWith(Unconfirmed, FALSE)

\* quarantine.
Drop == DropScope

Next ==
    \/ Execute \/ Query \/ ConditionalUpdate \/ SavepointCall \/ RollbackToSavepoint
    \/ TrackedAnswered \/ ConditionalUpdateAnswered \/ QueryStream \/ StreamDone
    \/ CommitRefused \/ Commit \/ CommitAnswered
    \/ RollbackRefused \/ Rollback \/ RollbackAnswered
=============================================================================
