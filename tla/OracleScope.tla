----------------------------- MODULE OracleScope -----------------------------
(***************************************************************************)
(* OracleTransaction (plenora-db-oracle: transaction.rs, pool.rs).  A      *)
(* statement that fails undoes itself alone.  The driver closes the        *)
(* connection of a command that is interrupted.  The lease is not reused   *)
(* until a commit or a rollback is confirmed.  A stream is a query and     *)
(* fetches, each of them awaited like a query.                             *)
(***************************************************************************)
EXTENDS CallerScope

\* External.  A COMMIT refused with a code of CERTAIN_COMMIT_REJECTIONS proves
\* the rollback.
Serves(cmd) ==
    CASE cmd = "execute" -> {Executed(TRUE, "ok"), Unmoved("error")}
      [] cmd = "save" -> {Saved("caller"), Unmoved("error")}
      [] cmd = "rollback_to" -> {UndoneTo("caller"), Unmoved("error")}
      [] cmd = "commit" -> {Committing("ok"), Committing("error"), Aborted("error"), Aborted("proven")}
      [] cmd = "rollback" -> {Aborted("ok"), Unmoved("error")}
      [] OTHER -> {Unmoved("ok"), Unmoved("error")}

Execute == Start("execute", "execute")
Query == Start("query", "query")
ConditionalUpdate == Start("conditional", "execute")
SavepointCall == Start("save", "save")
RollbackToSavepoint == mark >= 0 /\ Start("rollback_to", "rollback_to")

\* timed: the answer, a refusal, the token or the timeout.
TimedAnswered ==
    /\ at \in {"execute", "query", "save", "rollback_to"}
    /\ \/ reply = "ok" /\ call # "conditional" /\ Succeeds
       \/ reply = "error" /\ Fails
       \/ reply = "none" /\ Returns(open, recovery, "gone", "down")

ConditionalUpdateAnswered ==
    /\ call = "conditional" /\ reply = "ok"
    /\ \/ at = "execute" /\ Succeeds
       \/ at = "execute" /\ Then("query", "ok")
       \/ Fails

\* On a closed connection commit and rollback fail like a lost answer.
EndOnClosed ==
    /\ at = "idle" /\ state = "gone"
    /\ \E a \in {OutcomeUnknown, Unconfirmed} : EndsWith(a, FALSE)

Commit == Start("commit", "commit")

CommitAnswered ==
    /\ at = "commit"
    /\ \/ reply = "ok" /\ EndsWith(Committed, TRUE)
       \/ reply = "proven" /\ EndsWith(AfterCommitSent(NewError("commit"), TRUE), FALSE)
       \/ reply \in {"none", "error"} /\ EndsWith(OutcomeUnknown, FALSE)

Rollback == Start("rollback", "rollback")

\* Fault: the lease is allowed again whatever ROLLBACK came to.
RollbackAnsweredReused ==
    /\ at = "rollback"
    /\ \/ reply = "ok" /\ EndsWith(RolledBack, TRUE)
       \/ reply # "ok" /\ EndsWith(Unconfirmed, TRUE)

RollbackAnswered ==
    /\ at = "rollback"
    /\ \/ reply = "ok" /\ EndsWith(RolledBack, TRUE)
       \/ reply # "ok" /\ EndsWith(Unconfirmed, FALSE)

\* The lease was not allowed again, so the pool closes the connection.
Drop == DropScope

Next ==
    \/ Execute \/ Query \/ ConditionalUpdate \/ SavepointCall \/ RollbackToSavepoint
    \/ TimedAnswered \/ ConditionalUpdateAnswered
    \/ EndOnClosed \/ Commit \/ CommitAnswered \/ Rollback \/ RollbackAnswered
=============================================================================
