------------------------------- MODULE Db2Scope -------------------------------
(***************************************************************************)
(* Db2Transaction (plenora-db-db2: transaction.rs).  A command runs on a   *)
(* blocking worker that nothing interrupts; a worker that dies takes the   *)
(* connection with it.  40001 ends the transaction, the scope stays open   *)
(* and the next statement opens another.  Connections are not kept.        *)
(***************************************************************************)
EXTENDS CallerScope

\* External.  No code proves the rollback of a COMMIT.
Serves(cmd) ==
    CASE cmd = "execute" -> {Executed(TRUE, "ok"), Unmoved("error"), Aborted("undone")}
      [] cmd = "query" -> {Unmoved("ok"), Unmoved("error"), Aborted("undone")}
      [] cmd = "save" -> {Saved("caller"), Unmoved("error")}
      [] cmd = "release" -> {Released("caller"), Unmoved("error")}
      [] cmd = "rollback_to" -> {UndoneTo("caller"), Unmoved("error")}
      [] cmd = "commit" -> {Committing("ok"), Committing("error"), Aborted("error")}
      [] OTHER -> {Aborted("ok"), Unmoved("error")}

Run == {"execute", "query", "save", "release", "rollback_to"}

Execute == Start("execute", "execute")
Query == Start("query", "query")
ConditionalUpdate == Start("conditional", "execute")
SavepointCall == Start("save", "save") \/ Start("release", "release")
RollbackToSavepoint == mark >= 0 /\ Start("rollback_to", "rollback_to")

\* Fault: 40001 is not told as a rollback of the transaction.
RunAnsweredDeaf ==
    /\ at \in Run
    /\ \/ reply = "ok" /\ call # "conditional" /\ Succeeds
       \/ (reply \in {"error", "undone"} \/ Lost(at)) /\ Fails

\* run: the connection comes back with the result, whatever it is.
RunAnswered ==
    /\ at \in Run
    /\ \/ reply = "ok" /\ call # "conditional" /\ Succeeds
       \/ reply = "undone" /\ ToldRolledBack(open, recovery, state, link)
       \/ (reply = "error" \/ Lost(at)) /\ Fails

WorkerLost ==
    /\ at \in Run
    /\ Returns(FALSE, recovery, "gone", "down")

ConditionalUpdateAnswered ==
    /\ call = "conditional" /\ reply = "ok"
    /\ \/ at = "execute" /\ Succeeds
       \/ at = "execute" /\ Then("query", "ok")
       \/ Fails

-----------------------------------------------------------------------------
(* The end of the scope.                                                   *)

\* ensure_open for commit; rollback_in_place has nothing to do.
EndClosed ==
    /\ at = "idle" /\ ~open
    /\ \E a \in {NewError("commit"), RolledBack} : EndsWith(a, FALSE)

Commit == Start("commit", "commit")

CommitAnswered ==
    /\ at = "commit"
    /\ EndsWith(IF reply = "ok" THEN Committed ELSE OutcomeUnknown, FALSE)

\* rollback, and commit or rollback under a token that is cancelled: result
\* is then "error".
Rollback ==
    /\ at = "idle" /\ open
    /\ call' = "rollback" /\ result' \in {"ok", "error"}
    /\ Send("rollback")
    /\ UNCHANGED <<count, committing>>

\* abandoned_error: the ROLLBACK decides the effect of the error.
Abandoned(confirmed) ==
    IF confirmed THEN Error("commit", "rolled_back", "never") ELSE Unconfirmed

RollbackAnswered ==
    /\ at = "rollback"
    /\ EndsWith(CASE result = "error" -> Abandoned(reply = "ok")
                  [] result = "ok" /\ reply = "ok" -> RolledBack
                  [] OTHER -> Unconfirmed, FALSE)

\* A ROLLBACK whose answer nobody reads, then the connection is closed.
Drop == DropScope

Next ==
    \/ Execute \/ Query \/ ConditionalUpdate \/ SavepointCall \/ RollbackToSavepoint
    \/ RunAnswered \/ WorkerLost \/ ConditionalUpdateAnswered
    \/ EndClosed \/ Commit \/ CommitAnswered \/ Rollback \/ RollbackAnswered
=============================================================================
