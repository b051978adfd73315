------------------------------ MODULE MysqlScope ------------------------------
(***************************************************************************)
(* MysqlTransaction (plenora-db-mysql: transaction.rs, session.rs).  A     *)
(* server that ends the transaction closes the scope, because the next     *)
(* statement would commit alone; the session profile is read again after   *)
(* the caller's SQL and before COMMIT.                                     *)
(***************************************************************************)
EXTENDS CallerScope

\* External.  A warning follows a statement that was executed; a refused
\* COMMIT may or may not have been applied.
Serves(cmd) ==
    CASE cmd = "execute" ->
            {Executed(FALSE, "ok"), Executed(FALSE, "warned"), Unmoved("error"), Aborted("undone")}
      [] cmd \in {"query", "stream"} -> {Unmoved("ok"), Unmoved("warned"), Unmoved("error"), Aborted("undone")}
      [] cmd \in {"save", "save_own"} ->
            {Saved(IF cmd = "save" THEN "caller" ELSE "own"), Unmoved("error")}
      [] cmd = "release" -> {Released("caller"), Unmoved("error")}
      [] cmd = "release_own" -> {Released("own"), Unmoved("error")}
      [] cmd = "rollback_to" -> {UndoneTo("caller"), Unmoved("error")}
      [] cmd = "rollback_own" -> {UndoneTo("own"), Unmoved("error")}
      [] cmd = "commit" ->
            {Committing("ok"), Committing("warned"), Committing("error"), Aborted("error"), Aborted("proven")}
      [] cmd = "rollback" -> {Aborted("ok"), Unmoved("error")}
      [] cmd = "reset" -> {Aborted("ok")}
      [] OTHER -> {Unmoved("ok"), Unmoved("error")}

CallerSql == {"execute", "query"}
Control == {"save", "save_own", "release", "release_own"}

-----------------------------------------------------------------------------
(* Calls of the caller's SQL.                                              *)

\* discard_after_failure: the effect says whether recovery is required.
Discard(effect) ==
    IF effect = "rolled_back" THEN ToldRolledBack(FALSE, FALSE, "gone", "down")
    ELSE Returns(FALSE, TRUE, "gone", "down")

Execute == Start("execute", "execute")
Query == Start("query", "query")
ConditionalUpdate == Start("conditional", "save_own")

\* Fault: a deadlock leaves the scope open.
FinishCallerWriteOpen ==
    /\ at \in CallerSql
    /\ \/ reply \in {"ok", "error", "undone"} /\ Then("read", IF reply = "ok" THEN "ok" ELSE "error")
       \/ (reply = "warned" \/ Lost(at)) /\ Discard("unknown")

\* finish_caller_write, and the error path of query: a refusal of the
\* statement alone leaves the scope open.
FinishCallerWrite ==
    /\ at \in CallerSql
    /\ \/ reply \in {"ok", "error"} /\ Then("read", reply)
       \/ reply = "undone" /\ Discard("rolled_back")
       \/ (reply = "warned" \/ Lost(at)) /\ Discard("unknown")

\* The token or the timeout of a command of the caller's SQL, of the profile
\* that is read after it, or of a ROLLBACK TO.
Interrupt ==
    /\ at \in CallerSql \cup {"read", "rollback_to", "rollback_own"} /\ call # "commit" /\ reply = "none"
    /\ Discard("unknown")

\* verify_profile: a profile that differs, or cannot be read.
VerifyProfile ==
    /\ at = "read" /\ call \notin {"commit", "stream"}
    /\ \/ (reply = "error" \/ Lost("read")) /\ Discard("unknown")
       \/ reply = "ok" /\ result = "error" /\ Fails
       \/ reply = "ok" /\ result = "ok" /\ call # "conditional" /\ Succeeds
       \/ reply = "ok" /\ result = "ok" /\ call = "conditional"
             /\ \E cmd \in {"release_own", "rollback_own"} : Then(cmd, "ok")

\* ROLLBACK TO the savepoint of a conditional update that matched another
\* number of rows; the caller is told that it was rolled back.
UpdateUndone ==
    /\ Answered("rollback_own", "ok")
    /\ Back(open, recovery, state, link)
    /\ revoked' = revoked \cup {count} /\ UNCHANGED <<promised, mark>>

-----------------------------------------------------------------------------
(* Streams: whatever ends one before its end closes the scope.             *)

QueryStream == Start("stream", "stream")

PumpEnds == Answered("stream", "ok") /\ Then("read", "ok")

StreamEnds == Answered("read", "ok") /\ call = "stream" /\ Succeeds

\* abandon_stream: an error, the token, or a drop.
AbandonStream ==
    /\ call = "stream"
    /\ IF at = "read" /\ (reply = "error" \/ Lost("read"))
       THEN Returns(FALSE, TRUE, "gone", "down")
       ELSE Returns(FALSE, TRUE, state, link)

-----------------------------------------------------------------------------
(* Savepoints.                                                             *)

SavepointCall == Start("save", "save") \/ Start("release", "release")
RollbackToSavepoint == mark >= 0 /\ Start("rollback_to", "rollback_to")

\* exec_control: what interrupts a command quarantines the session, and the
\* field open stays.  A conditional update may fail to bind its parameters.
ControlAnswered ==
    /\ at \in Control
    /\ \/ reply = "ok" /\ IF at = "save_own" THEN Then("execute", "ok") ELSE Succeeds
       \/ reply = "ok" /\ at = "save_own" /\ Fails
       \/ reply = "error" /\ Fails
       \/ reply = "none" /\ Returns(open, recovery, "gone", "down")

RollbackToAnswered ==
    /\ at \in {"rollback_to", "rollback_own"}
    /\ \/ Answered("rollback_to", "ok") /\ Succeeds
       \/ (reply = "error" \/ Lost(at)) /\ Discard("unknown")

\* The next call finds the session quarantined: verify_profile fails.
CallQuarantined ==
    /\ at = "idle" /\ open /\ state = "gone"
    /\ Discard("unknown")

-----------------------------------------------------------------------------
(* The end of the scope.                                                   *)

\* The pool resets what it takes back.
Gives(a, keep) == Ends(a, keep) /\ wire' = IF keep /\ link = "up" THEN "reset" ELSE wire

Commit == Start("commit", "read")

CommitClosed ==
    /\ at = "idle" /\ ~(open /\ state = "ready")
    /\ Gives(IF open \/ recovery THEN AfterUnprovenSend(NewError("commit")) ELSE NewError("commit"), FALSE)

\* The profile is read, then COMMIT is sent.
CommitVerified ==
    /\ at = "read" /\ call = "commit"
    /\ \/ reply = "ok" /\ Then("commit", "ok")
       \/ reply # "ok" /\ Gives(AfterUnprovenSend(NewError("commit")), FALSE)

CommitAnswered ==
    /\ at = "commit"
    /\ \/ reply = "ok" /\ Gives(Committed, TRUE)
       \/ reply = "proven" /\ Gives(AfterCommitSent(Error("commit", "rolled_back", "safe"), TRUE), TRUE)
       \/ reply = "error" /\ Gives(OutcomeUnknown, TRUE)
       \/ reply \in {"none", "warned"} /\ Gives(OutcomeUnknown, FALSE)

\* A scope that the server ended is closed, and says so.
RollbackClosed ==
    /\ at = "idle"
    /\ \/ (recovery \/ (open /\ state = "gone")) /\ Gives(Unconfirmed, FALSE)
       \/ ~recovery /\ ~open /\ Gives(RolledBack, FALSE)

Rollback == ~recovery /\ Start("rollback", "rollback")

RollbackAnswered ==
    /\ at = "rollback"
    /\ \/ reply = "ok" /\ Gives(RolledBack, TRUE)
       \/ reply = "error" /\ Gives(Unconfirmed, TRUE)
       \/ reply = "none" /\ Gives(Unconfirmed, FALSE)

\* quarantine_on_drop.
Drop == DropScope

Next ==
    \/ Execute \/ Query \/ ConditionalUpdate \/ FinishCallerWrite \/ Interrupt \/ VerifyProfile \/ UpdateUndone
    \/ QueryStream \/ PumpEnds \/ StreamEnds \/ AbandonStream
    \/ SavepointCall \/ RollbackToSavepoint \/ ControlAnswered \/ RollbackToAnswered \/ CallQuarantined
    \/ Commit \/ CommitClosed \/ CommitVerified \/ CommitAnswered
    \/ RollbackClosed \/ Rollback \/ RollbackAnswered
=============================================================================
