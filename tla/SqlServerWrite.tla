----------------------------- MODULE SqlServerWrite -----------------------------
(***************************************************************************)
(* Arrow writes of the SQL Server adapter (plenora-db-sqlserver: write/    *)
(* mod.rs, write/row_diagnostics.rs, connection.rs, error.rs, pool.rs).    *)
(* The session remembers whether its transaction may still be rolled back; *)
(* an answer that cannot be read quarantines it, and then the error is the *)
(* answer.                                                                 *)
(***************************************************************************)
EXTENDS WriteAttempt

-----------------------------------------------------------------------------
(* The server (external).                                                  *)

Outcome(s, a, w) == [srv |-> s, answer |-> a, work |-> w]

\* Under XACT_ABORT an error ends the transaction: what is executed next
\* would commit alone.  A deadlock (1205) says so.
Serves(cmd, s, w) ==
    CASE cmd = "begin" -> {Outcome("open", "ok", "pending"), Outcome(s, "error", w)}
      [] cmd = "execute" ->
            IF s = "open"
            THEN {Outcome(s, "ok", w), Outcome("none", "error", "discarded"),
                  Outcome("none", "undone", "discarded")}
            ELSE {Outcome(s, "ok", "applied"), Outcome(s, "error", w)}
      [] cmd = "commit" ->
            IF s = "open"
            THEN {Outcome("none", "ok", "applied"), Outcome("none", "proven", "discarded"),
                  Outcome("none", "error", "discarded"), Outcome("none", "error", "applied")}
            ELSE {Outcome(s, "error", w)}
      [] cmd = "rollback" ->
            {Outcome("none", "ok", IF w = "pending" THEN "discarded" ELSE w), Outcome(s, "error", w)}
      [] OTHER -> {Outcome(s, r, w) : r \in {"ok", "error"}}

-----------------------------------------------------------------------------
(* Stages and errors.                                                      *)

\* "target" locks, verifies and prepares the target, "keys" and "drop_keys"
\* make and drop the table of the input's keys, "finish" is the spatial
\* indexes and the publication of Replace.
Setup == {"isolation", "begin"}
Batches == {"keys", "drop_keys"}
Statements == {"target", "rows", "finish"}
Stage == Setup \cup Batches \cup Statements \cup {"commit"}

Following(s) ==
    CASE s = "isolation" -> {"begin"}
      [] s = "begin"     -> {"target"}
      [] s = "target"    -> IF mode = "append" THEN {"keys", "input"} ELSE {"input"}
      [] s = "drop_keys" -> {"finish", "commit"}
      [] s = "finish"    -> {"commit"}
      [] OTHER           -> {"input"}

Sends(s) ==
    CASE s \in {"begin", "commit"} -> s
      [] s = "isolation" -> "read"
      [] OTHER -> "execute"

\* driver_error, with the effect that the caller asks for when the server
\* answered, and when it did not.
DriverError(p, coded, uncoded) ==
    CASE reply = "undone" -> Error(p, "rolled_back", "safe")
      [] reply = "error"  -> Error(p, coded, "never")
      [] OTHER            -> IF uncoded = "unknown" THEN Error(p, "unknown", "requires_recovery")
                             ELSE NewError(p)

\* rollback_after_error on a session that may still be rolled back.
RollbackAfterError(e, confirmed) ==
    IF confirmed THEN [e EXCEPT !.effect = "rolled_back"] ELSE AfterUnconfirmedRollback(e)

-----------------------------------------------------------------------------
(* The attempt.                                                            *)

RefuseEarly == At("start") /\ EndAttempt(NewError("prepare"), FALSE)

\* The pool is saturated (safe), the token interrupts the wait, or no session
\* can be opened.
CheckoutFails ==
    /\ At("start")
    /\ \E r \in {"never", "safe"} : EndAttempt(Error("connect", "none", r), FALSE)

\* disallow_reuse, pin_isolation.
Checkout == At("start") /\ ~cancelled /\ Open("isolation", "read")

Advance ==
    /\ Answered(pc) /\ pc \in Setup \cup Batches \cup Statements
    /\ \E s \in Following(pc) : IF s = "input" THEN ToInput ELSE Await(s, Sends(s))

\* The isolation level is not the one asked for; the target's schema changed,
\* a batch's accounting or its counts; a driver that panics on the answer
\* quarantines the session.
RefuseLocally ==
    /\ Answered(pc)
    /\ \/ pc = "isolation" /\ EndAttempt(NewError("prepare"), FALSE)
       \/ pc \in Statements /\ StartRollback("error", NewError("write"))
       \/ pc \in Statements /\ EndAttempt(NewError("write"), FALSE)

\* run_control quarantines the session whatever the driver says.
ControlFails ==
    /\ pc \in Setup \cup Batches /\ Refused(pc)
    /\ CASE pc = "isolation" -> EndAttempt(DriverError("prepare", "none", "none"), FALSE)
         [] pc = "begin"     -> EndAttempt(DriverError("write", "none", "none"), FALSE)
         [] OTHER            -> EndAttempt(DriverError("write", "unknown", "unknown"), FALSE)

\* An error with a server code: the transaction may be rolled back.  Without
\* one the session is quarantined.
StatementFails ==
    /\ pc \in Statements /\ Refused(pc)
    /\ \/ reply # "none" /\ StartRollback("error", DriverError("write", "none", "unknown"))
       \/ Closed /\ EndAttempt(DriverError("write", "none", "unknown"), FALSE)

\* The row-scoped path: a row is refused by the server, or counted wrong.
RowFails ==
    /\ At("rows") /\ mode = "rows"
    /\ \/ reply = "error" /\ StartRollback("rejected", NoCause)
       \/ reply = "ok" /\ EndAttempt(Error("write", "unknown", "quarantine"), FALSE)

\* The token or the timeout quarantines the session.
Interrupt ==
    /\ Running
    /\ \/ pc = "isolation" /\ EndAttempt(AfterInterruptedSend(NewError("prepare")), FALSE)
       \/ /\ pc \in {"begin"} \cup Batches \cup Statements
          /\ EndAttempt(AfterInterruptedSend(NewError("write")), FALSE)

NextBatch == At("input") /\ Receive("execute")

\* An error of the input, or of a batch's reservation.
NextBatchFails ==
    /\ At("input")
    /\ \E e \in InputErrors : StartRollback("error", e)

NextBatchEnds ==
    /\ At("input")
    /\ \E s \in CASE mode = "append" -> {"drop_keys", "finish", "commit"}
                    [] mode = "create" -> {"finish", "commit"}
                    [] OTHER -> {"commit"} : Await(s, Sends(s))

AfterRollback ==
    /\ Running /\ pc = "rollback"
    /\ LET confirmed == reply = "ok"
       IN  EndAttempt(IF why = "rejected" THEN RowRejected(confirmed)
                      ELSE RollbackAfterError(cause, confirmed), confirmed)

\* Fault: a COMMIT whose outcome is unknown may be tried again.
AfterCommitHopeful ==
    /\ At("commit")
    /\ \/ reply = "ok" /\ EndAttempt(Committed, TRUE)
       \/ reply # "ok" /\ EndAttempt(Error("commit", "unknown", "safe"), FALSE)

\* 1205 alone proves the rollback of a COMMIT.
AfterCommit ==
    /\ At("commit")
    /\ \/ reply = "ok" /\ EndAttempt(Committed, TRUE)
       \/ /\ reply = "proven"
          /\ EndAttempt(AfterCommitSent(Error("commit", "rolled_back", "safe"), TRUE), FALSE)
       \/ reply \in {"none", "error"} /\ EndAttempt(OutcomeUnknown, FALSE)

Next ==
    \/ RefuseEarly \/ Checkout \/ CheckoutFails
    \/ Advance \/ RefuseLocally \/ ControlFails \/ StatementFails \/ RowFails \/ Interrupt
    \/ NextBatch \/ NextBatchFails \/ NextBatchEnds
    \/ AfterRollback \/ AfterCommit

\* A lease that was not allowed to be reused is closed.
Dropped == DropCall(FALSE)
=============================================================================
