------------------------------ MODULE MysqlWrite ------------------------------
(***************************************************************************)
(* Arrow writes of the MySQL and MariaDB adapter (plenora-db-mysql:        *)
(* provider.rs, write.rs, row_diagnostics.rs, session.rs, error.rs).       *)
(* CREATE TABLE commits by itself before the transaction that loads it,    *)
(* every command may be followed by diagnostics the adapter refuses, and a *)
(* deadlock ends the transaction: what is executed next would commit       *)
(* alone.                                                                  *)
(***************************************************************************)
EXTENDS WriteAttempt

-----------------------------------------------------------------------------
(* The server (external).                                                  *)

Outcome(s, a, w) == [srv |-> s, answer |-> a, work |-> w]

\* A table of an engine without transactions keeps its rows (what a trigger
\* wrote), and ROLLBACK says so in a warning.  A COMMIT refused with a code
\* that is not of commit_rollback_codes proves nothing.
Serves(cmd, s, w) ==
    CASE cmd = "create" -> {Outcome(s, r, w) : r \in {"ok", "error", "warned"}}
      [] cmd = "begin"  -> {Outcome("open", "ok", "pending"), Outcome(s, "error", w)}
      [] cmd = "execute" ->
            IF s = "open"
            THEN {Outcome(s, r, w) : r \in {"ok", "error", "warned"}}
                    \cup {Outcome("none", "undone", "discarded")}
            ELSE {Outcome(s, "ok", "applied"), Outcome(s, "error", w)}
      [] cmd = "commit" ->
            IF s = "open"
            THEN {Outcome("none", "ok", "applied"), Outcome("none", "proven", "discarded"),
                  Outcome("none", "error", "discarded"), Outcome("none", "error", "applied")}
            ELSE {Outcome(s, "ok", w)}
      [] cmd = "rollback" ->
            {Outcome("none", "ok", IF w = "pending" THEN "discarded" ELSE w), Outcome(s, "error", w)}
               \cup IF w = "pending" THEN {Outcome("none", "warned", "applied")} ELSE {}
      [] OTHER -> {Outcome(s, r, w) : r \in {"ok", "error"}}

-----------------------------------------------------------------------------
(* Stages and errors.                                                      *)

\* "facts" is what is read of the target and the server, "staging" the
\* temporary tables, "clear" the DELETE of Replace, "update" the UPDATE of
\* the staged pairs.
Setup == {"precheck", "create", "profile", "facts", "staging", "begin"}
Load == {"clear", "rows", "update"}
Stage == Setup \cup Load \cup {"verify", "commit"}

Following(s) ==
    CASE s = "create"  -> {"profile"}
      [] s = "profile" -> {"facts"}
      [] s = "facts"   -> {"staging"}
      [] s = "staging" -> {"begin"}
      [] s = "begin"   -> IF mode = "append" THEN {"clear", "input"} ELSE {"input"}
      [] s = "update"  -> {"verify"}
      [] s = "verify"  -> {"commit"}
      [] OTHER         -> {"input"}

Sends(s) ==
    CASE s \in {"create", "begin", "commit"} -> s
      [] s \in Load -> "execute"
      [] OTHER -> "read"

PhaseOf(s) ==
    CASE s \in Setup \ {"create", "begin"} -> "prepare"
      [] s \in {"verify", "commit"} -> "commit"
      [] OTHER -> "write"

\* driver_error, warning_error; without a server code the effect of a
\* mutating phase is ambiguous.
DriverErrors(p) ==
    CASE reply = "undone" -> {Error(p, "rolled_back", "safe")}
      [] reply = "warned"   -> {Error(p, "unknown", "requires_recovery"), Error(p, "unknown", "never")}
      [] Closed             -> {IF p = "prepare" THEN NewError(p)
                                ELSE Error(p, "unknown", "requires_recovery")}
      [] OTHER              -> {NewError(p)}

\* interruption_error and timeout_error of a command that was sent.
SentAndInterrupted(p) ==
    {AfterInterruptedSend(Error(p, e, "never")) : e \in {"none", "unknown"}}

\* stamp_ddl_residue, for the steps after the DDL.
StampDdlResidue(e) ==
    IF mode # "create" \/ e.status # "error" \/ e.effect = "committed" THEN e
    ELSE Error(e.phase, IF e.effect \in {"none", "rolled_back"} THEN "partial" ELSE e.effect,
               Severe(e.retry))

\* Fault: the diagnostics of ROLLBACK are not looked at.
RollbackCleanupResultDeaf(e, evidence) ==
    IF evidence \in {"ok", "warned"} \/ e.effect = "rolled_back"
    THEN [e EXCEPT !.effect = "rolled_back"] ELSE AfterUnconfirmedRollback(e)

\* rollback_cleanup_result: diagnostics deny even a deadlock's rollback.
RollbackCleanupResult(e, evidence) ==
    IF evidence = "ok" \/ (evidence # "warned" /\ e.effect = "rolled_back")
    THEN [e EXCEPT !.effect = "rolled_back"] ELSE AfterUnconfirmedRollback(e)

\* write::commit_failure.
CommitFailure(e) == IF e.effect = "rolled_back" THEN e ELSE OutcomeUnknown

-----------------------------------------------------------------------------
(* The attempt.                                                            *)

RefuseEarly == At("start") /\ EndAttempt(NewError("validate"), FALSE)

CheckoutFails == At("start") /\ EndAttempt(NewError("connect"), FALSE)

Checkout ==
    /\ At("start") /\ ~cancelled
    /\ IF mode = "create" THEN Open("precheck", "read") ELSE Open("profile", "read")

\* The target exists: a conflict.  It does not: the guard is armed, CREATE
\* is sent.
Precheck ==
    /\ Answered("precheck")
    /\ \/ EndAttempt(NewError("prepare"), TRUE)
       \/ /\ armed' = TRUE
          /\ Send("create", "create")
          /\ UNCHANGED <<received, cause, why, link>>

Advance ==
    /\ Answered(pc) /\ pc \in (Setup \cup Load \cup {"verify"}) \ {"precheck"}
    /\ \E s \in Following(pc) : IF s = "input" THEN ToInput ELSE Await(s, Sends(s))

\* A session whose profile diverges is quarantined; the rules of the library
\* refuse what they read, and a batch by its accounting.
RefuseLocally ==
    /\ Answered(pc)
    /\ \/ /\ pc \in {"profile", "facts", "staging"}
          /\ EndAttempt(StampDdlResidue(NewError("prepare")), pc # "profile")
       \/ /\ pc \in Load
          /\ StartRollback("error", NewError("write"))

\* Before the transaction the error is the answer.
SetupFails ==
    /\ pc \in Setup /\ Refused(pc)
    /\ \E e \in DriverErrors(PhaseOf(pc)) :
          EndAttempt(IF pc \in {"precheck", "create"} /\ reply # "warned" THEN e ELSE StampDdlResidue(e),
                     pc # "profile")

LoadFails ==
    /\ pc \in Load /\ Refused(pc)
    /\ \E e \in DriverErrors("write") : StartRollback("error", e)

\* The row-scoped path: a row is refused by the server, or counted wrong.
RowFails ==
    /\ At("rows") /\ mode = "rows"
    /\ \/ reply = "error" /\ StartRollback("rejected", NoCause)
       \/ /\ reply = "ok"
          /\ EndAttempt(AfterUnconfirmedRollback(Error("write", "unknown", "quarantine")), FALSE)

\* The token or operation_timeout: the session is quarantined, and ROLLBACK
\* has nothing to run on.
Interrupt ==
    /\ Running
    /\ \/ /\ pc \in Setup
          /\ \E e \in SentAndInterrupted(PhaseOf(pc)) :
                EndAttempt(IF pc \in {"precheck", "create"} THEN e ELSE StampDdlResidue(e), FALSE)
       \/ /\ pc \in Load
          /\ \E e \in SentAndInterrupted("write") :
                EndAttempt(StampDdlResidue(RollbackCleanupResult(e, "lost")), FALSE)

NextBatch == At("input") /\ Receive("execute")

NextBatchFails ==
    /\ At("input")
    /\ \E e \in InputErrors : StartRollback("error", e)

NextBatchEnds ==
    /\ At("input")
    /\ \E s \in IF mode = "append" THEN {"update", "verify"} ELSE {"verify"} : Await(s, Sends(s))

\* Confirmed, refused, answered with diagnostics, or timed out.
AfterRollback ==
    /\ Running /\ pc = "rollback"
    /\ \E evidence \in (IF reply = "none" THEN {} ELSE {reply}) \cup {"lost"} :
          EndAttempt(StampDdlResidue(IF why = "rejected" THEN RowRejected(evidence = "ok")
                                     ELSE RollbackCleanupResult(cause, evidence)),
                     evidence = "ok")

\* The profile is verified once more; a failure there is one of the commit.
VerifyFails ==
    /\ At("verify")
    /\ \E e \in IF Refused("verify") THEN DriverErrors("commit") ELSE SentAndInterrupted("commit") :
          EndAttempt(StampDdlResidue(CommitFailure(AfterUnprovenSend(e))), FALSE)

\* Counts that do not add up are reported as committed.
AfterCommit ==
    /\ At("commit")
    /\ \/ /\ reply = "ok"
          /\ EndAttempt(Committed, TRUE) \/ EndAttempt(Error("write", "committed", "never"), TRUE)
       \/ /\ reply = "proven"
          /\ EndAttempt(StampDdlResidue(CommitFailure(AfterCommitSent(Error("commit", "none", "safe"), TRUE))),
                        FALSE)
       \/ /\ reply \in {"none", "error"}
          /\ EndAttempt(CommitFailure(AfterCommitSent(NewError("commit"), FALSE)), FALSE)

Next ==
    \/ RefuseEarly \/ Checkout \/ CheckoutFails
    \/ Precheck \/ Advance \/ RefuseLocally \/ SetupFails \/ LoadFails \/ RowFails \/ Interrupt
    \/ NextBatch \/ NextBatchFails \/ NextBatchEnds
    \/ AfterRollback \/ VerifyFails \/ AfterCommit

\* The driver's pool resets the session before anyone uses it again, which
\* ends it for this write.
Dropped == DropCall(FALSE)
=============================================================================
