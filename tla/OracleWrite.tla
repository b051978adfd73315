------------------------------ MODULE OracleWrite ------------------------------
(***************************************************************************)
(* Arrow writes of the Oracle adapter (plenora-db-oracle: write.rs,        *)
(* transaction.rs, error.rs, connection.rs).  CREATE TABLE and what        *)
(* completes it commit on a lease of their own; a second lease loads the   *)
(* rows in the transaction the first DML opens.  The two leases are one    *)
(* session here: they are used one after the other, and an error of the    *)
(* first ends the attempt.                                                 *)
(***************************************************************************)
EXTENDS WriteAttempt

-----------------------------------------------------------------------------
(* The server (external).                                                  *)

Outcome(s, a, w) == [srv |-> s, answer |-> a, work |-> w]

\* A row statement runs in a PL/SQL block that rolls the transaction back
\* when it fails and says so; the next one would open another.  CREATE may
\* answer with a code after it took effect.
Serves(cmd, s, w) ==
    CASE cmd = "create" -> {Outcome(s, r, w) : r \in {"ok", "error", "warned"}}
      [] cmd = "execute" ->
            {Outcome("open", "ok", "pending"), Outcome(s, "error", w),
             Outcome("none", "undone", IF w = "pending" THEN "discarded" ELSE w)}
      [] cmd = "commit" ->
            IF w = "discarded" THEN {Outcome("none", "ok", w)}
            ELSE {Outcome("none", "ok", "applied"), Outcome("none", "proven", "discarded"),
                  Outcome("none", "error", "discarded"), Outcome("none", "error", "applied")}
      [] cmd = "rollback" ->
            {Outcome("none", "ok", IF w = "pending" THEN "discarded" ELSE w), Outcome(s, "error", w)}
      [] OTHER -> {Outcome(s, r, w) : r \in {"ok", "error"}}

-----------------------------------------------------------------------------
(* Stages and errors.                                                      *)

\* "metadata" is the spatial metadata and indexes, "settle" the COMMIT of the
\* setup; "facts" what is read of the target, "clear" the DELETE of Replace.
Setup == {"create", "metadata", "settle"}
Load == {"facts", "clear", "rows"}
Stage == Setup \cup Load \cup {"commit"}

Sends(s) ==
    CASE s \in {"create", "commit"} -> s
      [] s \in {"clear", "rows"} -> "execute"
      [] OTHER -> "read"

\* sent_command_error: a code of CERTAIN_STATEMENT_REJECTIONS proves that the
\* command had no effect.
SentCommandErrors ==
    (IF reply = "error" THEN {Error("write", "none", r) : r \in {"never", "safe"}} ELSE {})
        \cup {AfterInterruptedSend(NewError("write"))}

\* What a refusal reports in a protected block.
ProtectedErrors == {Error("write", "rolled_back", r) : r \in {"never", "safe"}}

\* setup_commit_error; ORA-02091 alone proves the rollback.
SetupCommitErrors == {AfterCommitSent(NewError("commit"), proven) : proven \in BOOLEAN}

\* Fault: only a setup that fails is stamped with the table it left.
StampCreatedTargetSetup(e) ==
    IF mode = "create" /\ e.status = "error" /\ pc \in Setup
    THEN Error(e.phase, IF e.effect = "unknown" THEN "unknown" ELSE "partial", Severe(e.retry))
    ELSE e

\* stamp_created_target, for the steps after CREATE.
StampCreatedTarget(e) ==
    IF mode = "create" /\ e.status = "error"
    THEN Error(e.phase, IF e.effect = "unknown" THEN "unknown" ELSE "partial", Severe(e.retry))
    ELSE e

\* rollback_and_shape.
RollbackAndShape(e, confirmed) ==
    IF ~confirmed THEN AfterUnconfirmedRollback(e)
    ELSE IF mode = "create" THEN Error(e.phase, "partial", "requires_recovery")
    ELSE Error(e.phase, "rolled_back", "never")

-----------------------------------------------------------------------------
(* The attempt.                                                            *)

\* The plan and the input are checked first; row diagnostics are refused.
RefuseEarly == At("start") /\ EndAttempt(NewError("write"), FALSE)

\* The pool's checkout; the network's failure to connect may be retried.
CheckoutFails ==
    /\ At("start")
    /\ \E r \in {"never", "safe"} : EndAttempt(Error("connect", "none", r), FALSE)

\* The guard is armed before the lease of the setup is asked for.
Checkout ==
    /\ At("start") /\ ~cancelled /\ mode # "rows"
    /\ IF mode = "create"
       THEN /\ armed' = TRUE
            /\ link' = [link EXCEPT ![attempt] = "up"]
            /\ received' = 0
            /\ Send("create", "create")
            /\ UNCHANGED <<cause, why>>
       ELSE Open("facts", "read")

\* Each command of the setup; the lease of the load may be refused after it.
SetupAdvances ==
    /\ pc \in Setup /\ Answered(pc)
    /\ \/ pc = "create" /\ \E s \in {"metadata", "settle"} : Await(s, "read")
       \/ pc = "metadata" /\ Await("settle", "read")
       \/ pc = "settle" /\ Await("facts", "read")
       \/ /\ pc = "settle"
          /\ \E r \in {"never", "safe"} :
                EndAttempt(StampCreatedTarget(Error("connect", "none", r)), FALSE)

\* CREATE refused: the table is not there, or nobody knows.
SetupFails ==
    /\ pc \in Setup /\ Refused(pc)
    /\ \/ pc = "create" /\ \E e \in SentCommandErrors : EndAttempt(e, FALSE)
       \/ pc = "metadata" /\ \E e \in SentCommandErrors : EndAttempt(StampCreatedTarget(e), FALSE)
       \/ pc = "settle" /\ \E e \in SetupCommitErrors : EndAttempt(StampCreatedTarget(e), FALSE)

LoadAdvances ==
    /\ pc \in Load /\ Answered(pc)
    /\ \/ ToInput
       \/ pc = "facts" /\ mode = "append" /\ Await("clear", "execute")

LoadFails ==
    /\ pc \in Load /\ Refused(pc)
    /\ \E e \in IF reply = "undone" THEN ProtectedErrors ELSE SentCommandErrors :
          StartRollback("error", e)

RefuseLocally ==
    /\ pc \in Load /\ Answered(pc)
    /\ StartRollback("error", NewError("write"))

\* The token or the timeout: the driver closes the connection the command
\* was sent on, so ROLLBACK cannot be confirmed on it.
Interrupt ==
    /\ Running
    /\ \/ pc = "create" /\ EndAttempt(AfterInterruptedSend(NewError("write")), FALSE)
       \/ /\ pc \in {"metadata", "settle"}
          /\ EndAttempt(StampCreatedTarget(AfterInterruptedSend(
                           NewError(IF pc = "settle" THEN "commit" ELSE "write"))), FALSE)
       \/ /\ pc \in Load
          /\ EndAttempt(StampCreatedTarget(RollbackAndShape(NewError("write"), FALSE)), FALSE)

NextBatch == At("input") /\ Receive("execute")

\* An error of the input, a batch refused, or a count that is not the
\* declared one.
NextBatchFails ==
    /\ At("input")
    /\ \E e \in InputErrors : StartRollback("error", e)

NextBatchEnds == At("input") /\ Await("commit", "commit")

AfterRollback ==
    /\ Running /\ pc = "rollback"
    /\ \E confirmed \in BOOLEAN :
          /\ confirmed <=> reply = "ok"
          /\ EndAttempt(StampCreatedTarget(RollbackAndShape(cause, confirmed)), confirmed)

\* The token and the timeout end the wait for COMMIT too.
AfterCommit ==
    /\ At("commit")
    /\ \/ reply = "ok" /\ EndAttempt(Committed, TRUE)
       \/ /\ reply = "proven"
          /\ EndAttempt(StampCreatedTarget(AfterCommitSent(NewError("commit"), TRUE)), FALSE)
       \/ reply \in {"none", "error"} /\ EndAttempt(OutcomeUnknown, FALSE)

Next ==
    \/ RefuseEarly \/ Checkout \/ CheckoutFails
    \/ SetupAdvances \/ SetupFails \/ LoadAdvances \/ LoadFails \/ RefuseLocally \/ Interrupt
    \/ NextBatch \/ NextBatchFails \/ NextBatchEnds
    \/ AfterRollback \/ AfterCommit

\* A lease that was not allowed to be reused is closed.
Dropped == DropCall(FALSE)
=============================================================================
