-------------------------------- MODULE Db2Write --------------------------------
(***************************************************************************)
(* Arrow writes of the Db2 adapter (plenora-db-db2: write.rs,              *)
(* transaction.rs, row_diagnostics.rs, error.rs).  A connection is opened  *)
(* for the write and never kept.  Every command runs on a blocking worker  *)
(* that nothing interrupts: the token is looked at before each one.        *)
(***************************************************************************)
EXTENDS WriteAttempt

-----------------------------------------------------------------------------
(* The server (external).                                                  *)

Outcome(s, a, w) == [srv |-> s, answer |-> a, work |-> w]

\* Without autocommit a statement opens the transaction, DDL included; 40001
\* ends it, and the next statement would open another.  "begin" turns
\* autocommit off.
Serves(cmd, s, w) ==
    CASE cmd = "execute" ->
            {Outcome("open", "ok", "pending"), Outcome(s, "error", w),
             Outcome("none", "undone", IF w = "pending" THEN "discarded" ELSE w)}
      [] cmd = "commit" ->
            IF w = "discarded" THEN {Outcome("none", "ok", w)}
            ELSE {Outcome("none", "ok", "applied"), Outcome("none", "error", "discarded"),
                  Outcome("none", "error", "applied")}
      [] cmd = "rollback" ->
            {Outcome("none", "ok", IF w = "pending" THEN "discarded" ELSE w), Outcome(s, "error", w)}
      [] OTHER -> {Outcome(s, r, w) : r \in {"ok", "error", "undone"}}

-----------------------------------------------------------------------------
(* Stages and errors.                                                      *)

\* "guard" and "visibility" read the catalog, "target" is the CREATE or the
\* DELETE of Replace.
Load == {"guard", "visibility", "target", "rows"}
Stage == Load \cup {"begin", "commit"}

Following(s) ==
    CASE s = "begin"      -> {"guard"}
      [] s = "guard"      -> IF mode = "rows" THEN {"input"} ELSE {"visibility"}
      [] s = "visibility" -> IF mode = "create" THEN {"target"} ELSE {"target", "input"}
      [] OTHER            -> {"input"}

Sends(s) ==
    CASE s \in {"target", "rows"} -> "execute"
      [] s = "commit" -> s
      [] OTHER -> "read"

\* driver_error: 40001 proves a rollback, 40003, a lost connection and a
\* warning leave the effect of a mutating phase unknown.
DriverErrors(p) ==
    IF reply = "undone" THEN {Error(p, "rolled_back", "safe")}
    ELSE {NewError(p)} \cup {Error(p, "unknown", "requires_recovery")}

\* task_error: the worker died.
TaskError(p) ==
    IF p = "prepare" THEN NewError(p) ELSE Error(p, "unknown", "requires_recovery")

PhaseOf(s) == IF s \in {"begin", "guard", "visibility"} THEN "prepare" ELSE "write"

\* rollback_and_shape, and abandoned_error before COMMIT.
RollbackAndShape(e, confirmed) ==
    IF confirmed THEN Error(e.phase, "rolled_back", "never") ELSE AfterUnconfirmedRollback(e)

-----------------------------------------------------------------------------
(* The attempt.                                                            *)

RefuseEarly == At("start") /\ EndAttempt(NewError(IF cancelled THEN "prepare" ELSE "write"), FALSE)

Begin == At("start") /\ ~cancelled /\ Open("begin", "read")

BeginFails ==
    /\ Refused("begin")
    /\ \E e \in DriverErrors("prepare") : EndAttempt(e, FALSE)

\* run: the token is checked, then the command is sent.
Advance ==
    /\ Answered(pc) /\ pc \in {"begin"} \cup Load
    /\ \E s \in Following(pc) :
          \/ s = "input" /\ ToInput
          \/ s # "input" /\ ~cancelled /\ Await(s, Sends(s))
          \/ s # "input" /\ cancelled /\ StartRollback("error", Interrupted(PhaseOf(s)))

RefuseLocally ==
    /\ Answered(pc) /\ pc \in Load
    /\ StartRollback("error", NewError("write"))

LoadFails ==
    /\ pc \in Load /\ Refused(pc)
    /\ \E e \in DriverErrors(PhaseOf(pc)) : StartRollback("error", e)

\* The row-scoped path: the server refuses a row.
RowFails ==
    /\ At("rows") /\ mode = "rows" /\ reply = "error"
    /\ StartRollback("rejected", NoCause)

\* The blocking worker panics: the connection goes with it.  open is false,
\* so rollback_in_place has nothing to do and says Ok.
WorkerLost ==
    /\ Running
    /\ \/ pc = "begin" /\ EndAttempt(TaskError("prepare"), FALSE)
       \/ pc \in Load /\ EndAttempt(RollbackAndShape(TaskError(PhaseOf(pc)), TRUE), FALSE)
       \/ /\ pc = "rollback"
          /\ EndAttempt(IF why = "rejected" THEN RowRejected(FALSE)
                        ELSE RollbackAndShape(cause, FALSE), FALSE)
       \/ pc = "commit" /\ EndAttempt(OutcomeUnknown, FALSE)

NextBatch == At("input") /\ ~cancelled /\ Receive("execute")

\* An error of the input, a batch refused, the token before a batch is sent,
\* or a count that is not the declared one.
NextBatchFails ==
    /\ At("input")
    /\ \E e \in InputErrors \cup {Error("write", "unknown", "requires_recovery")} :
          StartRollback("error", e)

\* commit looks at the token once, before it sends.
NextBatchEnds ==
    /\ At("input")
    /\ IF cancelled THEN StartRollback("error", Interrupted("commit"))
                    ELSE Await("commit", "commit")

AfterRollback ==
    /\ Running /\ pc = "rollback" /\ (reply # "none" \/ Closed)
    /\ LET confirmed == reply = "ok"
       IN  EndAttempt(IF why = "rejected" THEN RowRejected(confirmed)
                      ELSE RollbackAndShape(cause, confirmed), FALSE)

\* No code proves the rollback of a COMMIT.
AfterCommit ==
    /\ At("commit")
    /\ \/ reply = "ok" /\ EndAttempt(Committed, FALSE)
       \/ (reply = "error" \/ Closed) /\ EndAttempt(OutcomeUnknown, FALSE)

Next ==
    \/ RefuseEarly \/ Begin \/ BeginFails
    \/ Advance \/ RefuseLocally \/ LoadFails \/ RowFails \/ WorkerLost
    \/ NextBatch \/ NextBatchFails \/ NextBatchEnds
    \/ AfterRollback \/ AfterCommit

\* The worker ends the command it is in; the connection is closed after it.
Dropped == DropCall(FALSE)
=============================================================================
