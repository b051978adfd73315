------------------------------- MODULE PgWrite -------------------------------
(***************************************************************************)
(* Arrow writes of the PostgreSQL adapter (plenora-db-postgres: write.rs,  *)
(* write/recovery.rs, write/row_diagnostics.rs, error.rs).  One attempt is *)
(* one transaction on one client, invalidated before BEGIN and put back    *)
(* only after a confirmed COMMIT.                                          *)
(*                                                                         *)
(* The phase of an error that ends in a ROLLBACK is abstracted to "write": *)
(* the ROLLBACK decides the effect.                                        *)
(***************************************************************************)
EXTENDS WriteAttempt, PgServer

\* The awaited stages, in the order of execute(); "rows" is a batch, or a row
\* of the row-scoped path.
Stage == {"discard", "begin", "path", "pin", "postgis", "evolve", "target", "key_facts",
          "session_rules", "visibility", "register", "row_statement", "rows", "index",
          "restore", "commit"}

\* The stages of the row-scoped path.
RowPath(s) ==
    CASE s = "session_rules" -> {"visibility"}
      [] s = "visibility"    -> {"register"}
      [] s = "register"      -> {"row_statement"}
      [] OTHER               -> {"input"}

\* What may follow a stage; the optional ones depend on the plan.
Entry == IF mode = "rows" THEN {"session_rules"}
         ELSE IF mode = "create" THEN {"target"} ELSE {"evolve", "target"}
Following(s) ==
    CASE s = "begin"         -> {"path"}
      [] s = "discard"       -> {"begin"}
      [] s = "path"          -> {"pin"}
      [] s = "pin"           -> {"postgis"} \cup Entry
      [] s = "postgis"       -> Entry
      [] s = "evolve"        -> {"target"}
      [] s = "target"        -> {"key_facts"}
      [] s = "index"         -> {"restore"}
      [] s = "restore"       -> {"commit"}
      [] OTHER               -> RowPath(s)

Sends(s) ==
    CASE s \in {"discard", "begin", "commit"} -> s
      [] s \in {"evolve", "target", "register", "rows", "index"} -> "execute"
      [] OTHER -> "read"

-----------------------------------------------------------------------------
(* Errors (error.rs).                                                      *)

\* The effects and dispositions of mapping_for_sqlstate, and of a server
\* error whose SQLSTATE the table does not name.
SqlstateAxes ==
    {<<"none", "never">>, <<"none", "safe">>, <<"none", "after">>,
     <<"rolled_back", "never">>, <<"rolled_back", "safe">>,
     <<"unknown", "never">>, <<"unknown", "safe">>, <<"unknown", "quarantine">>,
     <<"unknown", "requires_recovery">>}

\* classify_error: a closed connection leaves the effect of a mutating phase
\* unknown; without a SQLSTATE the answer could not be read.
ClassifyError(p, closed) ==
    IF ~closed THEN {Error(p, x[1], x[2]) : x \in SqlstateAxes}
    ELSE IF p \in {"write", "commit"}
         THEN {Error(p, "unknown", "requires_recovery"), Error(p, "unknown", "quarantine")}
         ELSE {Error(p, x[1], x[2]) : x \in SqlstateAxes} \cup {Error(p, "none", "quarantine")}

DiagnosticError == Error("write", "unknown", "requires_recovery")

NeverCommitted(e) ==
    Error(e.phase, "none", IF e.retry = "requires_recovery" THEN "never" ELSE e.retry)

\* cancelled_write_error and resource_write_error share their axes.
InterruptedWrite(confirmed) ==
    IF confirmed THEN Error("write", "rolled_back", "never")
                 ELSE AfterUnconfirmedRollback(Error("write", "unknown", "requires_recovery"))

\* rollback_error: the evidence of the ROLLBACK decides the effect.
AfterRollbackOf(evidence, e) ==
    CASE evidence = "confirmed" -> [e EXCEPT !.effect = "rolled_back"]
      [] evidence = "closed"    -> NeverCommitted(e)
      [] OTHER                  -> AfterUnconfirmedRollback(e)

\* rollback_error of the row-scoped path.
RowRolledBack(evidence, e) ==
    CASE evidence = "confirmed" -> Error(e.phase, "rolled_back", "never")
      [] evidence = "closed"    -> Error(e.phase, "none", "never")
      [] OTHER                  -> Error("rollback", "unknown", "quarantine")

\* rollback_cancellation, rollback_resource_error, rollback_aborted,
\* rollback_error; the row-scoped path; the axes of a rejected row.  evidence is "confirmed", "closed" or "unconfirmed".
RolledBack(w, evidence, e) ==
    CASE w \in {"cancellation", "resource"} ->
            IF evidence = "closed"
            THEN [NeverCommitted(InterruptedWrite(FALSE)) EXCEPT !.phase = "write"]
            ELSE InterruptedWrite(evidence = "confirmed")
      [] w = "aborted" ->
            IF evidence = "confirmed" THEN [e EXCEPT !.effect = "rolled_back"]
                                      ELSE NeverCommitted(e)
      [] w = "error" -> AfterRollbackOf(evidence, e)
      [] w = "row" -> RowRolledBack(evidence, e)
      [] w = "rejected" -> RowRejected(evidence = "confirmed")

-----------------------------------------------------------------------------
(* The attempt.                                                            *)

Diag == mode = "rows"
Awaiting == pc \in Stage /\ Running

\* Which rollback a refused or interrupted stage takes.
RowStage == Diag /\ pc \in {"row_statement", "rows", "input"}

\* Checks before the network: the token, the schema, the declared input.
RefuseEarly ==
    /\ At("start")
    /\ EndAttempt(NewError(IF cancelled THEN "write" ELSE "validate"), FALSE)

\* A pooled client is reset first; a fresh one starts with BEGIN.
Checkout ==
    /\ At("start") /\ ~cancelled
    /\ \E s \in {"discard", "begin"} : Open(s, s)

CheckoutFails ==
    /\ At("start") /\ ~cancelled
    /\ \E e \in ClassifyError("connect", TRUE) : EndAttempt(e, FALSE)

Advance ==
    /\ Awaiting /\ Answered(pc) /\ pc # "commit"
    /\ \E s \in Following(pc) : IF s = "input" THEN ToInput ELSE Await(s, Sends(s))

\* What the catalog says refuses the write: a rule of the library, a value it
\* cannot encode, the batch's accounting.
RefuseLocally ==
    /\ Awaiting /\ Answered(pc) /\ pc \notin {"discard", "begin", "commit"}
    /\ \/ StartRollback(IF RowStage THEN "row" ELSE "error", NewError("write"))
       \/ pc = "rows" /\ ~Diag /\ StartRollback("resource", NewError("write"))

\* Fault: a refused batch is left out, and the write goes on.
StageFailsSkipped ==
    /\ Awaiting /\ Refused(pc) /\ pc # "commit"
    /\ IF pc = "rows" /\ reply = "error" THEN ToInput
       ELSE \E e \in ClassifyError("write", Closed) : EndAttempt(e, FALSE)

\* The server refuses a stage, or the connection is closed.  Before BEGIN is
\* confirmed there is nothing to roll back.  A batch's refusal by the server
\* proves the abort.
StageFails ==
    /\ Awaiting /\ Refused(pc) /\ pc # "commit"
    /\ \/ /\ pc \in {"discard", "begin"}
          /\ \E e \in ClassifyError(IF pc = "begin" THEN "write" ELSE "connect", Closed) :
                EndAttempt(e, FALSE)
       \/ /\ pc \notin {"discard", "begin"} /\ ~RowStage
          /\ \E e \in ClassifyError("write", Closed) :
                StartRollback(IF pc = "rows" /\ ~Closed THEN "aborted" ELSE "error", e)

\* A row, or its statement: a constraint violation rejects the row.
RowFails ==
    /\ Awaiting /\ Refused(pc) /\ RowStage
    /\ \/ \E e \in ClassifyError("write", Closed) : StartRollback("row", e)
       \/ pc = "rows" /\ ~Closed /\ StartRollback("rejected", NoCause)

\* The token wins over the awaited stage; cancel_backend then ends it early
\* or not at all.
Interrupt ==
    /\ Awaiting /\ cancelled /\ pc # "commit"
    /\ IF pc \in {"discard", "begin"}
       THEN EndAttempt(Interrupted(IF pc = "begin" THEN "write" ELSE "connect"), FALSE)
       ELSE StartRollback(IF RowStage THEN "row" ELSE "cancellation",
                          IF RowStage THEN DiagnosticError ELSE NoCause)

\* next_batch gives a batch, the end, or an error; a batch is refused when
\* its schema differs or its resources cannot be reserved.
NextBatch == At("input") /\ Receive("execute")

NextBatchFails ==
    /\ At("input")
    /\ \/ \E e \in InputErrors \cup {DiagnosticError} :
             StartRollback(IF Diag THEN "row" ELSE "error", e)
       \/ ~Diag /\ StartRollback("resource", NoCause)
       \/ ~Diag /\ cancelled /\ StartRollback("cancellation", NoCause)

\* The end of the input: the index of Create, the outcome's validation, the
\* path of the session, COMMIT.  The row-scoped path restored it before.
NextBatchEnds ==
    /\ At("input")
    /\ \E s \in CASE Diag -> {"commit"}
                    [] mode = "create" -> {"index", "restore"}
                    [] OTHER -> {"restore"} : Await(s, Sends(s))

\* Confirmed, or the session was closed, or an answer out of sequence on a
\* session that is still open.
AfterRollback ==
    /\ At("rollback")
    /\ \E evidence \in {"confirmed", "closed", "unconfirmed"} :
          /\ IF evidence = "closed" THEN Closed ELSE reply # "none"
          /\ EndAttempt(RolledBack(why, evidence, cause), FALSE)

\* Fault: the client is put back while COMMIT may be on its way.
AfterCommitReused ==
    /\ At("commit")
    /\ \/ reply = "ok" /\ EndAttempt(Committed, TRUE)
       \/ (reply \in {"error", "proven"} \/ Closed) /\ EndAttempt(OutcomeUnknown, FALSE)
       \/ cancelled /\ EndAttempt(AfterInterruptedSend(Interrupted("commit")), TRUE)

\* proven_commit_rollback, unknown_write_outcome (commit_unknown_error on the
\* row-scoped path), commit_interruption_error.
AfterCommit ==
    /\ At("commit")
    /\ \/ reply = "ok" /\ EndAttempt(Committed, TRUE)
       \/ /\ reply = "proven"
          /\ \E x \in SqlstateAxes :
                EndAttempt(AfterCommitSent(Error("commit", x[1], x[2]), TRUE), FALSE)
       \/ /\ reply = "error" \/ Closed
          /\ EndAttempt(IF Diag THEN Error("commit", "unknown", "quarantine") ELSE OutcomeUnknown,
                        FALSE)
       \/ /\ cancelled
          /\ EndAttempt(Error("commit", "unknown", IF Diag THEN "quarantine" ELSE "requires_recovery"),
                        FALSE)

Next ==
    \/ RefuseEarly \/ Checkout \/ CheckoutFails
    \/ Advance \/ RefuseLocally \/ StageFails \/ RowFails \/ Interrupt
    \/ NextBatch \/ NextBatchFails \/ NextBatchEnds
    \/ AfterRollback \/ AfterCommit

\* A client that is still being reset goes back to the pool.
Dropped == DropCall(pc = "discard")
=============================================================================
