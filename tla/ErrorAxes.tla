------------------------------ MODULE ErrorAxes ------------------------------
(***************************************************************************)
(* The axes of a DatabaseError that decide what a caller may do next       *)
(* (plenora-database-core: error.rs, after_commit_sent of transaction.rs,  *)
(* settle of outcome.rs): the phase, the remote effect and the retry       *)
(* disposition.  Categories, messages and diagnostics are left out.        *)
(***************************************************************************)

Phase == {"validate", "connect", "prepare", "read", "write", "commit", "rollback", "cleanup"}
Effect == {"none", "rolled_back", "partial", "committed", "unknown"}
Disposition == {"never", "quarantine", "safe", "requires_key", "requires_recovery", "after"}

\* What a call gives back: a DatabaseError, or a WriteOutcome by its status.
Answer == [status : {"error", "committed", "outcome_unknown"},
           phase : Phase, effect : Effect, retry : Disposition]

Error(p, e, r) == [status |-> "error", phase |-> p, effect |-> e, retry |-> r]

\* Errors of the library itself, and of an interruption before the command is
\* sent.
NewError(p) == Error(p, "none", "never")
Interrupted(p) == NewError(p)

Severe(r) == IF r = "quarantine" THEN r ELSE "requires_recovery"

AfterUnconfirmedRollback(e) ==
    Error("rollback", "unknown", Severe(e.retry))

AfterInterruptedSend(e) ==
    CASE e.phase = "rollback"            -> AfterUnconfirmedRollback(e)
      [] e.phase \in {"write", "commit"} -> Error(e.phase, "unknown", Severe(e.retry))
      [] OTHER                           -> e

AfterUnprovenSend(e) ==
    IF e.effect = "none" THEN Error(e.phase, "unknown", Severe(e.retry)) ELSE e

AfterCommitSent(e, proves) ==
    IF proves THEN Error("commit", "rolled_back", e.retry)
              ELSE Error("commit", "unknown", Severe(e.retry))

IsRetryable(e) == e.retry \in {"safe", "after"}

Committed == [status |-> "committed", phase |-> "commit", effect |-> "committed",
              retry |-> "never"]
OutcomeUnknown == [status |-> "outcome_unknown", phase |-> "commit", effect |-> "unknown",
                   retry |-> "requires_recovery"]

\* WriteOutcome::settle: only a committed outcome is a success.
Settle(a) ==
    IF a.status = "outcome_unknown" THEN Error("commit", "unknown", "requires_recovery") ELSE a
=============================================================================
