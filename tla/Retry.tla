-------------------------------- MODULE Retry --------------------------------
(***************************************************************************)
(* The retry executor (plenora-database-engine: retry.rs).  The operation  *)
(* it repeats is given by the module that extends this one: it runs while  *)
(* rt = "run" and leaves its answer in told[attempt].                      *)
(***************************************************************************)
EXTENDS ErrorAxes, Naturals

CONSTANT MaxAttempts      \* RetryPolicy.max_attempts

ASSUME RetryAssumption == MaxAttempts \in Nat \ {0}

VARIABLES
    rt,           \* where retry_with_policy is
    attempt,      \* the attempt, from 1
    told,         \* what each attempt answered
    cancelled,    \* the caller's token is cancelled
    final         \* what the caller was told, once rt = "done"

retry == <<rt, attempt, told, cancelled, final>>

Attempts == 1 .. MaxAttempts
Untold == [status |-> "untold", phase |-> "validate", effect |-> "none", retry |-> "never"]

RetryTypeOK ==
    /\ rt \in {"check", "run", "judge", "sleep", "done"}
    /\ attempt \in Attempts
    /\ told \in [Attempts -> Answer \cup {Untold}]
    /\ cancelled \in BOOLEAN
    /\ final \in Answer \cup {Untold}

RetryInit ==
    /\ rt = "check"
    /\ attempt = 1
    /\ told = [a \in Attempts |-> Untold]
    /\ cancelled = FALSE
    /\ final = Untold

\* The caller, or the deadline of the token's budget.
Cancel ==
    /\ ~cancelled /\ rt # "done"
    /\ cancelled' = TRUE
    /\ UNCHANGED <<rt, attempt, told, final>>

\* The operation answers; a public surface settles the outcome.
OpAnswers(e) ==
    /\ told' = [told EXCEPT ![attempt] = e]
    /\ rt' = "judge"
    /\ UNCHANGED <<attempt, cancelled, final>>

GiveBack(e) ==
    /\ rt' = "done"
    /\ final' = Settle(e)
    /\ UNCHANGED <<attempt, told, cancelled>>

\* The head of the loop.
CheckToken ==
    /\ rt = "check"
    /\ IF cancelled THEN GiveBack(Interrupted("cleanup"))
       ELSE rt' = "run" /\ UNCHANGED <<attempt, told, cancelled, final>>

TryAgain ==
    /\ rt' = "check"
    /\ attempt' = attempt + 1
    /\ UNCHANGED <<told, cancelled, final>>

\* Fault: one attempt more than the policy allows.
JudgeOneMore ==
    /\ rt = "judge"
    /\ LET e == told[attempt]
       IN  IF e.status # "error" \/ attempt > MaxAttempts \/ ~IsRetryable(e)
           THEN GiveBack(e) ELSE TryAgain

\* Success, the last attempt, and every disposition but Safe and After end
\* the loop; Safe tries again at once, After sleeps first.
Judge ==
    /\ rt = "judge"
    /\ LET e == told[attempt]
       IN  CASE e.status # "error" \/ attempt + 1 > MaxAttempts \/ ~IsRetryable(e) -> GiveBack(e)
             [] e.status = "error" /\ attempt + 1 <= MaxAttempts /\ e.retry = "safe" -> TryAgain
             [] OTHER -> rt' = "sleep" /\ UNCHANGED <<attempt, told, cancelled, final>>

\* Fault: only the token ends the sleep.
WakeUpByToken ==
    /\ rt = "sleep" /\ cancelled
    /\ GiveBack(Interrupted("cleanup"))

\* sleep_cancellable: the timer or the token; a token that is cancelled when
\* the timer fires wins too.
WakeUp ==
    /\ rt = "sleep"
    /\ IF cancelled THEN GiveBack(Interrupted("cleanup")) ELSE TryAgain

RetryNext == Cancel \/ CheckToken \/ Judge \/ WakeUp
=============================================================================
