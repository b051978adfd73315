----------------------------- MODULE WriteAttempt -----------------------------
(***************************************************************************)
(* What the Arrow writes of the adapters share: the retry executor repeats *)
(* an attempt, an attempt drives one server session, and the session and   *)
(* the link to it may fail at any moment.  The modules that extend this    *)
(* one give the stages of an attempt and the errors of an adapter;         *)
(* AdapterWrites composes them.                                            *)
(*                                                                         *)
(* A stage is one awaited command, or a run of them that fail alike.  A    *)
(* session belongs to one attempt and is numbered by it.                   *)
(***************************************************************************)
EXTENDS Retry, Sequences

CONSTANTS
    MaxBatches,   \* bound on the batches (rows, when row-scoped) of an input
    Adapters      \* the adapters of the run

Adapter == {"postgres", "mysql", "oracle", "sqlserver", "db2"}

ASSUME WriteAssumption == MaxBatches \in Nat /\ Adapters \subseteq Adapter

VARIABLES
    adapter,      \* the adapter of the call
    mode,         \* create; rows: Append with row diagnostics; append: the rest
    pc,           \* the stage the attempt awaits, or where it is between two
    received,     \* batches received
    cause,        \* the error that made the attempt roll back
    why,          \* which of the adapter's rollbacks it awaits
    reply,        \* the answer to the awaited command
    armed,        \* the guard of ResidueLedger is armed
    link,         \* each attempt's connection: unborn, up, down
    pipe,         \* commands sent and not processed yet
    srv,          \* the server session
    work,         \* what became of the attempt's transaction
    table,        \* a table that a create of the attempt left outside of it
    executed,     \* batches the server executed in it
    kept,         \* the connection went back to the pool
    dropped,      \* history: the caller dropped the call
    ledger        \* ResidueLedger: the attempts it recorded

fixed == <<adapter, mode>>
attempting == <<pc, received, cause, why, reply, armed>>
remote == <<pipe, srv, work, table, executed>>
client == <<link, kept, dropped, ledger>>
vars == <<retry, fixed, attempting, remote, client>>

Mode == {"append", "rows", "create"}
Command == {"discard", "begin", "read", "execute", "create", "commit", "rollback"}
Reply == {"none", "ok", "error", "proven", "undone", "warned"}

\* Where an attempt is without awaiting an answer.
Between == {"start", "input"}

Rollback == {"none", "error", "rejected", "row", "aborted", "cancellation", "resource"}

\* Of the variables of this module; the stages are those of the adapter.
WriteTypeOK(stages) ==
    /\ RetryTypeOK
    /\ adapter \in Adapters /\ mode \in Mode
    /\ pc \in stages \cup Between \cup {"rollback"}
    /\ received \in 0 .. MaxBatches
    /\ cause \in Answer
    /\ why \in Rollback
    /\ reply \in Reply
    /\ armed \in BOOLEAN
    /\ link \in [Attempts -> {"unborn", "up", "down"}]
    /\ pipe \in [Attempts -> Seq(Command)]
    /\ srv \in [Attempts -> {"none", "open", "aborted"}]
    /\ work \in [Attempts -> {"none", "pending", "applied", "discarded"}]
    /\ table \in [Attempts -> BOOLEAN]
    /\ executed \in [Attempts -> 0 .. MaxBatches]
    /\ kept \in SUBSET Attempts /\ ledger \in SUBSET Attempts
    /\ dropped \in BOOLEAN

NoCause == NewError("write")

WriteInit ==
    /\ RetryInit
    /\ adapter \in Adapters /\ mode \in Mode
    /\ pc = "start" /\ received = 0
    /\ cause = NoCause /\ why = "none" /\ reply = "none" /\ armed = FALSE
    /\ link = [a \in Attempts |-> "unborn"]
    /\ pipe = [a \in Attempts |-> <<>>]
    /\ srv = [a \in Attempts |-> "none"]
    /\ work = [a \in Attempts |-> "none"]
    /\ table = [a \in Attempts |-> FALSE]
    /\ executed = [a \in Attempts |-> 0]
    /\ kept = {} /\ ledger = {} /\ dropped = FALSE

-----------------------------------------------------------------------------
(* The server.  A command whose future was dropped stays on its way.       *)

\* outcomes: what the first command on its way may come to in the session.
Process(a, outcomes) ==
    /\ pipe[a] # <<>>
    /\ LET cmd == Head(pipe[a])
           awaited == a = attempt /\ rt = "run" /\ link[a] = "up" /\ Len(pipe[a]) = 1
                         /\ pc \notin Between
       IN  \E o \in outcomes :
              /\ srv' = [srv EXCEPT ![a] = o.srv]
              /\ work' = [work EXCEPT ![a] = o.work]
              /\ table' = IF cmd = "create" /\ o.answer \in {"ok", "warned"}
                          THEN [table EXCEPT ![a] = TRUE] ELSE table
              /\ reply' = IF awaited THEN o.answer ELSE reply
              /\ executed' = IF awaited /\ pc = "rows" /\ o.answer = "ok"
                             THEN [executed EXCEPT ![a] = @ + 1] ELSE executed
    /\ pipe' = [pipe EXCEPT ![a] = Tail(@)]
    /\ UNCHANGED <<retry, fixed, pc, received, cause, why, armed, client>>

Break(a) ==
    /\ link[a] = "up"
    /\ link' = [link EXCEPT ![a] = "down"]
    /\ UNCHANGED <<retry, fixed, attempting, remote, kept, dropped, ledger>>

\* The server ends a session whose connection is gone.
Hangup(a) ==
    /\ link[a] = "down"
    /\ srv[a] # "none" \/ pipe[a] # <<>>
    /\ pipe' = [pipe EXCEPT ![a] = <<>>]
    /\ srv' = [srv EXCEPT ![a] = "none"]
    /\ work' = [work EXCEPT ![a] = IF @ = "pending" THEN "discarded" ELSE @]
    /\ UNCHANGED <<retry, fixed, attempting, table, executed, client>>

-----------------------------------------------------------------------------
(* The parts of a step of the attempt.                                     *)

Running == rt = "run"
At(s) == Running /\ pc = s

Send(s, cmd) ==
    /\ pipe' = IF link[attempt] = "down" THEN pipe
               ELSE [pipe EXCEPT ![attempt] = Append(@, cmd)]
    /\ pc' = s /\ reply' = "none"
    /\ UNCHANGED <<retry, fixed, srv, work, table, executed, kept, dropped, ledger>>

Await(s, cmd) == Send(s, cmd) /\ UNCHANGED <<received, cause, why, armed, link>>

ToInput ==
    /\ pc' = "input" /\ reply' = "none"
    /\ UNCHANGED <<retry, fixed, received, cause, why, armed, remote, client>>

\* The first command of an attempt, on the session it was given.
Open(s, cmd) ==
    /\ link' = [link EXCEPT ![attempt] = "up"]
    /\ received' = 0
    /\ Send(s, cmd)
    /\ UNCHANGED <<cause, why, armed>>

Receive(cmd) ==
    /\ received < MaxBatches
    /\ received' = received + 1
    /\ Send("rows", cmd)
    /\ UNCHANGED <<cause, why, armed, link>>

\* ROLLBACK runs under a token of its own.
StartRollback(w, e) ==
    /\ why' = w /\ cause' = e
    /\ Send("rollback", "rollback")
    /\ UNCHANGED <<received, armed, link>>

\* The answer of the attempt settles the guard; the connection is kept or
\* closed.
EndAttempt(e, keep) ==
    /\ OpAnswers(e)
    /\ pc' = "start" /\ cause' = NoCause /\ why' = "none" /\ reply' = "none" /\ armed' = FALSE
    /\ IF keep /\ link[attempt] = "up"
       THEN kept' = kept \cup {attempt} /\ UNCHANGED link
       ELSE link' = [link EXCEPT ![attempt] = "down"] /\ UNCHANGED kept
    /\ UNCHANGED <<fixed, received, remote, dropped, ledger>>

\* The caller drops the future; the guard's drop records what it armed for.
DropCall(keep) ==
    /\ Running
    /\ rt' = "done" /\ dropped' = TRUE
    /\ ledger' = IF armed THEN ledger \cup {attempt} ELSE ledger
    /\ IF keep /\ link[attempt] = "up"
       THEN kept' = kept \cup {attempt} /\ UNCHANGED link
       ELSE link' = [link EXCEPT ![attempt] = "down"] /\ UNCHANGED kept
    /\ UNCHANGED <<attempt, told, cancelled, final, fixed, attempting, remote>>

\* The awaited command is answered, refused, or can no longer be answered.
Answered(s) == Running /\ pc = s /\ reply = "ok"
Closed == link[attempt] = "down" /\ reply = "none"
Refused(s) == Running /\ pc = s /\ (reply \notin {"none", "ok"} \/ Closed)

\* The input stream is the caller's: its errors carry any axes.
InputErrors == {Error("write", e, r) : e \in {"none", "unknown"}, r \in {"never", "safe"}}

\* RowRejectionOutcome::into_error: the axes of a rejected row.
RowRejected(confirmed) ==
    IF confirmed THEN Error("write", "rolled_back", "never")
                 ELSE Error("rollback", "unknown", "quarantine")

-----------------------------------------------------------------------------
(* Properties.                                                             *)

\* An attempt whose error says that nothing happened (effect none) or that it
\* was undone (rolled_back) never becomes visible, now or later, whatever is
\* still on its way to the server.
EffectIsTrue ==
    \A a \in Attempts : told[a].status = "error" /\ told[a].effect \in {"none", "rolled_back"}
                           => work[a] # "applied"

\* An attempt answered Committed has applied every batch it received.
CommittedIsComplete ==
    \A a \in Attempts : told[a].status = "committed"
                           => a = attempt /\ work[a] = "applied" /\ executed[a] = received

\* What the caller is told at the end is true of all the attempts together,
\* and retry_with_policy never applies the same write twice.
FinalIsTrue ==
    /\ \A a, b \in Attempts : work[a] = "applied" /\ work[b] = "applied" => a = b
    /\ rt = "done" /\ ~dropped =>
          /\ final.effect \in {"none", "rolled_back"} => \A a \in Attempts : work[a] # "applied"
          /\ final.status = "committed" => \E a \in Attempts : work[a] = "applied"

\* A connection in the pool has no transaction and nothing on its way.  A call
\* that is dropped may leave the reset of its client on its way, and only that.
KeptIsClean ==
    \A a \in kept : srv[a] = "none" /\ pipe[a] \in {<<>>} \cup IF dropped THEN {<<"discard">>} ELSE {}

\* A table that a create left behind, now or later, is told by the error, and
\* recorded when there is nobody to tell (ddl_residue.rs); the attempt that
\* left it is never repeated.
NoHiddenResidue ==
    \A a \in Attempts : table[a] =>
        /\ told[a].status = "error" => told[a].effect \notin {"none", "rolled_back"}
        /\ a = attempt
        /\ dropped => a \in ledger

\* The call ends, whatever fails and whenever it is cancelled.
CallEnds == <>(rt = "done")
=============================================================================
