------------------------------- MODULE PgServer -------------------------------
(***************************************************************************)
(* What a PostgreSQL session (external) answers to the commands of the     *)
(* adapter, as far as the adapter relies on it: a statement that fails     *)
(* aborts the transaction, an aborted transaction refuses all but          *)
(* ROLLBACK [TO], and answers COMMIT by rolling back without an error.     *)
(***************************************************************************)

\* The outcomes of a command: the session's next state, the writes of t, and
\* the answer.  A refusal of COMMIT is "proven" when its SQLSTATE is one of
\* COMMIT_ROLLBACK_SQLSTATES.
Outcome(s, a, w) == [srv |-> s, answer |-> a, work |-> w]

ServedDiscard(s, w) ==
    IF s = "none" THEN {Outcome("none", "ok", w), Outcome("none", "error", w)}
                  ELSE {Outcome("aborted", "error", w)}

\* BEGIN in a transaction is a warning, and joins it.
ServedBegin(s, w) ==
    CASE s = "none"    -> {Outcome("open", "ok", "pending"), Outcome("none", "error", w)}
      [] s = "open"    -> {Outcome("open", "ok", "pending")}
      [] s = "aborted" -> {Outcome("aborted", "error", w)}

\* Outside a transaction a statement commits by itself.
ServedStatement(cmd, s, w) ==
    CASE s = "none"    -> {Outcome("none", "ok", IF cmd = "execute" THEN "applied" ELSE w),
                           Outcome("none", "error", w)}
      [] s = "open"    -> {Outcome("open", "ok", w), Outcome("aborted", "error", w)}
      [] s = "aborted" -> {Outcome("aborted", "error", w)}

ServedRollbackTo(s, w) ==
    IF s = "none" THEN {Outcome("none", "error", w)}
                  ELSE {Outcome("open", "ok", w), Outcome("aborted", "error", w)}

ServedCommit(s, w) ==
    CASE s = "none"    -> {Outcome("none", "ok", w)}
      [] s = "open"    -> {Outcome("none", "ok", "applied"), Outcome("none", "proven", "discarded"),
                           Outcome("none", "error", "discarded")}
      [] s = "aborted" -> {Outcome("none", "ok", "discarded")}

ServedRollback(s, w) == {Outcome("none", "ok", IF w = "pending" THEN "discarded" ELSE w)}

Served(cmd, s, w) ==
    CASE cmd = "discard"    -> ServedDiscard(s, w)
      [] cmd = "begin"      -> ServedBegin(s, w)
      [] cmd = "rollbackto" -> ServedRollbackTo(s, w)
      [] cmd = "commit"     -> ServedCommit(s, w)
      [] cmd = "rollback"   -> ServedRollback(s, w)
      [] OTHER              -> ServedStatement(cmd, s, w)
=============================================================================
