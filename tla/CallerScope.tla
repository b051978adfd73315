----------------------------- MODULE CallerScope -----------------------------
(***************************************************************************)
(* What the transactions that an adapter opens for a caller share: the     *)
(* trait TransactionScope behind CallerSqlTransaction                      *)
(* (plenora-database-core: transaction.rs, caller_sql.rs), and the link to *)
(* one server session.  The modules that extend this one give the calls of *)
(* an adapter; AdapterScopes composes them.                                *)
(*                                                                         *)
(* The statements of the caller are numbered as they are sent.  A call     *)
(* borrows the scope, so there is one at a time; one that is refused       *)
(* before anything is sent changes nothing and has no action.  A caller    *)
(* that drops the future of a call drops the scope with it.                *)
(***************************************************************************)
EXTENDS ErrorAxes, Integers

CONSTANTS
    MaxStatements,   \* bound on the statements of a scope
    ScopeAdapters    \* the adapters of the run

ASSUME ScopeAssumption ==
    /\ MaxStatements \in Nat
    /\ ScopeAdapters \subseteq {"mysql", "sqlserver", "oracle", "db2"}

VARIABLES
    adapter,
    open,         \* the field open of the scope
    recovery,     \* MySQL: recovery_required
    state,        \* the session: ready, uncommittable, gone
    call,         \* the call in progress
    at,           \* the command it awaits
    result,       \* what it returns when the session is verified after it
    reply,        \* the answer to the awaited command
    count,        \* statements sent so far
    link,         \* the connection: up, down
    wire,         \* the command sent and not processed yet
    tx,           \* the server's transaction
    applied,      \* statements that are durable
    promised,     \* history: statements told done and not told undone
    revoked,      \* history: statements told undone by a savepoint
    mark,         \* history: count at the caller's savepoint
    committing,   \* history: COMMIT was sent
    unnoticed,    \* history: a stream of SQL Server lost the transaction
    told,         \* the answer of commit or rollback
    kept          \* the connection went back to the pool

fields == <<open, recovery, state>>
server == <<tx, applied, unnoticed>>
caller == <<promised, revoked, mark>>
vars == <<adapter, fields, call, at, result, reply, count, link, wire, server, caller,
          committing, told, kept>>

Statement == 1 .. MaxStatements
Savepoint == {"caller", "own"}
Call == {"none", "execute", "conditional", "query", "stream", "save", "release", "rollback_to",
         "commit", "rollback"}
Command == {"none", "execute", "query", "stream", "read", "save", "save_own", "rollback_to",
            "rollback_own", "release", "release_own", "commit", "rollback", "reset"}

NoTx == [live |-> FALSE, work |-> {}, saved |-> [p \in Savepoint |-> -1]]

\* rollback answers (): the effect is what that says.
RolledBack == [status |-> "rolled_back", phase |-> "rollback", effect |-> "rolled_back",
               retry |-> "never"]
NotTold == [status |-> "none", phase |-> "validate", effect |-> "unknown", retry |-> "never"]

\* The fields of the scope, the call, the server and what the caller knows.
TypeOK ==
    /\ adapter \in ScopeAdapters
    /\ open \in BOOLEAN /\ recovery \in BOOLEAN
    /\ state \in {"ready", "uncommittable", "gone"}
    /\ call \in Call /\ at \in {"idle", "ended"} \cup Command
    /\ result \in {"ok", "error"} /\ reply \in {"none", "ok", "error", "undone", "proven", "warned"}
    /\ count \in 0 .. MaxStatements
    /\ link \in {"up", "down"} /\ wire \in Command
    /\ tx \in [live : BOOLEAN, work : SUBSET Statement, saved : [Savepoint -> -1 .. MaxStatements]]
    /\ applied \subseteq Statement /\ promised \subseteq Statement /\ revoked \subseteq Statement
    /\ mark \in -1 .. MaxStatements
    /\ committing \in BOOLEAN /\ unnoticed \in BOOLEAN /\ kept \in BOOLEAN
    /\ told \in Answer \cup {RolledBack, NotTold}

\* begin has answered: Oracle and Db2 open the transaction with a statement.
ScopeInit ==
    /\ adapter \in ScopeAdapters
    /\ open = TRUE /\ recovery = FALSE /\ state = "ready"
    /\ call = "none" /\ at = "idle" /\ result = "ok" /\ reply = "none" /\ count = 0
    /\ link = "up" /\ wire = "none"
    /\ tx = [NoTx EXCEPT !.live = adapter \in {"mysql", "sqlserver"}]
    /\ applied = {} /\ promised = {} /\ revoked = {} /\ mark = -1
    /\ committing = FALSE /\ unnoticed = FALSE /\ told = NotTold /\ kept = FALSE

-----------------------------------------------------------------------------
(* The server (external): what a command may come to.                      *)

Outcome(t, a, ans) == [tx |-> t, applied |-> a, answer |-> ans]

Unmoved(ans) == Outcome(tx, applied, ans)
Aborted(ans) == Outcome(NoTx, applied, ans)
Committing(ans) == Outcome(NoTx, applied \cup tx.work, ans)

\* A statement outside a transaction opens one, or is durable at once.
Executed(implicit, ans) ==
    IF tx.live \/ implicit
    THEN Outcome([tx EXCEPT !.live = TRUE, !.work = @ \cup {count}], applied, ans)
    ELSE Outcome(tx, applied \cup {count}, ans)

\* The own savepoint of a conditional update precedes its statement.
Saved(p) ==
    Outcome([tx EXCEPT !.saved[p] = IF p = "own" THEN count - 1 ELSE count], applied, "ok")
Released(p) ==
    IF tx.saved[p] = -1 THEN Unmoved("error")
    ELSE Outcome([tx EXCEPT !.saved[p] = -1], applied, "ok")

UndoneTo(p) ==
    IF tx.saved[p] = -1 THEN Unmoved("error")
    ELSE Outcome([tx EXCEPT !.work = {k \in @ : k <= tx.saved[p]}], applied, "ok")

\* The server takes the command on the wire; it comes to one of outcomes.
Process(outcomes) ==
    /\ wire # "none"
    /\ \E o \in outcomes :
          /\ tx' = o.tx /\ applied' = o.applied
          /\ reply' = IF wire = at /\ link = "up" THEN o.answer ELSE reply
          /\ unnoticed' = (unnoticed \/ (adapter = "sqlserver" /\ wire = "stream" /\ tx.live /\ ~o.tx.live))
    /\ wire' = "none"
    /\ UNCHANGED <<adapter, fields, call, at, result, count, link, caller, committing, told, kept>>

Break ==
    /\ link = "up" /\ ~kept
    /\ link' = "down"
    /\ UNCHANGED <<adapter, fields, call, at, result, reply, count, wire, server, caller, committing,
                   told, kept>>

Hangup ==
    /\ link = "down"
    /\ tx.live \/ wire # "none"
    /\ wire' = "none" /\ tx' = NoTx
    /\ UNCHANGED <<adapter, fields, call, at, result, reply, count, link, applied, unnoticed, caller,
                   committing, told, kept>>

-----------------------------------------------------------------------------
(* The parts of a call.                                                    *)

\* A command is sent once the answer to the one before it has been read.
Send(cmd) ==
    /\ wire = "none"
    /\ wire' = IF link = "up" THEN cmd ELSE wire
    /\ at' = cmd /\ reply' = "none"
    /\ UNCHANGED <<adapter, fields, link, server, caller, told, kept>>

\* A call that begins with cmd; every statement of the caller has a number.
Start(c, cmd) ==
    /\ at = "idle" /\ open /\ state = "ready"
    /\ call' = c
    /\ IF c \in {"execute", "conditional"} THEN count < MaxStatements /\ count' = count + 1
                                           ELSE UNCHANGED count
    /\ committing' = (committing \/ cmd = "commit")
    /\ Send(cmd)
    /\ UNCHANGED result

Then(cmd, r) ==
    /\ Send(cmd)
    /\ result' = r
    /\ committing' = (committing \/ cmd = "commit")
    /\ UNCHANGED <<call, count>>

Answered(cmd, r) == at = cmd /\ reply = r

\* The connection is gone, and with it the answer.
Lost(cmd) == at = cmd /\ reply = "none" /\ link = "down"

\* The call returns to the caller, who goes on; l is the link it leaves.
Back(o, rec, s, l) ==
    /\ open' = o /\ recovery' = rec /\ state' = s /\ link' = l
    /\ call' = "none" /\ at' = "idle" /\ result' = "ok" /\ reply' = "none"
    /\ UNCHANGED <<adapter, count, wire, server, committing, told, kept>>

Returns(o, rec, s, l) == Back(o, rec, s, l) /\ UNCHANGED caller

\* The scope is as it was.
Fails == Returns(open, recovery, state, link)

\* The caller learns that the call succeeded.
Succeeds ==
    /\ Back(open, recovery, state, link)
    /\ promised' = CASE call \in {"execute", "conditional"} -> promised \cup {count}
                     [] call = "rollback_to" -> {k \in promised : k <= mark}
                     [] OTHER -> promised
    /\ revoked' = IF call = "rollback_to" THEN revoked \cup {k \in 1 .. count : k > mark} ELSE revoked
    /\ mark' = IF call = "save" THEN count ELSE mark

\* The caller learns (effect rolled_back) that the server ended the
\* transaction.
ToldRolledBack(o, rec, s, l) ==
    /\ Back(o, rec, s, l)
    /\ promised' = {} /\ UNCHANGED <<revoked, mark>>

\* commit or rollback answers, and the scope is dropped.
Ends(a, keep) ==
    /\ told' = a /\ at' = "ended" /\ open' = FALSE /\ call' = "none" /\ reply' = "none"
    /\ IF keep /\ link = "up" THEN kept' = TRUE /\ UNCHANGED link
                              ELSE link' = "down" /\ UNCHANGED kept
    /\ UNCHANGED <<adapter, recovery, state, result, count, server, caller, committing>>

EndsWith(a, keep) == Ends(a, keep) /\ UNCHANGED wire

\* The caller drops the scope, in a call or not: the connection is closed,
\* by the Drop of each adapter in its own way.
DropScope ==
    /\ at # "ended"
    /\ Ends(NotTold, FALSE) /\ UNCHANGED wire

Unconfirmed == AfterUnconfirmedRollback(NewError("rollback"))

-----------------------------------------------------------------------------
(* Properties.                                                             *)

\* A commit answered Committed has made durable every statement whose call
\* succeeded, and none that a savepoint undid: unless an error told the caller
\* that the server had rolled the transaction back.
CommittedIsWhole ==
    told = Committed => promised \subseteq applied /\ revoked \cap applied = {}

\* No statement of the caller is durable before COMMIT is sent: the scope
\* lets none run after the server has ended the transaction.  A stream of SQL
\* Server does not see that happen.
NothingEscapes == applied # {} => committing \/ unnoticed

\* A rollback answered (), and an answer whose effect is none or rolled_back:
\* nothing of the scope is durable, now or later.
RolledBackIsUndone ==
    told.effect \in {"none", "rolled_back"} => applied = {} \/ unnoticed

\* A connection in the pool has no transaction and nothing on its way, or the
\* reset that mysql_async was configured for.
KeptIsClean == kept => wire = "reset" \/ (wire = "none" /\ tx = NoTx)
=============================================================================
