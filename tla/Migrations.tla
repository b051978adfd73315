------------------------------ MODULE Migrations ------------------------------
(***************************************************************************)
(* MigrationRunner and AsyncMigrationRunner (plenora-database-py: orm.py): *)
(* several runners, in processes that may die, apply, undo and recover     *)
(* revisions of one database.  A row of the history table is locked while  *)
(* a revision runs; on Oracle every DDL statement of an upgrade commits    *)
(* what was pending and with that releases the row.                        *)
(*                                                                         *)
(* An upgrade, and a downgrade, is two statements.  Checksums, and the     *)
(* order of the callbacks' own work, are left out.  The runners of a       *)
(* deployment register revisions of the same graph, not always all.        *)
(***************************************************************************)
EXTENDS Naturals, FiniteSets

CONSTANTS
    Runner,
    Revision,      \* positions in the declaration: natural numbers
    Parents,       \* Migration.down_revision
    Providers,     \* the databases of the run
    MaxCalls       \* bound on the calls of all the runners

ASSUME MigrationAssumption ==
    /\ Revision \in SUBSET (Nat \ {0}) /\ IsFiniteSet(Revision)
    /\ Parents \in [Revision -> SUBSET Revision]
    /\ Providers \subseteq {"postgres", "db2", "oracle"}
    /\ MaxCalls \in Nat

VARIABLES
    provider,
    registered,    \* per runner: MigrationRunner.migrations
    table,         \* the history table: none, made, seeded (with the lock row)
    history,       \* its committed rows: absent, running, failed, applied
    schema,        \* committed effects of a revision: absent, partial, present
    tx,            \* the open transaction of a runner
    orphan,        \* one that its runner can no longer end
    pc,            \* where a call is
    kind,          \* its method
    todo,          \* revisions it has still to visit
    cur,           \* the revision it is at
    known,         \* rollback: the revisions read as applied
    seen,          \* the row that a recording of a failure read
    assume,        \* recover: assume_applied
    calls,         \* calls made
    undone         \* history: a downgrade ran where DDL commits

remote == <<table, history, schema, tx, orphan, undone>>
local == <<kind, todo, cur, known, seen, assume>>
vars == <<provider, registered, remote, pc, local, calls>>

Row == {"absent", "running", "failed", "applied"}
Effect == {"absent", "partial", "present"}
Transaction ==
    [locked : BOOLEAN, sent : BOOLEAN, rev : Revision \cup {0}, row : Row \cup {"none"},
     effect : Effect \cup {"none"}]
NoTx == [locked |-> FALSE, sent |-> FALSE, rev |-> 0, row |-> "none", effect |-> "none"]

Implicit == provider = "oracle"

-----------------------------------------------------------------------------
(* The graph of the revisions.                                             *)

\* _order_migrations emits, in rounds, what has all of its parents emitted; a
\* round is sorted by position.
Emitted(R) ==
    LET e[n \in 0 .. Cardinality(R)] ==
            IF n = 0 THEN {} ELSE e[n - 1] \cup {r \in R : Parents[r] \subseteq e[n - 1]}
    IN  e

Before(R, a, b) ==
    LET e == Emitted(R)
        round(r) == CHOOSE n \in 1 .. Cardinality(R) : r \in e[n] \ e[n - 1]
    IN  round(a) < round(b) \/ (round(a) = round(b) /\ a < b)

First(R, S) == {r \in S : \A s \in S \ {r} : Before(R, r, s)}
Last(R, S) == {r \in S : \A s \in S \ {r} : Before(R, s, r)}

\* _validate_applied_migrations.
AncestorClosed(S) == \A r \in S : Parents[r] \subseteq S

Applied(h) == {r \in Revision : h[r] = "applied"}

\* _migration_history raises on a revision that is not registered, on one that
\* is not applied, and on a missing ancestor.
Incoherent(R, h) ==
    \/ \E r \in Revision : h[r] \in {"running", "failed"} \/ (h[r] # "absent" /\ r \notin R)
    \/ ~AncestorClosed(Applied(h))

HasChild(R, r, S) == \E c \in R : r \in Parents[c] /\ c \in S

-----------------------------------------------------------------------------

TypeOK ==
    /\ provider \in Providers
    /\ registered \in [Runner -> SUBSET Revision]
    /\ table \in {"none", "made", "seeded"}
    /\ history \in [Revision -> Row] /\ schema \in [Revision -> Effect]
    /\ tx \in [Runner -> Transaction] /\ orphan \in [Runner -> Transaction]
    /\ pc \in [Runner -> {"idle", "look", "create", "seed", "read", "lock", "first", "second", "mark",
                          "commit", "undo", "record", "write", "recorded"}]
    /\ kind \in [Runner -> {"apply", "rollback", "recover"}]
    /\ todo \in [Runner -> SUBSET Revision] /\ known \in [Runner -> SUBSET Revision]
    /\ cur \in [Runner -> Revision \cup {0}] /\ seen \in [Runner -> Row]
    /\ assume \in [Runner -> BOOLEAN] /\ calls \in 0 .. MaxCalls /\ undone \in BOOLEAN

Init ==
    /\ provider \in Providers
    /\ registered \in [Runner -> {R \in SUBSET Revision : AncestorClosed(R)}]
    /\ table = "none"
    /\ history = [r \in Revision |-> "absent"] /\ schema = [r \in Revision |-> "absent"]
    /\ tx = [p \in Runner |-> NoTx] /\ orphan = [p \in Runner |-> NoTx]
    /\ pc = [p \in Runner |-> "idle"] /\ kind = [p \in Runner |-> "apply"]
    /\ todo = [p \in Runner |-> {}] /\ known = [p \in Runner |-> {}]
    /\ cur = [p \in Runner |-> 0] /\ seen = [p \in Runner |-> "absent"]
    /\ assume = [p \in Runner |-> FALSE] /\ calls = 0 /\ undone = FALSE

-----------------------------------------------------------------------------
(* The database (external).                                                *)

Open == {tx[p] : p \in Runner} \cup {orphan[p] : p \in Runner}

LockFree == \A t \in Open : ~t.locked
RowFree(p, r) ==
    \A q \in Runner : /\ q # p => ~(tx[q].rev = r /\ tx[q].row # "none")
                      /\ ~(orphan[q].rev = r /\ orphan[q].row # "none")

HistoryAfter(t) == IF t.row = "none" THEN history ELSE [history EXCEPT ![t.rev] = t.row]
SchemaAfter(t) == IF t.effect = "none" THEN schema ELSE [schema EXCEPT ![t.rev] = t.effect]

\* The server ends what nobody will end: it commits only what it was asked to.
ServerEnds(p) ==
    /\ orphan[p] # NoTx
    /\ orphan' = [orphan EXCEPT ![p] = NoTx]
    /\ \/ orphan[p].sent /\ history' = HistoryAfter(orphan[p]) /\ schema' = SchemaAfter(orphan[p])
       \/ UNCHANGED <<history, schema>>
    /\ UNCHANGED <<provider, registered, table, tx, undone, pc, local, calls>>

\* A runner loses its transaction, after it sent COMMIT or not.
Abandons(p, sent) ==
    /\ orphan[p] = NoTx
    /\ orphan' = [orphan EXCEPT ![p] = [tx[p] EXCEPT !.sent = sent]]
    /\ tx' = [tx EXCEPT ![p] = NoTx]
    /\ UNCHANGED <<table, history, schema, undone>>

Rolls(p) ==
    /\ tx' = [tx EXCEPT ![p] = NoTx]
    /\ UNCHANGED <<table, history, schema, orphan, undone>>

\* What the own transaction sees.
View(p) == HistoryAfter(tx[p])

\* INSERT, UPDATE or DELETE of the row of the current revision.
Writes(p, row) ==
    tx' = [tx EXCEPT ![p].rev = cur[p],
                     ![p].row = IF row # "running" /\ View(p)[cur[p]] = "absent" THEN @ ELSE row]

-----------------------------------------------------------------------------
(* The parts of a call.                                                    *)

Goes(p, place) ==
    /\ pc' = [pc EXCEPT ![p] = place]
    /\ UNCHANGED <<provider, registered, calls>>

\* The call returns, or raises.
Stops(p) ==
    /\ Goes(p, "idle")
    /\ todo' = [todo EXCEPT ![p] = {}] /\ known' = [known EXCEPT ![p] = {}]
    /\ cur' = [cur EXCEPT ![p] = 0] /\ seen' = [seen EXCEPT ![p] = "absent"]
    /\ assume' = [assume EXCEPT ![p] = FALSE] /\ kind' = [kind EXCEPT ![p] = "apply"]

\* An error in a transaction.
Raises(p) == Goes(p, "undo") /\ UNCHANGED <<remote, local>>

Started(p) == kind[p] = "apply" /\ cur[p] # 0

-----------------------------------------------------------------------------
(* The beginning of a call.                                                *)

Begins(p, k, r, yes) ==
    /\ pc[p] = "idle" /\ calls < MaxCalls
    /\ calls' = calls + 1
    /\ pc' = [pc EXCEPT ![p] = IF provider = "postgres" THEN "create" ELSE "look"]
    /\ kind' = [kind EXCEPT ![p] = k] /\ assume' = [assume EXCEPT ![p] = yes]
    /\ todo' = [todo EXCEPT ![p] = r]
    /\ UNCHANGED <<provider, registered, remote, cur, known, seen>>

Recovering == \E q \in Runner : kind[q] = "recover"

Apply(p) == ~Recovering /\ Begins(p, "apply", {}, FALSE)
Rollback(p) == ~Recovering /\ Begins(p, "rollback", {}, FALSE)

\* The operator has seen that the revision is incomplete and nobody works on
\* it, and has looked at the schema.
Recover(p, r, yes) ==
    /\ ~Recovering /\ r \in registered[p] /\ history[r] \in {"running", "failed"}
    /\ \A q \in Runner : pc[q] \notin {"read", "lock", "first", "second", "mark", "commit"}
                            /\ orphan[q].rev # r
    /\ schema[r] = IF yes THEN "present" ELSE "absent"
    /\ Begins(p, "recover", {r}, yes)

\* The operator undoes by hand what a failed upgrade left.
Repair(r) ==
    /\ history[r] \in {"running", "failed"} /\ schema[r] = "partial"
    /\ \A q \in Runner : pc[q] = "idle" /\ orphan[q] = NoTx
    /\ schema' = [schema EXCEPT ![r] = "absent"]
    /\ UNCHANGED <<provider, registered, table, history, tx, orphan, undone, pc, local, calls>>

\* _ensure_migration_table: where CREATE has no IF NOT EXISTS the catalog is
\* asked before, and again when CREATE fails.
Look(p) ==
    /\ pc[p] = "look"
    /\ Goes(p, IF table = "none" THEN "create" ELSE "seed")
    /\ UNCHANGED <<remote, local>>

Create(p) ==
    /\ pc[p] = "create"
    /\ table' = IF table = "none" THEN "made" ELSE table
    /\ Goes(p, "seed")
    /\ UNCHANGED <<history, schema, tx, orphan, undone, local>>

\* The INSERT of the lock row.
Seed(p) ==
    /\ pc[p] = "seed"
    /\ table' = "seeded"
    /\ Goes(p, IF kind[p] = "recover" THEN "lock" ELSE "read")
    /\ UNCHANGED <<history, schema, tx, orphan, undone, local>>

\* The history is read before any lock is taken; rollback(steps) chooses its
\* candidates from it.
Read(p) ==
    /\ pc[p] = "read"
    /\ ~Incoherent(registered[p], history)
    /\ known' = [known EXCEPT ![p] = IF kind[p] = "rollback" THEN Applied(history) ELSE {}]
    /\ \/ kind[p] = "apply" /\ todo' = [todo EXCEPT ![p] = registered[p]]
       \/ /\ kind[p] = "rollback"
          /\ \E S \in SUBSET Applied(history) :
                /\ Applied(history) # {} => S # {}
                /\ \A s \in S, r \in Applied(history) \ S : Before(registered[p], r, s)
                /\ todo' = [todo EXCEPT ![p] = S]
    /\ Goes(p, "lock")
    /\ UNCHANGED <<remote, kind, cur, seen, assume>>

ReadRefuses(p) ==
    /\ pc[p] = "read"
    /\ Incoherent(registered[p], history)
    /\ Stops(p) /\ UNCHANGED remote

\* Any statement up to the lock may fail: nothing is written yet.
FailsEarly(p) ==
    /\ pc[p] \in {"look", "create", "seed", "read", "lock"}
    /\ Stops(p) /\ UNCHANGED remote

-----------------------------------------------------------------------------
(* A revision: a transaction, the lock row, the history again.             *)

\* Without the lock row nothing would be locked.
Locks(p) == tx' = [tx EXCEPT ![p].locked = table = "seeded"]

Finished(p) == pc[p] = "lock" /\ todo[p] = {} /\ Stops(p) /\ UNCHANGED remote

\* The revision is applied already: nothing to do but to commit nothing.
Skip(p, r) ==
    /\ todo' = [todo EXCEPT ![p] = @ \ {r}]
    /\ Goes(p, "lock")
    /\ UNCHANGED <<remote, kind, cur, known, seen, assume>>

\* Fault: upgrade is called before a row says so.
BegunUnmarked(r) ==
    [locked |-> table = "seeded", sent |-> FALSE, rev |-> r, row |-> "none", effect |-> "none"]

\* The row "running" is inserted before upgrade is called.
Begun(r) ==
    [locked |-> table = "seeded", sent |-> FALSE, rev |-> r, row |-> "running", effect |-> "none"]

\* apply looks at the history again, under the lock.
LockToApply(p) ==
    /\ pc[p] = "lock" /\ kind[p] = "apply" /\ todo[p] # {} /\ LockFree
    /\ \E r \in First(registered[p], todo[p]) :
           \/ Incoherent(registered[p], history) /\ Stops(p) /\ UNCHANGED remote
           \/ ~Incoherent(registered[p], history) /\ history[r] = "applied" /\ Skip(p, r)
           \/ /\ ~Incoherent(registered[p], history) /\ history[r] # "applied"
              /\ IF Parents[r] \subseteq Applied(history)
                 THEN /\ tx' = [tx EXCEPT ![p] = Begun(r)]
                      /\ cur' = [cur EXCEPT ![p] = r]
                      /\ Goes(p, "first")
                      /\ UNCHANGED <<table, history, schema, orphan, undone, kind, todo, known, seen, assume>>
                 ELSE Stops(p) /\ UNCHANGED remote

\* Fault: the children are looked for before the lock only.
LockToRollBackStale(p) ==
    /\ pc[p] = "lock" /\ kind[p] = "rollback" /\ todo[p] # {} /\ LockFree
    /\ \E r \in Last(registered[p], todo[p]) :
       LET R == registered[p]
       IN  \/ (HasChild(R, r, known[p]) \/ Incoherent(R, history)) /\ Stops(p) /\ UNCHANGED remote
           \/ ~HasChild(R, r, known[p]) /\ ~Incoherent(R, history)
                 /\ history[r] # "applied" /\ Skip(p, r)
           \/ /\ ~HasChild(R, r, known[p]) /\ ~Incoherent(R, history) /\ history[r] = "applied"
              /\ tx' = [tx EXCEPT ![p].locked = table = "seeded", ![p].rev = r]
              /\ cur' = [cur EXCEPT ![p] = r]
              /\ Goes(p, "first")
              /\ UNCHANGED <<table, history, schema, orphan, undone, kind, todo, known, seen, assume>>

\* rollback looks for children in what it knew, and again under the lock.
LockToRollBack(p) ==
    /\ pc[p] = "lock" /\ kind[p] = "rollback" /\ todo[p] # {} /\ LockFree
    /\ \E r \in Last(registered[p], todo[p]) :
       LET R == registered[p]
           Leaf == ~HasChild(R, r, known[p]) /\ ~Incoherent(R, history)
       IN  \/ ~Leaf /\ Stops(p) /\ UNCHANGED remote
           \/ Leaf /\ history[r] # "applied" /\ Skip(p, r)
           \/ /\ Leaf /\ history[r] = "applied"
              /\ IF HasChild(R, r, Applied(history))
                 THEN Stops(p) /\ UNCHANGED remote
                 ELSE /\ tx' = [tx EXCEPT ![p].locked = table = "seeded", ![p].rev = r]
                      /\ cur' = [cur EXCEPT ![p] = r]
                      /\ Goes(p, "first")
                      /\ UNCHANGED <<table, history, schema, orphan, undone, kind, todo, known, seen, assume>>

\* recover refuses what is applied, and an applied set that is not closed.
LockToRecover(p) ==
    /\ pc[p] = "lock" /\ kind[p] = "recover" /\ LockFree
    /\ \E r \in todo[p] :
          IF history[r] \in {"running", "failed"}
                /\ AncestorClosed(Applied(history) \cup IF assume[p] THEN {r} ELSE {})
                /\ Applied(history) \subseteq registered[p]
          THEN /\ RowFree(p, r)
               /\ tx' = [tx EXCEPT ![p].locked = table = "seeded", ![p].rev = r,
                                   ![p].row = IF assume[p] THEN "applied" ELSE "absent"]
               /\ cur' = [cur EXCEPT ![p] = r]
               /\ Goes(p, "commit")
               /\ UNCHANGED <<table, history, schema, orphan, undone, kind, todo, known, seen, assume>>
          ELSE Stops(p) /\ UNCHANGED remote

\* A statement of the callback; where DDL commits, all that was pending goes
\* with it, even when the statement then fails.
Runs(p, effect, place) ==
    IF Implicit
    THEN /\ history' = HistoryAfter(tx[p])
         /\ tx' = [tx EXCEPT ![p].locked = FALSE, ![p].row = "none"]
         /\ undone' = (undone \/ kind[p] = "rollback")
         /\ UNCHANGED <<table, orphan, local>>
         /\ \/ schema' = [schema EXCEPT ![cur[p]] = effect] /\ Goes(p, place)
            \/ UNCHANGED schema /\ Goes(p, "undo")
    ELSE /\ tx' = [tx EXCEPT ![p].effect = effect]
         /\ Goes(p, place)
         /\ UNCHANGED <<table, history, schema, orphan, undone, local>>

FirstStatement(p) == pc[p] = "first" /\ Runs(p, "partial", "second")
SecondStatement(p) ==
    /\ pc[p] = "second"
    /\ Runs(p, IF kind[p] = "apply" THEN "present" ELSE "absent", "mark")

\* The row becomes "applied", or goes.
Mark(p) ==
    /\ pc[p] = "mark"
    /\ RowFree(p, cur[p])
    /\ Writes(p, IF kind[p] = "apply" THEN "applied" ELSE "absent")
    /\ Goes(p, "commit")
    /\ UNCHANGED <<table, history, schema, orphan, undone, local>>

\* The callback or a statement fails, the token or the process's own error.
Fails(p) == pc[p] \in {"first", "second", "mark"} /\ Raises(p)

Committed(p) ==
    /\ history' = HistoryAfter(tx[p]) /\ schema' = SchemaAfter(tx[p])
    /\ tx' = [tx EXCEPT ![p] = NoTx]
    /\ UNCHANGED <<table, orphan, undone>>

\* The transaction commits, and the call goes on to the next revision.
Commit(p) ==
    /\ pc[p] = "commit"
    /\ Committed(p)
    /\ IF kind[p] = "recover" THEN Stops(p)
       ELSE /\ Goes(p, "lock")
            /\ todo' = [todo EXCEPT ![p] = @ \ {cur[p]}] /\ known' = [known EXCEPT ![p] = @ \ {cur[p]}]
            /\ cur' = [cur EXCEPT ![p] = 0]
            /\ UNCHANGED <<kind, seen, assume>>

\* COMMIT is refused, or its answer is lost.
CommitFails(p) ==
    /\ pc[p] = "commit"
    /\ Rolls(p) \/ Abandons(p, TRUE)
    /\ IF Started(p) THEN Goes(p, "record") /\ UNCHANGED local ELSE Stops(p)

\* Fault: a failure is recorded without a rollback.
UndoNothing(p) ==
    /\ pc[p] = "undo"
    /\ UNCHANGED remote
    /\ IF Started(p) THEN Goes(p, "record") /\ UNCHANGED local ELSE Stops(p)

\* transaction.rollback(), whose own error is suppressed.
Undo(p) ==
    /\ pc[p] = "undo"
    /\ Rolls(p) \/ Abandons(p, FALSE)
    /\ IF Started(p) THEN Goes(p, "record") /\ UNCHANGED local ELSE Stops(p)

-----------------------------------------------------------------------------
(* _record_migration_failure: a transaction of its own.                    *)

\* A commit whose answer was lost may have made the row "applied".
Record(p) ==
    /\ pc[p] = "record" /\ LockFree
    /\ IF history[cur[p]] = "applied" THEN Stops(p) /\ UNCHANGED remote
       ELSE /\ Locks(p)
            /\ seen' = [seen EXCEPT ![p] = history[cur[p]]]
            /\ Goes(p, "write")
            /\ UNCHANGED <<table, history, schema, orphan, undone, kind, todo, cur, known, assume>>

\* INSERT where there was no row, else UPDATE.  The lock is held, so a row that
\* was not there is still not there; one that was may be gone.
RecordWrite(p) ==
    /\ pc[p] = "write" /\ RowFree(p, cur[p])
    /\ tx' = [tx EXCEPT ![p].rev = cur[p],
                        ![p].row = IF seen[p] # "absent" /\ history[cur[p]] = "absent"
                                   THEN "none" ELSE "failed"]
    /\ Goes(p, "recorded")
    /\ UNCHANGED <<table, history, schema, orphan, undone, local>>

Recorded(p) ==
    /\ pc[p] = "recorded"
    /\ Committed(p) \/ Rolls(p) \/ Abandons(p, TRUE)
    /\ Stops(p)

RecordFails(p) ==
    /\ pc[p] \in {"record", "write"}
    /\ Rolls(p) \/ Abandons(p, FALSE)
    /\ Stops(p)

\* The process of a runner dies; another is started in its place.
Crash(p) ==
    /\ pc[p] # "idle"
    /\ IF tx[p] = NoTx THEN UNCHANGED remote ELSE Abandons(p, FALSE)
    /\ Stops(p)

-----------------------------------------------------------------------------

\* What a call does when nothing fails it; it waits for no failure.  No code
\* of its own: the actions that fairness speaks of.
Proceeds(p) ==
    \/ Look(p) \/ Create(p) \/ Seed(p) \/ Read(p) \/ ReadRefuses(p) \/ Finished(p)
    \/ LockToApply(p) \/ LockToRollBack(p) \/ LockToRecover(p)
    \/ FirstStatement(p) \/ SecondStatement(p) \/ Mark(p) \/ Commit(p)
    \/ Undo(p) \/ Record(p) \/ RecordWrite(p) \/ Recorded(p)

Next ==
    \/ \E p \in Runner :
          \/ Apply(p) \/ Rollback(p)
          \/ \E r \in Revision, yes \in BOOLEAN : Recover(p, r, yes)
          \/ Proceeds(p)
          \/ FailsEarly(p) \/ Fails(p) \/ CommitFails(p) \/ RecordFails(p)
          \/ Crash(p) \/ ServerEnds(p)
    \/ \E r \in Revision : Repair(r)

Fairness == \A p \in Runner : WF_vars(Proceeds(p)) /\ WF_vars(ServerEnds(p))

Spec == Init /\ [][Next]_vars /\ Fairness

-----------------------------------------------------------------------------
(* Properties.                                                             *)

\* The history tells the truth after every failure, crash and lost answer: a
\* revision is applied when all of its effects are there and never half of
\* them; where DDL commits, no effect is there without a row that says so,
\* until a downgrade has run.
HistoryIsTrue ==
    \A r \in Revision :
        IF Implicit THEN schema[r] # "absent" => history[r] # "absent" \/ undone
                    ELSE schema[r] = IF history[r] = "applied" THEN "present" ELSE "absent"

\* The parents of an applied revision are applied, whatever runs beside it.
AncestorsApplied == AncestorClosed(Applied(history)) \/ (Implicit /\ undone)

\* A call ends, whatever the other runners and the server do.
CallsEnd == \A p \in Runner : pc[p] # "idle" ~> pc[p] = "idle"
=============================================================================
