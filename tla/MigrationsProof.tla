---------------------------- MODULE MigrationsProof ----------------------------
(***************************************************************************)
(* Proofs about Migrations, for any number of runners and any graph of     *)
(* revisions: the history of the revisions tells the truth, and the        *)
(* parents of an applied revision are applied.                             *)
(*                                                                         *)
(* Where DDL is transactional the argument is the lock: nothing but the    *)
(* transaction that holds it can write, so what a runner read under it     *)
(* still holds when it commits.  Where DDL commits, the lock is gone at    *)
(* the first statement, and what keeps the history true is a protocol:     *)
(* the row that says "running" closes the way to every other upgrade, and  *)
(* a recovery starts when nobody is on that way.  The two arguments share  *)
(* only the shape of a call, and are two invariants.                       *)
(***************************************************************************)
EXTENDS Migrations, TLAPS

\* One step of a call, or of the server for its runner.
Acts(p) ==
    \/ Apply(p) \/ Rollback(p)
    \/ \E r \in Revision, yes \in BOOLEAN : Recover(p, r, yes)
    \/ Proceeds(p)
    \/ FailsEarly(p) \/ Fails(p) \/ CommitFails(p) \/ RecordFails(p)
    \/ Crash(p) \/ ServerEnds(p)

Repairs == \E r \in Revision : Repair(r)

-----------------------------------------------------------------------------
(* The shape of a call, whatever the database.                             *)

Upgrade == {"first", "second", "mark"}
AtWork == Upgrade \cup {"commit", "undo", "record", "write", "recorded"}

AtRevision(p) == pc[p] \in AtWork => cur[p] \in Revision

Quiet == {"idle", "look", "create", "seed", "read", "lock", "record"}
Entered == {"lock", "first", "second", "mark", "commit"}

CallShape(p) ==
    /\ AtRevision(p)
    /\ pc[p] \in Quiet => tx[p] = NoTx
    /\ pc[p] \in Entered \cup AtWork \cup {"read"} => table = "seeded"
    /\ pc[p] \in Upgrade \cup {"commit", "recorded"} => tx[p].rev = cur[p]
    /\ pc[p] \in {"first", "write", "recorded"} => tx[p].locked
    /\ pc[p] \in {"first", "write", "recorded"} => tx[p].effect = "none"
    /\ pc[p] = "first" => tx[p].row = IF kind[p] = "apply" THEN "running" ELSE "none"
    /\ pc[p] = "write" => tx[p].row = "none"
    /\ pc[p] = "recorded" => tx[p].row \in {"failed", "none"}
    /\ kind[p] = "recover" => pc[p] \in {"look", "create", "seed", "lock", "commit"}
    /\ kind[p] = "recover" /\ pc[p] = "commit" =>
          /\ cur[p] \in todo[p] /\ tx[p].locked /\ tx[p].effect = "none"
          /\ tx[p].row = IF assume[p] THEN "applied" ELSE "absent"
    /\ ~tx[p].sent

HasLock(p) == tx[p].locked \/ orphan[p].locked

OneLock ==
    /\ \A p \in Runner : ~(tx[p].locked /\ orphan[p].locked)
    /\ \A p, q \in Runner : HasLock(p) /\ HasLock(q) => p = q

Structure == OneLock /\ \A p \in Runner : CallShape(p)

-----------------------------------------------------------------------------
(* What a step changes of what the invariants are about.  Every action of  *)
(* a runner is one of these.                                               *)

SameCall(p) == kind'[p] = kind[p] /\ todo'[p] = todo[p] /\ cur'[p] = cur[p] /\ assume'[p] = assume[p]

Same(q) == SameCall(q) /\ pc'[q] = pc[q] /\ tx'[q] = tx[q] /\ orphan'[q] = orphan[q]

Frame(p) ==
    /\ provider' = provider
    /\ table = "seeded" => table' = "seeded"
    /\ \A q \in Runner \ {p} : Same(q)

Kept == UNCHANGED <<history, schema, undone>>

Stopped(p) == pc'[p] = "idle" /\ kind'[p] = "apply" /\ todo'[p] = {} /\ ~assume'[p]

Taken(t, r, row) == t.locked /\ ~t.sent /\ t.rev = r /\ t.row = row /\ t.effect = "none"

\* The operator's conditions on the start of a recovery.
Recoverable(r, yes) ==
    /\ ~Recovering /\ history[r] \in {"running", "failed"}
    /\ \A q \in Runner : pc[q] \notin Entered /\ orphan[q].rev # r
    /\ schema[r] = IF yes THEN "present" ELSE "absent"

\* Nothing is written or locked.
Waits(p) ==
    /\ Frame(p) /\ Kept /\ tx'[p] = tx[p] /\ orphan'[p] = orphan[p]
    /\ pc[p] \in Quiet /\ pc'[p] \in Quiet \ {"record"}
    /\ pc'[p] \in {"read", "lock"} => table' = "seeded"
    /\ pc'[p] = "lock" /\ kind'[p] # "recover" =>
          (pc[p] = "lock" /\ kind[p] # "recover") \/ ~Incoherent(registered[p], history)
    /\ kind'[p] = "recover" =>
          /\ pc'[p] \in {"look", "create", "seed", "lock"}
          /\ \/ kind[p] = "recover" /\ todo'[p] = todo[p] /\ assume'[p] = assume[p]
             \/ \E r \in Revision : todo'[p] = {r} /\ Recoverable(r, assume'[p])
    /\ kind'[p] # "recover" => assume'[p] = assume[p] \/ ~assume'[p]

\* A transaction is opened, and the lock row is locked.
Takes(p, place) ==
    /\ Frame(p) /\ Kept /\ orphan'[p] = orphan[p] /\ tx[p] = NoTx
    /\ LockFree /\ table = "seeded"
    /\ pc'[p] = place
    /\ kind'[p] = kind[p] /\ todo'[p] = todo[p] /\ assume'[p] = assume[p]

TakesUpgrade(p, r) ==
    /\ Takes(p, "first") /\ pc[p] = "lock" /\ kind[p] = "apply"
    /\ cur'[p] = r /\ Taken(tx'[p], r, "running")
    /\ ~Incoherent(registered[p], history) /\ history[r] # "applied"
    /\ Parents[r] \subseteq Applied(history)

TakesDowngrade(p, r) ==
    /\ Takes(p, "first") /\ pc[p] = "lock" /\ kind[p] = "rollback"
    /\ cur'[p] = r /\ Taken(tx'[p], r, "none")
    /\ history[r] = "applied" /\ \A c \in Applied(history) : r \notin Parents[c]

TakesRecovery(p, r) ==
    /\ Takes(p, "commit") /\ pc[p] = "lock" /\ kind[p] = "recover" /\ r \in todo[p]
    /\ cur'[p] = r /\ Taken(tx'[p], r, IF assume[p] THEN "applied" ELSE "absent")
    /\ history[r] \in {"running", "failed"}
    /\ AncestorClosed(Applied(history) \cup IF assume[p] THEN {r} ELSE {})

TakesRecord(p) ==
    /\ Takes(p, "write") /\ pc[p] = "record"
    /\ cur'[p] = cur[p] /\ Taken(tx'[p], 0, "none")
    /\ history[cur[p]] # "applied"

\* A statement of the callback.
AfterStatement(p) == IF pc[p] = "first" THEN "second" ELSE "mark"

RunsPending(p) ==
    /\ ~Implicit /\ Frame(p) /\ Kept /\ orphan'[p] = orphan[p] /\ SameCall(p)
    /\ pc[p] \in {"first", "second"} /\ pc'[p] = AfterStatement(p)
    /\ \E e \in Effect :
          /\ tx'[p] = [tx[p] EXCEPT !.effect = e]
          /\ pc[p] = "second" => e = IF kind[p] = "apply" THEN "present" ELSE "absent"

RunsCommitting(p) ==
    /\ Implicit /\ Frame(p) /\ orphan'[p] = orphan[p] /\ SameCall(p)
    /\ undone' = (undone \/ kind[p] = "rollback")
    /\ pc[p] \in {"first", "second"}
    /\ history' = HistoryAfter(tx[p])
    /\ tx'[p] = [tx[p] EXCEPT !.locked = FALSE, !.row = "none"]
    /\ \/ pc'[p] = "undo" /\ schema' = schema
       \/ pc'[p] = AfterStatement(p) /\ \E e \in Effect : schema' = [schema EXCEPT ![cur[p]] = e]

Marks(p) ==
    /\ Frame(p) /\ Kept /\ orphan'[p] = orphan[p] /\ SameCall(p)
    /\ pc[p] = "mark" /\ pc'[p] = "commit"
    /\ tx'[p] = [tx[p] EXCEPT
                    !.rev = cur[p],
                    !.row = IF View(p)[cur[p]] = "absent" THEN tx[p].row
                            ELSE IF kind[p] = "apply" THEN "applied" ELSE "absent"]

WritesFailure(p) ==
    /\ Frame(p) /\ Kept /\ orphan'[p] = orphan[p] /\ SameCall(p)
    /\ pc[p] = "write" /\ pc'[p] = "recorded"
    /\ \E row \in {"failed", "none"} : tx'[p] = [tx[p] EXCEPT !.rev = cur[p], !.row = row]

FallsBack(p) ==
    /\ Frame(p) /\ Kept /\ tx'[p] = tx[p] /\ orphan'[p] = orphan[p] /\ SameCall(p)
    /\ pc[p] \in Upgrade /\ pc'[p] = "undo"

\* COMMIT is done, and the call goes on or ends.
Commits(p) ==
    /\ Frame(p) /\ undone' = undone /\ orphan'[p] = orphan[p]
    /\ pc[p] \in {"commit", "recorded"}
    /\ history' = HistoryAfter(tx[p]) /\ schema' = SchemaAfter(tx[p])
    /\ tx'[p] = NoTx
    /\ \/ Stopped(p)
       \/ /\ pc[p] = "commit" /\ pc'[p] = "lock"
          /\ kind[p] # "recover" /\ kind'[p] = kind[p] /\ assume'[p] = assume[p]

\* The transaction ends here without COMMIT, or goes on where the runner can no
\* longer end it.
Releases(p) ==
    /\ Frame(p) /\ Kept /\ tx'[p] = NoTx
    /\ \/ orphan'[p] = orphan[p]
       \/ \E b \in BOOLEAN :
             /\ orphan[p] = NoTx /\ orphan'[p] = [tx[p] EXCEPT !.sent = b]
             /\ b => pc[p] \in {"commit", "recorded"}
    /\ \/ Stopped(p)
       \/ pc'[p] = "record" /\ SameCall(p) /\ pc[p] \in {"undo", "commit"} /\ kind[p] = "apply"

\* The server ends what nobody will end.
Ends(p) ==
    /\ Frame(p) /\ undone' = undone /\ SameCall(p) /\ pc'[p] = pc[p] /\ tx'[p] = tx[p]
    /\ orphan'[p] = NoTx
    /\ \/ history' = history /\ schema' = schema
       \/ orphan[p].sent /\ history' = HistoryAfter(orphan[p]) /\ schema' = SchemaAfter(orphan[p])

StepOf(p) ==
    \/ Waits(p)
    \/ \E r \in Revision : TakesUpgrade(p, r) \/ TakesDowngrade(p, r) \/ TakesRecovery(p, r)
    \/ TakesRecord(p) \/ RunsPending(p) \/ RunsCommitting(p) \/ Marks(p) \/ WritesFailure(p)
    \/ FallsBack(p) \/ Commits(p) \/ Releases(p) \/ Ends(p)

-----------------------------------------------------------------------------
(* Types.                                                                  *)

LEMMA TransactionTypes ==
    ASSUME NEW t \in Transaction
    PROVE  /\ t.locked \in BOOLEAN /\ t.sent \in BOOLEAN /\ t.rev \in Revision \cup {0}
           /\ t.row \in Row \cup {"none"} /\ t.effect \in Effect \cup {"none"}
BY DEF Transaction

LEMMA NoTxIsTransaction == NoTx \in Transaction
BY DEF NoTx, Transaction, Row, Effect

LEMMA FieldTypes ==
    ASSUME NEW f \in [Runner -> Transaction], NEW p \in Runner
    PROVE  /\ \A l \in BOOLEAN : [f EXCEPT ![p].locked = l] \in [Runner -> Transaction]
           /\ \A r \in Revision \cup {0} : [f EXCEPT ![p].rev = r] \in [Runner -> Transaction]
           /\ \A w \in Row \cup {"none"} : [f EXCEPT ![p].row = w] \in [Runner -> Transaction]
           /\ \A e \in Effect \cup {"none"} : [f EXCEPT ![p].effect = e] \in [Runner -> Transaction]
<1>1. ASSUME NEW l \in BOOLEAN PROVE [f[p] EXCEPT !.locked = l] \in Transaction
  BY DEF Transaction
<1>2. ASSUME NEW r \in Revision \cup {0} PROVE [f[p] EXCEPT !.rev = r] \in Transaction
  BY DEF Transaction
<1>3. ASSUME NEW w \in Row \cup {"none"} PROVE [f[p] EXCEPT !.row = w] \in Transaction
  BY DEF Transaction
<1>4. ASSUME NEW e \in Effect \cup {"none"} PROVE [f[p] EXCEPT !.effect = e] \in Transaction
  BY DEF Transaction
<1>. QED
  BY <1>1, <1>2, <1>3, <1>4

LEMMA PostTypes ==
    ASSUME TypeOK, NEW t \in Transaction
    PROVE  HistoryAfter(t) \in [Revision -> Row] /\ SchemaAfter(t) \in [Revision -> Effect]
BY TransactionTypes DEF HistoryAfter, SchemaAfter, TypeOK

LEMMA StopTypes ==
    ASSUME TypeOK, NEW p \in Runner, Stops(p)
    PROVE  /\ provider' = provider /\ registered' = registered /\ calls' = calls
           /\ pc' \in [Runner -> {"idle", "look", "create", "seed", "read", "lock", "first", "second",
                                  "mark", "commit", "undo", "record", "write", "recorded"}]
           /\ kind' \in [Runner -> {"apply", "rollback", "recover"}]
           /\ todo' \in [Runner -> SUBSET Revision] /\ known' \in [Runner -> SUBSET Revision]
           /\ cur' \in [Runner -> Revision \cup {0}] /\ seen' \in [Runner -> Row]
           /\ assume' \in [Runner -> BOOLEAN]
BY DEF TypeOK, Stops, Goes, Row

LEMMA ReleaseTypes ==
    ASSUME TypeOK, NEW p \in Runner, NEW b \in BOOLEAN, Rolls(p) \/ Abandons(p, b)
    PROVE  /\ tx' \in [Runner -> Transaction] /\ orphan' \in [Runner -> Transaction]
           /\ UNCHANGED <<table, history, schema, undone>>
<1>1. tx \in [Runner -> Transaction] /\ orphan \in [Runner -> Transaction]
  BY DEF TypeOK
<1>2. [tx[p] EXCEPT !.sent = b] \in Transaction
  BY <1>1 DEF Transaction
<1>. QED
  BY <1>1, <1>2, NoTxIsTransaction DEF Rolls, Abandons

LEMMA CommittedTypes ==
    ASSUME TypeOK, NEW p \in Runner, Committed(p)
    PROVE  /\ tx' \in [Runner -> Transaction] /\ orphan' = orphan
           /\ history' \in [Revision -> Row] /\ schema' \in [Revision -> Effect]
           /\ UNCHANGED <<table, undone>>
BY NoTxIsTransaction, PostTypes DEF TypeOK, Committed

LEMMA TypeKeptByCalls ==
    ASSUME TypeOK, NEW p \in Runner, Acts(p), AtRevision(p)
    PROVE  TypeOK'
<1>. USE MigrationAssumption DEF TypeOK
<1>1. CASE Apply(p) \/ Rollback(p)
  <2>1. PICK k \in {"apply", "rollback"} : Begins(p, k, {}, FALSE)
    BY <1>1 DEF Apply, Rollback
  <2>. QED
    BY <2>1 DEF Begins, remote
<1>2. CASE \E r \in Revision, yes \in BOOLEAN : Recover(p, r, yes)
  BY <1>2 DEF Recover, Begins, remote
<1>3. CASE Look(p) \/ Create(p) \/ Seed(p)
  BY <1>3 DEF Look, Create, Seed, Goes, remote, local
<1>4. CASE Read(p)
  <2>1. Applied(history) \subseteq Revision
    BY DEF Applied
  <2>2. known' \in [Runner -> SUBSET Revision]
    BY <1>4, <2>1 DEF Read
  <2>3. todo' \in [Runner -> SUBSET Revision]
    BY <1>4, <2>1 DEF Read
  <2>. QED
    BY <1>4, <2>2, <2>3 DEF Read, Goes, remote
<1>5. CASE ReadRefuses(p) \/ FailsEarly(p) \/ Finished(p)
  BY <1>5, StopTypes DEF ReadRefuses, FailsEarly, Finished, remote
<1>6. CASE LockToApply(p)
  <2>1. PICK r \in First(registered[p], todo[p]) :
          \/ Stops(p) /\ UNCHANGED remote
          \/ Skip(p, r)
          \/ /\ tx' = [tx EXCEPT ![p] = Begun(r)]
             /\ cur' = [cur EXCEPT ![p] = r]
             /\ Goes(p, "first")
             /\ UNCHANGED <<table, history, schema, orphan, undone, kind, todo, known, seen, assume>>
    BY <1>6 DEF LockToApply
  <2>2. r \in Revision
    BY DEF First
  <2>3. Begun(r) \in Transaction
    BY <2>2 DEF Begun, Transaction, Row, Effect
  <2>4. CASE Stops(p) /\ UNCHANGED remote
    BY <2>4, StopTypes DEF remote
  <2>5. CASE Skip(p, r)
    BY <2>5 DEF Skip, Goes, remote
  <2>. QED
    BY <2>1, <2>2, <2>3, <2>4, <2>5 DEF Goes
<1>7. CASE LockToRollBack(p)
  <2>. DEFINE Opens(r) ==
                 /\ tx' = [tx EXCEPT ![p].locked = table = "seeded", ![p].rev = r]
                 /\ cur' = [cur EXCEPT ![p] = r]
                 /\ Goes(p, "first")
                 /\ UNCHANGED <<table, history, schema, orphan, undone, kind, todo, known, seen, assume>>
  <2>1. PICK r \in Last(registered[p], todo[p]) :
          \/ Stops(p) /\ UNCHANGED remote
          \/ Skip(p, r)
          \/ Opens(r)
    BY <1>7 DEF LockToRollBack
  <2>2. r \in Revision
    BY DEF Last
  <2>3. [tx EXCEPT ![p].locked = table = "seeded", ![p].rev = r] \in [Runner -> Transaction]
    BY <2>2, FieldTypes
  <2>4. CASE Stops(p) /\ UNCHANGED remote
    BY <2>4, StopTypes DEF remote
  <2>5. CASE Skip(p, r)
    BY <2>5 DEF Skip, Goes, remote
  <2>6. CASE Opens(r)
    BY <2>2, <2>3, <2>6 DEF Goes
  <2>. QED
    BY <2>1, <2>4, <2>5, <2>6
<1>8. CASE LockToRecover(p)
  <2>. DEFINE Opens(r) ==
                 /\ tx' = [tx EXCEPT ![p].locked = table = "seeded", ![p].rev = r,
                                     ![p].row = IF assume[p] THEN "applied" ELSE "absent"]
                 /\ cur' = [cur EXCEPT ![p] = r]
                 /\ Goes(p, "commit")
                 /\ UNCHANGED <<table, history, schema, orphan, undone, kind, todo, known, seen, assume>>
  <2>1. PICK r \in todo[p] : (Stops(p) /\ UNCHANGED remote) \/ Opens(r)
    BY <1>8 DEF LockToRecover
  <2>2. r \in Revision
    OBVIOUS
  <2>4. CASE Stops(p) /\ UNCHANGED remote
    BY <2>4, StopTypes DEF remote
  <2>3. [tx EXCEPT ![p].locked = table = "seeded", ![p].rev = r,
                   ![p].row = IF assume[p] THEN "applied" ELSE "absent"] \in [Runner -> Transaction]
    <3>1. (IF assume[p] THEN "applied" ELSE "absent") \in Row \cup {"none"}
      BY DEF Row
    <3>. QED
      BY <2>2, <3>1, FieldTypes
  <2>5. CASE Opens(r)
    BY <2>2, <2>3, <2>5 DEF Goes
  <2>. QED
    BY <2>1, <2>4, <2>5
<1>9. CASE FirstStatement(p) \/ SecondStatement(p)
  <2>1. PICK e \in Effect, place \in {"second", "mark"} : Runs(p, e, place)
    BY <1>9 DEF FirstStatement, SecondStatement, Effect
  <2>2. HistoryAfter(tx[p]) \in [Revision -> Row]
    BY PostTypes
  <2>3. CASE Implicit
    <3>1. [tx EXCEPT ![p].locked = FALSE, ![p].row = "none"] \in [Runner -> Transaction]
      BY FieldTypes
    <3>2. schema' \in [Revision -> Effect]
      BY <2>1, <2>3 DEF Runs
    <3>3. pc' = [pc EXCEPT ![p] = place] \/ pc' = [pc EXCEPT ![p] = "undo"]
      BY <2>1, <2>3 DEF Runs, Goes
    <3>4. pc' \in [Runner -> {"idle", "look", "create", "seed", "read", "lock", "first", "second",
                              "mark", "commit", "undo", "record", "write", "recorded"}]
      BY <2>1, <3>3
    <3>5. tx' \in [Runner -> Transaction] /\ history' \in [Revision -> Row] /\ undone' \in BOOLEAN
      BY <2>1, <2>2, <2>3, <3>1 DEF Runs
    <3>6. UNCHANGED <<table, orphan, kind, todo, cur, known, seen, assume, provider, registered, calls>>
      BY <2>1, <2>3 DEF Runs, Goes, local
    <3>. QED
      BY <3>2, <3>4, <3>5, <3>6
  <2>4. CASE ~Implicit
    <3>1. [tx EXCEPT ![p].effect = e] \in [Runner -> Transaction]
      BY <2>1, FieldTypes
    <3>. QED
      BY <2>1, <2>4, <3>1 DEF Runs, Goes, local
  <2>. QED
    BY <2>3, <2>4
<1>10. CASE Mark(p)
  <2>1. PICK w \in {"applied", "absent"} : Writes(p, w)
    BY <1>10 DEF Mark
  <2>2. [tx EXCEPT ![p].rev = cur[p]] \in [Runner -> Transaction]
    BY FieldTypes
  <2>3. \A f \in [Runner -> Transaction] :
          (IF w # "running" /\ View(p)[cur[p]] = "absent" THEN f[p].row ELSE w) \in Row \cup {"none"}
    BY <2>1 DEF Row, Transaction
  <2>4. tx' \in [Runner -> Transaction]
    BY <2>1, <2>2, <2>3, FieldTypes DEF Writes
  <2>. QED
    BY <1>10, <2>4 DEF Mark, Goes, local
<1>11. CASE Fails(p)
  BY <1>11 DEF Fails, Raises, Goes, remote, local
<1>12. CASE Commit(p)
  <2>1. CASE kind[p] = "recover"
    BY <1>12, <2>1, CommittedTypes, StopTypes DEF Commit
  <2>2. CASE kind[p] # "recover"
    BY <1>12, <2>2, CommittedTypes DEF Commit, Goes
  <2>. QED
    BY <2>1, <2>2
<1>13. CASE CommitFails(p) \/ Undo(p)
  <2>1. (Rolls(p) \/ Abandons(p, TRUE) \/ Abandons(p, FALSE))
           /\ (Stops(p) \/ (Goes(p, "record") /\ UNCHANGED local))
    BY <1>13 DEF CommitFails, Undo
  <2>2. /\ tx' \in [Runner -> Transaction] /\ orphan' \in [Runner -> Transaction]
        /\ UNCHANGED <<table, history, schema, undone>>
    BY <2>1, ReleaseTypes
  <2>3. CASE Stops(p)
    BY <2>2, <2>3, StopTypes
  <2>4. CASE Goes(p, "record") /\ UNCHANGED local
    BY <2>2, <2>4 DEF Goes, local
  <2>. QED
    BY <2>1, <2>3, <2>4
<1>14. CASE Record(p)
  <2>1. CASE history[cur[p]] = "applied"
    BY <1>14, <2>1, StopTypes DEF Record, remote
  <2>2. CASE history[cur[p]] # "applied"
    <3>1. [tx EXCEPT ![p].locked = table = "seeded"] \in [Runner -> Transaction]
      BY FieldTypes
    <3>2. history[cur[p]] \in Row
      BY <1>14 DEF Record, AtRevision, AtWork
    <3>. QED
      BY <1>14, <2>2, <3>1, <3>2 DEF Record, Locks, Goes
  <2>. QED
    BY <2>1, <2>2
<1>15. CASE RecordWrite(p)
  <2>1. (IF seen[p] # "absent" /\ history[cur[p]] = "absent" THEN "none" ELSE "failed") \in Row \cup {"none"}
    BY DEF Row
  <2>2. tx' \in [Runner -> Transaction]
    BY <1>15, <2>1, FieldTypes DEF RecordWrite
  <2>. QED
    BY <1>15, <2>2 DEF RecordWrite, Goes, local
<1>16. CASE Recorded(p) \/ RecordFails(p)
  BY <1>16, CommittedTypes, ReleaseTypes, StopTypes DEF Recorded, RecordFails
<1>17. CASE Crash(p)
  BY <1>17, ReleaseTypes, StopTypes DEF Crash, remote
<1>18. CASE ServerEnds(p)
  BY <1>18, PostTypes, NoTxIsTransaction DEF ServerEnds, local
<1>. QED
  BY <1>1, <1>2, <1>3, <1>4, <1>5, <1>6, <1>7, <1>8, <1>9, <1>10, <1>11, <1>12, <1>13, <1>14,
     <1>15, <1>16, <1>17, <1>18 DEF Acts, Proceeds

-----------------------------------------------------------------------------
(* Every action is a step of one of these kinds.                           *)

LEMMA GoesTo ==
    ASSUME TypeOK, NEW p \in Runner, NEW place, Goes(p, place)
    PROVE  /\ provider' = provider /\ pc'[p] = place
           /\ \A q \in Runner \ {p} : pc'[q] = pc[q]
BY DEF Goes, TypeOK

LEMMA StopsAll ==
    ASSUME TypeOK, NEW p \in Runner, Stops(p)
    PROVE  /\ provider' = provider /\ Stopped(p)
           /\ \A q \in Runner \ {p} : SameCall(q) /\ pc'[q] = pc[q]
BY GoesTo DEF Stops, Stopped, SameCall, TypeOK

LEMMA StopsQuietly ==
    ASSUME TypeOK, NEW p \in Runner, pc[p] \in Quiet, Stops(p), UNCHANGED remote
    PROVE  Waits(p)
BY StopsAll DEF Waits, Frame, Same, Kept, Stopped, remote, Quiet

LEMMA FreeOfLocks ==
    ASSUME LockFree
    PROVE  \A q \in Runner : ~HasLock(q)
BY DEF LockFree, Open, HasLock

LEMMA BeginIsWaiting ==
    ASSUME TypeOK, NEW p \in Runner, Apply(p) \/ Rollback(p)
    PROVE  Waits(p)
<1>1. PICK k \in {"apply", "rollback"} : Begins(p, k, {}, FALSE)
  BY DEF Apply, Rollback
<1>. QED
  BY <1>1 DEF Begins, Waits, Frame, Same, SameCall, Kept, remote, Quiet, TypeOK

LEMMA RecoverIsWaiting ==
    ASSUME TypeOK, NEW p \in Runner, NEW r \in Revision, NEW yes \in BOOLEAN, Recover(p, r, yes)
    PROVE  Waits(p)
<1>1. /\ kind'[p] = "recover" /\ todo'[p] = {r} /\ assume'[p] = yes
      /\ pc[p] = "idle" /\ pc'[p] \in {"create", "look"}
  BY DEF Recover, Begins, TypeOK
<1>2. Frame(p) /\ Kept /\ tx'[p] = tx[p] /\ orphan'[p] = orphan[p]
  BY DEF Recover, Begins, Frame, Same, SameCall, Kept, remote, TypeOK
<1>3. Recoverable(r, yes)
  BY DEF Recover, Recoverable, Entered
<1>. QED
  BY <1>1, <1>2, <1>3 DEF Waits, Quiet

LEMMA TableIsWaiting ==
    ASSUME TypeOK, NEW p \in Runner, CallShape(p), Look(p) \/ Create(p) \/ Seed(p)
    PROVE  Waits(p)
BY DEF Look, Create, Seed, Goes, Waits, Frame, Same, SameCall, Kept, remote, local, Quiet, TypeOK, CallShape

LEMMA ReadIsWaiting ==
    ASSUME TypeOK, NEW p \in Runner, CallShape(p), Read(p)
    PROVE  Waits(p)
<1>1. kind[p] # "recover" /\ table = "seeded"
  BY DEF CallShape, Read
<1>2. Frame(p) /\ Kept /\ tx'[p] = tx[p] /\ orphan'[p] = orphan[p]
  BY DEF Read, Goes, Frame, Same, SameCall, Kept, remote, TypeOK
<1>3. pc'[p] = "lock" /\ kind'[p] = kind[p] /\ assume'[p] = assume[p]
  BY DEF Read, Goes, TypeOK
<1>. QED
  BY <1>1, <1>2, <1>3 DEF Waits, Quiet, Read, remote

LEMMA SkipIsWaiting ==
    ASSUME TypeOK, NEW p \in Runner, NEW r \in Revision, CallShape(p),
           pc[p] = "lock", kind[p] # "recover", Skip(p, r)
    PROVE  Waits(p)
BY DEF Skip, Goes, Waits, Frame, Same, SameCall, Kept, remote, Quiet, TypeOK, CallShape, Entered

LEMMA ApplyIsAStep ==
    ASSUME TypeOK, NEW p \in Runner, CallShape(p), LockToApply(p)
    PROVE  StepOf(p)
<1>. DEFINE Opens(r) ==
              /\ tx' = [tx EXCEPT ![p] = Begun(r)]
              /\ cur' = [cur EXCEPT ![p] = r]
              /\ Goes(p, "first")
              /\ UNCHANGED <<table, history, schema, orphan, undone, kind, todo, known, seen, assume>>
<1>1. PICK r \in First(registered[p], todo[p]) :
        \/ Stops(p) /\ UNCHANGED remote
        \/ Skip(p, r)
        \/ /\ ~Incoherent(registered[p], history) /\ history[r] # "applied"
           /\ Parents[r] \subseteq Applied(history) /\ Opens(r)
  BY DEF LockToApply
<1>2. pc[p] = "lock" /\ kind[p] = "apply" /\ LockFree /\ tx[p] = NoTx /\ table = "seeded" /\ r \in Revision
  BY DEF LockToApply, CallShape, Quiet, Entered, First, TypeOK
<1>3. CASE Stops(p) /\ UNCHANGED remote
  BY <1>2, <1>3, StopsQuietly DEF StepOf, Quiet
<1>4. CASE Skip(p, r)
  BY <1>2, <1>4, SkipIsWaiting DEF StepOf
<1>5. CASE /\ ~Incoherent(registered[p], history) /\ history[r] # "applied"
           /\ Parents[r] \subseteq Applied(history) /\ Opens(r)
  <2>1. pc'[p] = "first" /\ Taken(tx'[p], r, "running") /\ cur'[p] = r
    BY <1>2, <1>5 DEF Goes, Begun, Taken, TypeOK
  <2>2. Takes(p, "first")
    BY <1>2, <1>5, <2>1 DEF Takes, Frame, Same, SameCall, Kept, Goes, TypeOK
  <2>3. TakesUpgrade(p, r)
    BY <1>2, <1>5, <2>1, <2>2 DEF TakesUpgrade
  <2>. QED
    BY <1>2, <2>3 DEF StepOf
<1>. QED
  BY <1>1, <1>3, <1>4, <1>5

LEMMA TakenFields ==
    ASSUME NEW f \in [Runner -> Transaction], NEW p \in Runner, f[p] = NoTx,
           NEW r \in Revision, NEW row \in Row
    PROVE  /\ Taken([f EXCEPT ![p].locked = TRUE][p], 0, "none")
           /\ Taken([f EXCEPT ![p].locked = TRUE, ![p].rev = r][p], r, "none")
           /\ Taken([f EXCEPT ![p].locked = TRUE, ![p].rev = r, ![p].row = row][p], r, row)
<1>. DEFINE a == [f EXCEPT ![p].locked = TRUE]
            b == [a EXCEPT ![p].rev = r]
            c == [b EXCEPT ![p].row = row]
<1>0. a \in [Runner -> Transaction]
  BY FieldTypes
<1>1. Taken(a[p], 0, "none")
  BY DEF Taken, NoTx
<1>2. b[p] = [a[p] EXCEPT !.rev = r]
  BY <1>0
<1>3. b \in [Runner -> Transaction]
  BY <1>0, FieldTypes
<1>6. Taken(b[p], r, "none")
  BY <1>0, <1>1, <1>2 DEF Taken, Transaction
<1>4. c[p] = [b[p] EXCEPT !.row = row]
  BY <1>3
<1>5. Taken(c[p], r, row)
  BY <1>3, <1>4, <1>6 DEF Taken, Transaction
<1>. QED
  BY <1>1, <1>5, <1>6

LEMMA RollBackIsAStep ==
    ASSUME TypeOK, NEW p \in Runner, CallShape(p), LockToRollBack(p)
    PROVE  StepOf(p)
<1>. DEFINE Opens(r) ==
              /\ tx' = [tx EXCEPT ![p].locked = table = "seeded", ![p].rev = r]
              /\ cur' = [cur EXCEPT ![p] = r]
              /\ Goes(p, "first")
              /\ UNCHANGED <<table, history, schema, orphan, undone, kind, todo, known, seen, assume>>
<1>1. PICK r \in Last(registered[p], todo[p]) :
        \/ Stops(p) /\ UNCHANGED remote
        \/ Skip(p, r)
        \/ /\ ~Incoherent(registered[p], history) /\ history[r] = "applied"
           /\ ~HasChild(registered[p], r, Applied(history)) /\ Opens(r)
  BY DEF LockToRollBack
<1>2. pc[p] = "lock" /\ kind[p] = "rollback" /\ LockFree /\ tx[p] = NoTx /\ table = "seeded" /\ r \in Revision
  BY DEF LockToRollBack, CallShape, Quiet, Entered, Last, TypeOK
<1>3. CASE Stops(p) /\ UNCHANGED remote
  BY <1>2, <1>3, StopsQuietly DEF StepOf, Quiet
<1>4. CASE Skip(p, r)
  BY <1>2, <1>4, SkipIsWaiting DEF StepOf
<1>5. CASE /\ ~Incoherent(registered[p], history) /\ history[r] = "applied"
           /\ ~HasChild(registered[p], r, Applied(history)) /\ Opens(r)
  <2>1. Taken(tx'[p], r, "none")
    BY <1>2, <1>5, TakenFields DEF TypeOK
  <2>2. pc'[p] = "first" /\ cur'[p] = r
    BY <1>5 DEF Goes, TypeOK
  <2>3. Takes(p, "first")
    BY <1>2, <1>5, <2>2 DEF Takes, Frame, Same, SameCall, Kept, Goes, TypeOK
  <2>4. \A c \in Applied(history) : r \notin Parents[c]
    BY <1>5 DEF Incoherent, Applied, HasChild
  <2>5. TakesDowngrade(p, r)
    BY <1>2, <1>5, <2>1, <2>2, <2>3, <2>4 DEF TakesDowngrade
  <2>. QED
    BY <1>2, <2>5 DEF StepOf
<1>. QED
  BY <1>1, <1>3, <1>4, <1>5

LEMMA RecoverIsAStep ==
    ASSUME TypeOK, NEW p \in Runner, CallShape(p), LockToRecover(p)
    PROVE  StepOf(p)
<1>. DEFINE Opens(r) ==
              /\ tx' = [tx EXCEPT ![p].locked = table = "seeded", ![p].rev = r,
                                  ![p].row = IF assume[p] THEN "applied" ELSE "absent"]
              /\ cur' = [cur EXCEPT ![p] = r]
              /\ Goes(p, "commit")
              /\ UNCHANGED <<table, history, schema, orphan, undone, kind, todo, known, seen, assume>>
            Allowed(r) ==
              /\ history[r] \in {"running", "failed"}
              /\ AncestorClosed(Applied(history) \cup IF assume[p] THEN {r} ELSE {})
<1>1. PICK r \in todo[p] :
        IF Allowed(r) /\ Applied(history) \subseteq registered[p]
        THEN RowFree(p, r) /\ Opens(r)
        ELSE Stops(p) /\ UNCHANGED remote
  BY DEF LockToRecover
<1>2. pc[p] = "lock" /\ kind[p] = "recover" /\ LockFree /\ tx[p] = NoTx /\ table = "seeded" /\ r \in Revision
  BY DEF LockToRecover, CallShape, Quiet, Entered, TypeOK
<1>3. CASE Stops(p) /\ UNCHANGED remote
  BY <1>2, <1>3, StopsQuietly DEF StepOf, Quiet
<1>4. CASE Allowed(r) /\ Opens(r)
  <2>1. Taken(tx'[p], r, IF assume[p] THEN "applied" ELSE "absent")
    <3>1. PICK row \in Row : row = IF assume[p] THEN "applied" ELSE "absent"
      BY DEF Row
    <3>2. tx' = [tx EXCEPT ![p].locked = TRUE, ![p].rev = r, ![p].row = row]
      BY <1>2, <1>4, <3>1
    <3>3. Taken(tx'[p], r, row)
      BY <1>2, <3>2, TakenFields DEF TypeOK
    <3>. QED
      BY <3>1, <3>3
  <2>2. pc'[p] = "commit" /\ cur'[p] = r
    BY <1>4 DEF Goes, TypeOK
  <2>3. Takes(p, "commit")
    BY <1>2, <1>4, <2>2 DEF Takes, Frame, Same, SameCall, Kept, Goes, TypeOK
  <2>4. TakesRecovery(p, r)
    BY <1>2, <1>4, <2>1, <2>2, <2>3 DEF TakesRecovery
  <2>. QED
    BY <1>2, <2>4 DEF StepOf
<1>. QED
  BY <1>1, <1>3, <1>4

LEMMA RecordIsAStep ==
    ASSUME TypeOK, NEW p \in Runner, CallShape(p), Record(p)
    PROVE  StepOf(p)
<1>1. pc[p] = "record" /\ LockFree /\ tx[p] = NoTx /\ table = "seeded"
  BY DEF Record, CallShape, Quiet, AtWork
<1>2. CASE history[cur[p]] = "applied"
  BY <1>1, <1>2, StopsQuietly DEF StepOf, Quiet, Record
<1>3. CASE history[cur[p]] # "applied"
  <2>1. Taken(tx'[p], 0, "none")
    <3>1. cur[p] \in Revision
      BY <1>1 DEF CallShape, AtRevision, AtWork
    <3>. QED
      BY <1>1, <1>3, <3>1, TakenFields DEF Record, Locks, TypeOK
  <2>2. pc'[p] = "write" /\ cur'[p] = cur[p]
    BY <1>3 DEF Record, Goes, TypeOK
  <2>3. Takes(p, "write")
    BY <1>1, <1>3, <2>2 DEF Record, Locks, Takes, Frame, Same, SameCall, Kept, Goes, TypeOK
  <2>. QED
    BY <1>1, <1>3, <2>1, <2>2, <2>3 DEF StepOf, TakesRecord
<1>. QED
  BY <1>2, <1>3

LEMMA StatementIsAStep ==
    ASSUME TypeOK, NEW p \in Runner, FirstStatement(p) \/ SecondStatement(p)
    PROVE  StepOf(p)
<1>. DEFINE place == AfterStatement(p)
            effect == IF pc[p] = "first" THEN "partial" ELSE IF kind[p] = "apply" THEN "present" ELSE "absent"
<1>1. Runs(p, effect, place) /\ pc[p] \in {"first", "second"} /\ effect \in Effect
  BY DEF FirstStatement, SecondStatement, AfterStatement, Effect
<1>2. CASE Implicit
  <2>1. tx' = [tx EXCEPT ![p].locked = FALSE, ![p].row = "none"]
    BY <1>1, <1>2 DEF Runs
  <2>2. tx'[p] = [tx[p] EXCEPT !.locked = FALSE, !.row = "none"] /\ \A q \in Runner \ {p} : tx'[q] = tx[q]
    BY <2>1 DEF TypeOK
  <2>3. /\ UNCHANGED <<table, orphan, kind, todo, cur, assume>>
        /\ history' = HistoryAfter(tx[p]) /\ undone' = (undone \/ kind[p] = "rollback")
        /\ \/ schema' = [schema EXCEPT ![cur[p]] = effect] /\ Goes(p, place)
           \/ UNCHANGED schema /\ Goes(p, "undo")
    BY <1>1, <1>2 DEF Runs, local
  <2>4. Frame(p) /\ orphan'[p] = orphan[p] /\ SameCall(p)
    BY <2>2, <2>3, GoesTo DEF Frame, Same, SameCall
  <2>5. RunsCommitting(p)
    BY <1>1, <1>2, <2>2, <2>3, <2>4, GoesTo DEF RunsCommitting
  <2>. QED
    BY <2>5 DEF StepOf
<1>3. CASE ~Implicit
  <2>1. tx'[p] = [tx[p] EXCEPT !.effect = effect] /\ \A q \in Runner \ {p} : tx'[q] = tx[q]
    BY <1>1, <1>3 DEF Runs, TypeOK
  <2>2. UNCHANGED <<table, history, schema, orphan, undone, kind, todo, cur, assume>> /\ Goes(p, place)
    BY <1>1, <1>3 DEF Runs, local
  <2>3. Frame(p) /\ Kept /\ orphan'[p] = orphan[p] /\ SameCall(p)
    BY <2>1, <2>2, GoesTo DEF Frame, Same, SameCall, Kept
  <2>4. pc[p] = "second" => effect = IF kind[p] = "apply" THEN "present" ELSE "absent"
    OBVIOUS
  <2>5. RunsPending(p)
    BY <1>1, <1>3, <2>1, <2>2, <2>3, <2>4, GoesTo DEF RunsPending
  <2>. QED
    BY <2>5 DEF StepOf
<1>. QED
  BY <1>2, <1>3

LEMMA MarkIsAStep ==
    ASSUME TypeOK, NEW p \in Runner, Mark(p)
    PROVE  StepOf(p)
<1>1. tx'[p] = [tx[p] EXCEPT
                  !.rev = cur[p],
                  !.row = IF View(p)[cur[p]] = "absent" THEN tx[p].row
                          ELSE IF kind[p] = "apply" THEN "applied" ELSE "absent"]
  BY DEF Mark, Writes, TypeOK, Transaction
<1>2. \A q \in Runner \ {p} : tx'[q] = tx[q]
  BY DEF Mark, Writes, TypeOK
<1>3. Marks(p)
  BY <1>1, <1>2 DEF Marks, Mark, Goes, Frame, Same, SameCall, Kept, local, TypeOK
<1>. QED
  BY <1>3 DEF StepOf

LEMMA RecordWriteIsAStep ==
    ASSUME TypeOK, NEW p \in Runner, RecordWrite(p)
    PROVE  StepOf(p)
<1>1. PICK row \in {"failed", "none"} : tx' = [tx EXCEPT ![p].rev = cur[p], ![p].row = row]
  BY DEF RecordWrite
<1>2. tx'[p] = [tx[p] EXCEPT !.rev = cur[p], !.row = row] /\ \A q \in Runner \ {p} : tx'[q] = tx[q]
  BY <1>1 DEF TypeOK
<1>3. WritesFailure(p)
  BY <1>2 DEF WritesFailure, RecordWrite, Goes, Frame, Same, SameCall, Kept, local, TypeOK
<1>. QED
  BY <1>3 DEF StepOf

LEMMA FailIsAStep ==
    ASSUME TypeOK, NEW p \in Runner, Fails(p)
    PROVE  StepOf(p)
<1>1. FallsBack(p)
  BY DEF Fails, Raises, FallsBack, Upgrade, Goes, Frame, Same, SameCall, Kept, remote, local, TypeOK
<1>. QED
  BY <1>1 DEF StepOf

LEMMA CommitsSlot ==
    ASSUME TypeOK, NEW p \in Runner, Committed(p)
    PROVE  /\ undone' = undone /\ table' = table /\ orphan' = orphan
           /\ history' = HistoryAfter(tx[p]) /\ schema' = SchemaAfter(tx[p])
           /\ tx'[p] = NoTx /\ \A q \in Runner \ {p} : tx'[q] = tx[q]
BY DEF Committed, TypeOK

LEMMA CommitIsAStep ==
    ASSUME TypeOK, NEW p \in Runner, Commit(p)
    PROVE  StepOf(p)
<1>1. Committed(p) /\ pc[p] = "commit"
  BY DEF Commit
<1>2. CASE kind[p] = "recover"
  <2>1. Commits(p)
    BY <1>1, <1>2, CommitsSlot, StopsAll DEF Commit, Commits, Frame, Same
  <2>. QED
    BY <2>1 DEF StepOf
<1>3. CASE kind[p] # "recover"
  <2>1. Goes(p, "lock") /\ kind' = kind /\ assume' = assume
        /\ \A q \in Runner \ {p} : todo'[q] = todo[q] /\ cur'[q] = cur[q]
    BY <1>1, <1>3 DEF Commit, TypeOK
  <2>2. Commits(p)
    BY <1>1, <1>3, <2>1, CommitsSlot, GoesTo DEF Commits, Frame, Same, SameCall
  <2>. QED
    BY <2>2 DEF StepOf
<1>. QED
  BY <1>2, <1>3

LEMMA ReleaseSlot ==
    ASSUME TypeOK, NEW p \in Runner, NEW b \in BOOLEAN, Rolls(p) \/ Abandons(p, b)
    PROVE  /\ Kept /\ table' = table /\ tx'[p] = NoTx
           /\ \A q \in Runner \ {p} : tx'[q] = tx[q] /\ orphan'[q] = orphan[q]
           /\ \/ orphan'[p] = orphan[p]
              \/ orphan[p] = NoTx /\ orphan'[p] = [tx[p] EXCEPT !.sent = b] /\ Abandons(p, b)
BY DEF Rolls, Abandons, Kept, TypeOK

LEMMA ReleaseIsAStep ==
    ASSUME TypeOK, NEW p \in Runner, NEW b \in BOOLEAN, Rolls(p) \/ Abandons(p, b),
           b => pc[p] \in {"commit", "recorded"},
           \/ Stops(p)
           \/ Goes(p, "record") /\ UNCHANGED local /\ pc[p] \in {"undo", "commit"} /\ kind[p] = "apply"
    PROVE  StepOf(p)
<1>1. Frame(p)
  BY ReleaseSlot, StopsAll, GoesTo DEF Frame, Same, SameCall, local
<1>2. Stopped(p) \/ (pc'[p] = "record" /\ SameCall(p) /\ pc[p] \in {"undo", "commit"} /\ kind[p] = "apply")
  BY StopsAll, GoesTo DEF SameCall, local
<1>3. Releases(p)
  BY <1>1, <1>2, ReleaseSlot DEF Releases
<1>. QED
  BY <1>3 DEF StepOf

LEMMA EndIsAStep ==
    ASSUME TypeOK, NEW p \in Runner, ServerEnds(p)
    PROVE  StepOf(p)
<1>1. Ends(p)
  BY DEF ServerEnds, Ends, Frame, Same, SameCall, local, TypeOK
<1>. QED
  BY <1>1 DEF StepOf

LEMMA EveryActIsAStep ==
    ASSUME TypeOK, NEW p \in Runner, CallShape(p), Acts(p)
    PROVE  StepOf(p)
<1>1. CASE Apply(p) \/ Rollback(p)
  BY <1>1, BeginIsWaiting DEF StepOf
<1>2. CASE \E r \in Revision, yes \in BOOLEAN : Recover(p, r, yes)
  BY <1>2, RecoverIsWaiting DEF StepOf
<1>3. CASE Look(p) \/ Create(p) \/ Seed(p) \/ Read(p)
  BY <1>3, TableIsWaiting, ReadIsWaiting DEF StepOf
<1>4. CASE ReadRefuses(p) \/ FailsEarly(p) \/ Finished(p)
  <2>1. pc[p] \in Quiet /\ Stops(p) /\ UNCHANGED remote
    BY <1>4 DEF ReadRefuses, FailsEarly, Finished, Quiet
  <2>. QED
    BY <2>1, StopsQuietly DEF StepOf
<1>5. CASE CommitFails(p)
  <2>1. \E b \in BOOLEAN : Rolls(p) \/ Abandons(p, b)
    BY <1>5 DEF CommitFails
  <2>. QED
    BY <1>5, <2>1, ReleaseIsAStep DEF CommitFails, Started
<1>6. CASE Undo(p)
  <2>1. Rolls(p) \/ Abandons(p, FALSE)
    BY <1>6 DEF Undo
  <2>. QED
    BY <1>6, <2>1, ReleaseIsAStep DEF Undo, Started
<1>7. CASE Recorded(p)
  <2>1. CASE Committed(p)
    <3>1. Commits(p)
      BY <1>7, <2>1, CommitsSlot, StopsAll DEF Recorded, Commits, Frame, Same
    <3>. QED
      BY <3>1 DEF StepOf
  <2>2. CASE Rolls(p) \/ Abandons(p, TRUE)
    BY <1>7, <2>2, ReleaseIsAStep DEF Recorded
  <2>. QED
    BY <1>7, <2>1, <2>2 DEF Recorded
<1>8. CASE RecordFails(p)
  <2>1. Rolls(p) \/ Abandons(p, FALSE)
    BY <1>8 DEF RecordFails
  <2>. QED
    BY <1>8, <2>1, ReleaseIsAStep DEF RecordFails
<1>9. CASE Crash(p)
  <2>1. CASE tx[p] = NoTx
    <3>1. Kept /\ table' = table /\ tx' = tx /\ orphan' = orphan
      BY <1>9, <2>1 DEF Crash, Kept, remote
    <3>2. Releases(p)
      BY <1>9, <2>1, <3>1, StopsAll DEF Crash, Releases, Frame, Same
    <3>. QED
      BY <3>2 DEF StepOf
  <2>2. CASE tx[p] # NoTx
    BY <1>9, <2>2, ReleaseIsAStep DEF Crash
  <2>. QED
    BY <2>1, <2>2
<1>. QED
  BY <1>1, <1>2, <1>3, <1>4, <1>5, <1>6, <1>7, <1>8, <1>9, ApplyIsAStep, RollBackIsAStep,
     RecoverIsAStep, RecordIsAStep, StatementIsAStep, MarkIsAStep, RecordWriteIsAStep, FailIsAStep,
     CommitIsAStep, EndIsAStep DEF Acts, Proceeds

-----------------------------------------------------------------------------
(* The shape of the calls.                                                 *)

LEMMA NoTxFields ==
    ~NoTx.locked /\ ~NoTx.sent /\ NoTx.rev = 0 /\ NoTx.row = "none" /\ NoTx.effect = "none"
BY DEF NoTx

LEMMA SlotTypes ==
    ASSUME TypeOK, NEW q \in Runner
    PROVE  tx[q] \in Transaction /\ orphan[q] \in Transaction
BY DEF TypeOK

\* A step of another call leaves a call as it is.
LEMMA OtherShapes ==
    ASSUME NEW p \in Runner, Frame(p), NEW q \in Runner \ {p}, CallShape(q)
    PROVE  CallShape(q)'
BY DEF Frame, Same, SameCall, CallShape, AtRevision

LEMMA OwnShape ==
    ASSUME TypeOK, NEW p \in Runner, CallShape(p), StepOf(p)
    PROVE  CallShape(p)'
<1>. USE NoTxFields, SlotTypes DEF CallShape, AtRevision, AtWork, Upgrade, Quiet, Entered
<1>1. CASE Waits(p)
  BY <1>1 DEF Waits, SameCall
<1>2. ASSUME NEW r \in Revision, TakesUpgrade(p, r) PROVE CallShape(p)'
  BY <1>2 DEF TakesUpgrade, Takes, Taken, Frame
<1>3. ASSUME NEW r \in Revision, TakesDowngrade(p, r) PROVE CallShape(p)'
  BY <1>3 DEF TakesDowngrade, Takes, Taken, Frame
<1>4. ASSUME NEW r \in Revision, TakesRecovery(p, r) PROVE CallShape(p)'
  BY <1>4 DEF TakesRecovery, Takes, Taken, Frame
<1>5. CASE TakesRecord(p)
  BY <1>5 DEF TakesRecord, Takes, Taken, Frame
<1>6. CASE RunsPending(p)
  BY <1>6 DEF RunsPending, Frame, SameCall, AfterStatement, Transaction
<1>7. CASE RunsCommitting(p)
  BY <1>7 DEF RunsCommitting, Frame, SameCall, AfterStatement, Transaction
<1>8. CASE Marks(p)
  BY <1>8 DEF Marks, Frame, SameCall, Transaction
<1>9. CASE WritesFailure(p)
  BY <1>9 DEF WritesFailure, Frame, SameCall, Transaction
<1>10. CASE FallsBack(p)
  BY <1>10 DEF FallsBack, Frame, SameCall
<1>11. CASE Commits(p)
  BY <1>11 DEF Commits, Frame, Stopped
<1>12. CASE Releases(p)
  BY <1>12 DEF Releases, Frame, Stopped, SameCall
<1>13. CASE Ends(p)
  BY <1>13 DEF Ends, Frame, SameCall
<1>. QED
  BY <1>1, <1>2, <1>3, <1>4, <1>5, <1>6, <1>7, <1>8, <1>9, <1>10, <1>11, <1>12, <1>13 DEF StepOf

\* The lock moves with the transaction that holds it, and is taken when free.
LEMMA LockMoves ==
    ASSUME TypeOK, NEW p \in Runner, CallShape(p), StepOf(p), ~(tx[p].locked /\ orphan[p].locked)
    PROVE  /\ HasLock(p)' => HasLock(p) \/ LockFree
           /\ ~(tx[p].locked /\ orphan[p].locked)'
<1>. USE NoTxFields, SlotTypes DEF HasLock
<1>1. CASE Waits(p)
  BY <1>1 DEF Waits
<1>2. CASE TakesRecord(p) \/ \E r \in Revision : TakesUpgrade(p, r) \/ TakesDowngrade(p, r) \/ TakesRecovery(p, r)
  <2>1. LockFree /\ orphan'[p] = orphan[p]
    BY <1>2 DEF TakesRecord, TakesUpgrade, TakesDowngrade, TakesRecovery, Takes
  <2>. QED
    BY <2>1, FreeOfLocks
<1>3. CASE RunsPending(p) \/ RunsCommitting(p)
  BY <1>3 DEF RunsPending, RunsCommitting, Transaction
<1>4. CASE Marks(p) \/ WritesFailure(p) \/ FallsBack(p)
  BY <1>4 DEF Marks, WritesFailure, FallsBack, Transaction
<1>5. CASE Commits(p) \/ Ends(p)
  BY <1>5 DEF Commits, Ends
<1>6. CASE Releases(p)
  BY <1>6 DEF Releases, Transaction
<1>. QED
  BY <1>1, <1>2, <1>3, <1>4, <1>5, <1>6 DEF StepOf

LEMMA FrameOfStep ==
    ASSUME NEW p \in Runner, StepOf(p)
    PROVE  Frame(p)
BY DEF StepOf, Waits, TakesUpgrade, TakesDowngrade, TakesRecovery, TakesRecord, Takes, RunsPending,
       RunsCommitting, Marks, WritesFailure, FallsBack, Commits, Releases, Ends

LEMMA StructureKept ==
    ASSUME TypeOK, Structure, NEW p \in Runner, StepOf(p)
    PROVE  Structure'
<1>1. \A q \in Runner \ {p} : CallShape(q)'
  BY FrameOfStep, OtherShapes DEF Structure
<1>2. CallShape(p)'
  BY OwnShape DEF Structure
<1>3. /\ HasLock(p)' => HasLock(p) \/ LockFree
      /\ ~(tx[p].locked /\ orphan[p].locked)'
  BY LockMoves DEF Structure, OneLock
<1>4. \A q \in Runner \ {p} : tx'[q] = tx[q] /\ orphan'[q] = orphan[q]
  BY FrameOfStep DEF Frame, Same
<1>5. OneLock'
  BY <1>3, <1>4, FreeOfLocks DEF Structure, OneLock, HasLock
<1>. QED
  BY <1>1, <1>2, <1>5 DEF Structure

-----------------------------------------------------------------------------
(* Where DDL is transactional.                                             *)

Truth(h, s) == \A r \in Revision : s[r] = IF h[r] = "applied" THEN "present" ELSE "absent"

RowsAfter(h, t) == IF t.row = "none" THEN h ELSE [h EXCEPT ![t.rev] = t.row]
EffectsAfter(s, t) == IF t.effect = "none" THEN s ELSE [s EXCEPT ![t.rev] = t.effect]

\* The COMMIT of t would leave the history true.
Lands(h, s, t) ==
    /\ Truth(RowsAfter(h, t), EffectsAfter(s, t))
    /\ AncestorClosed(Applied(RowsAfter(h, t)))

Whole(p) ==
    /\ ~assume[p]
    /\ orphan[p].sent => orphan[p].locked /\ Lands(history, schema, orphan[p])
    /\ pc[p] \in Upgrade \cup {"commit"} => tx[p].locked
    /\ pc[p] \in {"commit", "recorded"} => Lands(history, schema, tx[p])
    /\ pc[p] = "write" => history[cur[p]] # "applied"
    /\ pc[p] \in Upgrade /\ kind[p] = "apply" =>
          /\ tx[p].row = "running" /\ history[cur[p]] # "applied"
          /\ Parents[cur[p]] \subseteq Applied(history)
    /\ pc[p] \in Upgrade /\ kind[p] = "rollback" =>
          /\ tx[p].row = "none" /\ history[cur[p]] = "applied"
          /\ \A c \in Applied(history) : cur[p] \notin Parents[c]
    /\ pc[p] = "mark" => tx[p].effect = IF kind[p] = "apply" THEN "present" ELSE "absent"

Atomic ==
    /\ Truth(history, schema) /\ AncestorClosed(Applied(history))
    /\ \A p \in Runner : Whole(p)

\* Who does not hold the lock has nothing that the history could contradict.
LEMMA WholeWithoutLock ==
    ASSUME NEW p \in Runner, Whole(p), CallShape(p), ~HasLock(p), Same(p)
    PROVE  Whole(p)'
BY DEF Whole, CallShape, HasLock, Same, SameCall, Upgrade

LEMMA WholeUnderKept ==
    ASSUME NEW p \in Runner, Whole(p), Same(p), Kept
    PROVE  Whole(p)'
BY DEF Whole, Same, SameCall, Kept

\* The COMMIT of an upgrade, of a downgrade, and of a row that is not "applied".
LEMMA UpgradeLands ==
    ASSUME NEW h \in [Revision -> Row], NEW s \in [Revision -> Effect],
           NEW t, NEW r \in Revision, t.rev = r, t.row = "applied", t.effect = "present",
           Truth(h, s), AncestorClosed(Applied(h)), Parents[r] \subseteq Applied(h)
    PROVE  Lands(h, s, t)
<1>1. RowsAfter(h, t) = [h EXCEPT ![r] = "applied"] /\ EffectsAfter(s, t) = [s EXCEPT ![r] = "present"]
  BY DEF RowsAfter, EffectsAfter
<1>2. Truth(RowsAfter(h, t), EffectsAfter(s, t))
  BY <1>1 DEF Truth
<1>3. Applied(RowsAfter(h, t)) = Applied(h) \cup {r}
  BY <1>1 DEF Applied
<1>4. AncestorClosed(Applied(h) \cup {r})
  BY DEF AncestorClosed
<1>. QED
  BY <1>2, <1>3, <1>4 DEF Lands

LEMMA DowngradeLands ==
    ASSUME NEW h \in [Revision -> Row], NEW s \in [Revision -> Effect],
           NEW t, NEW r \in Revision, t.rev = r, t.row = "absent", t.effect = "absent",
           Truth(h, s), AncestorClosed(Applied(h)), \A c \in Applied(h) : r \notin Parents[c]
    PROVE  Lands(h, s, t)
<1>1. RowsAfter(h, t) = [h EXCEPT ![r] = "absent"] /\ EffectsAfter(s, t) = [s EXCEPT ![r] = "absent"]
  BY DEF RowsAfter, EffectsAfter
<1>2. Truth(RowsAfter(h, t), EffectsAfter(s, t))
  BY <1>1 DEF Truth
<1>3. Applied(RowsAfter(h, t)) = Applied(h) \ {r}
  BY <1>1 DEF Applied
<1>4. AncestorClosed(Applied(h) \ {r})
  BY DEF AncestorClosed
<1>. QED
  BY <1>2, <1>3, <1>4 DEF Lands

LEMMA RowLands ==
    ASSUME NEW h \in [Revision -> Row], NEW s \in [Revision -> Effect],
           NEW t, NEW r \in Revision, t.rev = r,
           t.row \in {"absent", "failed", "none"}, t.effect = "none", h[r] # "applied",
           Truth(h, s), AncestorClosed(Applied(h))
    PROVE  Lands(h, s, t)
<1>1. EffectsAfter(s, t) = s
  BY DEF EffectsAfter
<1>2. CASE t.row = "none"
  BY <1>1, <1>2 DEF Lands, RowsAfter
<1>3. CASE t.row # "none"
  <2>1. RowsAfter(h, t) = [h EXCEPT ![r] = t.row]
    BY <1>3 DEF RowsAfter
  <2>2. Truth(RowsAfter(h, t), s)
    BY <2>1 DEF Truth
  <2>3. Applied(RowsAfter(h, t)) = Applied(h)
    BY <2>1 DEF Applied
  <2>. QED
    BY <1>1, <2>2, <2>3 DEF Lands
<1>. QED
  BY <1>2, <1>3

LEMMA OwnWhole ==
    ASSUME TypeOK, ~Implicit, Atomic, NEW p \in Runner, CallShape(p), StepOf(p),
           ~Commits(p), ~Ends(p)
    PROVE  Whole(p)'
<1>. USE NoTxFields, SlotTypes DEF Kept
<1>1. /\ Whole(p) /\ Truth(history, schema) /\ AncestorClosed(Applied(history))
      /\ history \in [Revision -> Row] /\ schema \in [Revision -> Effect]
  BY DEF Atomic, TypeOK
<1>2. CASE Waits(p)
  <2>1. ~assume'[p]
    BY <1>1, <1>2 DEF Waits, Recoverable, Whole, Truth, TypeOK
  <2>. QED
    BY <1>1, <1>2, <2>1 DEF Waits, Whole, Upgrade, Quiet
<1>3. ASSUME NEW r \in Revision, TakesUpgrade(p, r) PROVE Whole(p)'
  BY <1>1, <1>3 DEF TakesUpgrade, Takes, Taken, Whole, Upgrade
<1>4. ASSUME NEW r \in Revision, TakesDowngrade(p, r) PROVE Whole(p)'
  BY <1>1, <1>4 DEF TakesDowngrade, Takes, Taken, Whole, Upgrade
<1>5. ASSUME NEW r \in Revision, TakesRecovery(p, r) PROVE Whole(p)'
  <2>1. Taken(tx'[p], r, "absent") /\ history[r] # "applied"
    BY <1>1, <1>5 DEF TakesRecovery, Takes, Whole
  <2>2. Lands(history, schema, tx'[p])
    BY <1>1, <2>1, RowLands DEF Taken
  <2>. QED
    BY <1>1, <1>5, <2>1, <2>2 DEF TakesRecovery, Takes, Taken, Whole, Upgrade
<1>6. CASE TakesRecord(p)
  BY <1>1, <1>6 DEF TakesRecord, Takes, Whole, Upgrade
<1>7. CASE RunsPending(p)
  BY <1>1, <1>7 DEF RunsPending, SameCall, AfterStatement, Whole, Upgrade, Transaction
<1>8. CASE Marks(p)
  <2>. DEFINE t == tx'[p]
              row == IF kind[p] = "apply" THEN "applied" ELSE "absent"
  <2>1. /\ cur[p] \in Revision /\ tx[p].rev = cur[p] /\ kind[p] \in {"apply", "rollback"} /\ tx[p].locked
        /\ tx[p].effect = IF kind[p] = "apply" THEN "present" ELSE "absent"
    BY <1>1, <1>8 DEF Marks, CallShape, AtRevision, AtWork, Upgrade, Whole, TypeOK
  <2>2. View(p)[cur[p]] # "absent"
    BY <1>1, <1>8, <2>1 DEF Marks, View, HistoryAfter, Whole, Upgrade
  <2>3. t.rev = cur[p] /\ t.row = row /\ t.effect = tx[p].effect /\ t.locked
    BY <1>8, <2>1, <2>2 DEF Marks, Transaction, Row
  <2>4. Lands(history, schema, t)
    <3>1. CASE kind[p] = "apply"
      BY <1>1, <1>8, <2>1, <2>3, <3>1, UpgradeLands DEF Marks, Whole, Upgrade
    <3>2. CASE kind[p] = "rollback"
      BY <1>1, <1>8, <2>1, <2>3, <3>2, DowngradeLands DEF Marks, Whole, Upgrade
    <3>. QED
      BY <2>1, <3>1, <3>2
  <2>. QED
    BY <1>1, <1>8, <2>3, <2>4 DEF Marks, SameCall, Whole, Upgrade
<1>9. CASE WritesFailure(p)
  <2>1. PICK row \in {"failed", "none"} : tx'[p] = [tx[p] EXCEPT !.rev = cur[p], !.row = row]
    BY <1>9 DEF WritesFailure
  <2>2. cur[p] \in Revision /\ tx[p].effect = "none" /\ history[cur[p]] # "applied"
    BY <1>1, <1>9 DEF WritesFailure, CallShape, AtRevision, AtWork, Whole
  <2>3. tx'[p].rev = cur[p] /\ tx'[p].row = row /\ tx'[p].effect = "none"
    BY <2>1, <2>2 DEF Transaction, Row
  <2>4. Lands(history, schema, tx'[p])
    BY <1>1, <2>2, <2>3, RowLands
  <2>. QED
    BY <1>1, <1>9, <2>4 DEF WritesFailure, SameCall, Whole, Upgrade
<1>10. CASE FallsBack(p)
  BY <1>1, <1>10 DEF FallsBack, SameCall, Whole, Upgrade
<1>11. CASE Releases(p)
  <2>1. pc'[p] \in {"idle", "record"} /\ ~assume'[p]
    BY <1>1, <1>11 DEF Releases, Stopped, SameCall, Whole
  <2>2. orphan'[p].sent => orphan'[p].locked /\ Lands(history, schema, orphan'[p])
    <3>1. CASE orphan'[p] = orphan[p]
      BY <1>1, <3>1 DEF Whole
    <3>2. ASSUME NEW b \in BOOLEAN, orphan'[p] = [tx[p] EXCEPT !.sent = b],
                 b => pc[p] \in {"commit", "recorded"}, orphan'[p].sent
          PROVE  orphan'[p].locked /\ Lands(history, schema, orphan'[p])
      <4>1. /\ orphan'[p].locked = tx[p].locked /\ orphan'[p].rev = tx[p].rev
            /\ orphan'[p].row = tx[p].row /\ orphan'[p].effect = tx[p].effect
        BY <3>2 DEF Transaction
      <4>2. pc[p] \in {"commit", "recorded"}
        BY <3>2 DEF Transaction
      <4>3. tx[p].locked /\ Lands(history, schema, tx[p])
        BY <1>1, <4>2 DEF Whole, CallShape
      <4>. QED
        BY <4>1, <4>3 DEF Lands, RowsAfter, EffectsAfter
    <3>. QED
      BY <1>11, <3>1, <3>2 DEF Releases
  <2>. QED
    BY <1>11, <2>1, <2>2 DEF Releases, Whole, Upgrade
<1>. QED
  BY <1>2, <1>3, <1>4, <1>5, <1>6, <1>7, <1>8, <1>9, <1>10, <1>11 DEF StepOf, RunsCommitting

LEMMA KeptUnlessCommitted ==
    ASSUME NEW p \in Runner, StepOf(p), ~Implicit, ~Commits(p), ~Ends(p)
    PROVE  Kept
BY DEF StepOf, Waits, TakesUpgrade, TakesDowngrade, TakesRecovery, TakesRecord, Takes, RunsPending,
       RunsCommitting, Marks, WritesFailure, FallsBack, Releases

\* A transaction with the lock commits: the rest holds nothing.
LEMMA AtomicCommit ==
    ASSUME TypeOK, ~Implicit, Atomic, Structure, NEW p \in Runner, Frame(p), ~assume'[p],
           NEW t, Lands(history, schema, t),
           history' = RowsAfter(history, t), schema' = EffectsAfter(schema, t), HasLock(p),
           ~orphan'[p].sent, pc'[p] \notin AtWork \ {"undo", "record"}
    PROVE  Atomic'
<1>1. Truth(history', schema') /\ AncestorClosed(Applied(history'))
  BY DEF Lands
<1>2. ASSUME NEW q \in Runner, q # p PROVE Whole(q)'
  <2>1. ~HasLock(q) /\ Same(q) /\ CallShape(q) /\ Whole(q)
    BY <1>2 DEF Structure, OneLock, Frame, Atomic
  <2>. QED
    BY <2>1, WholeWithoutLock
<1>3. Whole(p)'
  BY DEF Whole, AtWork, Upgrade
<1>. QED
  BY <1>1, <1>2, <1>3 DEF Atomic

LEMMA AtomicKeptByCalls ==
    ASSUME TypeOK, ~Implicit, Atomic, Structure, NEW p \in Runner, StepOf(p)
    PROVE  Atomic'
<1>. USE NoTxFields DEF HistoryAfter, SchemaAfter, RowsAfter, EffectsAfter
<1>1. Whole(p) /\ CallShape(p)
  BY DEF Atomic, Structure
<1>2. CASE Commits(p)
  <2>1. tx[p].locked /\ Lands(history, schema, tx[p])
    BY <1>1, <1>2 DEF Commits, Whole, CallShape
  <2>2. pc'[p] \notin AtWork /\ ~assume'[p]
    BY <1>1, <1>2 DEF Commits, Stopped, AtWork, Upgrade, Whole
  <2>3. ~orphan'[p].sent
    BY <1>1, <1>2, <2>1 DEF Commits, Whole, Structure, OneLock
  <2>4. history' = RowsAfter(history, tx[p]) /\ schema' = EffectsAfter(schema, tx[p]) /\ Frame(p)
    BY <1>2 DEF Commits
  <2>. QED
    BY <2>1, <2>2, <2>3, <2>4, AtomicCommit DEF HasLock
<1>3. CASE Ends(p) /\ orphan[p].sent
                   /\ history' = HistoryAfter(orphan[p]) /\ schema' = SchemaAfter(orphan[p])
  <2>1. orphan[p].locked /\ Lands(history, schema, orphan[p])
    BY <1>1, <1>3 DEF Whole
  <2>2. pc'[p] \notin AtWork \ {"undo", "record"} /\ ~assume'[p]
    BY <1>1, <1>3, <2>1 DEF Ends, SameCall, AtWork, Upgrade, Whole, CallShape, Structure, OneLock
  <2>. QED
    BY <1>3, <2>1, <2>2, AtomicCommit DEF HasLock, Ends
<1>4. CASE Ends(p) /\ history' = history /\ schema' = schema
  <2>1. Whole(p)'
    BY <1>1, <1>4 DEF Ends, SameCall, Whole
  <2>2. \A q \in Runner \ {p} : Whole(q)'
    BY <1>4, WholeUnderKept DEF Ends, Kept, Frame, Atomic
  <2>. QED
    BY <1>4, <2>1, <2>2 DEF Atomic
<1>5. CASE ~Commits(p) /\ ~Ends(p)
  <2>1. Kept /\ Frame(p)
    BY <1>5, KeptUnlessCommitted, FrameOfStep
  <2>2. \A q \in Runner \ {p} : Whole(q)'
    BY <2>1, WholeUnderKept DEF Frame, Atomic
  <2>3. Whole(p)'
    BY <1>1, <1>5, OwnWhole
  <2>. QED
    BY <2>1, <2>2, <2>3 DEF Atomic, Kept
<1>. QED
  BY <1>2, <1>3, <1>4, <1>5 DEF Ends

-----------------------------------------------------------------------------
(* Where DDL commits, until a downgrade has run.                           *)

\* COMMIT was sent, and may still be done.
Sent(p, r, row) == orphan[p].sent /\ orphan[p].rev = r /\ orphan[p].row = row

\* An upgrade that has the lock, and one that a row speaks of.
AtFirst(p, c) == pc[p] = "first" /\ kind[p] = "apply" /\ cur[p] = c
Beyond(p, c) ==
    \/ pc[p] \in {"second", "mark"} /\ cur[p] = c
    \/ pc[p] = "commit" /\ tx[p].row = "applied" /\ cur[p] = c
    \/ Sent(p, c, "applied")
Landing(p, c) == AtFirst(p, c) \/ Beyond(p, c)

Recording(p, r) == (pc[p] \in {"write", "recorded"} /\ cur[p] = r) \/ Sent(p, r, "failed")

Pending(p, r) == kind[p] = "recover" /\ r \in todo[p]

Incomplete(r) == history[r] \in {"running", "failed"}

Entering(p) == kind[p] # "recover" /\ pc[p] \in Entered

Local(p) ==
    /\ tx[p].effect = "none" /\ orphan[p].effect = "none"
    /\ pc[p] \in {"second", "mark"} => kind[p] = "apply" /\ tx[p].row = "none"
    /\ pc[p] = "commit" /\ kind[p] # "recover" => kind[p] = "apply" /\ tx[p].row = "applied"
    /\ orphan[p].sent =>
          /\ orphan[p].row \in {"applied", "absent", "failed", "none"}
          /\ orphan[p].row # "none" => orphan[p].rev \in Revision
          /\ orphan[p].row = "failed" => orphan[p].locked

\* No effect is there without a row.
Witnessed == \A r \in Revision : schema[r] # "absent" => history[r] # "absent"

RowsOfUpgrades ==
    \A p \in Runner, c \in Revision :
        /\ AtFirst(p, c) => history[c] = "absent"
        /\ Beyond(p, c) => history[c] # "absent"

\* What may become applied has its parents applied.
Grounded ==
    \A p \in Runner, c \in Revision : Landing(p, c) => Parents[c] \subseteq Applied(history) \cup {c}

\* What may become failed has no child that is, or may become, applied.
Recorders ==
    \A p \in Runner, r \in Revision : Recording(p, r) =>
        \A c \in Revision \ {r} : r \in Parents[c] =>
            history[c] # "applied" /\ \A q \in Runner : ~Landing(q, c)

\* While a revision is recovered nobody upgrades anything, and nothing on its
\* way to the server makes it applied or removes it.
Recoveries ==
    \A p \in Runner, r \in Revision : Pending(p, r) =>
        /\ Incomplete(r)
        /\ assume[p] \/ schema[r] = "absent"
        /\ \A q \in Runner : /\ ~Entering(q) /\ ~Sent(q, r, "applied") /\ ~Sent(q, r, "absent")
                             /\ kind[q] = "recover" => q = p

\* The same of a recovery that its runner no longer sees to the end.
Removals ==
    \A p \in Runner, r \in Revision : Sent(p, r, "absent") =>
        /\ Incomplete(r) /\ schema[r] = "absent"
        /\ \A q \in Runner : /\ ~Entering(q) /\ ~Pending(q, r) /\ ~Sent(q, r, "applied")
                             /\ Sent(q, r, "absent") => q = p

Stepwise ==
    /\ Witnessed /\ AncestorClosed(Applied(history))
    /\ \A p \in Runner : Local(p)
    /\ RowsOfUpgrades /\ Grounded /\ Recorders /\ Recoveries /\ Removals

\* A step that keeps no downgrade behind it.
Advances(p) ==
    /\ TypeOK /\ Structure /\ Stepwise /\ Implicit /\ ~undone
    /\ StepOf(p) /\ ~undone'

LEMMA Facts ==
    ASSUME NEW p \in Runner, Advances(p)
    PROVE  /\ TypeOK /\ CallShape(p) /\ Local(p) /\ Frame(p) /\ StepOf(p) /\ Implicit
           /\ tx[p] \in Transaction /\ orphan[p] \in Transaction
           /\ ~(tx[p].locked /\ orphan[p].locked)
           /\ \A q \in Runner \ {p} : Same(q)
BY FrameOfStep, SlotTypes DEF Advances, Structure, OneLock, Stepwise, Frame

\* A statement runs here only for an upgrade.
LEMMA RunsUpgrade ==
    ASSUME NEW p \in Runner, Advances(p), RunsCommitting(p)
    PROVE  kind[p] = "apply" /\ cur[p] \in Revision /\ cur'[p] = cur[p] /\ pc[p] \in {"first", "second"}
<1>1. pc[p] \in {"first", "second"} /\ cur'[p] = cur[p] /\ undone' = (undone \/ kind[p] = "rollback")
  BY DEF RunsCommitting, SameCall
<1>2. ~undone'
  BY DEF Advances
<1>3. kind[p] # "rollback"
  BY <1>1, <1>2
<1>4. cur[p] \in Revision /\ kind[p] # "recover"
  BY <1>1, Facts DEF CallShape, AtRevision, AtWork, Upgrade
<1>5. kind[p] \in {"apply", "rollback", "recover"}
  BY Facts DEF TypeOK
<1>. QED
  BY <1>1, <1>3, <1>4, <1>5

LEMMA AtFirstOrigin ==
    ASSUME NEW p \in Runner, Advances(p), NEW q \in Runner, NEW c \in Revision, AtFirst(q, c)'
    PROVE  \/ AtFirst(q, c) /\ ~RunsCommitting(q)
           \/ q = p /\ TakesUpgrade(p, c)
<1>1. CASE q # p
  BY <1>1, Facts DEF Same, SameCall, AtFirst, RunsCommitting, AfterStatement
<1>2. CASE q = p
  <2>1. pc'[p] = "first" /\ kind'[p] = "apply" /\ cur'[p] = c
    BY <1>2 DEF AtFirst
  <2>2. TakesUpgrade(p, c) \/ Ends(p)
    BY <2>1, Facts DEF StepOf, Waits, Quiet, TakesUpgrade, TakesDowngrade, TakesRecovery, TakesRecord, Takes,
           RunsPending, RunsCommitting, AfterStatement, Marks, WritesFailure, FallsBack, Commits, Releases,
           Stopped
  <2>3. CASE Ends(p)
    BY <1>2, <2>1, <2>3 DEF Ends, SameCall, AtFirst, RunsCommitting, AfterStatement
  <2>. QED
    BY <1>2, <2>2, <2>3
<1>. QED
  BY <1>1, <1>2

LEMMA SentOrigin ==
    ASSUME NEW p \in Runner, Advances(p), NEW q \in Runner, NEW c, NEW row, Sent(q, c, row)'
    PROVE  \/ Sent(q, c, row) /\ ~(q = p /\ Ends(p))
           \/ /\ q = p /\ Releases(p) /\ pc[p] \in {"commit", "recorded"}
              /\ tx[p].rev = c /\ tx[p].row = row
<1>. USE NoTxFields
<1>1. CASE q # p
  BY <1>1, Facts DEF Same, Sent
<1>2. CASE q = p /\ Releases(p)
  <2>1. CASE orphan'[p] = orphan[p]
    BY <1>2, <2>1 DEF Sent, Ends
  <2>2. ASSUME NEW b \in BOOLEAN, orphan'[p] = [tx[p] EXCEPT !.sent = b],
               b => pc[p] \in {"commit", "recorded"}
        PROVE  pc[p] \in {"commit", "recorded"} /\ tx[p].rev = c /\ tx[p].row = row
    BY <1>2, <2>2, Facts DEF Sent, Transaction
  <2>. QED
    BY <1>2, <2>1, <2>2 DEF Releases, Sent, Ends
<1>3. CASE q = p /\ Ends(p)
  BY <1>3 DEF Ends, Sent
<1>4. CASE q = p /\ ~Releases(p) /\ ~Ends(p)
  <2>1. orphan'[p] = orphan[p]
    BY <1>4, Facts DEF StepOf, Waits, TakesUpgrade, TakesDowngrade, TakesRecovery, TakesRecord, Takes,
           RunsPending, RunsCommitting, Marks, WritesFailure, FallsBack, Commits
  <2>. QED
    BY <1>4, <2>1 DEF Sent
<1>. QED
  BY <1>1, <1>2, <1>3, <1>4

LEMMA BeyondOrigin ==
    ASSUME NEW p \in Runner, Advances(p), NEW q \in Runner, NEW c \in Revision, Beyond(q, c)'
    PROVE  \/ Beyond(q, c)
           \/ q = p /\ AtFirst(p, c) /\ RunsCommitting(p)
           \/ q = p /\ TakesRecovery(p, c) /\ assume[p]
<1>1. CASE q # p
  BY <1>1, Facts DEF Same, SameCall, Beyond, Sent
<1>2. CASE q = p /\ Sent(p, c, "applied")'
  <2>1. CASE Sent(p, c, "applied")
    BY <1>2, <2>1 DEF Beyond
  <2>2. CASE Releases(p) /\ pc[p] \in {"commit", "recorded"} /\ tx[p].rev = c /\ tx[p].row = "applied"
    <3>1. pc[p] = "commit" /\ cur[p] = c
      BY <2>2, Facts DEF CallShape
    <3>. QED
      BY <1>2, <2>2, <3>1 DEF Beyond
  <2>. QED
    BY <1>2, <2>1, <2>2, SentOrigin
<1>3. CASE q = p /\ pc'[p] \in {"second", "mark"} /\ cur'[p] = c
  <2>1. CASE RunsCommitting(p)
    BY <1>3, <2>1, RunsUpgrade DEF AtFirst, Beyond, RunsCommitting, AfterStatement
  <2>2. CASE Ends(p)
    BY <1>3, <2>2 DEF Ends, SameCall, Beyond
  <2>. QED
    BY <1>3, <2>1, <2>2, Facts DEF StepOf, Waits, Quiet, TakesUpgrade, TakesDowngrade, TakesRecovery,
       TakesRecord, Takes, RunsPending, Marks, WritesFailure, FallsBack, Commits, Releases, Stopped
<1>4. CASE q = p /\ pc'[p] = "commit" /\ tx'[p].row = "applied" /\ cur'[p] = c
  <2>1. ASSUME NEW r \in Revision, TakesRecovery(p, r) PROVE TakesRecovery(p, c) /\ assume[p]
    BY <1>4, <2>1 DEF TakesRecovery, Taken
  <2>2. CASE Marks(p)
    BY <1>4, <2>2 DEF Marks, SameCall, Beyond
  <2>3. CASE Ends(p)
    BY <1>4, <2>3 DEF Ends, SameCall, Beyond
  <2>. QED
    BY <1>4, <2>1, <2>2, <2>3, Facts DEF StepOf, Waits, Quiet, TakesUpgrade, TakesDowngrade,
       TakesRecord, Takes, RunsPending, RunsCommitting, AfterStatement, WritesFailure, FallsBack, Commits,
       Releases, Stopped
<1>. QED
  BY <1>1, <1>2, <1>3, <1>4 DEF Beyond

LEMMA LandingOrigin ==
    ASSUME NEW p \in Runner, Advances(p), NEW q \in Runner, NEW c \in Revision, Landing(q, c)'
    PROVE  \/ Landing(q, c)
           \/ q = p /\ (TakesUpgrade(p, c) \/ (TakesRecovery(p, c) /\ assume[p]))
BY AtFirstOrigin, BeyondOrigin DEF Landing

LEMMA RecordingOrigin ==
    ASSUME NEW p \in Runner, Advances(p), NEW q \in Runner, NEW r \in Revision, Recording(q, r)'
    PROVE  \/ Recording(q, r)
           \/ q = p /\ TakesRecord(p) /\ cur[p] = r
<1>1. CASE q # p
  BY <1>1, Facts DEF Same, SameCall, Recording, Sent
<1>2. CASE q = p /\ Sent(p, r, "failed")'
  <2>1. CASE Releases(p) /\ pc[p] \in {"commit", "recorded"} /\ tx[p].rev = r /\ tx[p].row = "failed"
    <3>1. pc[p] = "recorded" /\ cur[p] = r
      BY <2>1, Facts DEF CallShape, Local
    <3>. QED
      BY <1>2, <3>1 DEF Recording
  <2>. QED
    BY <1>2, <2>1, SentOrigin DEF Recording
<1>3. CASE q = p /\ pc'[p] \in {"write", "recorded"} /\ cur'[p] = r
  <2>1. CASE TakesRecord(p)
    BY <1>3, <2>1 DEF TakesRecord
  <2>2. CASE WritesFailure(p)
    BY <1>3, <2>2 DEF WritesFailure, SameCall, Recording
  <2>3. CASE Ends(p)
    BY <1>3, <2>3 DEF Ends, SameCall, Recording
  <2>. QED
    BY <1>3, <2>1, <2>2, <2>3, Facts DEF StepOf, Waits, Quiet, TakesUpgrade, TakesDowngrade, TakesRecovery,
       Takes, RunsPending, RunsCommitting, AfterStatement, Marks, FallsBack, Commits, Releases, Stopped
<1>. QED
  BY <1>1, <1>2, <1>3 DEF Recording

LEMMA PendingOrigin ==
    ASSUME NEW p \in Runner, Advances(p), NEW q \in Runner, NEW r \in Revision, Pending(q, r)'
    PROVE  \/ Pending(q, r) /\ assume'[q] = assume[q] /\ ~(q = p /\ Commits(p))
           \/ q = p /\ Waits(p) /\ Recoverable(r, assume'[p])
<1>1. CASE q # p
  BY <1>1, Facts DEF Same, SameCall, Pending
<1>2. CASE q = p /\ Waits(p)
  <2>1. ~Commits(p)
    BY <1>2 DEF Waits, Commits, Quiet
  <2>. QED
    BY <1>2, <2>1 DEF Waits, Pending
<1>3. CASE q = p /\ ~Waits(p)
  <2>1. SameCall(p) \/ (kind'[p] = kind[p] /\ todo'[p] = todo[p] /\ assume'[p] = assume[p]) \/ kind'[p] # "recover"
    BY <1>3, Facts DEF StepOf, TakesUpgrade, TakesDowngrade, TakesRecovery, TakesRecord, Takes,
       RunsPending, RunsCommitting, Marks, WritesFailure, FallsBack, Commits, Releases, Ends, Stopped
  <2>2. Pending(p, r) /\ assume'[p] = assume[p]
    BY <1>3, <2>1 DEF Pending, SameCall
  <2>3. ~Commits(p)
    BY <1>3 DEF Commits, Stopped, Pending
  <2>. QED
    BY <1>3, <2>2, <2>3
<1>. QED
  BY <1>1, <1>2, <1>3

LEMMA EnteringOrigin ==
    ASSUME NEW p \in Runner, Advances(p), NEW q \in Runner, Entering(q)'
    PROVE  Entering(q) \/ (Waits(p) /\ \A r \in Revision : ~Incomplete(r))
<1>1. CASE q # p
  BY <1>1, Facts DEF Same, SameCall, Entering
<1>2. CASE q = p /\ Waits(p)
  BY <1>2 DEF Waits, Quiet, Entering, Entered, Incoherent, Incomplete
<1>3. CASE q = p /\ ~Waits(p)
  <2>1. kind'[p] # "recover" /\ pc'[p] \in Entered
    BY <1>3 DEF Entering
  <2>2. pc[p] \in Entered
    BY <1>3, <2>1, Facts DEF StepOf, TakesUpgrade, TakesDowngrade, TakesRecovery, TakesRecord, Takes,
       RunsPending, RunsCommitting, AfterStatement, Marks, WritesFailure, FallsBack, Commits, Releases,
       Ends, Stopped, Entered, Upgrade
  <2>3. kind[p] # "recover"
    BY <1>3, <2>1, Facts DEF StepOf, TakesUpgrade, TakesDowngrade, TakesRecovery, TakesRecord, Takes, SameCall,
       RunsPending, RunsCommitting, AfterStatement, Marks, WritesFailure, FallsBack, Commits, Releases,
       Ends, Stopped, Entered, Upgrade, CallShape
  <2>. QED
    BY <1>3, <2>2, <2>3 DEF Entering
<1>. QED
  BY <1>1, <1>2, <1>3

LEMMA RecoveringOrigin ==
    ASSUME NEW p \in Runner, Advances(p), NEW q \in Runner, kind'[q] = "recover"
    PROVE  kind[q] = "recover" \/ (q = p /\ Waits(p) /\ ~Recovering)
<1>1. CASE q # p
  BY <1>1, Facts DEF Same, SameCall
<1>2. CASE q = p
  BY <1>2, Facts DEF StepOf, Waits, Recoverable, TakesUpgrade, TakesDowngrade, TakesRecovery, TakesRecord,
     Takes, RunsPending, RunsCommitting, Marks, WritesFailure, FallsBack, Commits, Releases, Ends, Stopped,
     SameCall
<1>. QED
  BY <1>1, <1>2

\* What a step does to the history.
PostsRunning(p, r) ==
    history' = [history EXCEPT ![r] = "running"] /\ RunsCommitting(p) /\ AtFirst(p, r)
PostsApplied(p, r) ==
    /\ history' = [history EXCEPT ![r] = "applied"] /\ schema' = schema
    /\ \/ Commits(p) /\ pc[p] = "commit" /\ tx[p].row = "applied" /\ cur[p] = r
       \/ Ends(p) /\ Sent(p, r, "applied")
PostsFailed(p, r) ==
    /\ history' = [history EXCEPT ![r] = "failed"] /\ schema' = schema
    /\ \/ Commits(p) /\ pc[p] = "recorded" /\ cur[p] = r
       \/ Ends(p) /\ Sent(p, r, "failed")
PostsAbsent(p, r) ==
    /\ history' = [history EXCEPT ![r] = "absent"] /\ schema' = schema
    /\ \/ Commits(p) /\ pc[p] = "commit" /\ kind[p] = "recover" /\ cur[p] = r /\ ~assume[p]
       \/ Ends(p) /\ Sent(p, r, "absent")

LEMMA HistoryChange ==
    ASSUME NEW p \in Runner, Advances(p), history' # history
    PROVE  \E r \in Revision :
              PostsRunning(p, r) \/ PostsApplied(p, r) \/ PostsFailed(p, r) \/ PostsAbsent(p, r)
<1>1. CASE RunsCommitting(p)
  <2>1. tx[p].row # "none"
    BY <1>1 DEF RunsCommitting, HistoryAfter
  <2>2. pc[p] = "first" /\ kind[p] = "apply" /\ cur[p] \in Revision
    BY <1>1, <2>1, RunsUpgrade, Facts DEF Local
  <2>3. tx[p].row = "running" /\ tx[p].rev = cur[p]
    BY <2>2, Facts DEF CallShape, Upgrade
  <2>4. PostsRunning(p, cur[p])
    BY <1>1, <2>2, <2>3 DEF PostsRunning, AtFirst, RunsCommitting, HistoryAfter
  <2>. QED
    BY <2>2, <2>4
<1>2. CASE Commits(p)
  <2>1. tx[p].row # "none" /\ schema' = schema
    BY <1>2, Facts DEF Commits, HistoryAfter, SchemaAfter, Local
  <2>2. /\ pc[p] \in {"commit", "recorded"} /\ tx[p].rev = cur[p] /\ cur[p] \in Revision
        /\ history' = [history EXCEPT ![cur[p]] = tx[p].row]
    BY <1>2, <2>1, Facts DEF Commits, HistoryAfter, CallShape, AtRevision, AtWork
  <2>3. CASE pc[p] = "recorded"
    <3>1. PostsFailed(p, cur[p])
      BY <1>2, <2>1, <2>2, <2>3, Facts DEF PostsFailed, CallShape
    <3>. QED
      BY <2>2, <3>1
  <2>4. CASE pc[p] = "commit" /\ tx[p].row = "applied"
    <3>1. PostsApplied(p, cur[p])
      BY <1>2, <2>1, <2>2, <2>4 DEF PostsApplied
    <3>. QED
      BY <2>2, <3>1
  <2>5. CASE pc[p] = "commit" /\ tx[p].row # "applied"
    <3>1. kind[p] = "recover" /\ ~assume[p] /\ tx[p].row = "absent"
      BY <2>5, Facts DEF Local, CallShape
    <3>2. PostsAbsent(p, cur[p])
      BY <1>2, <2>1, <2>2, <2>5, <3>1 DEF PostsAbsent
    <3>. QED
      BY <2>2, <3>2
  <2>. QED
    BY <2>2, <2>3, <2>4, <2>5
<1>3. CASE Ends(p)
  <2>1. orphan[p].sent /\ orphan[p].row # "none" /\ schema' = schema
        /\ history' = [history EXCEPT ![orphan[p].rev] = orphan[p].row]
    BY <1>3, Facts DEF Ends, HistoryAfter, SchemaAfter, Local
  <2>2. orphan[p].rev \in Revision /\ orphan[p].row \in {"applied", "absent", "failed"}
    BY <2>1, Facts DEF Local
  <2>3. \/ PostsApplied(p, orphan[p].rev) \/ PostsFailed(p, orphan[p].rev)
        \/ PostsAbsent(p, orphan[p].rev)
    BY <1>3, <2>1, <2>2 DEF PostsApplied, PostsFailed, PostsAbsent, Sent
  <2>. QED
    BY <2>2, <2>3
<1>4. CASE Kept
  BY <1>4 DEF Kept
<1>. QED
  BY <1>1, <1>2, <1>3, <1>4, Facts DEF StepOf, Waits, TakesUpgrade, TakesDowngrade, TakesRecovery,
     TakesRecord, Takes, RunsPending, Marks, WritesFailure, FallsBack, Releases

LEMMA SchemaChange ==
    ASSUME NEW p \in Runner, Advances(p), schema' # schema
    PROVE  RunsCommitting(p) /\ \E e \in Effect : schema' = [schema EXCEPT ![cur[p]] = e]
<1>1. CASE Commits(p) \/ Ends(p)
  BY <1>1, Facts DEF Commits, Ends, SchemaAfter, Local
<1>2. CASE RunsCommitting(p)
  BY <1>2 DEF RunsCommitting
<1>3. CASE Kept
  BY <1>3 DEF Kept
<1>. QED
  BY <1>1, <1>2, <1>3, Facts DEF StepOf, Waits, TakesUpgrade, TakesDowngrade, TakesRecovery,
     TakesRecord, Takes, RunsPending, Marks, WritesFailure, FallsBack, Releases

\* The parts of Stepwise before a step.
LEMMA BeforeStep ==
    ASSUME NEW p \in Runner, Advances(p)
    PROVE  /\ Witnessed /\ AncestorClosed(Applied(history)) /\ \A q \in Runner : Local(q)
           /\ RowsOfUpgrades /\ Grounded /\ Recorders /\ Recoveries /\ Removals
           /\ history \in [Revision -> Row] /\ schema \in [Revision -> Effect]
           /\ \A q \in Runner : CallShape(q)
           /\ \A q, q2 \in Runner : HasLock(q) /\ HasLock(q2) => q = q2
BY DEF Advances, Stepwise, TypeOK, Structure, OneLock

LEMMA PostsAppliedFacts ==
    ASSUME NEW p \in Runner, Advances(p), NEW r \in Revision, PostsApplied(p, r)
    PROVE  /\ Beyond(p, r) /\ history[r] # "absent"
           /\ Entering(p) \/ (Pending(p, r) /\ Commits(p)) \/ (Sent(p, r, "applied") /\ Ends(p))
<1>1. Beyond(p, r)
  BY DEF PostsApplied, Beyond
<1>2. history[r] # "absent"
  BY <1>1, BeforeStep DEF RowsOfUpgrades
<1>3. Entering(p) \/ (Pending(p, r) /\ Commits(p)) \/ (Sent(p, r, "applied") /\ Ends(p))
  BY Facts DEF PostsApplied, Entering, Entered, Pending, CallShape
<1>. QED
  BY <1>1, <1>2, <1>3

LEMMA PostsFailedFacts ==
    ASSUME NEW p \in Runner, Advances(p), NEW r \in Revision, PostsFailed(p, r)
    PROVE  Recording(p, r) /\ HasLock(p) /\ pc[p] # "first"
BY Facts DEF PostsFailed, Recording, HasLock, CallShape, Local, Sent, Commits

LEMMA PostsRunningFacts ==
    ASSUME NEW p \in Runner, Advances(p), NEW r \in Revision, PostsRunning(p, r)
    PROVE  history[r] = "absent" /\ Entering(p) /\ AtFirst(p, r) /\ tx[p].locked
BY Facts, BeforeStep DEF PostsRunning, AtFirst, RowsOfUpgrades, Entering, Entered, CallShape

LEMMA PostsAbsentFacts ==
    ASSUME NEW p \in Runner, Advances(p), NEW r \in Revision, PostsAbsent(p, r)
    PROVE  /\ Incomplete(r) /\ schema[r] = "absent"
           /\ (Pending(p, r) /\ Commits(p)) \/ (Sent(p, r, "absent") /\ Ends(p))
           /\ \A q \in Runner : ~Beyond(q, r)
<1>1. (Pending(p, r) /\ Commits(p) /\ ~assume[p]) \/ (Sent(p, r, "absent") /\ Ends(p))
  BY Facts DEF PostsAbsent, Pending, CallShape
<1>2. Incomplete(r) /\ schema[r] = "absent" /\ \A q \in Runner : ~Entering(q) /\ ~Sent(q, r, "applied")
  BY <1>1, BeforeStep DEF Recoveries, Removals
<1>3. \A q \in Runner : Pending(q, r) => q = p /\ ~assume[p]
  BY <1>1, BeforeStep DEF Recoveries, Removals, Pending
<1>4. ASSUME NEW q \in Runner, Beyond(q, r) PROVE FALSE
  <2>1. CASE pc[q] \in {"second", "mark"}
    BY <1>2, <2>1, BeforeStep DEF Local, Entering, Entered
  <2>2. CASE pc[q] = "commit" /\ tx[q].row = "applied" /\ cur[q] = r
    BY <1>2, <1>3, <2>2, BeforeStep DEF Entering, Entered, Pending, CallShape
  <2>. QED
    BY <1>2, <1>4, <2>1, <2>2 DEF Beyond
<1>. QED
  BY <1>1, <1>2, <1>4

LEMMA AppliedAfter ==
    ASSUME NEW p \in Runner, Advances(p), NEW c \in Revision
    PROVE  /\ history'[c] = "applied" => history[c] = "applied" \/ Landing(p, c)
           /\ history[c] = "applied" => history'[c] = "applied" \/ Recording(p, c)
           /\ history'[c] = "absent" => history[c] = "absent" \/ PostsAbsent(p, c)
<1>1. history \in [Revision -> Row]
  BY BeforeStep
<1>2. CASE history' = history
  BY <1>2
<1>3. ASSUME NEW r \in Revision, PostsRunning(p, r) PROVE history'[c] = history[c] \/ (c = r /\ history[c] = "absent" /\ history'[c] = "running")
  BY <1>1, <1>3, PostsRunningFacts DEF PostsRunning
<1>4. ASSUME NEW r \in Revision, PostsApplied(p, r) PROVE history'[c] = history[c] \/ (Landing(p, c) /\ history'[c] = "applied")
  BY <1>1, <1>4, PostsAppliedFacts DEF PostsApplied, Landing
<1>5. ASSUME NEW r \in Revision, PostsFailed(p, r) PROVE history'[c] = history[c] \/ (Recording(p, c) /\ history'[c] = "failed")
  BY <1>1, <1>5, PostsFailedFacts DEF PostsFailed
<1>6. ASSUME NEW r \in Revision, PostsAbsent(p, r)
      PROVE  history'[c] = history[c] \/ (PostsAbsent(p, c) /\ history[c] # "applied" /\ history'[c] = "absent")
  <2>1. history'[c] = history[c] \/ (c = r /\ history'[c] = "absent")
    BY <1>1, <1>6 DEF PostsAbsent
  <2>. QED
    BY <1>6, <2>1, PostsAbsentFacts DEF Incomplete
<1>. QED
  BY <1>2, <1>3, <1>4, <1>5, <1>6, HistoryChange

LEMMA ClosedKept ==
    ASSUME NEW p \in Runner, Advances(p)
    PROVE  AncestorClosed(Applied(history))'
<1>. SUFFICES ASSUME NEW r \in Revision, history'[r] = "applied", NEW s \in Parents[r]
              PROVE  s \in Revision /\ history'[s] = "applied"
  BY DEF AncestorClosed, Applied
<1>1. s \in Revision
  BY MigrationAssumption
<1>2. s = r \/ history[s] = "applied"
  <2>1. CASE history[r] = "applied"
    BY <2>1, BeforeStep DEF AncestorClosed, Applied
  <2>2. CASE Landing(p, r)
    BY <2>2, BeforeStep DEF Grounded, Applied
  <2>. QED
    BY <2>1, <2>2, AppliedAfter
<1>3. ~Recording(p, s) \/ s = r
  BY <1>1, BeforeStep, AppliedAfter DEF Recorders
<1>. QED
  BY <1>1, <1>2, <1>3, AppliedAfter

LEMMA GroundedKept ==
    ASSUME NEW p \in Runner, Advances(p)
    PROVE  Grounded'
<1>. SUFFICES ASSUME NEW q \in Runner, NEW c \in Revision, Landing(q, c)', NEW s \in Parents[c], s # c
              PROVE  s \in Revision /\ history'[s] = "applied"
  BY DEF Grounded, Applied
<1>1. s \in Revision
  BY MigrationAssumption
<1>2. CASE Landing(q, c)
  BY <1>1, <1>2, BeforeStep, AppliedAfter DEF Grounded, Recorders, Applied
<1>3. CASE TakesUpgrade(p, c)
  BY <1>1, <1>3 DEF TakesUpgrade, Takes, Kept, Applied
<1>4. CASE TakesRecovery(p, c) /\ assume[p]
  BY <1>1, <1>4 DEF TakesRecovery, Takes, Kept, Applied, AncestorClosed
<1>. QED
  BY <1>2, <1>3, <1>4, LandingOrigin

LEMMA RecordersKept ==
    ASSUME NEW p \in Runner, Advances(p)
    PROVE  Recorders'
<1>. SUFFICES ASSUME NEW q \in Runner, NEW r \in Revision, Recording(q, r)',
                     NEW c \in Revision \ {r}, r \in Parents[c]
              PROVE  history'[c] # "applied" /\ \A q2 \in Runner : ~Landing(q2, c)'
  BY DEF Recorders
<1>1. CASE Recording(q, r)
  <2>1. history[c] # "applied" /\ \A q2 \in Runner : ~Landing(q2, c)
    BY <1>1, BeforeStep DEF Recorders
  <2>2. HasLock(q)
    BY <1>1, BeforeStep DEF Recording, HasLock, CallShape, Local, Sent
  <2>3. ~TakesUpgrade(p, c) /\ ~TakesRecovery(p, c)
    BY <2>2, FreeOfLocks DEF TakesUpgrade, TakesRecovery, Takes
  <2>. QED
    BY <2>1, <2>3, LandingOrigin, AppliedAfter
<1>2. CASE q = p /\ TakesRecord(p) /\ cur[p] = r
  <2>1. history' = history /\ history[r] # "applied"
    BY <1>2 DEF TakesRecord, Takes, Kept
  <2>2. history[c] # "applied" /\ \A q2 \in Runner : ~Landing(q2, c)
    BY <2>1, BeforeStep DEF AncestorClosed, Applied, Grounded
  <2>3. ~TakesUpgrade(p, c) /\ ~TakesRecovery(p, c)
    BY <1>2 DEF TakesUpgrade, TakesRecovery, TakesRecord, Takes
  <2>. QED
    BY <2>1, <2>2, <2>3, LandingOrigin
<1>. QED
  BY <1>1, <1>2, RecordingOrigin

LEMMA RowsKept ==
    ASSUME NEW p \in Runner, Advances(p)
    PROVE  RowsOfUpgrades'
<1>1. ASSUME NEW q \in Runner, NEW c \in Revision, AtFirst(q, c)' PROVE history'[c] = "absent"
  <2>1. CASE AtFirst(q, c) /\ ~RunsCommitting(q)
    <3>1. history[c] = "absent" /\ tx[q].locked /\ pc[q] = "first"
      BY <2>1, BeforeStep DEF RowsOfUpgrades, AtFirst, CallShape
    <3>2. ASSUME NEW r \in Revision, PostsRunning(p, r) PROVE FALSE
      BY <2>1, <3>1, <3>2, PostsRunningFacts, BeforeStep DEF HasLock, PostsRunning
    <3>3. ASSUME NEW r \in Revision, PostsApplied(p, r) PROVE history'[c] = "absent"
      BY <3>1, <3>3, PostsAppliedFacts, BeforeStep DEF PostsApplied
    <3>4. ASSUME NEW r \in Revision, PostsFailed(p, r) PROVE FALSE
      BY <3>1, <3>4, PostsFailedFacts, BeforeStep DEF HasLock
    <3>5. ASSUME NEW r \in Revision, PostsAbsent(p, r) PROVE history'[c] = "absent"
      BY <3>1, <3>5, BeforeStep DEF PostsAbsent
    <3>. QED
      BY <3>1, <3>2, <3>3, <3>4, <3>5, HistoryChange
  <2>2. CASE TakesUpgrade(p, c)
    BY <2>2, BeforeStep DEF TakesUpgrade, Takes, Kept, Incoherent, Row
  <2>. QED
    BY <1>1, <2>1, <2>2, AtFirstOrigin
<1>2. ASSUME NEW q \in Runner, NEW c \in Revision, Beyond(q, c)' PROVE history'[c] # "absent"
  <2>1. CASE Beyond(q, c)
    BY <2>1, BeforeStep, AppliedAfter, PostsAbsentFacts DEF RowsOfUpgrades
  <2>2. CASE AtFirst(p, c) /\ RunsCommitting(p)
    <3>1. tx[p].row = "running" /\ tx[p].rev = c
      BY <2>2, Facts DEF AtFirst, CallShape, Upgrade
    <3>2. history' = [history EXCEPT ![c] = "running"]
      BY <2>2, <3>1 DEF RunsCommitting, HistoryAfter
    <3>. QED
      BY <3>2, BeforeStep
  <2>3. CASE TakesRecovery(p, c)
    BY <2>3 DEF TakesRecovery, Takes, Kept
  <2>. QED
    BY <1>2, <2>1, <2>2, <2>3, BeyondOrigin
<1>. QED
  BY <1>1, <1>2 DEF RowsOfUpgrades

LEMMA SchemaNeedsEntering ==
    ASSUME NEW p \in Runner, Advances(p), \A q \in Runner : ~Entering(q)
    PROVE  schema' = schema
BY SchemaChange, RunsUpgrade DEF Entering, Entered

LEMMA WitnessedKept ==
    ASSUME NEW p \in Runner, Advances(p)
    PROVE  Witnessed'
<1>. SUFFICES ASSUME NEW s \in Revision, schema'[s] # "absent" PROVE history'[s] # "absent"
  BY DEF Witnessed
<1>1. CASE schema' = schema
  BY <1>1, BeforeStep, AppliedAfter, PostsAbsentFacts DEF Witnessed
<1>2. CASE schema' # schema
  <2>1. PICK e \in Effect : RunsCommitting(p) /\ schema' = [schema EXCEPT ![cur[p]] = e]
    BY <1>2, SchemaChange
  <2>2. pc'[p] \in {"second", "mark"} /\ cur'[p] = cur[p] /\ cur[p] \in Revision
    BY <1>2, <2>1, RunsUpgrade DEF RunsCommitting, AfterStatement
  <2>3. CASE s = cur[p]
    <3>1. Beyond(p, s)'
      BY <2>2, <2>3 DEF Beyond
    <3>. QED
      BY <3>1, RowsKept DEF RowsOfUpgrades
  <2>4. CASE s # cur[p]
    <3>1. history[s] # "absent"
      BY <2>1, <2>2, <2>4, BeforeStep DEF Witnessed
    <3>2. ~PostsAbsent(p, s)
      BY <1>2 DEF PostsAbsent
    <3>. QED
      BY <3>1, <3>2, AppliedAfter
  <2>. QED
    BY <2>3, <2>4
<1>. QED
  BY <1>1, <1>2

\* Nobody who enters while a revision is incomplete.
LEMMA NoneEntersIncomplete ==
    ASSUME NEW p \in Runner, Advances(p), NEW r \in Revision, Incomplete(r),
           \A q \in Runner : ~Entering(q)
    PROVE  \A q \in Runner : ~Entering(q)'
BY EnteringOrigin

\* What a runner sends of a revision that nobody upgrades is its recovery.
LEMMA SendsRecovery ==
    ASSUME NEW p \in Runner, Advances(p), NEW r \in Revision, ~Entering(p),
           Releases(p), pc[p] \in {"commit", "recorded"}, tx[p].rev = r, tx[p].row \in {"applied", "absent"}
    PROVE  /\ Pending(p, r) /\ kind'[p] = "apply" /\ Kept
           /\ tx[p].row = "absent" => ~assume[p]
BY Facts DEF Releases, Stopped, Entering, Entered, Pending, CallShape, Local, SameCall

LEMMA RecoveriesKept ==
    ASSUME NEW p \in Runner, Advances(p)
    PROVE  Recoveries'
<1>. SUFFICES ASSUME NEW q \in Runner, NEW r \in Revision, Pending(q, r)'
              PROVE  /\ Incomplete(r)'
                     /\ assume'[q] \/ schema'[r] = "absent"
                     /\ \A q2 \in Runner :
                           /\ ~Entering(q2)' /\ ~Sent(q2, r, "applied")' /\ ~Sent(q2, r, "absent")'
                           /\ kind'[q2] = "recover" => q2 = q
  BY DEF Recoveries
<1>1. CASE Pending(q, r) /\ assume'[q] = assume[q] /\ ~(q = p /\ Commits(p))
  <2>1. /\ Incomplete(r) /\ (assume[q] \/ schema[r] = "absent")
        /\ \A q2 \in Runner : /\ ~Entering(q2) /\ ~Sent(q2, r, "applied") /\ ~Sent(q2, r, "absent")
                              /\ kind[q2] = "recover" => q2 = q
    BY <1>1, BeforeStep DEF Recoveries
  <2>2. kind[q] = "recover" /\ kind'[q] = "recover"
    BY <1>1 DEF Pending
  <2>3. Pending(p, r) => p = q
    BY <2>1 DEF Pending
  <2>4. Incomplete(r)'
    <3>1. ASSUME NEW s \in Revision, PostsRunning(p, s) PROVE FALSE
      BY <2>1, <3>1, PostsRunningFacts
    <3>2. ASSUME NEW s \in Revision, PostsApplied(p, s) PROVE Incomplete(r)'
      <4>1. s # r
        BY <1>1, <2>1, <2>3, <3>2, PostsAppliedFacts
      <4>. QED
        BY <2>1, <3>2, <4>1, BeforeStep DEF PostsApplied, Incomplete
    <3>3. ASSUME NEW s \in Revision, PostsFailed(p, s) PROVE Incomplete(r)'
      BY <2>1, <3>3, BeforeStep DEF PostsFailed, Incomplete
    <3>4. ASSUME NEW s \in Revision, PostsAbsent(p, s) PROVE Incomplete(r)'
      <4>1. s # r
        BY <1>1, <2>1, <2>3, <3>4, PostsAbsentFacts
      <4>. QED
        BY <2>1, <3>4, <4>1, BeforeStep DEF PostsAbsent, Incomplete
    <3>. QED
      BY <2>1, <3>1, <3>2, <3>3, <3>4, HistoryChange DEF Incomplete
  <2>5. schema' = schema
    BY <2>1, SchemaNeedsEntering
  <2>6. ASSUME NEW q2 \in Runner, NEW row \in {"applied", "absent"}, Sent(q2, r, row)' PROVE FALSE
    <3>1. Releases(p) /\ pc[p] \in {"commit", "recorded"} /\ tx[p].rev = r /\ tx[p].row = row
      BY <2>1, <2>6, SentOrigin
    <3>2. Pending(p, r) /\ kind'[p] = "apply"
      BY <2>1, <2>6, <3>1, SendsRecovery
    <3>. QED
      BY <2>2, <2>3, <3>2
  <2>7. \A q2 \in Runner : ~Entering(q2)'
    BY <2>1, NoneEntersIncomplete
  <2>8. \A q2 \in Runner : kind'[q2] = "recover" => q2 = q
    BY <2>1, <2>2, RecoveringOrigin DEF Recovering
  <2>. QED
    BY <1>1, <2>1, <2>4, <2>5, <2>6, <2>7, <2>8
<1>2. CASE q = p /\ Waits(p) /\ Recoverable(r, assume'[p])
  <2>1. /\ history' = history /\ schema' = schema /\ orphan'[p] = orphan[p]
        /\ Incomplete(r) /\ (assume'[p] \/ schema[r] = "absent")
        /\ \A q2 \in Runner : pc[q2] \notin Entered /\ orphan[q2].rev # r /\ kind[q2] # "recover"
    BY <1>2 DEF Waits, Kept, Recoverable, Incomplete, Recovering
  <2>2. \A q2 \in Runner : ~Sent(q2, r, "applied")' /\ ~Sent(q2, r, "absent")'
    BY <2>1, Facts DEF Sent, Same
  <2>3. \A q2 \in Runner : ~Entering(q2)'
    BY <2>1, NoneEntersIncomplete DEF Entering
  <2>4. \A q2 \in Runner : kind'[q2] = "recover" => q2 = q
    BY <1>2, <2>1, RecoveringOrigin
  <2>. QED
    BY <1>2, <2>1, <2>2, <2>3, <2>4 DEF Incomplete
<1>. QED
  BY <1>1, <1>2, PendingOrigin

LEMMA RemovalsKept ==
    ASSUME NEW p \in Runner, Advances(p)
    PROVE  Removals'
<1>. SUFFICES ASSUME NEW q \in Runner, NEW r \in Revision, Sent(q, r, "absent")'
              PROVE  /\ Incomplete(r)' /\ schema'[r] = "absent"
                     /\ \A q2 \in Runner :
                           /\ ~Entering(q2)' /\ ~Pending(q2, r)' /\ ~Sent(q2, r, "applied")'
                           /\ Sent(q2, r, "absent")' => q2 = q
  BY DEF Removals
<1>1. CASE Sent(q, r, "absent") /\ ~(q = p /\ Ends(p))
  <2>1. /\ Incomplete(r) /\ schema[r] = "absent"
        /\ \A q2 \in Runner : /\ ~Entering(q2) /\ ~Pending(q2, r) /\ ~Sent(q2, r, "applied")
                              /\ Sent(q2, r, "absent") => q2 = q
    BY <1>1, BeforeStep DEF Removals
  <2>2. Incomplete(r)'
    <3>1. ASSUME NEW s \in Revision, PostsRunning(p, s) PROVE FALSE
      BY <2>1, <3>1, PostsRunningFacts
    <3>2. ASSUME NEW s \in Revision, PostsApplied(p, s) PROVE Incomplete(r)'
      <4>1. s # r
        BY <2>1, <3>2, PostsAppliedFacts
      <4>. QED
        BY <2>1, <3>2, <4>1, BeforeStep DEF PostsApplied, Incomplete
    <3>3. ASSUME NEW s \in Revision, PostsFailed(p, s) PROVE Incomplete(r)'
      BY <2>1, <3>3, BeforeStep DEF PostsFailed, Incomplete
    <3>4. ASSUME NEW s \in Revision, PostsAbsent(p, s) PROVE Incomplete(r)'
      <4>1. s # r
        BY <1>1, <2>1, <3>4, PostsAbsentFacts
      <4>. QED
        BY <2>1, <3>4, <4>1, BeforeStep DEF PostsAbsent, Incomplete
    <3>. QED
      BY <2>1, <3>1, <3>2, <3>3, <3>4, HistoryChange DEF Incomplete
  <2>3. schema' = schema
    BY <2>1, SchemaNeedsEntering
  <2>4. ASSUME NEW q2 \in Runner, NEW row \in {"applied", "absent"}, Sent(q2, r, row)' PROVE Sent(q2, r, row)
    <3>1. CASE Releases(p) /\ pc[p] \in {"commit", "recorded"} /\ tx[p].rev = r /\ tx[p].row = row
      BY <2>1, <2>4, <3>1, SendsRecovery
    <3>. QED
      BY <2>4, <3>1, SentOrigin
  <2>5. ASSUME NEW q2 \in Runner, Pending(q2, r)' PROVE FALSE
    <3>1. Recoverable(r, assume'[p])
      BY <2>1, <2>5, PendingOrigin
    <3>. QED
      BY <1>1, <3>1 DEF Recoverable, Sent
  <2>6. \A q2 \in Runner : ~Entering(q2)'
    BY <2>1, NoneEntersIncomplete
  <2>. QED
    BY <2>1, <2>2, <2>3, <2>4, <2>5, <2>6
<1>2. CASE q = p /\ Releases(p) /\ pc[p] \in {"commit", "recorded"} /\ tx[p].rev = r /\ tx[p].row = "absent"
  <2>1. kind[p] = "recover"
    BY <1>2, Facts DEF CallShape, Local
  <2>2. ~Entering(p)
    BY <2>1 DEF Entering
  <2>3. Pending(p, r) /\ kind'[p] = "apply" /\ Kept /\ ~assume[p]
    BY <1>2, <2>2, SendsRecovery
  <2>4. /\ Incomplete(r) /\ schema[r] = "absent"
        /\ \A q2 \in Runner : /\ ~Entering(q2) /\ ~Sent(q2, r, "applied") /\ ~Sent(q2, r, "absent")
                              /\ kind[q2] = "recover" => q2 = p
    BY <2>3, BeforeStep DEF Recoveries
  <2>5. \A q2 \in Runner : ~Entering(q2)'
    BY <2>4, NoneEntersIncomplete
  <2>6. ASSUME NEW q2 \in Runner, Pending(q2, r)' PROVE FALSE
    <3>1. q2 # p /\ kind[q2] = "recover"
      BY <2>3, <2>6, PendingOrigin DEF Pending
    <3>. QED
      BY <2>4, <3>1
  <2>7. \A q2 \in Runner : ~Sent(q2, r, "applied")' /\ (Sent(q2, r, "absent")' => q2 = q)
    BY <1>2, <2>4, SentOrigin
  <2>. QED
    BY <2>3, <2>4, <2>5, <2>6, <2>7 DEF Kept, Incomplete
<1>. QED
  BY <1>1, <1>2, SentOrigin

LEMMA LocalKept ==
    ASSUME NEW p \in Runner, Advances(p)
    PROVE  \A q \in Runner : Local(q)'
<1>. USE NoTxFields
<1>1. \A q \in Runner \ {p} : Local(q)'
  BY Facts, BeforeStep DEF Same, SameCall, Local
<1>. SUFFICES Local(p)'
  BY <1>1
<1>2. CASE Waits(p)
  BY <1>2, Facts DEF Waits, Quiet, Local
<1>3. ASSUME NEW r \in Revision, TakesUpgrade(p, r) \/ TakesDowngrade(p, r) PROVE Local(p)'
  BY <1>3, Facts DEF TakesUpgrade, TakesDowngrade, Takes, Taken, Local
<1>4. ASSUME NEW r \in Revision, TakesRecovery(p, r) PROVE Local(p)'
  BY <1>4, Facts DEF TakesRecovery, Takes, Taken, Local
<1>5. CASE TakesRecord(p)
  BY <1>5, Facts DEF TakesRecord, Takes, Taken, Local
<1>6. CASE RunsCommitting(p)
  <2>1. /\ tx'[p] = [tx[p] EXCEPT !.locked = FALSE, !.row = "none"] /\ orphan'[p] = orphan[p]
        /\ pc'[p] \in {"undo", "second", "mark"} /\ kind'[p] = kind[p]
    BY <1>6 DEF RunsCommitting, SameCall, AfterStatement
  <2>2. tx'[p].row = "none" /\ tx'[p].effect = tx[p].effect
    BY <2>1, Facts DEF Transaction
  <2>3. kind[p] = "apply"
    BY <1>6, RunsUpgrade
  <2>. QED
    BY <2>1, <2>2, <2>3, Facts DEF Local
<1>7. CASE Marks(p)
  <2>1. cur[p] \in Revision /\ kind[p] = "apply" /\ tx[p].row = "none"
    BY <1>7, Facts DEF Marks, CallShape, AtRevision, AtWork, Upgrade, Local
  <2>2. history[cur[p]] # "absent"
    BY <1>7, <2>1, BeforeStep DEF Marks, RowsOfUpgrades, Beyond
  <2>3. View(p)[cur[p]] # "absent"
    BY <2>1, <2>2 DEF View, HistoryAfter
  <2>. QED
    BY <1>7, <2>1, <2>3, Facts DEF Marks, SameCall, Local, Transaction
<1>8. CASE WritesFailure(p)
  BY <1>8, Facts DEF WritesFailure, SameCall, Local, Transaction
<1>9. CASE FallsBack(p)
  BY <1>9, Facts DEF FallsBack, SameCall, Local
<1>10. CASE Commits(p)
  BY <1>10, Facts DEF Commits, Stopped, Local
<1>11. CASE Releases(p)
  <2>1. pc'[p] \in {"idle", "record"} /\ tx'[p] = NoTx
    BY <1>11 DEF Releases, Stopped
  <2>2. CASE orphan'[p] = orphan[p]
    BY <2>1, <2>2, Facts DEF Local
  <2>3. ASSUME NEW b \in BOOLEAN, orphan'[p] = [tx[p] EXCEPT !.sent = b],
               b => pc[p] \in {"commit", "recorded"}
        PROVE  Local(p)'
    <3>1. /\ orphan'[p].sent = b /\ orphan'[p].row = tx[p].row /\ orphan'[p].rev = tx[p].rev
          /\ orphan'[p].effect = tx[p].effect /\ orphan'[p].locked = tx[p].locked
      BY <2>3, Facts DEF Transaction
    <3>2. b => /\ tx[p].row \in {"applied", "absent", "failed", "none"} /\ tx[p].rev \in Revision
               /\ tx[p].row = "failed" => tx[p].locked
      BY <2>3, Facts DEF CallShape, AtRevision, AtWork, Local
    <3>. QED
      BY <2>1, <3>1, <3>2, Facts DEF Local
  <2>. QED
    BY <1>11, <2>2, <2>3 DEF Releases
<1>12. CASE Ends(p)
  BY <1>12, Facts DEF Ends, SameCall, Local
<1>. QED
  BY <1>2, <1>3, <1>4, <1>5, <1>6, <1>7, <1>8, <1>9, <1>10, <1>11, <1>12, Facts DEF StepOf, RunsPending

LEMMA StepwiseKeptByCalls ==
    ASSUME NEW p \in Runner, Advances(p)
    PROVE  Stepwise'
BY ClosedKept, GroundedKept, RecordersKept, RowsKept, WitnessedKept, RecoveriesKept, RemovalsKept,
   LocalKept DEF Stepwise

-----------------------------------------------------------------------------
(* The invariant, and what follows.                                        *)

IInv ==
    /\ TypeOK /\ Structure
    /\ ~Implicit => Atomic
    /\ Implicit => undone \/ Stepwise

LEMMA InitTypes ==
    ASSUME Init
    PROVE  TypeOK
<1>1. registered \in [Runner -> SUBSET Revision]
  BY DEF Init
<1>2. history \in [Revision -> Row] /\ schema \in [Revision -> Effect]
  BY DEF Init, Row, Effect
<1>3. tx \in [Runner -> Transaction] /\ orphan \in [Runner -> Transaction]
  BY NoTxIsTransaction DEF Init
<1>4. /\ todo \in [Runner -> SUBSET Revision] /\ known \in [Runner -> SUBSET Revision]
      /\ cur \in [Runner -> Revision \cup {0}] /\ seen \in [Runner -> Row]
      /\ assume \in [Runner -> BOOLEAN]
  BY DEF Init, Row
<1>5. /\ pc \in [Runner -> {"idle", "look", "create", "seed", "read", "lock", "first", "second", "mark",
                          "commit", "undo", "record", "write", "recorded"}]
      /\ kind \in [Runner -> {"apply", "rollback", "recover"}]
  BY DEF Init
<1>6. provider \in Providers /\ table \in {"none", "made", "seeded"} /\ undone \in BOOLEAN
  BY DEF Init
<1>7. calls \in 0 .. MaxCalls
  BY MigrationAssumption DEF Init
<1>. QED
  BY <1>1, <1>2, <1>3, <1>4, <1>5, <1>6, <1>7 DEF TypeOK

LEMMA InitHolds ==
    ASSUME Init
    PROVE  IInv
<1>. USE NoTxFields
<1>1. TypeOK
  BY InitTypes
<1>2. \A p \in Runner : tx[p] = NoTx /\ orphan[p] = NoTx /\ pc[p] = "idle" /\ kind[p] = "apply"
                        /\ ~assume[p] /\ todo[p] = {}
  BY DEF Init
<1>3. Structure
  BY <1>2 DEF Structure, OneLock, HasLock, CallShape, AtRevision, AtWork, Upgrade, Entered
<1>4. Applied(history) = {} /\ \A r \in Revision : history[r] = "absent" /\ schema[r] = "absent"
  BY DEF Init, Applied
<1>5. Truth(history, schema) /\ AncestorClosed(Applied(history))
  BY <1>4 DEF Truth, AncestorClosed
<1>6. Atomic
  BY <1>2, <1>5 DEF Atomic, Whole, Upgrade
<1>7. \A p \in Runner, r \in Revision :
         ~Landing(p, r) /\ ~Recording(p, r) /\ ~Pending(p, r) /\ ~Sent(p, r, "absent")
  BY <1>2 DEF Landing, AtFirst, Beyond, Recording, Pending, Sent
<1>8. Stepwise
  BY <1>2, <1>4, <1>5, <1>7 DEF Stepwise, Witnessed, Local, RowsOfUpgrades, Landing, Grounded, Recorders,
     Recoveries, Removals
<1>. QED
  BY <1>1, <1>3, <1>6, <1>8 DEF IInv

LEMMA UndoneStays ==
    ASSUME NEW p \in Runner, StepOf(p)
    PROVE  undone => undone'
BY DEF StepOf, Waits, TakesUpgrade, TakesDowngrade, TakesRecovery, TakesRecord, Takes, RunsPending,
       RunsCommitting, Marks, WritesFailure, FallsBack, Commits, Releases, Ends, Kept

LEMMA CallsKeep ==
    ASSUME IInv, NEW p \in Runner, Acts(p)
    PROVE  IInv'
<1>1. TypeOK /\ Structure /\ CallShape(p) /\ AtRevision(p)
  BY DEF IInv, Structure, CallShape
<1>2. StepOf(p)
  BY <1>1, EveryActIsAStep
<1>3. TypeOK' /\ Structure'
  BY <1>1, <1>2, TypeKeptByCalls, StructureKept
<1>4. Implicit' = Implicit
  BY <1>2, FrameOfStep DEF Implicit, Frame
<1>5. ~Implicit => Atomic'
  BY <1>1, <1>2, AtomicKeptByCalls DEF IInv
<1>6. CASE Implicit /\ ~undone'
  <2>1. Advances(p)
    BY <1>1, <1>2, <1>6, UndoneStays DEF Advances, IInv
  <2>2. Stepwise'
    BY <2>1, StepwiseKeptByCalls
  <2>. QED
    BY <1>3, <1>4, <1>6, <2>2 DEF IInv
<1>7. CASE ~(Implicit /\ ~undone')
  BY <1>3, <1>4, <1>5, <1>7 DEF IInv
<1>. QED
  BY <1>6, <1>7

\* The operator repairs when nothing runs.
LEMMA RepairKeeps ==
    ASSUME IInv, NEW r \in Revision, Repair(r)
    PROVE  IInv'
<1>. USE NoTxFields
<1>1. /\ UNCHANGED <<provider, registered, table, history, tx, orphan, undone, pc, kind, todo, cur, known,
                     seen, assume, calls>>
      /\ schema' = [schema EXCEPT ![r] = "absent"] /\ schema[r] = "partial"
      /\ \A q \in Runner : pc[q] = "idle" /\ orphan[q] = NoTx
  BY DEF Repair, local
<1>2. TypeOK'
  BY <1>1 DEF IInv, TypeOK, Effect
<1>3. Structure'
  BY <1>1 DEF IInv, Structure, OneLock, HasLock, CallShape, AtRevision
<1>4. Implicit
  BY <1>1 DEF IInv, Atomic, Truth
<1>5. CASE Stepwise
  <2>1. Witnessed'
    BY <1>1, <1>5 DEF IInv, TypeOK, Stepwise, Witnessed
  <2>2. AncestorClosed(Applied(history))' /\ (\A p \in Runner : Local(p))' /\ RowsOfUpgrades' /\ Grounded'
        /\ Recorders'
    BY <1>1, <1>5 DEF Stepwise, AncestorClosed, Applied, Local, RowsOfUpgrades, Grounded, Recorders, AtFirst,
       Beyond, Landing, Recording, Sent
  <2>3. \A p \in Runner, s \in Revision : ~Pending(p, s)' /\ ~Sent(p, s, "absent")'
    BY <1>1 DEF IInv, Structure, CallShape, Pending, Sent
  <2>4. Recoveries' /\ Removals'
    BY <2>3 DEF Recoveries, Removals
  <2>. QED
    BY <1>1, <1>2, <1>3, <1>4, <2>1, <2>2, <2>4 DEF IInv, Implicit, Stepwise
<1>6. CASE undone
  BY <1>1, <1>2, <1>3, <1>4, <1>6 DEF IInv, Implicit
<1>. QED
  BY <1>4, <1>5, <1>6 DEF IInv

LEMMA StutterKeeps ==
    ASSUME IInv, UNCHANGED vars
    PROVE  IInv'
<1>. USE DEF vars, remote, local
<1>1. TypeOK'
  BY DEF IInv, TypeOK
<1>2. Structure'
  BY DEF IInv, Structure, OneLock, HasLock, CallShape, AtRevision
<1>3. Implicit' = Implicit /\ undone' = undone
  BY DEF Implicit
<1>4. ~Implicit => Atomic'
  BY DEF IInv, Atomic, Whole
<1>5. Stepwise => Stepwise'
  BY DEF Stepwise, Witnessed, AncestorClosed, Applied, Local, RowsOfUpgrades, Grounded, Recorders,
     Recoveries, Removals, AtFirst, Beyond, Landing, Recording, Sent, Pending, Incomplete, Entering
<1>. QED
  BY <1>1, <1>2, <1>3, <1>4, <1>5 DEF IInv

LEMMA IInvHolds == Spec => []IInv
<1>1. IInv /\ [Next]_vars => IInv'
  <2>1. ASSUME IInv, Next PROVE IInv'
    BY <2>1, CallsKeep, RepairKeeps DEF Next, Acts
  <2>. QED
    BY <2>1, StutterKeeps
<1>. QED
  BY <1>1, InitHolds, PTL DEF Spec

\* The variables of the runners and of the database keep their types.
THEOREM MigrationTypes == Spec => []TypeOK
<1>1. IInv => TypeOK
  BY DEF IInv
<1>. QED
  BY <1>1, IInvHolds, PTL

\* For any number of runners and any graph of revisions, whatever fails, dies or
\* answers late: where DDL is transactional the history of MigrationRunner says
\* of each revision what the schema holds; where it commits, no effect is there
\* without a row, until a downgrade has run.
THEOREM HistoryStaysTrue == Spec => []HistoryIsTrue
<1>1. IInv => HistoryIsTrue
  BY DEF IInv, HistoryIsTrue, Atomic, Truth, Stepwise, Witnessed
<1>. QED
  BY <1>1, IInvHolds, PTL

\* No interleaving of upgrades, downgrades and recoveries applies a revision
\* whose parents are not applied, or takes a parent away (where DDL commits,
\* until a downgrade has run).
THEOREM AncestorsStayApplied == Spec => []AncestorsApplied
<1>1. IInv => AncestorsApplied
  BY DEF IInv, AncestorsApplied, Atomic, Stepwise
<1>. QED
  BY <1>1, IInvHolds, PTL
===============================================================================
