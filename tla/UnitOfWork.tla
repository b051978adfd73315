----------------------------- MODULE UnitOfWork -----------------------------
(***************************************************************************)
(* OrmSession and AsyncOrmSession (plenora-database-py: orm.py): several   *)
(* units of work, each over a transaction of its own, on the versioned     *)
(* rows of one table.  A flush is a sequence of statements between which   *)
(* other sessions run and the hooks of the application make more work.     *)
(*                                                                         *)
(* An instance has a key, one more attribute and the version; a session    *)
(* holds one instance of a key at a time and has one savepoint at a time.  *)
(* One task uses a session.  Relationships, inheritance, generated keys,   *)
(* batches and what a session that ends gives back to its instances are    *)
(* left out.                                                               *)
(***************************************************************************)
EXTENDS Integers

CONSTANTS
    Session, Key, Value,
    NoValue, NoKey,
    MaxOps         \* bound on what the applications do, all together

ASSUME UnitOfWorkAssumption ==
    /\ NoValue \notin Value /\ NoKey \notin Key /\ MaxOps \in Nat
    /\ "nothing" \notin Value /\ "gone" \notin Value

VARIABLES
    db,        \* committed rows
    tx,        \* per session: the rows that its transaction wrote
    obj,       \* per session: identity map, pending and deleted instances
    mark,      \* per session: _savepoints and the server's, none or one
    pc,        \* where a session is
    call,      \* the call in progress, and the key it is about
    todo,      \* what this part of the flush has still to visit
    dirty,     \* the dirty instances, as the round saw them
    held,      \* refresh: the dirty flag put aside
    want,      \* history: what the application asked of a row
    mixed,     \* history: keys whose version says less than their value
    ever,      \* history: keys that have had a row
    ops        \* operations of the applications so far

place == <<pc, call, todo, dirty, held>>
vars == <<db, tx, obj, mark, place, want, mixed, ever, ops>>

Row == [val : Value \cup {NoValue}, ver : Nat]
Transaction == [wrote : SUBSET Key, rows : [Key -> Row]]
Instance == [st : {"none", "pending", "persistent", "deleted", "erased"}, val : Value \cup {NoValue},
             oval : Value \cup {NoValue}, ver : Nat, dirty : BOOLEAN]
Wish == {"nothing", "gone"} \cup Value

Absent == [val |-> NoValue, ver |-> 0]
NoTx == [wrote |-> {}, rows |-> [k \in Key |-> Absent]]
None == [st |-> "none", val |-> NoValue, oval |-> NoValue, ver |-> 0, dirty |-> FALSE]
NoCall == [op |-> "none", key |-> NoKey]
NoWants == [k \in Key |-> "nothing"]
Flushing == {"round", "insert", "update", "delete"}

\* What a statement of s finds: its own writes, or what is committed.
View(s, k) == IF k \in tx[s].wrote THEN tx[s].rows[k] ELSE db[k]

\* _identity_map: an instance leaves it when its row is deleted.
Mapped(s) == {k \in Key : obj[s][k].st \in {"persistent", "deleted"}}
DirtyInstances(s) == {k \in Mapped(s) : obj[s][k].dirty}
HasFlushWork(s) == DirtyInstances(s) # {} \/ \E k \in Key : obj[s][k].st \in {"pending", "deleted"}

\* The type invariant.
TypeOK ==
    /\ db \in [Key -> Row] /\ mixed \subseteq Key /\ ever \subseteq Key /\ ops \in 0 .. MaxOps
    /\ tx \in [Session -> Transaction] /\ obj \in [Session -> [Key -> Instance]]
    /\ want \in [Session -> [Key -> Wish]]
    /\ mark \in [Session -> SUBSET [obj : [Key -> Instance], tx : Transaction, want : [Key -> Wish]]]
    /\ pc \in [Session -> {"idle", "run", "ended"} \cup Flushing]
    /\ call \in [Session -> [op : {"none", "flush", "commit", "savepoint", "get", "refresh", "update", "delete"},
                              key : Key \cup {NoKey}]]
    /\ todo \in [Session -> SUBSET Key] /\ dirty \in [Session -> SUBSET Key]
    /\ held \in [Session -> BOOLEAN]

Init ==
    /\ db \in [Key -> {Absent} \cup [val : Value, ver : {1}]]
    /\ ever = {k \in Key : db[k] # Absent}
    /\ tx = [s \in Session |-> NoTx] /\ obj = [s \in Session |-> [k \in Key |-> None]]
    /\ mark = [s \in Session |-> {}] /\ want = [s \in Session |-> NoWants]
    /\ pc = [s \in Session |-> "idle"] /\ call = [s \in Session |-> NoCall]
    /\ todo = [s \in Session |-> {}] /\ dirty = [s \in Session |-> {}]
    /\ held = [s \in Session |-> FALSE]
    /\ mixed = {} /\ ops = 0

-----------------------------------------------------------------------------
(* The application, between calls and in the hooks of a flush.             *)

\* The application's turn, counted against the bound MaxOps of the model.
Acts(s, places) ==
    /\ pc[s] \in places /\ ops < MaxOps
    /\ ops' = ops + 1

Wants(s, k, w) == want' = [want EXCEPT ![s][k] = w]

\* MappedColumn.__set__: what the session believes to be there is no change,
\* and what was there when it loaded the instance undoes one.
Assign(s, k, v) ==
    LET o == obj[s][k]
        changes == o.st = "persistent" /\ o.val # v
    IN  /\ Acts(s, {"idle"} \cup Flushing) /\ o.st \in {"pending", "persistent"}
        /\ obj' = [obj EXCEPT ![s][k].val = v, ![s][k].dirty = IF changes THEN v # o.oval ELSE @]
        /\ Wants(s, k, CASE o.st = "pending" \/ (changes /\ v # o.oval) -> v
                         [] changes /\ v = o.oval -> "nothing"
                         [] OTHER -> want[s][k])
        /\ UNCHANGED <<db, tx, mark, place, mixed, ever>>

Add(s, k, v) ==
    /\ Acts(s, {"idle"} \cup Flushing) /\ obj[s][k].st \in {"none", "erased"}
    /\ obj' = [obj EXCEPT ![s][k] = [None EXCEPT !.st = "pending", !.val = v]]
    /\ Wants(s, k, v)
    /\ UNCHANGED <<db, tx, mark, place, mixed, ever>>

\* A pending instance is forgotten.  (One that the flush is about to insert
\* makes the flush fail when it is no longer pending: FlushFails.)
Delete(s, k) ==
    /\ Acts(s, {"idle"} \cup Flushing)
    /\ \/ /\ obj[s][k].st = "pending" /\ ~(pc[s] = "insert" /\ k \in todo[s])
          /\ obj' = [obj EXCEPT ![s][k] = None] /\ Wants(s, k, "nothing")
       \/ /\ obj[s][k].st = "persistent"
          /\ obj' = [obj EXCEPT ![s][k].st = "deleted"] /\ Wants(s, k, "gone")
    /\ UNCHANGED <<db, tx, mark, place, mixed, ever>>

Expunge(s, k) ==
    /\ Acts(s, {"idle"}) /\ obj[s][k].st \in {"pending", "persistent", "deleted"}
    /\ obj' = [obj EXCEPT ![s][k] = None] /\ Wants(s, k, "nothing")
    /\ UNCHANGED <<db, tx, mark, place, mixed, ever>>

\* The attribute is as loaded again, and reading it raises until a refresh.
Expired(o) == [o EXCEPT !.val = o.oval, !.dirty = FALSE]

Expire(s, k) ==
    /\ Acts(s, {"idle"}) /\ obj[s][k].st = "persistent"
    /\ obj' = [obj EXCEPT ![s][k] = Expired(@)] /\ Wants(s, k, "nothing")
    /\ UNCHANGED <<db, tx, mark, place, mixed, ever>>

-----------------------------------------------------------------------------
(* A call: a flush, if it makes one, then what it does.                    *)

\* refresh puts the dirty flag of its own instance aside for the autoflush,
\* which then may have nothing to do.
Begin(s, op, k, flushes) ==
    LET o == obj[s]
        aside == op = "refresh" /\ flushes /\ HasFlushWork(s)
    IN  /\ Acts(s, {"idle"})
        /\ call' = [call EXCEPT ![s] = [op |-> op, key |-> k]]
        /\ held' = [held EXCEPT ![s] = aside /\ o[k].dirty]
        /\ obj' = IF aside THEN [obj EXCEPT ![s][k].dirty = FALSE] ELSE obj
        /\ pc' = [pc EXCEPT ![s] = IF flushes /\ (k = NoKey \/ HasFlushWork(s)') THEN "round" ELSE "run"]
        /\ UNCHANGED <<db, tx, mark, todo, dirty, want, mixed, ever>>

\* flush, commit and savepoint flush, the others when autoflush is on.
Call(s) ==
    \/ Begin(s, "flush", NoKey, TRUE) \/ Begin(s, "commit", NoKey, TRUE)
    \/ mark[s] = {} /\ Begin(s, "savepoint", NoKey, TRUE)
    \/ \E k \in Key, autoflush \in BOOLEAN :
          \/ Begin(s, "get", k, autoflush) \/ Begin(s, "refresh", k, autoflush)
          \/ Begin(s, "update", k, autoflush) \/ Begin(s, "delete", k, autoflush)

Goes(s, to) == pc' = [pc EXCEPT ![s] = to]

\* _detach_all: the session is over.
Ends(s, durable) ==
    /\ db' = IF durable THEN [k \in Key |-> View(s, k)] ELSE db
    /\ ever' = ever \cup {k \in Key : db'[k] # Absent}
    /\ tx' = [tx EXCEPT ![s] = NoTx] /\ obj' = [obj EXCEPT ![s] = [k \in Key |-> None]]
    /\ mark' = [mark EXCEPT ![s] = {}] /\ want' = [want EXCEPT ![s] = NoWants]
    /\ todo' = [todo EXCEPT ![s] = {}] /\ dirty' = [dirty EXCEPT ![s] = {}]
    /\ call' = [call EXCEPT ![s] = NoCall] /\ held' = [held EXCEPT ![s] = FALSE]
    /\ Goes(s, "ended")
    /\ UNCHANGED <<mixed, ops>>

-----------------------------------------------------------------------------
(* flush.                                                                  *)

\* A row that another transaction wrote is locked until that ends.
Free(s, k) == \A r \in Session \ {s} : k \notin tx[r].wrote

Writes(s, k, row) ==
    tx' = [tx EXCEPT ![s].wrote = @ \cup {k}, ![s].rows[k] = row]

\* The dirty instances are read before the inserts.
Round(s) ==
    /\ pc[s] = "round"
    /\ dirty' = [dirty EXCEPT ![s] = DirtyInstances(s)]
    /\ todo' = [todo EXCEPT ![s] = {k \in Key : obj[s][k].st = "pending"}]
    /\ Goes(s, "insert")
    /\ UNCHANGED <<db, tx, obj, mark, call, held, want, mixed, ever, ops>>

Visits(s, k, part) ==
    /\ pc[s] = part /\ k \in todo[s]
    /\ todo' = [todo EXCEPT ![s] = @ \ {k}]
    /\ UNCHANGED <<db, mark, pc, call, dirty, held, want, ever, ops>>

\* The first version is 1, also of a key that had a row before.
Insert(s, k) ==
    LET o == obj[s][k]
    IN  /\ Visits(s, k, "insert")
        /\ o.st = "pending" /\ Free(s, k) /\ View(s, k) = Absent
        /\ Writes(s, k, [val |-> o.val, ver |-> 1])
        /\ obj' = [obj EXCEPT ![s][k] = [st |-> "persistent", val |-> o.val, oval |-> o.val,
                                         ver |-> 1, dirty |-> FALSE]]
        /\ mixed' = mixed \cup ({k} \cap ever)

\* WHERE version = ...: the row is the one that the instance knows.
Matches(s, k) == View(s, k).ver = obj[s][k].ver

\* Fault: the version stays.
UpdateSameVersion(s, k) ==
    LET o == obj[s][k]
    IN  /\ Visits(s, k, "update")
        /\ o.st \in {"persistent", "deleted"} /\ o.dirty /\ Free(s, k) /\ Matches(s, k)
        /\ Writes(s, k, [val |-> o.val, ver |-> o.ver])
        /\ obj' = [obj EXCEPT ![s][k].oval = o.val, ![s][k].dirty = FALSE]
        /\ UNCHANGED mixed

\* before_update may have deleted the instance: its row is updated first.
Update(s, k) ==
    LET o == obj[s][k]
    IN  /\ Visits(s, k, "update")
        /\ o.st \in {"persistent", "deleted"} /\ o.dirty /\ Free(s, k) /\ Matches(s, k)
        /\ Writes(s, k, [val |-> o.val, ver |-> o.ver + 1])
        /\ obj' = [obj EXCEPT ![s][k].ver = o.ver + 1, ![s][k].oval = o.val, ![s][k].dirty = FALSE]
        /\ UNCHANGED mixed

\* Deleted meanwhile, or clean again.
UpdateNothing(s, k) ==
    /\ Visits(s, k, "update")
    /\ ~(obj[s][k].st = "persistent" /\ obj[s][k].dirty)
    /\ UNCHANGED <<tx, obj, mixed>>

DeleteRow(s, k) ==
    /\ Visits(s, k, "delete")
    /\ Free(s, k) /\ Matches(s, k)
    /\ Writes(s, k, Absent)
    /\ obj' = [obj EXCEPT ![s][k].st = "erased", ![s][k].dirty = FALSE]
    /\ UNCHANGED mixed

\* Fault: one round is enough.
PartDoneOnce(s) ==
    /\ todo[s] = {}
    /\ \/ pc[s] = "insert" /\ Goes(s, "update") /\ todo' = [todo EXCEPT ![s] = dirty[s]]
       \/ /\ pc[s] = "update" /\ Goes(s, "delete")
          /\ todo' = [todo EXCEPT ![s] = {k \in Key : obj[s][k].st = "deleted"}]
       \/ pc[s] = "delete" /\ Goes(s, "run") /\ UNCHANGED todo
    /\ dirty' = [dirty EXCEPT ![s] = IF pc[s] = "insert" THEN {} ELSE @]
    /\ UNCHANGED <<db, tx, obj, mark, call, held, want, mixed, ever, ops>>

\* Inserts, updates, deletes; then another round while there is work.
PartDone(s) ==
    /\ todo[s] = {}
    /\ \/ pc[s] = "insert" /\ Goes(s, "update") /\ todo' = [todo EXCEPT ![s] = dirty[s]]
       \/ /\ pc[s] = "update" /\ Goes(s, "delete")
          /\ todo' = [todo EXCEPT ![s] = {k \in Key : obj[s][k].st = "deleted"}]
       \/ /\ pc[s] = "delete" /\ UNCHANGED todo
          /\ Goes(s, IF HasFlushWork(s) THEN "round" ELSE "run")
    /\ dirty' = [dirty EXCEPT ![s] = IF pc[s] = "insert" THEN {} ELSE @]
    /\ UNCHANGED <<db, tx, obj, mark, call, held, want, mixed, ever, ops>>

\* Any error, a stale row, a conflict or a hook's own: the transaction is
\* rolled back and the session is over.
FlushFails(s) == pc[s] \in Flushing /\ Ends(s, FALSE)

-----------------------------------------------------------------------------
(* What a call does after its flush.                                       *)

Running(s, op) == pc[s] = "run" /\ call[s].op = op

Returns(s) ==
    /\ Goes(s, "idle")
    /\ call' = [call EXCEPT ![s] = NoCall] /\ held' = [held EXCEPT ![s] = FALSE]
    /\ UNCHANGED <<db, todo, dirty, ever, ops>>

Flushed(s) == Running(s, "flush") /\ Returns(s) /\ UNCHANGED <<tx, obj, mark, want, mixed>>

Loaded(row) ==
    [st |-> "persistent", val |-> row.val, oval |-> row.val, ver |-> row.ver, dirty |-> FALSE]

\* get and _hydrate: what is in the identity map stays as it is there.
Get(s) ==
    LET k == call[s].key
        loads == obj[s][k].st \in {"none", "erased"} /\ View(s, k) # Absent
    IN  /\ Running(s, "get") /\ Returns(s)
        /\ obj' = IF loads THEN [obj EXCEPT ![s][k] = Loaded(View(s, k))] ELSE obj
        /\ want' = IF loads THEN [want EXCEPT ![s][k] = "nothing"] ELSE want
        /\ UNCHANGED <<tx, mark, mixed>>

\* Of a row that is gone, or an instance that is not persistent, it raises.
Refresh(s) ==
    LET k == call[s].key
        loads == obj[s][k].st = "persistent" /\ View(s, k) # Absent
    IN  /\ Running(s, "refresh") /\ Returns(s)
        /\ obj' = IF loads THEN [obj EXCEPT ![s][k] = Loaded(View(s, k))]
                  ELSE [obj EXCEPT ![s][k].dirty = @ \/ held[s]]
        /\ want' = IF loads THEN [want EXCEPT ![s][k] = "nothing"] ELSE want
        /\ UNCHANGED <<tx, mark, mixed>>

\* OrmQuery.update leaves the version alone and expires the instances, up to
\* one that is deleted and not flushed, which raises: a dirty instance that
\* it did not come to is written by the next flush.
BulkUpdate(s, v) ==
    LET k == call[s].key
        live == {j \in Mapped(s) : obj[s][j].st = "persistent"}
        hits == View(s, k) # Absent
    IN  /\ Running(s, "update") /\ Returns(s) /\ Free(s, k)
        /\ tx' = IF hits THEN [tx EXCEPT ![s].wrote = @ \cup {k},
                                         ![s].rows[k] = [View(s, k) EXCEPT !.val = v]] ELSE tx
        /\ mixed' = IF hits THEN mixed \cup {k} ELSE mixed
        /\ \E E \in SUBSET live :
              /\ live = Mapped(s) => E = live
              /\ obj' = [obj EXCEPT ![s] = [j \in Key |-> IF j \in E THEN Expired(@[j]) ELSE @[j]]]
              /\ want' = [want EXCEPT ![s] = [j \in Key |->
                             CASE j = k /\ hits /\ obj[s][k].st \notin {"pending", "deleted"}
                                   /\ k \notin DirtyInstances(s) \ E -> v
                               [] j \in E /\ (j # k \/ ~hits) -> "nothing"
                               [] OTHER -> @[j]]]
        /\ UNCHANGED mark

\* OrmQuery.delete expunges the instances.
BulkDelete(s) ==
    LET k == call[s].key
    IN  /\ Running(s, "delete") /\ Returns(s) /\ Free(s, k)
        /\ IF View(s, k) = Absent THEN UNCHANGED tx ELSE Writes(s, k, Absent)
        /\ obj' = [obj EXCEPT ![s] = [j \in Key |-> IF j \in Mapped(s) THEN None ELSE @[j]]]
        /\ want' = [want EXCEPT ![s] = [j \in Key |->
                       CASE j = k /\ tx' # tx /\ obj[s][k].st # "pending" -> "gone"
                         [] j \in Mapped(s) /\ (j # k \/ tx' = tx) -> "nothing"
                         [] OTHER -> @[j]]]
        /\ UNCHANGED <<mark, mixed>>

\* A statement outside a flush fails: the session goes on.
RunFails(s) ==
    LET k == call[s].key
    IN  /\ pc[s] = "run" /\ call[s].op \in {"get", "refresh", "update", "delete", "savepoint"}
        /\ Returns(s)
        /\ obj' = IF held[s] THEN [obj EXCEPT ![s][k].dirty = TRUE] ELSE obj
        /\ UNCHANGED <<tx, mark, want, mixed>>

-----------------------------------------------------------------------------
(* The savepoint, and the end.                                             *)

\* _capture_savepoint.
Savepoint(s) ==
    /\ Running(s, "savepoint") /\ Returns(s)
    /\ mark' = [mark EXCEPT ![s] = {[obj |-> obj[s], tx |-> tx[s], want |-> want[s]]}]
    /\ UNCHANGED <<tx, obj, want, mixed>>

\* _restore_savepoint: instances and lists as they were captured.
RollbackToSavepoint(s) ==
    \E m \in mark[s] :
        /\ Acts(s, {"idle"})
        /\ tx' = [tx EXCEPT ![s] = m.tx] /\ want' = [want EXCEPT ![s] = m.want]
        /\ obj' = [obj EXCEPT ![s] = m.obj]
        /\ UNCHANGED <<db, mark, place, mixed, ever>>

ReleaseSavepoint(s) ==
    /\ Acts(s, {"idle"}) /\ mark[s] # {}
    /\ mark' = [mark EXCEPT ![s] = {}]
    /\ UNCHANGED <<db, tx, obj, place, want, mixed, ever>>

Commit(s) == Running(s, "commit") /\ Ends(s, TRUE)

\* COMMIT is refused, or its answer is lost.
CommitFails(s) == Running(s, "commit") /\ \E durable \in BOOLEAN : Ends(s, durable)

Rollback(s) == pc[s] = "idle" /\ Ends(s, FALSE)

Next ==
    \E s \in Session :
        \/ \E k \in Key, v \in Value : Assign(s, k, v) \/ Add(s, k, v)
        \/ \E k \in Key : Delete(s, k) \/ Expunge(s, k) \/ Expire(s, k)
        \/ Call(s) \/ Round(s) \/ PartDone(s) \/ FlushFails(s)
        \/ \E k \in Key : Insert(s, k) \/ Update(s, k) \/ UpdateNothing(s, k) \/ DeleteRow(s, k)
        \/ Flushed(s) \/ Get(s) \/ Refresh(s) \/ BulkDelete(s) \/ RunFails(s)
        \/ \E v \in Value : BulkUpdate(s, v)
        \/ Savepoint(s) \/ RollbackToSavepoint(s) \/ ReleaseSavepoint(s)
        \/ Commit(s) \/ CommitFails(s) \/ Rollback(s)

Spec == Init /\ [][Next]_vars

-----------------------------------------------------------------------------
(* Properties.                                                             *)

\* When COMMIT is sent, the transaction holds everything that the application
\* asked for: what the hooks added during the flush as well, and nothing that
\* a savepoint undid.
NothingForgotten ==
    \A s \in Session, k \in Key :
        Running(s, "commit") =>
            CASE want[s][k] = "nothing" -> TRUE
              [] want[s][k] = "gone" -> View(s, k) = Absent
              [] OTHER -> View(s, k).val = want[s][k]

\* The version tells the value: an instance with the version of the row knows
\* its value, so no UPDATE or DELETE, checked by the version alone, overwrites
\* what its session has not seen; and what the session itself wrote, or took
\* back to its savepoint, never makes its own instance stale.  A bulk update,
\* and a row that is deleted and inserted again, break that.
VersionsAreTrue ==
    \A s \in Session : \A k \in Mapped(s) \ mixed :
        /\ Matches(s, k) => View(s, k).val = obj[s][k].oval
        /\ k \in tx[s].wrote => Matches(s, k)
=============================================================================
