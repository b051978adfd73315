# Formal models of plenora-database-tools

TLA+ models of the parts of this repository that are concurrent, or that must survive
failures: cancellation tokens, the application engine, resource budgets, the retry
executor, the writes and the transactions of the five database adapters, the
PostgreSQL connection pool, and the migrations and the unit of work of the Python ORM.
TLC checks them on small instances; TLAPS proves their safety invariants and action
properties for every value of the constants.

Paths below are relative to the repository. `tla/PROJECT.json` gives, for every
definition, the source lines it models, and for every checked property, a change of
the code that would break it.

## 1. The system

A Rust workspace that reads, writes and administers databases through one contract.
An application (Rust, the command line or Python) opens an `Engine`, then sessions,
then transactions; the engine calls a *provider*, one adapter per database, which
speaks to the server. All calls are `async` on tokio, and every future may be dropped
at any await; anything may be cancelled from another thread, or by a deadline.

| Part | State it keeps | Operations | Where it is hard | What makes it correct |
|---|---|---|---|---|
| `plenora-database-core`: `cancellation.rs` | per token: first cause, weak children, waiters; one heap of deadlines and one worker thread | `new`, `child_token`, `linked`, `cancel`, `cancelled().await`, drops | lock-free causes; registration racing propagation; wakers; a worker that may fail to start | no cancellation or wakeup is lost, causes are attributed once and rightly |
| core: `resource.rs` | one atomic counter per kind of quota | `try_lease`, `commit`, `release`, `Drop` of a lease | compare-and-swap loops of many operations; settlements that may not fail | quota is neither created, lost nor leaked |
| core: `error.rs`, `outcome.rs`, `transaction.rs`, `ddl_residue.rs` | a ledger of tables that DDL left behind | effect and retry disposition of an error; what a commit is reported as | an unknown outcome must stay unknown through every adjustment | what an error says of the server is true |
| core: checkpoints, row diagnostics | private to one call | resumption, accounting | tables with many corners | planned (section 6) |
| core: plans, types, geometry, identifiers; `plenora-database-sql` | none | validation, codecs, SQL text | none that is concurrent | unit, property and fuzz tests of the repository |
| `plenora-database-engine`: `engine.rs`, lifecycle | `disposed`, session counters; tokens that tie transactions to sessions to the engine | `session`, `begin_*`, `query_stream`, `commit`, `rollback`, `close`, `dispose` | dispose against every other call; tokens held weakly by their parents | dispose reaches what is in flight; counters are exact |
| engine: `engine.rs`, secrets and caches | secret, cached capabilities, cached tables | `rotate_secret`, `capabilities`, `reflect_table`, `invalidate_metadata` | the secret changes while the provider answers | nothing obtained with an old secret is cached or returned |
| engine: `runtime.rs` | leases of the operation and of the batch being filled | reserve, settle, cancel | look at the quota, lease it later; partial failure | every delivered batch was paid for; nothing leaks |
| engine: `retry.rs` | attempt, wait | the retry loop | repeating what may already have happened; a cancellation during a wait | no write is applied twice, every call ends |
| engine: `public_ops.rs`, `runtime_binding.rs`, `statement.rs`, ... | local | publish or abort a sink; request shaping | | not modelled |
| `plenora-db-postgres`: `pool.rs` | a semaphore, one stack of idle clients per fingerprint | `get`, `Drop` of a `PooledClient` | failures and drops between permit and client | bounded, no shared client, no lost permit |
| postgres: `transaction/`, parts of `lib.rs` | `open`, `reusable`, the server's own transaction | begin, execute, read, savepoint, stream, commit, rollback, drop | the server works on after the caller stopped waiting | what is reported is what happened; no dirty session is served |
| postgres: `write.rs`, `write/recovery.rs` | one transaction per attempt | copy, merge, diagnose rows, commit, recover | the answer to COMMIT is lost; the input fails while a batch is on its way | the effect an error reports is true; the client that goes back is clean |
| postgres: reads, catalog, schema cache | cached schemas | streams, validation at each hit | | partly: the budget of a stream |
| `plenora-db-mysql`, `-sqlserver`, `-oracle`, `-db2`: writes | as above, with each server's own session | the same contract | DDL that commits, deadlocks that end a transaction, XACT_ABORT, quarantine, blocking workers | the same, against five servers |
| the same: transactions for a caller | `open`, a session state, savepoints | execute, conditional update, query, stream, savepoint, commit, rollback, drop | a statement after the server ended the transaction commits by itself | nothing escapes a transaction; rollback is true |
| `plenora-database-py`: `orm.py`, migrations | history table, a lock row | apply, rollback, recover | processes that die; DDL that commits; two runners | the history tells what the schema is |
| `orm.py`, unit of work | identity map, pending and deleted instances, savepoints | add, delete, flush, get, refresh, bulk statements, commit | hooks that change what is being flushed; other sessions | nothing asked for is forgotten; no update is lost |
| `plenora-database-cli`, bindings of `-py` | none | | one-shot commands, conversions | not modelled |
| `plenora-database-testkit`, `fuzz`, `benchmarks`, `scripts`, `vendor` | | | | not part of the program, or third party |

How they meet: the engine gives every transaction a token whose parents are the
session's token and the caller's; a provider polls it or races it
with its await and ends its call, but not everywhere: the streams of a SQL Server
transaction and the blocking calls of a Db2 one wait for the answer.
A tabular operation draws on a `ResourceBudget` that many may share. A PostgreSQL
transaction owns a pooled client, whose `Drop` puts the client back in the pool,
where the next transaction finds it with whatever was left on the server.

The hazards, each with its line and the properties aimed at it, are in
`PROJECT.json`. The ones that shaped the models:

- a child registered while its parent is cancelled, a waker stored while it is taken
  (`cancellation.rs:365`, `:511`);
- a parent that holds its children weakly, so that losing one handle cuts a whole
  chain off (`engine.rs:625`);
- a secret rotated during an await (`engine.rs:277`, `:349`);
- a command that runs on after its future was interrupted or dropped
  (`transaction/mod.rs:797`, `lib.rs:1205`), and a COMMIT the server turns into a
  rollback (`:812`);
- a value read from a counter and leased in a later access (`runtime.rs:151`);
- an attempt that is repeated although its effect is unknown (`retry.rs:88`);
- a transaction that the server has ended and the adapter has not noticed
  (`mysql/transaction.rs:136`, `sqlserver/recovery.rs:68`, `db2/transaction.rs:115`);
- a table that an implicit commit leaves behind (`ddl_residue.rs:104`);
- a runner that dies in an upgrade, and a rollback chosen from a stale history
  (`orm.py:1406`, `:1459`);
- a version read long before the UPDATE that relies on it (`orm.py:4588`).

## 2. Modules

| Module | Models | Instance for TLC | Proofs |
|---|---|---|---|
| `Cancellation` | `core/cancellation.rs` | `MCCancellation` | `CancellationProof` |
| `EngineSession` | `engine/engine.rs`: lifecycle, sessions, transactions | `MCEngineSession` | `EngineProof` |
| `EngineCache` | `engine/engine.rs`: secret, capabilities, metadata | `MCEngineCache` | `EngineProof` |
| `BudgetLedger` | what `ResourceBudget` promises (abstract) | | |
| `ResourceBudget` | `core/resource.rs`, `engine/runtime.rs` and the reads and writes that use it | `MCResourceBudget` | `LimitsProof` |
| `PgPool` | `postgres/pool.rs` | `MCPgPool` | `LimitsProof` |
| `PgTransaction` | `postgres/transaction/`, `connect_session` and `open_transaction` of `lib.rs` | `MCPgTransaction` | `PgTransactionProof` |
| `PgServer` | the PostgreSQL server (external), for `PgTransaction` and `PgWrite` | | |
| `ErrorAxes` | `core/error.rs`, `outcome.rs`: phase, effect and retry disposition | | |
| `Retry` | `engine/retry.rs` | | |
| `WriteAttempt` | what the writes of the adapters share: an attempt, its session, its link | | |
| `PgWrite`, `MysqlWrite`, `OracleWrite`, `SqlServerWrite`, `Db2Write` | the Arrow write of each adapter, over `WriteAttempt` | | |
| `AdapterWrites` | composes `Retry` with the five writes | `MCAdapterWrites` | `AdapterWritesProof` |
| `CallerScope` | `core/transaction.rs`, `caller_sql.rs`: the contract of a caller's transaction | | |
| `MysqlScope`, `SqlServerScope`, `OracleScope`, `Db2Scope` | the transaction of each adapter, over `CallerScope` | | |
| `AdapterScopes` | composes the four scopes | `MCAdapterScopes` | `AdapterScopesProof` |
| `Migrations` | `orm.py`: `MigrationRunner`, `AsyncMigrationRunner` | `MCMigrations` | `MigrationsProof` |
| `UnitOfWork` | `orm.py`: `OrmSession`, `AsyncOrmSession` | `MCUnitOfWork` | `UnitOfWorkProof` |

`EngineSession` stands on `Cancellation`: there `cancel` is one step, which is
justified by `NoLostCancellation` below. `ResourceBudget` instantiates `BudgetLedger`
and is checked to implement it. `PgTransaction` contains the part of the pool that
can carry state from one transaction to the next, the set of idle connections;
`PgPool` is the pool itself. `AdapterWrites` and `AdapterScopes` share one set of
variables between the adapters and choose the adapter in the initial state, so that
one set of properties is checked of all of them; `ErrorAxes` is the same in both.

**Cancellation.** One step is one critical section of a token's mutex or one atomic
access. `reason[t]` is the cause set by compare-and-swap, `children[t]` the weak
references, `Live(t)` whether a strong handle is left: one the application holds, one
of a call in progress, or one of a future. The walk of `cancel_tree` is a worklist
(`todo`) of the calling thread: `Pop` sets a cause, `TakeWaiters` takes the waiters,
`Wake` wakes them one at a time, outside the lock, and `Spread` collects the children.
`NewInner`, `Arm`, `Register` and `Check` are `child_token` and `linked`, with the
second look at the parent after the registration. `PollEnter`, `PollRegister`,
`PollArm` and `PollRecheck` are the poll of the `Cancelled` future, which any task may
make. `WorkerLook` and `WorkerTimeout` are the deadline worker, with a heap compacted
at `Threshold`; the worker may fail to start, and then a poll retries a bounded number
of times. A panic of a waker, which the code catches, is left out.

**EngineSession.** A token is named by its role and session (`session`, `linked`,
`inner`, `stream`, `op`, `lent`), since each struct owns at most one of a role.
`dispose` takes two steps (mark under the lock, then cancel), `session` two (count,
then make the token), `begin` two (link, then ask the provider), `close` three. Both
forms of transaction are modelled; the provider answers when it likes, or never.
Dropping a token cuts its descendants off its ancestors.

**EngineCache.** A secret is named by its generation, an object of the database by a
version that other clients change. A call goes through `Enter`, `Snapshot` (read lock,
cached answer unless `refresh`), `Ask` (the provider answers with what it sees then),
`Leave`, `Compare` (metadata only) and `Store` (write lock, generation compared);
an answer to an old secret is asked for again, up to `MaxAttempts` (3 in the code), and
then the call fails as `Transient`. Rotation and dispose take two steps each.

**ResourceBudget.** One step is one load or one compare-and-swap, which may also fail
spuriously (`compare_exchange_weak`). `todo[a]` holds the accesses an operation has
still to make, in the order of the code (`stage[a]` is where in it the operation is), and `seen[a]` the loop's `current`. A reader
looks at four quotas and then leases what it saw; a writer checks and leases what its
batch needs. The memory of a read batch is consumed, that of a written one goes back.
A refused release has no action: `ReturnsFit` shows that the branch is never taken.
`ensure_active` and the duration of a budget are left out: such a refusal changes no
counter, and the deadline is a token's.

**PgPool.** A task waits for a permit, pops an idle client of its fingerprint
or, if there is none or it has ended, connects; it uses the client, and on its `Drop` first
pushes it back (`Return`) and then releases the permit (`Leave`): the order in which
Rust drops the fields. A checkout may fail or be dropped at every point, and a
connection may end at any time. The SQL Server pool has the same design with one key.

**PgTransaction.** The server is external and modelled from how the adapter uses it:
each connection has a FIFO of commands, which the server processes even when nobody
awaits them; a failed statement aborts the transaction; an aborted transaction refuses
all but a rollback, and answers COMMIT without an error. The client goes through
`DISCARD ALL`, the guard, `BEGIN`, the verification and the context to `ready`, then
operations, then commit, rollback or drop. Every await may end with an answer, a
failed link, an interruption (cancellation or deadline), or the drop of the future.
Two history variables only serve the properties: `abandoned`, the connections put
back while a call was being awaited, and `spoiled`, whether a COMMIT met an aborted
transaction.

**Writes (`Retry`, `WriteAttempt`, the five `...Write`, `AdapterWrites`).** The executor
looks at its token, starts an attempt, judges its error by the disposition that
`ErrorAxes` computes, waits and starts again. An attempt is a sequence of *stages*: one
awaited command, or a run of commands that fail alike. Each attempt has a session of
its own with a queue of commands, a link that may break before or after a command
arrives, and a server that goes on with what it has. `work[a]` is what happened on the
server, `table[a]` a table that exists because DDL committed, `told[a]` the answer of
the attempt, `kept` the connections that went back to a pool. The modes are an append,
a row-by-row load with diagnostics, and a create. Per adapter:

- PostgreSQL: reset and checks, BEGIN, copy or rows, diagnosis by savepoint, COMMIT; an
  error before COMMIT is followed by ROLLBACK, whose answer decides the effect; the
  SQLSTATEs that prove a refused COMMIT.
- MySQL: CREATE commits first; every command may be followed by warnings that the
  adapter refuses; a deadlock ends the transaction; engines without transactions keep
  what was written, and a ROLLBACK with a warning says so.
- SQL Server: XACT_ABORT, the session's own record of what may still be rolled back, and
  the quarantine of a session whose answer could not be read.
- Oracle: CREATE and its completion on a first lease, rows on a second (one session in
  the model: they are used in turn); an interrupted command closes the connection.
- Db2: a blocking worker per command, which nothing interrupts; a worker that dies takes
  the connection with it.

**Scopes (`CallerScope`, the four `...Scope`, `AdapterScopes`).** The caller's statements
are numbered; `tx.work` holds those the server's transaction has, `applied` those that
are durable, `promised` those whose call succeeded, `revoked` those a savepoint undid.
A call is started, sends commands, gets answers or loses them, and returns; the scope's
`open`, recovery mode and session state are the fields of the adapter's struct. A scope
may be dropped at any await. `unnoticed` marks the one case excepted from two
properties (section 3, "Seen while modelling").

**Migrations.** Several runners, in processes that may die at any step, apply, undo and
recover revisions. `history` and `schema` are what is committed; `tx[p]` what a runner's
transaction holds, `orphan[p]` a transaction that its runner abandoned and the server
has yet to end. The steps are those of `apply`, `rollback` and `recover`: read the
history, lock the row, read again, mark as running, two statements of the upgrade,
mark as applied, commit; or undo, and record the failure in a second transaction.
The provider "postgres" stands for those whose DDL is transactional and whose CREATE
has IF NOT EXISTS, "db2" for those without, "oracle" for DDL that commits what is
pending and so releases the lock. Runners register the same graph, not always all of it.

**UnitOfWork.** Several sessions, each with a transaction (`tx`: own writes; `db`:
committed rows; a written row is locked), and per key at most one instance: `none`,
`pending`, `persistent`, `deleted` (not flushed) or `erased` (flushed). An instance has
its value, the value and version it was loaded with, and its dirty flag. A call first
flushes, if it does: `Round` reads the dirty and pending instances, then inserts,
updates and deletes go one statement at a time, then another round while there is work.
Between any two steps another session runs, or a hook assigns, adds or deletes.
`want` is history: what the application last asked of a row. `mixed` marks the keys for
which a version no longer tells the value (bulk update, delete and insert again).

## 3. Runs

A run is `tlc -config <cfg> <module>` in this directory; the cfg files are named
after the module and the question. Every passing run has its properties broken by a
mutation of the model, listed in `PROJECT.json`. Each module has a
type invariant, `TypeOK`, which holds in its instance; where a module has proofs it is one
of the theorems, and no run spends its time on it.

| Run | Instance | Shows |
|---|---|---|
| `cancellation_tree` | 2 tokens, 2 threads | `NoLostCancellation`: a live token with a cancelled parent is cancelled, or some running call still owes it. `ParentIsADecision`: the cause Parent only stands below an explicit decision, so a deadline is a deadline in all of its tree. `CancellationReachesChildren`: the live children of a cancelled token end up cancelled |
| `cancellation_wait` | 1 token, 1 thread, the worker, a future polled by 2 tasks; a deadline to come | `NoLostWakeup`: a suspended future of a cancelled token was woken, or its current waker is in the hands of the cancelling call. `CancelledIsObserved`, `DeadlineIsObserved`: a suspended future is polled again after a cancellation, and after a deadline once the worker exists |
| `engine_session` | 2 sessions of either form, 1 caller | `LifecycleReachesUnstreamed`: dispose, close and the caller's token reach every call in flight of a transaction that opened no stream (and of any borrowed one). `LentFollowsSession`: a token lent to the application follows its session. `ActiveSessionsExact`: the counters equal the sessions that exist. `DisposeReachesSessions`: from some moment after dispose on, every token held, lent or looked at by a call in flight is cancelled, with the same exception, whatever the providers do |
| `engine_cache` | 2 tasks, 2 keys, 2 rotations, 2 attempts, DDL, expiry | `CacheIsCurrent`, `AnswersAreCurrent`: nothing obtained with an old secret is cached or answered. `RefreshIsNew`: a refresh answers with what was seen after the call began |
| `budget_mixed` | a spatial reader and a writer | `Conservation`: what is left, lent and spent is the limit. `ReturnsFit`: no settlement is refused. `NothingLeaks`: an operation that ended owes nothing. `DeliveredIsPaid`: what batches hold was consumed from the budget. `ImplementsLedger`: the compare-and-swap loops implement `BudgetLedger`, in which a counter is never below zero |
| `pg_pool` | 3 tasks, 2 permits, 2 fingerprints, 2 clients | `PoolBounded`: per fingerprint, at most `max_connections` clients in use, idle and being opened. `OwnedOnce`: a client has one owner, and one fingerprint. `WaitersServed`: who waits gets a permit, however checkouts fail |
| `pg_transaction` | 2 transactions, 2 connections, 2 operations each | `CommittedIsApplied`: a commit reported and not spoiled was applied. `NotCommittedNotApplied`: what is reported as not committed never is applied. `OwnTransaction`: an operation runs in the transaction its caller began. `PoolIsClean`: an idle connection has no transaction, unless a dropped begin left one, which `DISCARD ALL` then ends |
| `pg_commit_aborted` | 1 transaction, 1 connection | finding 1: `CommittedIsDurable` is violated |
| `adapter_writes` | 5 adapters, 3 modes, 2 attempts, 2 batches | `EffectIsTrue`: an attempt whose error says none or rolled back never becomes visible, whatever is still on its way. `CommittedIsComplete`: a committed write holds every batch received. `FinalIsTrue`: the last answer is true of all attempts together and nothing is applied twice. `KeptIsClean`: a connection in a pool is clean. `NoHiddenResidue`: a table left behind is told or recorded, and its attempt not repeated. `CallEnds` |
| `adapter_scopes` | 4 adapters, 3 statements | `CommittedIsWhole`: a commit reported made durable all that succeeded and nothing a savepoint undid. `NothingEscapes`: nothing is durable before COMMIT is sent. `RolledBackIsUndone`: what is told as rolled back stays so. `KeptIsClean` |
| `orm_migrations` | 2 runners, 2 revisions, 3 providers, 3 calls, crashes | `HistoryIsTrue`: after every crash, failure and lost answer the history tells what the schema is; where DDL commits, no effect is without a row. `AncestorsApplied`: the parents of an applied revision are applied. `CallsEnd` |
| `orm_unit_of_work` | 2 sessions, 1 row, 6 operations | `NothingForgotten`: a COMMIT is sent with all that was asked for, by hooks too, and nothing that a savepoint undid. `VersionsAreTrue`: a version that matches means a value that is known, so no update is lost; own writes never look stale |

**Bounds, and why they are enough.** Two tokens and two threads hold every race of a
creation with a cancellation; chains, forks and tokens with two parents are covered by
the theorems, which need no sizes. A future moved between two tasks is enough for a
stale waker, one tick for every order of a deadline with the rest; a moving clock and
the second token are in runs of their own, since liveness over both is too large.
Two sessions share only the engine's token and counters. Two rotations allow a second
change during the conversion of the answer to the first, and two attempts the error
after the last. Limits of two units with two operations let each quota be taken in
parts and run out. With three tasks for two permits one waits while two hold, in either
key; two clients can both be idle and ended while a third is being opened, which is what
the bound is about. Two transactions and two connections let the second inherit the
first one's connection in any state, or open its own. Two attempts let a late effect of
the first meet the second, and two batches let one be refused while another is on its
way. Three statements allow one before, one inside and one after a savepoint, a failed
statement or the end of a transaction. Two revisions, a child declared before its
parent, with two runners and three calls between them, allow a rollback beside an apply
and a recovery after a crash. Six operations are a whole lost update (two loads, two
assignments, a commit, a flush), or a savepoint, a flush after it, a rollback to it and
a commit; more rows and sessions, whose order within a flush the run does not see, are
covered by the theorems, as are more transactions, connections and statements. Counters that grow without end
(time, generations, versions, identities) are capped.

`CHECK_DEADLOCK FALSE` stands where a system stops: once the tokens, sessions,
generations, transactions, attempts or operations of the instance are used up, nothing
is left to do. The budget and the pool never stop, and there deadlock is checked.

**Fairness.** Assumed only of what runs without the application's will. `Cancellation`:
a call or poll once begun runs on, the executor polls a task that was woken, the worker
runs on, time passes; nobody has to begin a call, drop a handle or poll without being
woken. `EngineSession`: `dispose`, which is synchronous, runs on; a provider need not
answer at all, cancelled or not, since SQL Server (transaction.rs 484-487, 580-584) and
Db2 (transaction.rs 115-152) await without looking at the token: nothing says that a
call ends. `PgPool`: strong
fairness of acquiring a permit, since tokio's semaphore is first come, first served;
weak fairness of the steps of a checkout and of giving a client back (an application
that keeps its client for ever would starve the rest in the code too). `AdapterWrites`:
weak fairness of the executor, of the attempt and of each server, which answers what it
was sent; without the last `CallEnds` would be false for Db2, whose commands cannot be
interrupted. `Migrations`: a runner runs on, and the server ends a transaction that its
client abandoned. Failures, crashes and cancellations are never relied upon.

### Findings

1. `pg_commit_aborted` — `transaction/mod.rs:812`. After a failed statement `open` is
   still true, and the server answers COMMIT without an error while it rolls back; the
   adapter reports `Committed`, which `core/transaction.rs:118` defines as confirmed
   by the server.

### Seen while modelling

Behaviour that the models except, or that needs no run to be seen; each at its line.

- *Owned transactions with a stream* (`engine.rs:625`). An owned transaction keeps the
  only strong handle on the token that ties it to its session and the engine in
  `stream_cancellation`, and `query_stream` overwrites that field. From then on `dispose`
  does not reach the calls of the transaction, although `engine.rs:187` and `:531-533`
  say it does in both forms. `LifecycleReachesUnstreamed` excepts exactly this case;
  without the exception TLC finds it with one session.
- *Streams of SQL Server* (`sqlserver/transaction.rs:464-501`, `:555-593`). An error read
  by `query_stream` or `next_batch` never reaches the session's state. Under XACT_ABORT
  the server has rolled back, the state stays Transaction, the next `execute` runs in
  autocommit and is durable although a later rollback answers Ok (a commit answers
  `OutcomeUnknown`, error 3902). `NothingEscapes` and `RolledBackIsUndone` except it by
  `unnoticed`; without that TLC finds it in six steps. `next_batch` also awaits with
  neither token nor timeout.
- *Conditional updates* that match the wrong number of rows are refused but not undone on
  PostgreSQL, SQL Server, Oracle and Db2, while `core/transaction.rs:258-269` speaks of
  RolledBack; only MySQL undoes them.
- *Counts validated after COMMIT.* PostgreSQL validates the counts of an outcome before
  COMMIT; SQL Server (`write/mod.rs:737`), Oracle (`write.rs:1786`) and Db2
  (`write.rs:1121`) after it, with effect none. Not reachable while the key is unique.
- *MySQL deadlocks* followed by a ROLLBACK whose answer is lost are told as rolled back
  and safe, although a table of an engine without transactions keeps its rows
  (`write.rs:1449`). The model lets such rows survive only behind a warned ROLLBACK.
- *Db2*: after a lost worker `rollback_in_place` returns Ok without a ROLLBACK, which is
  true only because the connection dies with the worker.
- *Read reservations* (`runtime.rs:173`). A reservation called atomic (`:121`) reads the
  quotas and leases them in separate accesses, and a concurrent reader makes it fail
  with quota left, where `:144` says that a quota is exhausted. A result of exactly as
  many rows as the budget allows fails at the reservation that would find its end
  (`:160`).
- *Metadata* (`engine.rs:361`, `:275`). A slow reflection may store what it saw after a
  newer one was stored or after `invalidate_metadata`; and `ensure_open` precedes the
  write lock, so an answer may enter the caches after `dispose` has cleared them. The
  entry expires like any other.
- *The pool's bound* is per fingerprint (`pool.rs:202`): after a rotation the idle clients
  of the old fingerprint stay until they end.
- *`execute_graph`* (`postgres/transaction/mod.rs:505`) changes the search path and restores
  it after the query; a future dropped between leaves it until the transaction ends.
- *Rollback in PostgreSQL*: the comment in `transaction/mod.rs:18-20` says that a cancelled
  rollback has effect `None`; `after_interrupted_send` (`core/error.rs:223-226`) makes it
  `Unknown`.
- *Migrations on Oracle.* DDL releases the lock row. Two rollbacks at once may then both run
  the downgrade, and one delete the row of a later apply; a crash in a downgrade leaves
  "applied" over half of a schema; a recorded failure may overwrite "applied". `HistoryIsTrue`
  and `AncestorsApplied` except the time after a downgrade (`undone`). `recover` cannot tell
  a live "running" from a dead one, so the model runs it beside nothing else.
- *Unit of work.* A bulk update leaves the version alone, and a row deleted and inserted
  again starts at version 1: in both cases a stale instance may match (`mixed`).
  Assigning to an expired attribute the value it had before counts as no change. `merge`
  copies a detached instance's values without comparing versions. Releasing an outer
  savepoint leaves nested names in the session. In `AsyncOrmSession` a second task that
  assigns to an instance during the UPDATE that another task awaits loses the assignment
  (`orm.py:6071`); the model has one task per session.

## 4. Proofs

All theorems hold for every value of the constants allowed by the named assumptions in
the modules (`CancellationAssumption`, `EngineCacheAssumption`, `EngineSessionAssumption`,
`PgPoolAssumption`, `PgTransactionAssumption`, `ResourceBudgetAssumption`,
`ScopeAssumption`, `UnitOfWorkAssumption`, `RetryAssumption`, `WriteAssumption`, `MigrationAssumption`):
the absent values are not members, the bounds are natural numbers, the sets that are
counted are finite. Each proof has an inductive invariant, `IInv` unless named otherwise, which TLC
checked on the instance of the run before the proof was begun; the proof has one step or
lemma per action, and the theorems are its consequences.

**CancellationProof** — `TypeCorrect`, `CancellationNotLost`, `WakeupNotLost`,
`DeadlineStaysDeadline`, `FirstCauseWins`. None of the invariants is inductive alone.
`NoLostCancellation` holds after a step of a walk only if the walk's local state is what
it should be; the inductive invariant `IInv` therefore adds four parts: `CallsOK` (the
local variables of a call fit its place in the code), `LinksOK` (a live child is in the
list of each parent, or its creator has yet to register it there), `CausesOK` (a work
list that propagates Parent was started by a decision), and `WaitersOK` (a future past
its registration has its current waker in the token's list, unless the token was
cancelled meanwhile). `Invariance` has one step per action and part;
the theorems follow from it.

**EngineProof**, the caches — `CacheTypes`, `CacheStaysCurrent`, `AnswersStayCurrent`,
`RefreshObserves`. The added part, `AnswersOK`, relates an answer on its way to the
generation its call took and to the version at the call's start: the comparison under
the lock only helps if the answer carries the generation it was asked with.

**LimitsProof**, the pool — `PoolTypes`, `PoolStaysBounded`, `ClientsOwnedOnce`. A task opens a
connection when its stack is empty, and the bound holds because it has one of `Max`
permits. So permits have to be counted: `PermitsExact` says that free permits and
tasks past `Acquire` make `Max`, and `HoldsOne` that a task that is using a client
has one. The argument is about cardinalities, with the library's theorems on finite
sets.

**LimitsProof**, the budget — `BudgetTypes`, `NothingLost`, `ReturnsNeverRefused`,
`LeasesAreReturned`, `DeliveredWithinLimits`, `BudgetImplementsLedger`, for any number of
operations, any limits and any amounts. What is lent is a sum over all operations, which
would need an induction over data; `ResourceBudget` therefore counts units: `OnLoan(k)` is
the set of units of quota k on loan, each named by its operation and a number, and the
sum is its cardinality. `UnitsChange` says what becomes of that number when one operation
has another amount, and `Paid(k)` counts in the same way what was consumed of batches that
are being settled. The inductive invariant `BudgetInv` has two halves. `Balanced(k)` is
about all operations: units on loan, consumed and left make the limit, and what was
consumed is what delivered batches hold and `Paid(k)`. `Local(a)` is about one: its queue
holds only accesses that fit its stage (`Proper`) and is about each kind at most once
(`Queue`); it holds what it has leased already and not yet settled (`Holds`); a
reservation asks for what `Wants` says; and what its loop has read still leaves room for
what it returns (`Reads`). The last needs `Balanced`: the value a loop returns to may be
stale, but was the counter once, when this lease was already out. There is one lemma
`...Good` per action or group of actions, which shows that the step is even, leaves the
others alone and keeps `Local`; `GoodKeeps` concludes. The refinement maps a
compare-and-swap that succeeds to `Lend` or `Settle`, and every other step to a stutter.

**EngineProof**, the sessions — `SessionTypes`, `LifecycleReaches`, `LentFollows`,
`CountsStayExact`. A cancellation reaches a call only along references, so the invariant
says which there are: `ChainOf(s)` names, for each state of a session and form of its
transaction, the tokens that hang from one another and the one the call looks at;
`LentOf(s)` does it for a lent token. `TokensOK` is what makes the walk of `cancel` enough
on any graph: references lead to higher ranks (`RankOf`, by role), at most four deep, and
what hangs from a cancelled token is cancelled. Lemmas say what linking, cancelling and
dropping a token do to such a graph; the counters are the cardinality argument of `PgPool`.

**PgTransactionProof** — `TransactionTypes`, `SessionsWorkInTheirOwn`,
`CommittedStaysTrue`, `NotCommittedStaysTrue`, `IdleStaysClean`. The difficulty is the
queue of a connection, where commands of transactions long gone may still lie.
`PipeOK` says what can be in it: a statement, COMMIT or ROLLBACK belongs to the
transaction open on the server and has only statements of the same one before it; a guard
or BEGIN is alone; whose reset is in it has nothing else there. `HomeOK` says that what a
transaction left is on one connection, `AwaitOK` what the owner of a connection may
conclude from its state and the reply, `OutcomeOK` that a COMMIT on its way belongs to a
transaction that awaits it or has answered that it does not know. Then the head of a
queue never meets a server in another state than the adapter believes. `CommittedIsDurable`
of finding 1 is of course not provable; the exception in `CommittedIsApplied` is `spoiled`.

**UnitOfWorkProof** — `UnitOfWorkTypes`, `VersionsStayTrue`, `CommitForgetsNothing`.
`Ahead` says that the row a transaction wrote, under its lock (`Locked`), is newer than the
committed one; `Known` that an instance is as its own transaction wrote it, or older than
the committed row, or equal to it. Both are needed of the savepoint's copies too, since a
rollback to it brings them back. `Keeps` says that each wish is either in the transaction
or still to be flushed, and `PlaceOf` that COMMIT and SAVEPOINT are sent with nothing left
to flush. Attempting it with two keys showed an error in what the model wanted after a bulk
update that raises half-way: a dirty instance it did not come to is written by the next
flush, and so keeps its own wish. That is corrected.

**MigrationsProof** — `MigrationTypes`, `HistoryStaysTrue`, `AncestorsStayApplied`, for any
number of runners and any graph of revisions. `Structure` holds on every database: one
transaction at most has the lock (`OneLock`), and `CallShape` says what the transaction of a
runner has done at each place of its call. The rest are two arguments, and two invariants.
Where DDL is transactional (`Atomic`) it is the lock: who has it found the history closed
under ancestors, no one else can write until it ends (`Truth`), and what its COMMIT will
leave, read in its snapshot, is closed again (`Lands`, `Whole`); a COMMIT in flight of a
runner that died still has the lock. Where each DDL statement commits (`Stepwise`) the lock
is gone after the first statement, and a second runner may be in the same revision. There
the protocol of the rows is what holds, and the invariant says of every row that is still on
its way, in a transaction or in a COMMIT of a runner that died, that it may land: no effect is
there without a row (`Witnessed`); what may become "applied" has its parents applied
(`Grounded`) and, after its first statement, a row (`RowsOfUpgrades`); what may become
"failed" has no child that is, or may become, applied (`Recorders`); what is being recovered,
or may be removed, is incomplete, nobody upgrades beside it, and nothing else on its way
speaks of it (`Recoveries`, `Removals`). `Stepwise` ends with the first downgrade (`undone`),
as the properties do. TLC checked the invariant first, with three runners and two
revisions and with two runners and three. In the model, the ends of the order of the
revisions (`First`, `Last`) had to become sets of minimal and maximal elements: that such
an element exists would need induction, and no proof here needs it.

**AdapterScopesProof** — `ScopeTypes`, `CommittedStaysWhole`, `NothingEverEscapes`,
`RolledBackStaysUndone`, `KeptStaysClean`, for the four adapters at once. The heart is
`Held`: while the scope stands (open, session ready, link up, no answer that says
otherwise) the server's transaction holds what the caller was told is done and nothing it
was told is undone. It is not inductive without `WireOK` and `CallOK` (which command can be
on its way in which call), `LiveOK` (a command finds the transaction it is meant for;
Oracle and Db2 open one implicitly), `CountOK` (a savepoint is a number of statements, so
the statement in progress must be newer than it) and `CommitOK` and `ToldOK` (what an
answer to COMMIT, and an answer to the caller, say of what is durable). The calls of the
adapters are made of the same few parts, and a lemma for each part says when it preserves
the invariant; the adapters differ only in how they put them together.

**AdapterWritesProof** — `WritesInv`, `WriteTypes`, `EffectStaysTrue`, `CommittedStaysComplete`,
`FinalStaysTrue`, `KeptStaysClean`, `NoResidueHidden`, for the five adapters at once and any
number of attempts and batches. None of the properties is inductive, since they speak of
what a command still on its way will do. `Sealed(a)` says that nothing on its way can apply
the writes of a session: a COMMIT is not the next command, and a statement finds its
transaction open (or opens one that nobody will commit); `Residue(a)` that a table is there,
or its CREATE is on its way. `ToldOK` says that an attempt that denies its effect, or that may be
repeated, is sealed and has no residue, and that one that is committed has applied all. To
know this when an attempt ends, `RunOK` says what the stage it awaits implies for its
session: which command is on its way (`WireOK`, `Fits`), that the transaction has not begun
(`BeforeOK`), is open or has been given up (`InsideOK`, `Healthy`), and what the answer to
COMMIT and ROLLBACK says (`CommitOK`, `RollbackOK`). A server is only assumed to be `Lawful`:
it applies nothing without COMMIT inside a transaction, a proven refusal discards, a
confirmed ROLLBACK leaves nothing pending; a lemma per adapter shows that its server is.
The steps of the adapters are made of a dozen parts (send, open, roll back, answer, drop),
with a lemma for each that says when it keeps the invariant; the adapters differ in the
order of their stages and in how they compute the axes of an error. TLC checked the
invariant first, on the instance of the run; there it showed that a table left by MySQL's
CREATE must be tied to the mode and to the reply before the proof can go through.

**Only model-checked.** `CallEnds`, `CallsEnd` and the other liveness properties, and
anything about ENABLED, are outside the prover's reach. Every invariant and every action
property of the runs, and the refinement of the ledger, has a theorem.

## 5. Not modelled

Most lines of the repository are not control but data, and the models cover a small part
of the lines for that reason: SQL text for five dialects, codecs between Arrow, driver
and Python values, type mappings, catalogs, geometry, tables of evidence about server
versions, the command line, and the test kit. What is left out:

- Text: SQL generation, formatting, logging, metrics, error messages; the
  classification of each error code, which is an input (proven or not, retryable or
  not).
- Data without state: plans, type mappings, WKB and EWKB, identifiers.
- The command line, the bindings' conversions, and the test kit.
- Reads and catalogs of the adapters; the pool of SQL Server (the design of `PgPool` with
  one key) and the idle list of Oracle's.
- In the modelled parts: panics of wakers (caught by the code), metrics of the pool
  and engine, the inspection of geometry cells (its result is an input), the
  `DeadlineGuard` of `runtime.rs`; `execute_graph`, the depth of savepoints and the
  axes of errors in `PgTransaction`; dry runs; `max_attempts = 0`, jitter and the length of a
  wait in `Retry`; the steps of a begin, operand catalogs and engines without
  transactions in the scopes, and a scope that is used again after a call of it was
  dropped; checksums in `Migrations`, and more than one abandoned transaction per
  runner; relationships, inheritance, generated keys, insert batches, `merge`, loaders
  and nested savepoints in `UnitOfWork`, and what it gives back to the instances of a
  session that ends.
- The pool is bounded per fingerprint, as in the code: a bound over all fingerprints
  is neither promised nor true.

## 6. Plan

Done, in this order: `Cancellation` (everything else is stopped through it), with
proofs; `EngineSession`, `EngineCache` and `PgTransaction`, with proofs; `ResourceBudget`
over `BudgetLedger` and `PgPool`, with proofs; the error axes and the retry executor with the
writes of the five adapters, with proofs; the transactions of four adapters under one contract,
with proofs; the migrations and the unit of work, with proofs.

Next, to model: `execute_graph` with its search path and the depth of savepoints in
`PgTransaction`; `ReadCheckpoint` and the row diagnostics against reference definitions;
the publish-or-abort of `runtime_binding.rs`; the schema cache; relationships in
`UnitOfWork`.

