---------------------------- MODULE ResourceBudget ----------------------------
(***************************************************************************)
(* The shared budget of core/src/resource.rs, a set of atomic counters     *)
(* changed by compare-and-swap loops, and the tabular operations that draw *)
(* on it through the reservations of engine/src/runtime.rs: a stream holds *)
(* its ContractLeases from the first batch to the last, and reserves,      *)
(* fills and settles one batch at a time.                                  *)
(*                                                                         *)
(* One atomic access (a load, a compare-and-swap) is one step.  What an    *)
(* operation has still to do is a queue of accesses, in the order of the   *)
(* code; `seen` is the local `current` of its loop.                        *)
(***************************************************************************)
EXTENDS Integers, Sequences, FiniteSets

CONSTANTS
    Agent,     \* tabular operations sharing a budget
    Writer,    \* those that write; the others read
    Spatial,   \* those whose plan has a spatial column
    Limit,     \* ResourceLimits, by kind
    MaxColumns, \* bound: columns of one operation's contract
    BatchRows, \* batch_rows of the provider
    MaxBytes,  \* bound: bytes of one batch to write, max_bytes of a read
    MaxParts   \* bound: geometry components of one batch to write

Kind == {"operations", "columns", "rows", "memory", "output", "geometry"}

ASSUME ResourceBudgetAssumption ==
    /\ Writer \subseteq Agent /\ Spatial \subseteq Agent
    /\ Limit \in [Kind -> Nat \ {0}]
    /\ MaxColumns \in Nat /\ BatchRows \in Nat /\ MaxBytes \in Nat /\ MaxParts \in Nat

VARIABLES
    counter,   \* Counters
    held,      \* amount of each ResourceLease an operation owns, 0 for none
    stage,     \* where each operation is
    todo,      \* the accesses to the budget it has still to make
    seen,      \* `current` of its compare-and-swap loop, or Unread
    want,      \* row_limit, byte_limit and component_limit of its reservation
    spent,     \* history: what leases were committed for, by kind
    shown,     \* history: what delivered batches hold, by kind
    batch      \* history: what the batch being settled holds

budgetVars == <<counter, held, stage, todo, seen, want, spent, shown, batch>>

Unread == -1
Nothing == [k \in Kind |-> 0]
Quota == {"rows", "memory", "output", "geometry"}
Accesses == [op : {"peek", "probe", "lease", "keep", "give"}, kind : Kind, n : Nat]

BudgetTypeOK ==
    /\ counter \in [Kind -> Nat]
    /\ held \in [Agent -> [Kind -> Nat]]
    /\ stage \in [Agent -> {"idle", "contract", "open", "peek", "lease", "filling", "settle",
                         "unwind", "close"}]
    /\ todo \in [Agent -> Seq(Accesses)]
    /\ seen \in [Agent -> Nat \cup {Unread}]
    /\ want \in [Agent -> [Kind -> Nat]]
    /\ spent \in [Kind -> Nat] /\ shown \in [Kind -> Nat]
    /\ batch \in [Agent -> [Kind -> Nat]]

BudgetInit ==
    /\ counter = Limit
    /\ held = [a \in Agent |-> Nothing]
    /\ stage = [a \in Agent |-> "idle"]
    /\ todo = [a \in Agent |-> <<>>]
    /\ seen = [a \in Agent |-> Unread]
    /\ want = [a \in Agent |-> Nothing]
    /\ spent = Nothing /\ shown = Nothing
    /\ batch = [a \in Agent |-> Nothing]

-----------------------------------------------------------------------------
Access(op, k, n) == [op |-> op, kind |-> k, n |-> n]

\* The access an operation makes next.
Doing(a, op) == todo[a] # <<>> /\ Head(todo[a]).op = op
Least(m, n) == IF m < n THEN m ELSE n

\* An access that is made only if c.
When(c, access) == IF c THEN <<access>> ELSE <<>>

\* Leases dropped by an operation that keeps those of `kept`, in field order.
Drops(a, kept) ==
    LET Give(k) == When(held[a][k] > 0 /\ k \notin kept, Access("give", k, 0))
    IN  Give("operations") \o Give("columns") \o Give("rows") \o Give("memory")
        \o Give("output") \o Give("geometry")

Start(a, from, to, accesses) ==
    /\ stage[a] = from
    /\ stage' = [stage EXCEPT ![a] = to]
    /\ todo' = [todo EXCEPT ![a] = accesses]

\* The access succeeded, and the next one begins.
Done(a) ==
    /\ todo' = [todo EXCEPT ![a] = Tail(@)]
    /\ seen' = [seen EXCEPT ![a] = Unread]
    /\ UNCHANGED stage

\* Fault: an error path forgets what was already reserved.
FailForgets(a) ==
    /\ todo' = [todo EXCEPT ![a] = <<>>]
    /\ seen' = [seen EXCEPT ![a] = Unread]
    /\ stage' = [stage EXCEPT ![a] = "unwind"]

\* The access failed: what was reserved before it is dropped.  A batch that
\* fails leaves the stream, and its ContractLeases, to the caller.
Fail(a) ==
    /\ todo' = [todo EXCEPT ![a] = Drops(a, IF stage[a] = "contract" THEN {}
                                                          ELSE {"operations", "columns"})]
    /\ seen' = [seen EXCEPT ![a] = Unread]
    /\ stage' = [stage EXCEPT ![a] = IF stage[a] = "contract" THEN "close" ELSE "unwind"]

-----------------------------------------------------------------------------
(* resource.rs                                                             *)

\* ResourceBudget::remaining, and the first load of both loops.
Load(a) ==
    /\ todo[a] # <<>> /\ Head(todo[a]).op \notin {"peek", "probe"} /\ seen[a] = Unread
    /\ Head(todo[a]).op = "lease" => Head(todo[a]).n > 0
    /\ Head(todo[a]).op = "keep" => Head(todo[a]).n < held[a][Head(todo[a]).kind]
    /\ seen' = [seen EXCEPT ![a] = counter[Head(todo[a]).kind]]
    /\ UNCHANGED <<counter, held, stage, todo, want, spent, shown, batch>>

\* A lease of nothing is refused before any access.
LeaseNothing(a) ==
    /\ Doing(a, "lease") /\ Head(todo[a]).n = 0
    /\ Fail(a)
    /\ UNCHANGED <<counter, held, want, spent, shown, batch>>

LeaseRefused(a) ==
    /\ Doing(a, "lease") /\ seen[a] # Unread
    /\ seen[a] < Head(todo[a]).n
    /\ Fail(a)
    /\ UNCHANGED <<counter, held, want, spent, shown, batch>>

\* Fault: the new value is stored, whatever was stored since the load.
TryLeaseStores(a) ==
    /\ Doing(a, "lease") /\ seen[a] # Unread
    /\ LET k == Head(todo[a]).kind  n == Head(todo[a]).n IN
       /\ seen[a] >= n
       /\ counter' = [counter EXCEPT ![k] = seen[a] - n]
       /\ held' = [held EXCEPT ![a][k] = n]
    /\ Done(a)
    /\ UNCHANGED <<want, spent, shown, batch>>

TryLease(a) ==
    /\ Doing(a, "lease") /\ seen[a] # Unread
    /\ LET k == Head(todo[a]).kind  n == Head(todo[a]).n IN
       /\ counter[k] = seen[a] /\ seen[a] >= n
       /\ counter' = [counter EXCEPT ![k] = seen[a] - n]
       /\ held' = [held EXCEPT ![a][k] = n]
    /\ Done(a)
    /\ UNCHANGED <<want, spent, shown, batch>>

\* What an access gives back: all of a lease, or what a commit did not use.
Unused(a) ==
    LET next == Head(todo[a]) IN
    IF next.op = "keep" THEN held[a][next.kind] - next.n ELSE held[a][next.kind]

\* compare_exchange_weak fails, on a change or spuriously, and reads again.
CasFails(a) ==
    /\ todo[a] # <<>> /\ seen[a] # Unread
    /\ Doing(a, "lease") => seen[a] >= Head(todo[a]).n
    /\ Head(todo[a]).op \in {"keep", "give"} => seen[a] + Unused(a) <= Limit[Head(todo[a]).kind]
    /\ seen' = [seen EXCEPT ![a] = counter[Head(todo[a]).kind]]
    /\ UNCHANGED <<counter, held, stage, todo, want, spent, shown, batch>>

\* Fault: a commit gives the unused part back and keeps the lease of the rest.
ReleaseUnused(a) ==
    /\ todo[a] # <<>> /\ Head(todo[a]).op \in {"keep", "give"} /\ seen[a] # Unread
    /\ LET k == Head(todo[a]).kind IN
       /\ counter[k] = seen[a] /\ seen[a] + Unused(a) <= Limit[k]
       /\ counter' = [counter EXCEPT ![k] = seen[a] + Unused(a)]
       /\ held' = [held EXCEPT ![a][k] = @ - Unused(a)]
    /\ Done(a)
    /\ UNCHANGED <<want, spent, shown, batch>>

\* ResourceBudget::release, for ResourceLease::release, its Drop, and the
\* unused part of a commit.
Release(a) ==
    /\ todo[a] # <<>> /\ Head(todo[a]).op \in {"keep", "give"} /\ seen[a] # Unread
    /\ LET k == Head(todo[a]).kind IN
       /\ counter[k] = seen[a] /\ seen[a] + Unused(a) <= Limit[k]
       /\ counter' = [counter EXCEPT ![k] = seen[a] + Unused(a)]
       /\ held' = [held EXCEPT ![a][k] = 0]
       /\ spent' = [spent EXCEPT ![k] = @ + Head(todo[a]).n]
    /\ Done(a)
    /\ UNCHANGED <<want, shown, batch>>

\* ResourceLease::commit of a whole lease gives nothing back.
CommitAll(a) ==
    /\ Doing(a, "keep")
    /\ LET k == Head(todo[a]).kind IN
       /\ Head(todo[a]).n = held[a][k] /\ held[a][k] > 0
       /\ held' = [held EXCEPT ![a][k] = 0]
       /\ spent' = [spent EXCEPT ![k] = @ + Head(todo[a]).n]
    /\ Done(a)
    /\ UNCHANGED <<counter, want, shown, batch>>

-----------------------------------------------------------------------------
(* runtime.rs                                                              *)

\* ContractLeases::acquire, of a contract of c columns.
Open(a, c) ==
    /\ Start(a, "idle", "contract",
             <<Access("lease", "operations", 1), Access("lease", "columns", c)>>)
    /\ UNCHANGED <<counter, held, seen, want, spent, shown, batch>>

Opened(a) ==
    /\ todo[a] = <<>> /\ Start(a, "contract", "open", <<>>)
    /\ UNCHANGED <<counter, held, seen, want, spent, shown, batch>>

\* ReadBatchReservation::acquire: it asks for all that is left of rows and
\* bytes, up to the provider's own limits, then leases it.
ReserveRead(a) ==
    /\ a \notin Writer
    /\ Start(a, "open", "peek",
             <<Access("peek", "rows", 0), Access("peek", "memory", 0), Access("peek", "output", 0)>>
             \o When(a \in Spatial, Access("peek", "geometry", 0)))
    /\ want' = [want EXCEPT ![a] = [Nothing EXCEPT !["rows"] = BatchRows,
                                                   !["memory"] = MaxBytes,
                                                   !["output"] = MaxBytes,
                                                   !["geometry"] = Limit["geometry"]]]
    /\ UNCHANGED <<counter, held, seen, spent, shown, batch>>

Peek(a) ==
    /\ Doing(a, "peek")
    /\ LET k == Head(todo[a]).kind
           m == Least(want[a][k], counter[k])
       IN  want' = [want EXCEPT ![a] = IF k \in {"memory", "output"}
                                       THEN [@ EXCEPT !["memory"] = m, !["output"] = m]
                                       ELSE [@ EXCEPT ![k] = m]]
    /\ Done(a)
    /\ UNCHANGED <<counter, held, spent, shown, batch>>

\* What a read reserves once it knows what is left.
ReadLeases(a) ==
    <<Access("lease", "rows", want[a]["rows"]), Access("lease", "memory", want[a]["memory"]),
      Access("lease", "output", want[a]["output"])>>
    \o When(a \in Spatial, Access("lease", "geometry", want[a]["geometry"]))

Peeked(a) ==
    /\ todo[a] = <<>> /\ stage[a] = "peek"
    /\ LET wanted == Quota \ (IF a \in Spatial THEN {} ELSE {"geometry"})
           short == \E k \in wanted : want[a][k] = 0
       IN  \/ short /\ Start(a, "peek", "unwind", <<>>)
           \/ ~short /\ Start(a, "peek", "lease", ReadLeases(a))
    /\ UNCHANGED <<counter, held, seen, want, spent, shown, batch>>

\* Three loads that may refuse a batch of n > 0 rows early, then a lease for
\* each amount that is not zero.
WriteLeases(n, bytes, parts) ==
    <<Access("probe", "output", bytes), Access("probe", "memory", bytes),
      Access("probe", "geometry", parts), Access("lease", "rows", n)>>
    \o When(bytes > 0, Access("lease", "output", bytes))
    \o When(bytes > 0, Access("lease", "memory", bytes))
    \o When(parts > 0, Access("lease", "geometry", parts))

\* WriteResourceReservation::acquire, of a batch of n rows.
ReserveWrite(a, n, bytes, parts) ==
    /\ a \in Writer
    /\ Start(a, "open", "lease", IF n = 0 THEN <<>> ELSE WriteLeases(n, bytes, parts))
    /\ want' = [want EXCEPT ![a] = IF n = 0 THEN Nothing
                                   ELSE [Nothing EXCEPT !["rows"] = n, !["memory"] = bytes,
                                                        !["output"] = bytes, !["geometry"] = parts]]
    /\ UNCHANGED <<counter, held, seen, spent, shown, batch>>

Probe(a) ==
    /\ Doing(a, "probe")
    /\ IF Head(todo[a]).n > counter[Head(todo[a]).kind] THEN Fail(a) ELSE Done(a)
    /\ UNCHANGED <<counter, held, want, spent, shown, batch>>

Reserved(a) ==
    /\ todo[a] = <<>> /\ Start(a, "lease", "filling", <<>>)
    /\ UNCHANGED <<counter, held, seen, want, spent, shown, batch>>

\* Fault: a row too many is counted, the one that ended the batch.
ReadSettlesOneMore(a, n, bytes, parts) ==
    <<Access("keep", "rows", n + 1), Access("keep", "memory", bytes),
      Access("keep", "output", bytes)>>
    \o When(a \in Spatial /\ parts = 0, Access("give", "geometry", 0))
    \o When(a \in Spatial /\ parts > 0, Access("keep", "geometry", parts))

\* Fault: the geometry lease is dropped without being committed.
ReadSettlesNoGeometry(a, n, bytes, parts) ==
    <<Access("keep", "rows", n), Access("keep", "memory", bytes), Access("keep", "output", bytes)>>
    \o When(a \in Spatial, Access("give", "geometry", 0))

\* ReadBatchReservation::commit: memory is consumed like rows and output;
\* a geometry lease no component used is dropped.
ReadSettles(a, n, bytes, parts) ==
    <<Access("keep", "rows", n), Access("keep", "memory", bytes), Access("keep", "output", bytes)>>
    \o When(a \in Spatial /\ parts = 0, Access("give", "geometry", 0))
    \o When(a \in Spatial /\ parts > 0, Access("keep", "geometry", parts))

\* WriteResourceReservation::commit: memory was the codec's and goes back.
WriteSettles(a) ==
    When(held[a]["rows"] > 0, Access("keep", "rows", held[a]["rows"]))
    \o When(held[a]["output"] > 0, Access("keep", "output", held[a]["output"]))
    \o When(held[a]["memory"] > 0, Access("give", "memory", 0))
    \o When(held[a]["geometry"] > 0, Access("keep", "geometry", held[a]["geometry"]))

CommitRead(a, n, bytes, parts) ==
    /\ a \notin Writer /\ bytes > 0
    /\ Start(a, "filling", "settle", ReadSettles(a, n, bytes, parts))
    /\ batch' = [batch EXCEPT ![a] = [Nothing EXCEPT !["rows"] = n, !["memory"] = bytes,
                                                     !["output"] = bytes, !["geometry"] = parts]]
    /\ UNCHANGED <<counter, held, seen, want, spent, shown>>

CommitWrite(a) ==
    /\ a \in Writer
    /\ Start(a, "filling", "settle", WriteSettles(a))
    /\ batch' = [batch EXCEPT ![a] = [want[a] EXCEPT !["memory"] = 0]]
    /\ UNCHANGED <<counter, held, seen, want, spent, shown>>

\* The batch is handed on.
Deliver(a) ==
    /\ todo[a] = <<>> /\ Start(a, "settle", "open", <<>>)
    /\ shown' = [k \in Kind |-> shown[k] + batch[a][k]]
    /\ batch' = [batch EXCEPT ![a] = Nothing]
    /\ want' = [want EXCEPT ![a] = Nothing]
    /\ UNCHANGED <<counter, held, seen, spent>>

\* The end of the rows, a batch of no bytes or beyond the limits, an error, or
\* a dropped future: the reservation drops.
Abandon(a) ==
    /\ Start(a, "filling", "unwind", Drops(a, {"operations", "columns"}))
    /\ UNCHANGED <<counter, held, seen, want, spent, shown, batch>>

\* The drops are done and the call has returned: a step of the model only.
Unwound(a) ==
    /\ todo[a] = <<>> /\ Start(a, "unwind", "open", <<>>)
    /\ want' = [want EXCEPT ![a] = Nothing]
    /\ batch' = [batch EXCEPT ![a] = Nothing]
    /\ UNCHANGED <<counter, held, seen, spent, shown>>

\* The stream, or the write, ends and drops its ContractLeases.
CloseStream(a) ==
    /\ Start(a, "open", "close", Drops(a, {}))
    /\ UNCHANGED <<counter, held, seen, want, spent, shown, batch>>

Closed(a) ==
    /\ todo[a] = <<>> /\ Start(a, "close", "idle", <<>>)
    /\ UNCHANGED <<counter, held, seen, want, spent, shown, batch>>

-----------------------------------------------------------------------------
Budget(a) ==
    \/ Load(a) \/ LeaseNothing(a) \/ LeaseRefused(a) \/ TryLease(a) \/ CasFails(a)
    \/ Release(a) \/ CommitAll(a) \/ Peek(a) \/ Probe(a)

BudgetNext ==
    \E a \in Agent :
        \/ Budget(a)
        \/ \E c \in 0 .. MaxColumns : Open(a, c)
        \/ Opened(a) \/ ReserveRead(a) \/ Peeked(a) \/ Reserved(a)
        \/ \E n \in 0 .. BatchRows, bytes \in 0 .. MaxBytes, parts \in 0 .. MaxParts :
               ReserveWrite(a, n, bytes, parts)
        \/ \E n \in 1 .. want[a]["rows"], bytes \in 0 .. want[a]["memory"] :
               \E parts \in IF a \in Spatial THEN 0 .. want[a]["geometry"] ELSE {0} :
                   CommitRead(a, n, bytes, parts)
        \/ CommitWrite(a) \/ Deliver(a) \/ Abandon(a) \/ Unwound(a) \/ CloseStream(a) \/ Closed(a)

BudgetSpec == BudgetInit /\ [][BudgetNext]_budgetVars

-----------------------------------------------------------------------------
\* The units of quota k that are lent, counted one by one.
Units(amount) == UNION {{a} \X (1 .. amount[a]) : a \in Agent}
OnLoan(k) == Units([a \in Agent |-> held[a][k]])

\* No unit of quota is created or lost: what is left, what is lent and what
\* was consumed add up to the limit, however the loops interleave
\* (try_lease, release, ResourceLease::commit and Drop).
Conservation == \A k \in Kind : counter[k] + Cardinality(OnLoan(k)) + spent[k] = Limit[k]

\* No settlement is refused.  A commit asks for something, and for no more
\* than its lease; and release() never meets its two error branches,
\* "overflow durante la restituzione" and "restituzione superiore alla quota
\* originaria": the value a loop has read always leaves room for what it
\* returns.  Drop would ignore the error and lose the quota.
ReturnsFit ==
    \A a \in Agent : (todo[a] # <<>> /\ Head(todo[a]).op \in {"keep", "give"}) =>
        LET next == Head(todo[a]) IN
        /\ next.op = "keep" => next.n \in 1 .. held[a][next.kind]
        /\ seen[a] # Unread => seen[a] + Unused(a) <= Limit[next.kind]

\* An operation that is over holds nothing, and one between two batches only
\* its ContractLeases, whatever error it left a batch by.
NothingLeaks ==
    \A a \in Agent :
        /\ stage[a] = "idle" => held[a] = Nothing
        /\ stage[a] = "open" => \A k \in Quota : held[a][k] = 0

\* Whatever a delivered batch holds was consumed before it was delivered, so
\* all delivered batches together stay within the limits.
DeliveredIsPaid ==
    \A k \in Kind : shown[k] <= spent[k] /\ shown[k] + counter[k] <= Limit[k]

\* The counters and their loops implement the indivisible ledger.
Ledger == INSTANCE BudgetLedger WITH left <- counter, lease <- held

ImplementsLedger == Ledger!LedgerSpec
=============================================================================
