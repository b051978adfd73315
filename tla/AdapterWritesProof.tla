-------------------------- MODULE AdapterWritesProof --------------------------
(***************************************************************************)
(* Proofs about AdapterWrites, for any number of attempts and batches and  *)
(* any set of adapters: what a write tells its caller is true of the       *)
(* server, now and later.                                                  *)
(*                                                                         *)
(* The properties speak of what is still on its way, so the invariant does *)
(* too.  A session is Sealed when nothing on its way can apply its writes; *)
(* an attempt that denies them, or that is repeated, is Sealed when it     *)
(* ends, and stays so.  RunOK says what the stage that an attempt awaits   *)
(* implies for its session: which command is on its way, and that a        *)
(* command which is to run inside a transaction finds it.  The adapters    *)
(* differ in their stages, in their errors and in what their servers       *)
(* answer; their steps are made of the same parts.                         *)
(***************************************************************************)
EXTENDS AdapterWrites, SequenceTheorems, TLAPS

-----------------------------------------------------------------------------
(* The inductive invariant.                                                *)

\* Servers that begin a transaction by a command; the others by a statement.
Explicit == adapter \in {"postgres", "mysql", "sqlserver"}

\* The stages before the transaction, BEGIN included.
Before ==
    CASE adapter = "postgres"  -> {"discard", "begin"}
      [] adapter = "mysql"     -> {"precheck", "create", "profile", "facts", "staging", "begin"}
      [] adapter = "sqlserver" -> {"isolation", "begin"}
      [] OTHER                 -> {}

\* The command cmd is one that stage s sends.
Fits(s, cmd) ==
    /\ cmd \in Command
    /\ cmd = "commit" <=> s = "commit"
    /\ cmd = "create" <=> s = "create"
    /\ cmd = "discard" <=> s = "discard"
    /\ cmd = "rollback" <=> s = "rollback"
    /\ cmd = "begin" <=> s = "begin" /\ Explicit
    /\ cmd = "execute" => s \notin Before

\* One command is on its way, or a statement and the ROLLBACK behind it.
Single(q) == \E c \in Command : q = <<c>>
Followed(q) == \E c \in {"read", "execute"} : q = <<c, "rollback">>

PipesOK ==
    \A a \in Attempts :
        \/ pipe[a] = <<>>
        \/ Single(pipe[a])
        \/ Followed(pipe[a]) /\ adapter = "postgres"

\* A session that no attempt has used.
Fresh(a) == a > attempt \/ (a = attempt /\ pc = "start" /\ told[a] = Untold)

FreshOK ==
    \A a \in Attempts : Fresh(a) =>
        /\ told[a] = Untold /\ pipe[a] = <<>> /\ srv[a] = "none" /\ work[a] = "none"
        /\ ~table[a] /\ executed[a] = 0
        /\ link[a] = "unborn" \/ (a = attempt /\ rt = "done")

\* Nothing on its way can apply the writes of a session.
Sealed(a) ==
    /\ work[a] # "applied"
    /\ pipe[a] # <<>> =>
          /\ Head(pipe[a]) # "commit"
          /\ Head(pipe[a]) = "execute" => srv[a] = "open" \/ ~Explicit
          /\ Head(pipe[a]) = "rollback" => work[a] # "pending" \/ adapter # "mysql"

\* A table is there, or may be soon, outside of the transaction.
Residue(a) == table[a] \/ pipe[a] = <<"create">>

\* The error says that nothing happened, or that the attempt may be repeated.
Denies(e) == e.status = "error" /\ (e.effect \in {"none", "rolled_back"} \/ IsRetryable(e))

\* Where the executor is, and what the attempts before this one answered.
RetryOK ==
    /\ rt = "check" => pc = "start"
    /\ rt \in {"check", "run"} => told[attempt] = Untold
    /\ rt \in {"judge", "sleep"} => pc = "start" /\ told[attempt].status # "untold"
    /\ rt = "sleep" => told[attempt].status = "error" /\ IsRetryable(told[attempt]) /\ attempt < MaxAttempts
    /\ dropped => rt = "done"
    /\ pc = "start" => reply = "none" /\ ~armed
    /\ \A a \in Attempts : a < attempt => told[a].status = "error" /\ IsRetryable(told[a])

\* What was told is true of the session.
ToldOK ==
    \A a \in Attempts :
        /\ Denies(told[a]) => Sealed(a) /\ ~Residue(a)
        /\ told[a].status = "committed" =>
              told[a].effect = "committed" /\ work[a] = "applied" /\ pipe[a] = <<>> /\ executed[a] = received

DoneOK ==
    rt = "done" /\ ~dropped =>
        /\ final.effect \in {"none", "rolled_back"} => \A a \in Attempts : Sealed(a)
        /\ final.status = "committed" => work[attempt] = "applied" /\ pipe[attempt] = <<>>

\* A residue belongs to a create of this attempt, and its guard is armed.
ResidueOK ==
    \A a \in Attempts : Residue(a) =>
        /\ mode = "create" /\ adapter \in {"mysql", "oracle"}
        /\ rt = "run" => armed
        /\ dropped => a \in ledger

KeptOK == \A a \in kept : a < attempt \/ (a = attempt /\ rt \notin {"check", "run"})

\* The transaction is open, or a statement opens it.
Healthy ==
    IF Explicit THEN srv[attempt] = "open" /\ work[attempt] = "pending"
                ELSE work[attempt] \in {"none", "pending"}

Refusal == reply \notin {"none", "ok"}

\* What an attempt has on its way.
WireOK ==
    /\ link[attempt] # "unborn"
    /\ reply # "none" \/ pc = "input" => pipe[attempt] = <<>>
    /\ pc = "input" => reply = "none"
    /\ pc # "rollback" /\ pipe[attempt] # <<>> => \E c \in Command : pipe[attempt] = <<c>> /\ Fits(pc, c)
    /\ pc # "input" /\ reply = "none" /\ link[attempt] = "up" => pipe[attempt] # <<>>
    /\ pc = "rollback" /\ pipe[attempt] # <<>> /\ Head(pipe[attempt]) # "rollback" =>
          /\ Head(pipe[attempt]) \in {"read", "execute"} /\ Healthy
          /\ link[attempt] = "down" \/ Len(pipe[attempt]) = 2

\* Before the transaction, up to the answer to BEGIN.
BeforeOK ==
    pc \in Before =>
        \/ srv[attempt] = "none" /\ work[attempt] = "none" /\ (pc = "begin" => reply # "ok")
        \/ /\ pc = "begin" /\ pipe[attempt] = <<>>
           /\ Healthy \/ (link[attempt] = "down" /\ work[attempt] = "discarded")
           /\ reply = "ok" \/ link[attempt] = "down"
           /\ ~Refusal

\* In the transaction, up to the answer to COMMIT.
InsideOK ==
    pc \notin Before \cup {"commit", "rollback"} =>
        /\ \/ Healthy
           \/ /\ pipe[attempt] = <<>> /\ work[attempt] # "applied"
              /\ link[attempt] = "down" \/ Refusal
        /\ adapter = "mysql" /\ reply = "undone" => work[attempt] = "discarded"

CommitOK ==
    pc = "commit" =>
        /\ pipe[attempt] # <<>> => Healthy
        /\ reply = "ok" => work[attempt] = "applied" /\ srv[attempt] = "none"
        /\ reply = "proven" => work[attempt] = "discarded"

RollbackOK ==
    pc = "rollback" =>
        /\ why # "none" /\ cause.status = "error" /\ cause.effect \in {"none", "unknown", "rolled_back"}
        /\ adapter = "mysql" /\ cause.effect = "rolled_back" => work[attempt] = "discarded"
        /\ reply = "ok" => srv[attempt] = "none" /\ work[attempt] \in {"none", "discarded"}
        /\ work[attempt] = "applied" =>
              adapter = "mysql" /\ pipe[attempt] = <<>> /\ (reply = "warned" \/ link[attempt] = "down")

\* Every batch received was executed, but for the one that is awaited.
CountOK ==
    /\ executed[attempt] <= received
    /\ pc = "rows" => received > 0
    /\ pc = "rows" /\ reply # "ok" => executed[attempt] = received - 1
    /\ pc # "rollback" /\ ~(pc = "rows" /\ reply # "ok") => executed[attempt] = received

TableOK ==
    /\ pc = "precheck" => mode = "create" /\ ~table[attempt]
    /\ pc = "create" /\ (reply \notin {"none", "ok", "warned"} \/ pipe[attempt] # <<>>) => ~table[attempt]
    /\ pc = "create" => armed

RunOK ==
    rt = "run" /\ pc # "start" =>
        /\ WireOK /\ BeforeOK /\ InsideOK /\ CommitOK /\ RollbackOK /\ CountOK /\ TableOK

IInv ==
    /\ TypeOK /\ PipesOK /\ FreshOK /\ RetryOK /\ ToldOK /\ DoneOK /\ ResidueOK /\ KeptOK /\ KeptIsClean
    /\ RunOK

-----------------------------------------------------------------------------
(* The parts of a step of an attempt.                                      *)

\* What does not change with the adapter.
LEMMA Constant ==
    ASSUME UNCHANGED fixed
    PROVE  Stages' = Stages /\ Before' = Before /\ Explicit' = Explicit /\ adapter' = adapter /\ mode' = mode
  BY DEF fixed, Stages, Before, Explicit, Postgres!Stage, Mysql!Stage, Mysql!Setup, Mysql!Load, Oracle!Stage,
     Oracle!Setup, Oracle!Load, SqlServer!Stage, SqlServer!Setup, SqlServer!Batches, SqlServer!Statements,
     Db2!Stage, Db2!Load

\* The stages are not the places between two.
LEMMA StageNames ==
    ASSUME adapter \in Adapters
    PROVE  "start" \notin Stages /\ "input" \notin Stages /\ "rollback" \notin Stages
           /\ Before \subseteq Stages /\ "commit" \notin Before
  BY WriteAssumption DEF Adapter, Stages, Before, Postgres!Stage, Mysql!Stage, Mysql!Setup, Mysql!Load,
     Oracle!Stage, Oracle!Setup, Oracle!Load, SqlServer!Stage, SqlServer!Setup, SqlServer!Batches,
     SqlServer!Statements, Db2!Stage, Db2!Load

\* A step of a running attempt changes its own session alone.
LEMMA RunFrame ==
    ASSUME IInv, Running, UNCHANGED <<retry, fixed, srv, work, table, executed, kept, dropped, ledger>>,
           \A a \in Attempts : a # attempt => pipe'[a] = pipe[a] /\ link'[a] = link[a],
           TypeOK', pc' # "start",
           \/ pipe'[attempt] = <<>> \/ Single(pipe'[attempt])
           \/ Followed(pipe'[attempt]) /\ adapter = "postgres",
           Residue(attempt)' => mode = "create" /\ adapter \in {"mysql", "oracle"} /\ armed',
           RunOK'
    PROVE  IInv'
<1> USE DEF IInv, Running
<1>0. /\ rt' = rt /\ attempt' = attempt /\ told' = told /\ final' = final /\ mode' = mode /\ adapter' = adapter
      /\ Explicit' = Explicit /\ srv' = srv /\ work' = work /\ table' = table /\ executed' = executed
      /\ kept' = kept /\ dropped' = dropped /\ ledger' = ledger
  BY Constant DEF retry, fixed
<1>1. attempt \in Attempts /\ told[attempt] = Untold /\ rt = "run" /\ ~dropped
      /\ \A a \in Attempts : a # attempt => a < attempt \/ a > attempt
  BY RetryAssumption DEF RetryOK, TypeOK, WriteTypeOK, RetryTypeOK, Attempts
<1>2. ~Denies(told[attempt]) /\ told[attempt].status # "committed"
  BY <1>1 DEF Untold, Denies
<1>3. PipesOK'
  BY <1>0 DEF PipesOK
<1>4. FreshOK'
  <2> SUFFICES ASSUME NEW a \in Attempts, Fresh(a)'
               PROVE  (/\ told[a] = Untold /\ pipe[a] = <<>> /\ srv[a] = "none" /\ work[a] = "none"
                       /\ ~table[a] /\ executed[a] = 0
                       /\ link[a] = "unborn" \/ (a = attempt /\ rt = "done"))'
    BY DEF FreshOK
  <2>1. a > attempt /\ a # attempt
    BY <1>0, <1>1 DEF Fresh, Attempts
  <2> QED
    BY <1>0, <2>1 DEF FreshOK, Fresh
<1>5. RetryOK'
  BY <1>0, <1>1 DEF RetryOK
<1>6. ToldOK'
  <2> SUFFICES ASSUME NEW a \in Attempts
               PROVE  /\ Denies(told[a]) => Sealed(a)' /\ ~Residue(a)'
                      /\ told[a].status = "committed" =>
                            (told[a].effect = "committed" /\ work[a] = "applied" /\ pipe[a] = <<>> /\ executed[a] = received)'
    BY <1>0 DEF ToldOK, Denies, IsRetryable
  <2>1. CASE a = attempt
    BY <1>2, <2>1
  <2>2. CASE a # attempt
    <3>1. told[a].status # "committed"
      BY <1>1, <2>2 DEF RetryOK, FreshOK, Fresh, Untold
    <3> QED
      BY <1>0, <2>2, <3>1 DEF ToldOK, Sealed, Residue
  <2> QED
    BY <2>1, <2>2
<1>7. DoneOK'
  BY <1>0, <1>1 DEF DoneOK
<1>8. ResidueOK'
  <2> SUFFICES ASSUME NEW a \in Attempts, Residue(a)'
               PROVE  mode = "create" /\ adapter \in {"mysql", "oracle"} /\ armed'
    BY <1>0, <1>1 DEF ResidueOK
  <2>1. CASE a # attempt
    <3>1. Residue(a)
      BY <1>0, <2>1 DEF Residue
    <3>2. ~Residue(a)
      BY <1>1, <2>1 DEF RetryOK, FreshOK, Fresh, ToldOK, Denies, Residue
    <3> QED
      BY <3>1, <3>2
  <2>2. CASE a = attempt
    BY <1>0, <2>2 DEF Residue
  <2> QED
    BY <2>1, <2>2
<1>9. KeptOK' /\ KeptIsClean'
  <2>1. \A a \in kept : a # attempt /\ a \in Attempts
    BY <1>1 DEF KeptOK, TypeOK, WriteTypeOK, RetryTypeOK, Attempts
  <2> QED
    BY <1>0, <2>1 DEF KeptOK, KeptIsClean
<1> QED
  BY <1>3, <1>4, <1>5, <1>6, <1>7, <1>8, <1>9

\* Short sequences.
LEMMA Tuples ==
    \A c \in Command, d \in Command :
        /\ <<c>> # <<>> /\ Head(<<c>>) = c /\ Tail(<<c>>) = <<>> /\ Len(<<c>>) = 1
        /\ <<c, d>> # <<>> /\ Head(<<c, d>>) = c /\ Tail(<<c, d>>) = <<d>> /\ Len(<<c, d>>) = 2
        /\ <<c>> \in Seq(Command) /\ <<c, d>> \in Seq(Command) /\ Append(<<>>, c) = <<c>>
        /\ Append(<<c>>, d) = <<c, d>> /\ (<<c>> = <<d>> => c = d)
<1> SUFFICES ASSUME NEW c \in Command, NEW d \in Command
             PROVE  /\ <<c>> # <<>> /\ Head(<<c>>) = c /\ Tail(<<c>>) = <<>> /\ Len(<<c>>) = 1
                    /\ <<c, d>> # <<>> /\ Head(<<c, d>>) = c /\ Tail(<<c, d>>) = <<d>> /\ Len(<<c, d>>) = 2
                    /\ <<c>> \in Seq(Command) /\ <<c, d>> \in Seq(Command) /\ Append(<<>>, c) = <<c>>
                    /\ Append(<<c>>, d) = <<c, d>> /\ (<<c>> = <<d>> => c = d)
  OBVIOUS
<1>1. <<c>> \in Seq(Command) /\ <<c, d>> \in Seq(Command) /\ Len(<<c>>) = 1 /\ Len(<<c, d>>) = 2 /\ Len(<<>>) = 0
  OBVIOUS
<1>2. <<c>> # <<>> /\ <<c, d>> # <<>>
  BY <1>1
<1>3. Head(<<c>>) = c /\ Tail(<<c>>) = <<>> /\ Head(<<c, d>>) = c /\ Tail(<<c, d>>) = <<d>>
  OBVIOUS
<1>4. Append(<<>>, c) = <<c>>
  OBVIOUS
<1>5. Append(<<c>>, d) = <<c, d>>
  <2> DEFINE q == Append(<<c>>, d)
             r == <<c, d>>
  <2>1. q \in Seq(Command) /\ Len(q) = 2 /\ q[1] = c /\ q[2] = d
    BY <1>1
  <2>2. r \in Seq(Command) /\ Len(r) = 2 /\ r[1] = c /\ r[2] = d
    BY <1>1
  <2> HIDE DEF q, r
  <2>3. \A i \in 1 .. Len(q) : q[i] = r[i]
    BY <2>1, <2>2
  <2>4. q = r
    BY <2>1, <2>2, <2>3, SeqEqual
  <2> QED
    BY <2>4 DEF q, r
<1>6. <<c>> = <<d>> => c = d
  <2>1. <<c>>[1] = c /\ <<d>>[1] = d
    OBVIOUS
  <2> QED
    BY <2>1
<1> QED
  BY <1>1, <1>2, <1>3, <1>4, <1>5, <1>6

\* A command is sent when nothing else is on its way: a closed connection
\* takes none.
LEMMA SendFacts ==
    ASSUME NEW s, NEW cmd, TypeOK, Send(s, cmd), cmd \in Command, pipe[attempt] = <<>>
    PROVE  /\ pipe' \in [Attempts -> Seq(Command)]
           /\ \A a \in Attempts : a # attempt => pipe'[a] = pipe[a]
           /\ link[attempt] = "down" => pipe'[attempt] = <<>>
           /\ link[attempt] # "down" => pipe'[attempt] = <<cmd>>
           /\ pc' = s /\ reply' = "none"
           /\ UNCHANGED <<retry, fixed, srv, work, table, executed, kept, dropped, ledger>>
<1>1. attempt \in Attempts /\ pipe \in [Attempts -> Seq(Command)]
  BY DEF TypeOK, WriteTypeOK, RetryTypeOK
<1>2. Append(<<>>, cmd) = <<cmd>> /\ <<cmd>> \in Seq(Command)
  OBVIOUS
<1> QED
  BY <1>1, <1>2 DEF Send

\* The next stage, after the answer to one or from the input.
LEMMA SendKeeps ==
    ASSUME NEW s, NEW cmd, IInv, Running, Send(s, cmd), UNCHANGED <<cause, why, link>>,
           pc \in Stages \cup {"input"}, pc # "commit", reply = "ok" \/ pc = "input",
           s \in Stages \ {"precheck"}, Fits(s, cmd),
           s \in Before => pc \in Before \ {"begin"},
           s \notin Before => pc \notin Before \/ pc = "begin",
           armed' \in BOOLEAN, armed => armed',
           s = "create" => armed' /\ mode = "create" /\ adapter \in {"mysql", "oracle"} /\ ~table[attempt],
           received' \in 0 .. MaxBatches, received' = IF s = "rows" THEN received + 1 ELSE received
    PROVE  IInv'
<1> USE DEF IInv, Running
<1>0. /\ attempt \in Attempts /\ adapter \in Adapters /\ received \in 0 .. MaxBatches
      /\ link \in [Attempts -> {"unborn", "up", "down"}] /\ cmd \in Command
      /\ "start" \notin Stages /\ "input" \notin Stages /\ "rollback" \notin Stages
      /\ executed[attempt] \in Nat /\ "commit" \notin Before
  BY StageNames, WriteAssumption DEF TypeOK, WriteTypeOK, RetryTypeOK, Fits
<1>1. WireOK /\ BeforeOK /\ InsideOK /\ CountOK /\ TableOK /\ pipe[attempt] = <<>>
  BY <1>0 DEF RunOK, WireOK
<1>2. /\ pipe' \in [Attempts -> Seq(Command)]
      /\ \A a \in Attempts : a # attempt => pipe'[a] = pipe[a]
      /\ link[attempt] = "down" => pipe'[attempt] = <<>>
      /\ link[attempt] # "down" => pipe'[attempt] = <<cmd>>
      /\ pc' = s /\ reply' = "none"
      /\ UNCHANGED <<retry, fixed, srv, work, table, executed, kept, dropped, ledger>>
  BY <1>0, <1>1, SendFacts
<1>3. /\ attempt' = attempt /\ Before' = Before /\ Explicit' = Explicit /\ adapter' = adapter /\ mode' = mode
      /\ Stages' = Stages /\ link' = link /\ rt' = rt /\ Healthy' = Healthy /\ table' = table
      /\ executed' = executed /\ srv' = srv /\ work' = work
  BY <1>2, Constant DEF retry, Healthy
<1>4. TypeOK'
  BY <1>0, <1>2, <1>3 DEF TypeOK, WriteTypeOK, RetryTypeOK, retry, fixed, Reply, Between
<1>5. Residue(attempt)' => mode = "create" /\ adapter \in {"mysql", "oracle"} /\ armed'
  BY <1>0, <1>1, <1>2, <1>3 DEF Residue, ResidueOK, Fits
<1>6. WireOK'
  <2>1. Fits(pc, cmd)'
    BY <1>2, <1>3 DEF Fits
  <2>2. pc' # "rollback" /\ pc' # "input"
    BY <1>0, <1>2
  <2>3. pipe'[attempt'] # <<>> => cmd \in Command /\ pipe'[attempt'] = <<cmd>>
    BY <1>0, <1>2, <1>3
  <2>4. link'[attempt'] = "up" => pipe'[attempt'] # <<>>
    BY <1>0, <1>2, <1>3, Tuples
  <2>5. link'[attempt'] # "unborn"
    BY <1>1, <1>3 DEF WireOK
  <2> QED
    BY <1>2, <2>1, <2>2, <2>3, <2>4, <2>5 DEF WireOK
<1>s. s \notin Before => Healthy \/ (link[attempt] = "down" /\ work[attempt] # "applied")
  BY <1>0, <1>1 DEF WireOK, BeforeOK, InsideOK, Refusal
<1>7. BeforeOK'
  BY <1>1, <1>2, <1>3 DEF BeforeOK, Refusal
<1>8. InsideOK'
  BY <1>0, <1>2, <1>3, <1>s DEF InsideOK
<1>9. CommitOK' /\ RollbackOK'
  BY <1>0, <1>1, <1>2, <1>3, <1>s DEF CommitOK, RollbackOK, Fits
<1>10. CountOK'
  BY <1>0, <1>1, <1>2, <1>3 DEF CountOK
<1>11. TableOK'
  BY <1>1, <1>2, <1>3 DEF TableOK
<1> QED
  BY <1>0, <1>2, <1>3, <1>4, <1>5, <1>6, <1>7, <1>8, <1>9, <1>10, <1>11, RunFrame DEF RunOK, Single

\* The input is asked for the next batch.
LEMMA InputKeeps ==
    ASSUME IInv, Running, ToInput, pc \in Stages \ {"commit"}, reply = "ok", pc \notin Before \/ pc = "begin"
    PROVE  IInv'
<1> USE DEF IInv, Running
<1>0. /\ attempt \in Attempts /\ adapter \in Adapters
      /\ "start" \notin Stages /\ "input" \notin Stages /\ "rollback" \notin Stages /\ Before \subseteq Stages
  BY StageNames DEF TypeOK, WriteTypeOK, RetryTypeOK
<1>1. WireOK /\ BeforeOK /\ InsideOK /\ CountOK /\ TableOK /\ pipe[attempt] = <<>>
  BY <1>0 DEF RunOK, WireOK
<1>2. /\ pc' = "input" /\ reply' = "none" /\ UNCHANGED <<retry, fixed, received, cause, why, armed, remote, client>>
      /\ pipe' = pipe /\ srv' = srv /\ work' = work /\ table' = table /\ executed' = executed /\ link' = link
      /\ kept' = kept /\ dropped' = dropped /\ ledger' = ledger
  BY DEF ToInput, remote, client
<1>3. /\ attempt' = attempt /\ Before' = Before /\ Explicit' = Explicit /\ adapter' = adapter /\ mode' = mode
      /\ Stages' = Stages /\ rt' = rt /\ Healthy' = Healthy
  BY <1>2, Constant DEF retry, Healthy
<1>4. TypeOK'
  BY <1>2, <1>3 DEF TypeOK, WriteTypeOK, RetryTypeOK, retry, fixed, Reply, Between
<1>5. Residue(attempt)' => mode = "create" /\ adapter \in {"mysql", "oracle"} /\ armed'
  BY <1>0, <1>2, <1>3 DEF Residue, ResidueOK
<1>6. WireOK' /\ BeforeOK' /\ CommitOK' /\ RollbackOK' /\ CountOK' /\ TableOK'
  BY <1>0, <1>1, <1>2, <1>3 DEF WireOK, BeforeOK, CommitOK, RollbackOK, CountOK, TableOK
<1>7. InsideOK'
  BY <1>0, <1>1, <1>2, <1>3 DEF BeforeOK, InsideOK, Refusal, Healthy
<1> QED
  BY <1>0, <1>1, <1>2, <1>3, <1>4, <1>5, <1>6, <1>7, RunFrame DEF RunOK

\* The first command of an attempt, on a session that nobody used.
LEMMA OpenKeeps ==
    ASSUME NEW s, NEW cmd, IInv, At("start"), Send(s, cmd), link' = [link EXCEPT ![attempt] = "up"],
           received' = 0, UNCHANGED <<cause, why>>, armed' \in BOOLEAN,
           s \in Stages \ {"commit", "rows"}, Fits(s, cmd), Explicit => s \in Before,
           s = "create" => armed' /\ mode = "create" /\ adapter \in {"mysql", "oracle"},
           s = "precheck" => mode = "create"
    PROVE  IInv'
<1> USE DEF IInv, Running, At
<1>0. /\ attempt \in Attempts /\ adapter \in Adapters /\ cmd \in Command
      /\ link \in [Attempts -> {"unborn", "up", "down"}]
      /\ "start" \notin Stages /\ "input" \notin Stages /\ "rollback" \notin Stages /\ 0 \in 0 .. MaxBatches
  BY StageNames, WriteAssumption DEF TypeOK, WriteTypeOK, RetryTypeOK, Fits
<1>1. /\ pipe[attempt] = <<>> /\ srv[attempt] = "none" /\ work[attempt] = "none" /\ ~table[attempt]
      /\ executed[attempt] = 0 /\ link[attempt] = "unborn"
  BY <1>0 DEF RetryOK, FreshOK, Fresh
<1>2. /\ pipe' \in [Attempts -> Seq(Command)]
      /\ \A a \in Attempts : a # attempt => pipe'[a] = pipe[a]
      /\ pipe'[attempt] = <<cmd>>
      /\ pc' = s /\ reply' = "none"
      /\ UNCHANGED <<retry, fixed, srv, work, table, executed, kept, dropped, ledger>>
  BY <1>0, <1>1, SendFacts
<1>3. /\ attempt' = attempt /\ Before' = Before /\ Explicit' = Explicit /\ adapter' = adapter /\ mode' = mode
      /\ Stages' = Stages /\ rt' = rt /\ Healthy' = Healthy /\ table' = table
      /\ executed' = executed /\ srv' = srv /\ work' = work
      /\ link'[attempt] = "up" /\ \A a \in Attempts : a # attempt => link'[a] = link[a]
  BY <1>0, <1>2, Constant DEF retry, Healthy
<1>4. TypeOK'
  BY <1>0, <1>2, <1>3 DEF TypeOK, WriteTypeOK, RetryTypeOK, retry, fixed, Reply, Between
<1>5. Residue(attempt)' => mode = "create" /\ adapter \in {"mysql", "oracle"} /\ armed'
  <2>1. Residue(attempt)' => cmd = "create"
    BY <1>0, <1>1, <1>2, <1>3, Tuples DEF Residue, Command
  <2> QED
    BY <2>1 DEF Fits
<1>6. WireOK'
  <2>1. Fits(pc, cmd)'
    BY <1>2, <1>3 DEF Fits
  <2>2. pc' # "rollback" /\ pc' # "input" /\ pipe'[attempt'] = <<cmd>> /\ pipe'[attempt'] # <<>>
    BY <1>0, <1>2, <1>3, Tuples
  <2> QED
    BY <1>0, <1>2, <1>3, <2>1, <2>2 DEF WireOK
<1>7. BeforeOK' /\ InsideOK'
  BY <1>0, <1>1, <1>2, <1>3 DEF BeforeOK, InsideOK, Healthy
<1>8. CommitOK' /\ RollbackOK' /\ CountOK' /\ TableOK'
  BY <1>0, <1>1, <1>2, <1>3 DEF CommitOK, RollbackOK, CountOK, TableOK
<1> QED
  BY <1>0, <1>2, <1>3, <1>4, <1>5, <1>6, <1>7, <1>8, RunFrame DEF RunOK, Single

\* ROLLBACK is sent, on PostgreSQL also behind a statement; a closed link takes
\* nothing.
LEMMA RollbackKeeps ==
    ASSUME NEW w, NEW e, IInv, Running, StartRollback(w, e),
           pc \in (Stages \cup {"input"}) \ (Before \cup {"commit", "create", "discard"}),
           adapter = "postgres" \/ pipe[attempt] = <<>> \/ link[attempt] = "down", w \in Rollback \ {"none"},
           e \in Answer, e.status = "error", e.effect \in {"none", "unknown", "rolled_back"},
           adapter = "mysql" /\ e.effect = "rolled_back" => work[attempt] = "discarded"
    PROVE  IInv'
<1> USE DEF IInv, Running
<1>0. /\ attempt \in Attempts /\ adapter \in Adapters /\ "rollback" \in Command /\ "rollback" \notin Stages
      /\ link \in [Attempts -> {"unborn", "up", "down"}] /\ pipe \in [Attempts -> Seq(Command)]
      /\ "start" \notin Stages /\ "input" \notin Stages /\ Before \subseteq Stages
      /\ executed[attempt] \in Nat /\ received \in Nat /\ pc # "start"
  BY StageNames, WriteAssumption DEF TypeOK, WriteTypeOK, RetryTypeOK, Command
<1>1. WireOK /\ InsideOK /\ CountOK
  BY <1>0 DEF RunOK
<1>2. /\ why' = w /\ cause' = e /\ Send("rollback", "rollback") /\ UNCHANGED <<received, armed, link>>
  BY DEF StartRollback
<1>3. /\ pc' = "rollback" /\ reply' = "none" /\ UNCHANGED <<retry, fixed, srv, work, table, executed, kept, dropped, ledger>>
      /\ \A a \in Attempts : a # attempt => pipe'[a] = pipe[a] /\ link'[a] = link[a]
      /\ pipe'[attempt] = IF link[attempt] = "down" THEN pipe[attempt] ELSE Append(pipe[attempt], "rollback")
      /\ pipe' \in [Attempts -> Seq(Command)]
  BY <1>0, <1>2 DEF Send
<1>4. /\ attempt' = attempt /\ Before' = Before /\ Explicit' = Explicit /\ adapter' = adapter /\ mode' = mode
      /\ Stages' = Stages /\ link' = link /\ rt' = rt /\ Healthy' = Healthy /\ table' = table
      /\ executed' = executed /\ srv' = srv /\ work' = work
  BY <1>2, <1>3, Constant DEF retry, Healthy
<1>5. TypeOK'
  BY <1>0, <1>2, <1>3, <1>4 DEF TypeOK, WriteTypeOK, RetryTypeOK, retry, fixed, Reply, Between
<1>6. pipe[attempt] # <<>> => /\ Healthy /\ (adapter = "postgres" \/ link[attempt] = "down")
                              /\ \E c \in {"read", "execute"} : pipe[attempt] = <<c>>
  <2> SUFFICES ASSUME pipe[attempt] # <<>>
               PROVE  /\ Healthy /\ (adapter = "postgres" \/ link[attempt] = "down")
                      /\ \E c \in {"read", "execute"} : pipe[attempt] = <<c>>
    OBVIOUS
  <2>1. PICK c \in Command : pipe[attempt] = <<c>> /\ Fits(pc, c)
    BY <1>0, <1>1 DEF WireOK
  <2>2. Healthy
    BY <1>0, <1>1 DEF InsideOK
  <2>3. Explicit => pc # "begin"
    BY DEF Explicit, Before
  <2>4. c \in {"read", "execute"}
    BY <1>0, <2>1, <2>3 DEF Fits, Command
  <2> QED
    BY <2>1, <2>2, <2>4
<1>7. \/ pipe'[attempt] = <<>> /\ link[attempt] = "down"
      \/ pipe'[attempt] = <<"rollback">>
      \/ /\ Healthy
         /\ \E c \in {"read", "execute"} : \/ pipe'[attempt] = <<c, "rollback">> /\ adapter = "postgres"
                                           \/ pipe'[attempt] = <<c>> /\ link[attempt] = "down"
  <2>1. CASE pipe[attempt] = <<>>
    BY <1>0, <1>3, <2>1, Tuples
  <2>2. CASE pipe[attempt] # <<>>
    <3>1. PICK c \in {"read", "execute"} : pipe[attempt] = <<c>>
      BY <1>6, <2>2
    <3>2. Append(<<c>>, "rollback") = <<c, "rollback">>
      BY <1>0, Tuples DEF Command
    <3> QED
      BY <1>3, <1>6, <2>2, <3>1, <3>2
  <2> QED
    BY <2>1, <2>2
<1>8. Residue(attempt)' => mode = "create" /\ adapter \in {"mysql", "oracle"} /\ armed'
  <2>1. pipe'[attempt] # <<"create">>
    <3>1. \A c \in {"read", "execute"} : <<c, "rollback">> # <<"create">> /\ <<c>> # <<"create">>
      <4> TAKE c \in {"read", "execute"}
      <4>1. c \in Command /\ "create" \in Command /\ "rollback" \in Command
        BY DEF Command
      <4> QED
        BY <4>1, Tuples
    <3>2. <<"rollback">> # <<"create">> /\ <<>> # <<"create">>
      BY Tuples DEF Command
    <3> QED
      BY <1>7, <3>1, <3>2
  <2> QED
    BY <1>0, <1>2, <1>4, <2>1 DEF Residue, ResidueOK
<1>9. WireOK'
  <2>0. link'[attempt'] # "unborn" /\ pc' = "rollback" /\ reply' = "none"
    BY <1>1, <1>3, <1>4 DEF WireOK
  <2>1. CASE pipe'[attempt] = <<>> /\ link[attempt] = "down"
    BY <1>3, <1>4, <2>0, <2>1 DEF WireOK
  <2>2. CASE pipe'[attempt] = <<"rollback">>
    <3>1. pipe'[attempt'] # <<>> /\ Head(pipe'[attempt']) = "rollback"
      BY <1>0, <1>4, <2>2, Tuples
    <3> QED
      BY <2>0, <3>1 DEF WireOK
  <2>3. ASSUME NEW c \in {"read", "execute"}, Healthy,
               pipe'[attempt] = <<c, "rollback">> \/ (pipe'[attempt] = <<c>> /\ link[attempt] = "down")
        PROVE  WireOK'
    <3>0. c \in Command /\ "rollback" \in Command
      BY <2>3 DEF Command
    <3>1. pipe'[attempt'] # <<>> /\ Head(pipe'[attempt']) = c /\ (link'[attempt'] = "down" \/ Len(pipe'[attempt']) = 2)
      <4>1. CASE pipe'[attempt] = <<c, "rollback">>
        BY <1>4, <3>0, <4>1, Tuples
      <4>2. CASE pipe'[attempt] = <<c>> /\ link[attempt] = "down"
        BY <1>4, <3>0, <4>2, Tuples
      <4> QED
        BY <2>3, <4>1, <4>2
    <3> QED
      BY <1>4, <2>0, <2>3, <3>1 DEF WireOK
  <2> QED
    BY <1>7, <2>1, <2>2, <2>3
<1>10. BeforeOK' /\ InsideOK' /\ CommitOK' /\ TableOK'
  BY <1>0, <1>3, <1>4 DEF BeforeOK, InsideOK, CommitOK, TableOK
<1>11. RollbackOK'
  <2>1. work[attempt] # "applied"
    BY <1>0, <1>1 DEF InsideOK, Healthy
  <2> QED
    BY <1>2, <1>3, <1>4, <2>1 DEF RollbackOK
<1>12. CountOK'
  BY <1>0, <1>1, <1>2, <1>3, <1>4 DEF CountOK
<1>13. \/ pipe'[attempt] = <<>> \/ Single(pipe'[attempt])
       \/ Followed(pipe'[attempt]) /\ adapter = "postgres"
  BY <1>0, <1>7 DEF Single, Followed, Command
<1> QED
  BY <1>0, <1>3, <1>5, <1>8, <1>9, <1>10, <1>11, <1>12, <1>13, RunFrame DEF RunOK

\* Before COMMIT is sent nothing on its way can apply the writes of the
\* attempt, and after a ROLLBACK or a COMMIT the answer says it.
LEMMA SealedWhen ==
    ASSUME IInv, Running,
           \/ pc \notin {"commit", "rollback"}
           \/ pc = "rollback" /\ (adapter # "mysql" \/ reply = "ok" \/ work[attempt] = "discarded")
           \/ pc = "commit" /\ reply = "proven"
    PROVE  Sealed(attempt)
<1> USE DEF IInv, Running
<1>0. /\ attempt \in Attempts /\ adapter \in Adapters /\ pc \in Stages \cup Between \cup {"rollback"}
      /\ "start" \notin Stages /\ "input" \notin Stages /\ "rollback" \notin Stages /\ Before \subseteq Stages
  BY StageNames DEF TypeOK, WriteTypeOK, RetryTypeOK
<1>1. CASE pc = "start"
  BY <1>0, <1>1 DEF RetryOK, FreshOK, Fresh, Sealed
<1>2. CASE pc \notin {"start", "commit", "rollback"}
  <2>1. WireOK /\ BeforeOK /\ InsideOK
    BY <1>2 DEF RunOK
  <2>2. work[attempt] # "applied"
    BY <1>2, <2>1 DEF BeforeOK, InsideOK, Healthy
  <2>3. ASSUME pipe[attempt] # <<>>
        PROVE  Sealed(attempt)
    <3>1. PICK c \in Command : pipe[attempt] = <<c>> /\ Fits(pc, c)
      BY <1>2, <2>1, <2>3 DEF WireOK
    <3>2. Head(pipe[attempt]) = c /\ c # "commit" /\ c # "rollback"
      BY <1>2, <3>1, Tuples DEF Fits
    <3>3. c = "execute" => srv[attempt] = "open" \/ ~Explicit
      BY <1>2, <2>1, <2>3, <3>1 DEF Fits, InsideOK, Healthy
    <3> QED
      BY <2>2, <3>2, <3>3 DEF Sealed
  <2> QED
    BY <2>2, <2>3 DEF Sealed
<1>3. CASE pc = "rollback"
  <2>1. WireOK /\ RollbackOK
    BY <1>3 DEF RunOK
  <2>2. work[attempt] # "applied"
    BY <1>3, <2>1 DEF RollbackOK
  <2>3. reply = "ok" => pipe[attempt] = <<>>
    BY <2>1 DEF WireOK
  <2>4. pipe[attempt] # <<>> /\ Head(pipe[attempt]) # "rollback" =>
           Head(pipe[attempt]) # "commit" /\ (srv[attempt] = "open" \/ ~Explicit)
    BY <1>3, <2>1 DEF WireOK, Healthy
  <2> QED
    BY <1>3, <2>2, <2>3, <2>4 DEF Sealed
<1>4. CASE pc = "commit"
  BY <1>4 DEF RunOK, WireOK, CommitOK, Sealed
<1> QED
  BY <1>1, <1>2, <1>3, <1>4

\* No attempt but this one has a residue.
LEMMA ResidueHere == ASSUME IInv, NEW a \in Attempts, a # attempt PROVE ~Residue(a)
<1>1. a < attempt \/ a > attempt
  BY RetryAssumption DEF IInv, Attempts, TypeOK, WriteTypeOK, RetryTypeOK
<1>2. CASE a > attempt
  BY <1>2 DEF IInv, FreshOK, Fresh, Residue
<1>3. CASE a < attempt
  BY <1>3 DEF IInv, RetryOK, ToldOK, Denies
<1> QED
  BY <1>1, <1>2, <1>3

\* The answer of an attempt.
LEMMA EndKeeps ==
    ASSUME NEW e, NEW keep, IInv, Running, EndAttempt(e, keep), e \in Answer,
           Denies(e) => Sealed(attempt) /\ ~Residue(attempt),
           e.status = "committed" => e.effect = "committed" /\ pc = "commit" /\ reply = "ok",
           keep /\ link[attempt] = "up" => srv[attempt] = "none" /\ pipe[attempt] = <<>>
    PROVE  IInv'
<1> USE DEF IInv, Running
<1>0. /\ attempt \in Attempts /\ adapter \in Adapters /\ told \in [Attempts -> Answer \cup {Untold}]
      /\ link \in [Attempts -> {"unborn", "up", "down"}] /\ kept \in SUBSET Attempts
      /\ NoCause \in Answer /\ e # Untold /\ e.status # "untold" /\ ~dropped
      /\ \A a \in Attempts : a # attempt => a < attempt \/ a > attempt
  <2>1. NoCause \in Answer
    BY DEF NoCause, NewError, Error, Answer, Phase, Effect, Disposition
  <2>2. e.status # "untold" /\ e # Untold
    BY DEF Answer, Untold
  <2>3. \A a \in Attempts : a # attempt => a < attempt \/ a > attempt
    BY RetryAssumption DEF TypeOK, WriteTypeOK, RetryTypeOK, Attempts
  <2> QED
    BY <2>1, <2>2, <2>3 DEF TypeOK, WriteTypeOK, RetryTypeOK, RetryOK
<1>1. /\ told' = [told EXCEPT ![attempt] = e] /\ rt' = "judge" /\ attempt' = attempt /\ cancelled' = cancelled
      /\ final' = final /\ pc' = "start" /\ cause' = NoCause /\ why' = "none" /\ reply' = "none" /\ armed' = FALSE
      /\ UNCHANGED fixed /\ received' = received /\ pipe' = pipe /\ srv' = srv /\ work' = work /\ table' = table
      /\ executed' = executed /\ dropped' = dropped /\ ledger' = ledger
  BY DEF EndAttempt, OpAnswers, remote
<1>2. /\ link' \in [Attempts -> {"unborn", "up", "down"}] /\ \A a \in Attempts : a # attempt => link'[a] = link[a]
      /\ kept' \subseteq kept \cup {attempt}
      /\ attempt \in kept' => attempt \in kept \/ (srv[attempt] = "none" /\ pipe[attempt] = <<>>)
  BY <1>0 DEF EndAttempt
<1>3. Stages' = Stages /\ Explicit' = Explicit /\ adapter' = adapter /\ mode' = mode
  BY <1>1, Constant
<1>4. TypeOK'
  BY <1>0, <1>1, <1>2, <1>3 DEF TypeOK, WriteTypeOK, RetryTypeOK, Reply, Between, Rollback
<1>5. told'[attempt] = e /\ \A a \in Attempts : a # attempt => told'[a] = told[a]
  BY <1>0, <1>1
<1>6. PipesOK' /\ DoneOK' /\ RunOK' /\ ResidueOK'
  BY <1>0, <1>1, <1>3 DEF PipesOK, DoneOK, RunOK, ResidueOK, Residue
<1>7. FreshOK'
  <2> SUFFICES ASSUME NEW a \in Attempts, Fresh(a)'
               PROVE  (/\ told[a] = Untold /\ pipe[a] = <<>> /\ srv[a] = "none" /\ work[a] = "none"
                       /\ ~table[a] /\ executed[a] = 0
                       /\ link[a] = "unborn" \/ (a = attempt /\ rt = "done"))'
    BY DEF FreshOK
  <2>1. a > attempt /\ a # attempt
    BY <1>0, <1>1, <1>5 DEF Fresh, Attempts
  <2> QED
    BY <1>1, <1>2, <1>5, <2>1 DEF FreshOK, Fresh
<1>8. RetryOK'
  BY <1>0, <1>1, <1>5 DEF RetryOK, Attempts
<1>9. ToldOK'
  <2> SUFFICES ASSUME NEW a \in Attempts
               PROVE  /\ Denies(told'[a]) => Sealed(a) /\ ~Residue(a)
                      /\ told'[a].status = "committed" =>
                            told'[a].effect = "committed" /\ work[a] = "applied" /\ pipe[a] = <<>> /\ executed[a] = received
    BY <1>1, <1>3 DEF ToldOK, Denies, IsRetryable, Sealed, Residue
  <2>1. CASE a # attempt
    BY <1>5, <2>1 DEF ToldOK
  <2>2. CASE a = attempt
    <3>1. Denies(e) => Sealed(a) /\ ~Residue(a)
      BY <2>2
    <3>2. e.status = "committed" => e.effect = "committed" /\ work[a] = "applied" /\ pipe[a] = <<>> /\ executed[a] = received
      BY <2>2 DEF RunOK, WireOK, CommitOK, CountOK
    <3> QED
      BY <1>5, <2>2, <3>1, <3>2
  <2> QED
    BY <2>1, <2>2
<1>10. KeptOK' /\ KeptIsClean'
  BY <1>0, <1>1, <1>2 DEF KeptOK, KeptIsClean
<1> QED
  BY <1>4, <1>6, <1>7, <1>8, <1>9, <1>10

\* The caller drops the call.
LEMMA DropKeeps ==
    ASSUME NEW keep, IInv, DropCall(keep), keep => pc = "discard" /\ adapter = "postgres"
    PROVE  IInv'
<1> USE DEF IInv, Running
<1>0. /\ rt = "run" /\ attempt \in Attempts /\ adapter \in Adapters
      /\ link \in [Attempts -> {"unborn", "up", "down"}] /\ kept \in SUBSET Attempts /\ ledger \in SUBSET Attempts
      /\ told[attempt] = Untold /\ \A a \in Attempts : a # attempt => a < attempt \/ a > attempt
  BY RetryAssumption DEF TypeOK, WriteTypeOK, RetryTypeOK, RetryOK, Attempts, DropCall
<1>1. /\ rt' = "done" /\ dropped' = TRUE /\ ledger' = IF armed THEN ledger \cup {attempt} ELSE ledger
      /\ attempt' = attempt /\ told' = told /\ cancelled' = cancelled /\ final' = final /\ UNCHANGED fixed
      /\ pc' = pc /\ received' = received /\ cause' = cause /\ why' = why /\ reply' = reply /\ armed' = armed
      /\ pipe' = pipe /\ srv' = srv /\ work' = work /\ table' = table /\ executed' = executed
  BY DEF DropCall, attempting, remote
<1>2. /\ link' \in [Attempts -> {"unborn", "up", "down"}] /\ \A a \in Attempts : a # attempt => link'[a] = link[a]
      /\ kept' \subseteq kept \cup {attempt}
      /\ attempt \in kept' => attempt \in kept \/ (pc = "discard" /\ adapter = "postgres")
  BY <1>0 DEF DropCall
<1>3. Stages' = Stages /\ Explicit' = Explicit /\ adapter' = adapter /\ mode' = mode
  BY <1>1, Constant
<1>4. TypeOK'
  BY <1>0, <1>1, <1>2, <1>3 DEF TypeOK, WriteTypeOK, RetryTypeOK
<1>5. PipesOK' /\ DoneOK' /\ RunOK' /\ RetryOK'
  BY <1>0, <1>1, <1>3 DEF PipesOK, DoneOK, RunOK, RetryOK
<1>6. ToldOK'
  BY <1>1, <1>3 DEF ToldOK, Sealed, Residue
<1>7. ResidueOK'
  <2> SUFFICES ASSUME NEW a \in Attempts, Residue(a)
               PROVE  mode = "create" /\ adapter \in {"mysql", "oracle"} /\ a \in ledger'
    BY <1>1, <1>3 DEF ResidueOK, Residue
  <2>1. a = attempt
    BY ResidueHere
  <2> QED
    BY <1>0, <1>1, <2>1 DEF ResidueOK
<1>8. FreshOK'
  <2> SUFFICES ASSUME NEW a \in Attempts, Fresh(a)'
               PROVE  (/\ told[a] = Untold /\ pipe[a] = <<>> /\ srv[a] = "none" /\ work[a] = "none"
                       /\ ~table[a] /\ executed[a] = 0
                       /\ link[a] = "unborn" \/ (a = attempt /\ rt = "done"))'
    BY DEF FreshOK
  <2>1. Fresh(a)
    BY <1>1 DEF Fresh
  <2> QED
    BY <1>0, <1>1, <1>2, <2>1 DEF FreshOK
<1>9. KeptOK'
  BY <1>0, <1>1, <1>2 DEF KeptOK
<1>10. KeptIsClean'
  <2> SUFFICES ASSUME NEW a \in kept'
               PROVE  srv[a] = "none" /\ pipe[a] \in {<<>>, <<"discard">>}
    BY <1>1 DEF KeptIsClean
  <2>1. CASE a \in kept
    BY <2>1 DEF KeptIsClean
  <2>2. CASE a \notin kept
    <3>1. a = attempt /\ pc = "discard" /\ adapter = "postgres"
      BY <1>2, <2>2
    <3>2. WireOK /\ BeforeOK /\ pc \in Before
      BY <1>0, <3>1 DEF RunOK, Before
    <3>3. srv[a] = "none"
      BY <3>1, <3>2 DEF BeforeOK
    <3>4. pipe[a] # <<>> => \E c \in Command : pipe[a] = <<c>> /\ c = "discard"
      BY <3>1, <3>2 DEF WireOK, Fits
    <3> QED
      BY <3>3, <3>4
  <2> QED
    BY <2>1, <2>2
<1> QED
  BY <1>4, <1>5, <1>6, <1>7, <1>8, <1>9, <1>10

-----------------------------------------------------------------------------
(* The retry executor.                                                     *)

\* When this attempt did nothing, or denies what it did, no attempt did.
LEMMA AllSealed ==
    ASSUME IInv, (pc = "start" /\ told[attempt] = Untold) \/ Denies(told[attempt])
    PROVE  \A a \in Attempts : Sealed(a)
<1> TAKE a \in Attempts
<1>1. a < attempt \/ a = attempt \/ a > attempt
  BY RetryAssumption DEF IInv, Attempts, TypeOK, WriteTypeOK, RetryTypeOK
<1>2. CASE Fresh(a)
  BY <1>2 DEF IInv, FreshOK, Sealed
<1>3. CASE a < attempt
  BY <1>3 DEF IInv, RetryOK, ToldOK, Denies
<1>4. CASE a = attempt /\ Denies(told[attempt])
  BY <1>4 DEF IInv, ToldOK
<1> QED
  BY <1>1, <1>2, <1>3, <1>4 DEF Fresh

\* The executor gives an answer back: an error that says nothing happened is
\* true of all the attempts.
LEMMA GiveBackKeeps ==
    ASSUME NEW e, IInv, rt \in {"check", "judge", "sleep"}, GiveBack(e), UNCHANGED <<fixed, attempting, remote, client>>,
           e \in Answer,
           e.status = "error" /\ e.effect \in {"none", "rolled_back"} => \A a \in Attempts : Sealed(a),
           e.status = "committed" => e.effect = "committed" /\ work[attempt] = "applied" /\ pipe[attempt] = <<>>
    PROVE  IInv'
<1> USE DEF IInv
<1>1. /\ rt' = "done" /\ final' = Settle(e) /\ attempt' = attempt /\ told' = told /\ cancelled' = cancelled
      /\ pc' = pc /\ received' = received /\ cause' = cause /\ why' = why /\ reply' = reply /\ armed' = armed
      /\ pipe' = pipe /\ srv' = srv /\ work' = work /\ table' = table /\ executed' = executed
      /\ link' = link /\ kept' = kept /\ dropped' = dropped /\ ledger' = ledger /\ UNCHANGED fixed
  BY DEF GiveBack, attempting, remote, client
<1>2. Stages' = Stages /\ Explicit' = Explicit /\ adapter' = adapter /\ mode' = mode
  BY <1>1, Constant
<1>3. Settle(e) \in Answer
  BY DEF Settle, Answer, Error, Phase, Effect, Disposition
<1>4. TypeOK'
  BY <1>1, <1>2, <1>3 DEF TypeOK, WriteTypeOK, RetryTypeOK
<1>5. /\ Settle(e).effect \in {"none", "rolled_back"} => e.status = "error" /\ e.effect \in {"none", "rolled_back"}
      /\ Settle(e).status = "committed" => e.status = "committed"
  BY DEF Settle, Answer, Error
<1>6. DoneOK'
  BY <1>1, <1>2, <1>5 DEF DoneOK, Sealed
<1>7. PipesOK' /\ RunOK' /\ RetryOK' /\ ResidueOK' /\ KeptOK' /\ KeptIsClean'
  BY <1>1, <1>2 DEF PipesOK, RunOK, RetryOK, ResidueOK, Residue, KeptOK, KeptIsClean
<1>8. ToldOK' /\ FreshOK'
  BY <1>1, <1>2 DEF ToldOK, Sealed, Residue, FreshOK, Fresh
<1> QED
  BY <1>4, <1>6, <1>7, <1>8

\* An attempt that may be repeated is.
LEMMA TryAgainKeeps ==
    ASSUME IInv, rt \in {"judge", "sleep"}, TryAgain, UNCHANGED <<fixed, attempting, remote, client>>,
           attempt + 1 <= MaxAttempts, told[attempt].status = "error", IsRetryable(told[attempt])
    PROVE  IInv'
<1> USE DEF IInv
<1>1. /\ rt' = "check" /\ final' = final /\ attempt' = attempt + 1 /\ told' = told /\ cancelled' = cancelled
      /\ pc' = pc /\ received' = received /\ cause' = cause /\ why' = why /\ reply' = reply /\ armed' = armed
      /\ pipe' = pipe /\ srv' = srv /\ work' = work /\ table' = table /\ executed' = executed
      /\ link' = link /\ kept' = kept /\ dropped' = dropped /\ ledger' = ledger /\ UNCHANGED fixed
  BY DEF TryAgain, attempting, remote, client
<1>2. Stages' = Stages /\ Explicit' = Explicit /\ adapter' = adapter /\ mode' = mode
  BY <1>1, Constant
<1>3. /\ attempt \in Attempts /\ attempt + 1 \in Attempts /\ pc = "start" /\ ~dropped
      /\ \A a \in Attempts : (a >= attempt + 1 => a > attempt) /\ (a < attempt + 1 => a < attempt \/ a = attempt)
  BY RetryAssumption DEF TypeOK, WriteTypeOK, RetryTypeOK, RetryOK, Attempts
<1>4. TypeOK'
  BY <1>1, <1>2, <1>3 DEF TypeOK, WriteTypeOK, RetryTypeOK
<1>5. FreshOK'
  <2> SUFFICES ASSUME NEW a \in Attempts, Fresh(a)'
               PROVE  (/\ told[a] = Untold /\ pipe[a] = <<>> /\ srv[a] = "none" /\ work[a] = "none"
                       /\ ~table[a] /\ executed[a] = 0
                       /\ link[a] = "unborn" \/ (a = attempt /\ rt = "done"))'
    BY DEF FreshOK
  <2>1. a > attempt /\ a # attempt
    BY <1>1, <1>3 DEF Fresh, Attempts
  <2> QED
    BY <1>1, <2>1 DEF FreshOK, Fresh
<1>6. RetryOK'
  <2>1. told[attempt + 1] = Untold
    BY <1>3 DEF FreshOK, Fresh, Attempts
  <2> QED
    BY <1>1, <1>3, <2>1 DEF RetryOK
<1>7. PipesOK' /\ RunOK' /\ DoneOK' /\ ResidueOK'
  BY <1>1, <1>2, <1>3 DEF PipesOK, RunOK, DoneOK, ResidueOK, Residue
<1>8. ToldOK'
  BY <1>1, <1>2 DEF ToldOK, Sealed, Residue
<1>9. KeptOK' /\ KeptIsClean'
  <2>1. \A a \in kept : a \in Attempts
    BY DEF TypeOK, WriteTypeOK
  <2> QED
    BY <1>1, <1>3, <2>1 DEF KeptOK, KeptIsClean, Attempts
<1> QED
  BY <1>4, <1>5, <1>6, <1>7, <1>8, <1>9

\* Every step of the executor.
LEMMA ExecutorKeeps == ASSUME IInv, Executor(RetryNext) PROVE IInv'
<1> USE DEF IInv
<1>0. UNCHANGED <<fixed, attempting, remote, client>> /\ RetryNext
  BY DEF Executor
<1>1. /\ pc' = pc /\ received' = received /\ cause' = cause /\ why' = why /\ reply' = reply /\ armed' = armed
      /\ pipe' = pipe /\ srv' = srv /\ work' = work /\ table' = table /\ executed' = executed
      /\ link' = link /\ kept' = kept /\ dropped' = dropped /\ ledger' = ledger /\ UNCHANGED fixed
  BY <1>0 DEF attempting, remote, client
<1>2. /\ Stages' = Stages /\ Explicit' = Explicit /\ adapter' = adapter /\ mode' = mode /\ Before' = Before
      /\ attempt \in Attempts /\ told \in [Attempts -> Answer \cup {Untold}]
  BY <1>1, Constant DEF TypeOK, WriteTypeOK, RetryTypeOK
<1>3. Interrupted("cleanup") \in Answer /\ Interrupted("cleanup").status = "error"
  BY DEF Interrupted, NewError, Error, Answer, Phase, Effect, Disposition
<1>4. CASE Cancel
  <2>1. rt' = rt /\ attempt' = attempt /\ told' = told /\ final' = final /\ cancelled' = TRUE
    BY <1>4 DEF Cancel
  <2>2. TypeOK'
    BY <1>1, <1>2, <2>1 DEF TypeOK, WriteTypeOK, RetryTypeOK
  <2>3. PipesOK' /\ FreshOK' /\ RetryOK' /\ KeptOK' /\ KeptIsClean'
    BY <1>1, <1>2, <2>1 DEF PipesOK, FreshOK, Fresh, RetryOK, KeptOK, KeptIsClean
  <2>4. ToldOK' /\ DoneOK' /\ ResidueOK'
    BY <1>1, <1>2, <2>1 DEF ToldOK, DoneOK, ResidueOK, Residue, Sealed
  <2>5. Healthy' = Healthy /\ (\A c \in Command : Fits(pc, c)' = Fits(pc, c))
    BY <1>1, <1>2, <2>1 DEF Healthy, Fits
  <2>6. WireOK' = WireOK /\ BeforeOK' = BeforeOK /\ InsideOK' = InsideOK
    BY <1>1, <1>2, <2>1, <2>5 DEF WireOK, BeforeOK, InsideOK, Refusal
  <2>7. CommitOK' = CommitOK /\ RollbackOK' = RollbackOK /\ CountOK' = CountOK /\ TableOK' = TableOK
    BY <1>1, <1>2, <2>1, <2>5 DEF CommitOK, RollbackOK, CountOK, TableOK
  <2> QED
    BY <1>1, <2>1, <2>2, <2>3, <2>4, <2>6, <2>7 DEF RunOK
<1>5. CASE CheckToken
  <2>1. rt = "check" /\ pc = "start" /\ told[attempt] = Untold /\ Fresh(attempt)
    BY <1>5 DEF CheckToken, RetryOK, Fresh
  <2>2. CASE GiveBack(Interrupted("cleanup"))
    BY <1>0, <1>3, <2>1, <2>2, AllSealed, GiveBackKeeps
  <2>3. CASE rt' = "run" /\ UNCHANGED <<attempt, told, cancelled, final>>
    <3>1. TypeOK' /\ PipesOK' /\ RunOK' /\ DoneOK'
      BY <1>1, <1>2, <2>1, <2>3 DEF TypeOK, WriteTypeOK, RetryTypeOK, PipesOK, RunOK, DoneOK
    <3>2. FreshOK' /\ RetryOK' /\ KeptOK' /\ KeptIsClean'
      BY <1>1, <1>2, <2>1, <2>3 DEF FreshOK, Fresh, RetryOK, KeptOK, KeptIsClean
    <3>3. ToldOK'
      BY <1>1, <1>2, <2>1, <2>3 DEF ToldOK, Sealed, Residue
    <3>4. \A a \in Attempts : ~Residue(a)
      <4>1. ~Residue(attempt)
        BY <1>2, <2>1 DEF FreshOK, Residue
      <4> QED
        BY <4>1, ResidueHere
    <3>5. ResidueOK'
      BY <1>1, <3>4 DEF ResidueOK, Residue
    <3> QED
      BY <3>1, <3>2, <3>3, <3>5
  <2> QED
    BY <1>5, <2>2, <2>3 DEF CheckToken
<1>6. CASE Judge
  <2>1. rt = "judge" /\ pc = "start" /\ told[attempt] \in Answer
    BY <1>2, <1>6 DEF Judge, RetryOK, Untold
  <2>2. CASE GiveBack(told[attempt])
    <3>1. told[attempt].status = "error" /\ told[attempt].effect \in {"none", "rolled_back"} => \A a \in Attempts : Sealed(a)
      BY AllSealed DEF Denies
    <3>2. told[attempt].status = "committed" =>
             told[attempt].effect = "committed" /\ work[attempt] = "applied" /\ pipe[attempt] = <<>>
      BY <1>2 DEF ToldOK
    <3> QED
      BY <1>0, <2>1, <2>2, <3>1, <3>2, GiveBackKeeps
  <2>3. CASE TryAgain /\ told[attempt].status = "error" /\ attempt + 1 <= MaxAttempts /\ told[attempt].retry = "safe"
    BY <1>0, <2>1, <2>3, TryAgainKeeps DEF IsRetryable
  <2>4. CASE /\ rt' = "sleep" /\ UNCHANGED <<attempt, told, cancelled, final>>
             /\ told[attempt].status = "error" /\ attempt + 1 <= MaxAttempts /\ IsRetryable(told[attempt])
    <3>0. attempt < MaxAttempts
      BY <1>2, <2>4, RetryAssumption DEF Attempts
    <3>1. TypeOK' /\ PipesOK' /\ RunOK' /\ DoneOK'
      BY <1>1, <1>2, <2>1, <2>4 DEF TypeOK, WriteTypeOK, RetryTypeOK, PipesOK, RunOK, DoneOK
    <3>2. FreshOK' /\ RetryOK' /\ KeptOK' /\ KeptIsClean'
      BY <1>1, <1>2, <2>1, <2>4, <3>0 DEF FreshOK, Fresh, RetryOK, KeptOK, KeptIsClean, Untold
    <3>3. ToldOK' /\ ResidueOK'
      BY <1>1, <1>2, <2>1, <2>4 DEF ToldOK, Sealed, Residue, ResidueOK
    <3> QED
      BY <3>1, <3>2, <3>3
  <2>5. \/ told[attempt].status # "error" \/ attempt + 1 > MaxAttempts \/ ~IsRetryable(told[attempt])
        \/ told[attempt].status = "error" /\ attempt + 1 <= MaxAttempts /\ IsRetryable(told[attempt])
    BY <1>2, RetryAssumption DEF Attempts
  <2> QED
    BY <1>6, <2>2, <2>3, <2>4, <2>5 DEF Judge
<1>7. CASE WakeUp
  <2>1. rt = "sleep" /\ Denies(told[attempt]) /\ told[attempt].status = "error" /\ IsRetryable(told[attempt])
        /\ attempt + 1 <= MaxAttempts
    BY <1>2, <1>7, RetryAssumption DEF WakeUp, RetryOK, Denies, Attempts
  <2>2. CASE GiveBack(Interrupted("cleanup"))
    BY <1>0, <1>3, <2>1, <2>2, AllSealed, GiveBackKeeps
  <2>3. CASE TryAgain
    BY <1>0, <2>1, <2>3, TryAgainKeeps
  <2> QED
    BY <1>7, <2>2, <2>3 DEF WakeUp
<1> QED
  BY <1>0, <1>4, <1>5, <1>6, <1>7 DEF RetryNext

-----------------------------------------------------------------------------
(* The server and the link.                                                *)

\* A step of one session, its link included, keeps what was told of it.
LEMMA SessionFrame ==
    ASSUME NEW a \in Attempts, IInv, UNCHANGED <<retry, fixed, pc, received, cause, why, armed, kept, dropped, ledger>>,
           \A b \in Attempts : b # a => /\ pipe'[b] = pipe[b] /\ srv'[b] = srv[b] /\ work'[b] = work[b]
                                        /\ table'[b] = table[b] /\ executed'[b] = executed[b] /\ link'[b] = link[b],
           a # attempt \/ rt # "run" \/ pc = "start" => reply' = reply /\ executed'[a] = executed[a],
           TypeOK',
           pipe'[a] = <<>> \/ Single(pipe'[a]) \/ (Followed(pipe'[a]) /\ adapter = "postgres"),
           pipe[a] = <<>> => pipe'[a] = <<>> /\ table'[a] = table[a] /\ (work[a] # "pending" => work'[a] = work[a]),
           srv[a] = "none" /\ pipe[a] \in {<<>>, <<"discard">>} => srv'[a] = "none" /\ pipe'[a] \in {<<>>, pipe[a]},
           link[a] = "unborn" => link'[a] = "unborn",
           Sealed(a) => Sealed(a)', Residue(a)' => Residue(a),
           a = attempt /\ rt = "run" /\ pc # "start" => RunOK'
    PROVE  IInv'
<1> USE DEF IInv
<1>1. /\ rt' = rt /\ attempt' = attempt /\ told' = told /\ final' = final /\ cancelled' = cancelled
      /\ pc' = pc /\ received' = received /\ cause' = cause /\ why' = why /\ armed' = armed
      /\ kept' = kept /\ dropped' = dropped /\ ledger' = ledger
      /\ Explicit' = Explicit /\ adapter' = adapter /\ mode' = mode /\ Before' = Before
  BY Constant DEF retry
<1>2. attempt \in Attempts /\ kept \subseteq Attempts
  BY DEF TypeOK, WriteTypeOK, RetryTypeOK
<1>3. PipesOK'
  BY <1>1 DEF PipesOK
<1>4. FreshOK'
  <2> SUFFICES ASSUME NEW b \in Attempts, Fresh(b)
               PROVE  (/\ told[b] = Untold /\ pipe[b] = <<>> /\ srv[b] = "none" /\ work[b] = "none"
                       /\ ~table[b] /\ executed[b] = 0
                       /\ link[b] = "unborn" \/ (b = attempt /\ rt = "done"))'
    BY <1>1 DEF FreshOK, Fresh
  <2>1. /\ told[b] = Untold /\ pipe[b] = <<>> /\ srv[b] = "none" /\ work[b] = "none"
        /\ ~table[b] /\ executed[b] = 0
        /\ link[b] = "unborn" \/ (b = attempt /\ rt = "done")
    BY DEF FreshOK
  <2>2. CASE b # a
    BY <1>1, <2>1, <2>2
  <2>3. CASE b = a
    <3>1. a # attempt \/ pc = "start"
      BY <1>2, <2>3, RetryAssumption DEF Fresh, Attempts
    <3> QED
      BY <1>1, <2>1, <2>3, <3>1
  <2> QED
    BY <2>2, <2>3
<1>5. RetryOK'
  <2>1. pc = "start" => reply' = reply
    OBVIOUS
  <2> QED
    BY <1>1, <2>1 DEF RetryOK
<1>6. ToldOK'
  <2> SUFFICES ASSUME NEW b \in Attempts
               PROVE  /\ Denies(told[b]) => Sealed(b)' /\ ~Residue(b)'
                      /\ told[b].status = "committed" =>
                            told[b].effect = "committed" /\ work'[b] = "applied" /\ pipe'[b] = <<>> /\ executed'[b] = received
    BY <1>1 DEF ToldOK, Denies, IsRetryable
  <2>1. CASE b # a
    BY <1>1, <2>1 DEF ToldOK, Sealed, Residue
  <2>2. CASE b = a
    <3>1. Denies(told[b]) => Sealed(b)' /\ ~Residue(b)'
      BY <2>2 DEF ToldOK
    <3>2. told[b].status = "committed" => b # attempt \/ rt # "run"
      BY DEF RetryOK, Untold
    <3> QED
      BY <2>2, <3>1, <3>2 DEF ToldOK
  <2> QED
    BY <2>1, <2>2
<1>7. DoneOK'
  <2>1. \A b \in Attempts : Sealed(b) => Sealed(b)'
    BY <1>1 DEF Sealed
  <2>2. work[attempt] = "applied" /\ pipe[attempt] = <<>> => work'[attempt] = "applied" /\ pipe'[attempt] = <<>>
    BY <1>2
  <2> QED
    BY <1>1, <2>1, <2>2 DEF DoneOK
<1>8. ResidueOK'
  <2>1. \A b \in Attempts : Residue(b)' => Residue(b)
    BY <1>1 DEF Residue
  <2> QED
    BY <1>1, <2>1 DEF ResidueOK
<1>9. KeptOK'
  BY <1>1 DEF KeptOK
<1>10. KeptIsClean'
  BY <1>1, <1>2 DEF KeptIsClean
<1>11. RunOK'
  <2>1. CASE a = attempt
    BY <1>1, <2>1 DEF RunOK
  <2>2. CASE a # attempt
    <3>1. /\ pipe'[attempt] = pipe[attempt] /\ srv'[attempt] = srv[attempt] /\ work'[attempt] = work[attempt]
          /\ table'[attempt] = table[attempt] /\ executed'[attempt] = executed[attempt]
          /\ link'[attempt] = link[attempt] /\ reply' = reply
      BY <1>2, <2>2
    <3>2. Healthy' = Healthy /\ (\A c \in Command : Fits(pc, c)' = Fits(pc, c))
      BY <1>1, <3>1 DEF Healthy, Fits
    <3>3. WireOK' = WireOK /\ BeforeOK' = BeforeOK /\ InsideOK' = InsideOK
      BY <1>1, <3>1, <3>2 DEF WireOK, BeforeOK, InsideOK, Refusal
    <3>4. CommitOK' = CommitOK /\ RollbackOK' = RollbackOK /\ CountOK' = CountOK /\ TableOK' = TableOK
      BY <1>1, <3>1, <3>2 DEF CommitOK, RollbackOK, CountOK, TableOK
    <3> QED
      BY <1>1, <3>3, <3>4 DEF RunOK
  <2> QED
    BY <2>1, <2>2
<1> QED
  BY <1>3, <1>4, <1>5, <1>6, <1>7, <1>8, <1>9, <1>10, <1>11

\* The link breaks.
LEMMA BreakKeeps == ASSUME IInv, NEW a \in Attempts, Break(a) PROVE IInv'
<1> USE DEF IInv
<1>1. /\ link[a] = "up" /\ link' = [link EXCEPT ![a] = "down"] /\ UNCHANGED <<retry, fixed, kept, dropped, ledger>>
      /\ pc' = pc /\ received' = received /\ cause' = cause /\ why' = why /\ reply' = reply /\ armed' = armed
      /\ pipe' = pipe /\ srv' = srv /\ work' = work /\ table' = table /\ executed' = executed
  BY DEF Break, attempting, remote
<1>2. /\ link \in [Attempts -> {"unborn", "up", "down"}] /\ attempt \in Attempts
      /\ link'[a] = "down" /\ \A b \in Attempts : b # a => link'[b] = link[b]
  BY <1>1 DEF TypeOK, WriteTypeOK, RetryTypeOK
<1>3. /\ Explicit' = Explicit /\ adapter' = adapter /\ Before' = Before /\ Stages' = Stages /\ attempt' = attempt
      /\ rt' = rt /\ mode' = mode
  BY <1>1, Constant DEF retry
<1>4. TypeOK'
  BY <1>1, <1>2, <1>3 DEF TypeOK, WriteTypeOK, RetryTypeOK, retry
<1>5. Sealed(a)' = Sealed(a) /\ Residue(a)' = Residue(a)
  BY <1>1, <1>3 DEF Sealed, Residue
<1>6. ASSUME a = attempt, rt = "run", pc # "start"
      PROVE  RunOK'
  <2>1. WireOK /\ BeforeOK /\ InsideOK /\ CommitOK /\ RollbackOK /\ CountOK /\ TableOK
    BY <1>6 DEF RunOK
  <2>2. Healthy' = Healthy /\ (\A c \in Command : Fits(pc, c)' = Fits(pc, c)) /\ link'[attempt'] = "down"
    BY <1>1, <1>2, <1>3, <1>6 DEF Healthy, Fits
  <2>3. WireOK'
    BY <1>1, <1>3, <2>1, <2>2 DEF WireOK
  <2>4. BeforeOK' /\ InsideOK'
    BY <1>1, <1>3, <2>1, <2>2 DEF BeforeOK, InsideOK, Refusal
  <2>5. CommitOK' /\ RollbackOK' /\ CountOK' /\ TableOK'
    BY <1>1, <1>3, <2>1, <2>2 DEF CommitOK, RollbackOK, CountOK, TableOK
  <2> QED
    BY <2>3, <2>4, <2>5 DEF RunOK
<1>7. pipe'[a] = <<>> \/ Single(pipe'[a]) \/ (Followed(pipe'[a]) /\ adapter = "postgres")
  BY <1>1 DEF PipesOK
<1> QED
  BY <1>1, <1>2, <1>4, <1>5, <1>6, <1>7, SessionFrame

\* The server ends a session whose link is gone.
LEMMA HangupKeeps == ASSUME IInv, NEW a \in Attempts, Hangup(a) PROVE IInv'
<1> USE DEF IInv
<1>0. /\ attempt \in Attempts /\ pipe \in [Attempts -> Seq(Command)] /\ srv \in [Attempts -> {"none", "open", "aborted"}]
      /\ work \in [Attempts -> {"none", "pending", "applied", "discarded"}]
  BY DEF TypeOK, WriteTypeOK, RetryTypeOK
<1>1. /\ link[a] = "down" /\ UNCHANGED <<retry, fixed, kept, dropped, ledger>>
      /\ pc' = pc /\ received' = received /\ cause' = cause /\ why' = why /\ reply' = reply /\ armed' = armed
      /\ table' = table /\ executed' = executed /\ link' = link
      /\ pipe' = [pipe EXCEPT ![a] = <<>>] /\ srv' = [srv EXCEPT ![a] = "none"]
      /\ work' = [work EXCEPT ![a] = IF @ = "pending" THEN "discarded" ELSE @]
  BY DEF Hangup, attempting, client
<1>2. /\ pipe'[a] = <<>> /\ srv'[a] = "none" /\ work'[a] = (IF work[a] = "pending" THEN "discarded" ELSE work[a])
      /\ \A b \in Attempts : b # a => pipe'[b] = pipe[b] /\ srv'[b] = srv[b] /\ work'[b] = work[b]
      /\ pipe' \in [Attempts -> Seq(Command)] /\ srv' \in [Attempts -> {"none", "open", "aborted"}]
      /\ work' \in [Attempts -> {"none", "pending", "applied", "discarded"}]
  BY <1>0, <1>1
<1>3. /\ Explicit' = Explicit /\ adapter' = adapter /\ Before' = Before /\ Stages' = Stages /\ attempt' = attempt
      /\ rt' = rt /\ mode' = mode
  BY <1>1, Constant DEF retry
<1>4. TypeOK'
  BY <1>1, <1>2, <1>3 DEF TypeOK, WriteTypeOK, RetryTypeOK, retry
<1>5. (Sealed(a) => Sealed(a)') /\ (Residue(a)' => Residue(a))
  BY <1>1, <1>2, <1>3 DEF Sealed, Residue
<1>6. ASSUME a = attempt, rt = "run", pc # "start"
      PROVE  RunOK'
  <2>1. WireOK /\ BeforeOK /\ InsideOK /\ CommitOK /\ RollbackOK /\ CountOK /\ TableOK
    BY <1>6 DEF RunOK
  <2>2. link'[attempt'] = "down" /\ pipe'[attempt'] = <<>>
    BY <1>1, <1>2, <1>3, <1>6
  <2>3. WireOK'
    BY <1>1, <1>3, <2>1, <2>2 DEF WireOK
  <2>4. BeforeOK' /\ InsideOK'
    BY <1>1, <1>2, <1>3, <1>6, <2>1, <2>2 DEF BeforeOK, InsideOK, Refusal, Healthy
  <2>5. CommitOK' /\ RollbackOK' /\ CountOK' /\ TableOK'
    BY <1>1, <1>2, <1>3, <1>6, <2>1, <2>2 DEF CommitOK, RollbackOK, CountOK, TableOK
  <2> QED
    BY <2>3, <2>4, <2>5 DEF RunOK
<1> QED
  BY <1>1, <1>2, <1>4, <1>5, <1>6, SessionFrame

\* The transaction of the session is open, or a statement opens it.
Sound(s, w) == IF Explicit THEN s = "open" /\ w = "pending" ELSE w \in {"none", "pending"}

\* What the adapters rely on: the outcome o of a command in a session.
Lawful(o, cmd, s, w) ==
    /\ o.srv \in {"none", "open", "aborted"} /\ o.work \in {"none", "pending", "applied", "discarded"}
    /\ o.answer \in Reply \ {"none"}
    /\ /\ w # "applied" /\ cmd # "commit"
       /\ cmd = "execute" => s = "open" \/ ~Explicit
       /\ cmd = "rollback" => w # "pending" \/ adapter # "mysql"
       => o.work # "applied"
    /\ cmd \in {"discard", "read", "create"} => o.work = w /\ (s = "none" \/ o.answer = "ok" => o.srv = s)
    /\ cmd = "begin" /\ s = "none" /\ Explicit =>
          \/ o.answer = "ok" /\ o.srv = "open" /\ o.work = "pending"
          \/ o.answer = "error" /\ o.srv = s /\ o.work = w
    /\ cmd = "execute" /\ Sound(s, w) /\ o.answer = "ok" => o.work = "pending" /\ (Explicit => o.srv = "open")
    /\ adapter = "mysql" /\ o.answer = "undone" => o.work = "discarded"
    /\ cmd = "commit" /\ Sound(s, w) =>
          /\ o.answer = "ok" => o.work = "applied" /\ o.srv = "none"
          /\ o.answer = "proven" => o.work = "discarded"
    /\ cmd = "rollback" =>
          /\ o.answer = "ok" /\ w # "applied" => o.srv = "none" /\ o.work \in {"none", "discarded"}
          /\ w = "discarded" => o.work = "discarded"
          /\ o.work = "applied" /\ w # "applied" => adapter = "mysql" /\ o.answer = "warned"

\* The server processes a command.
LEMMA ProcessKeeps ==
    ASSUME IInv, NEW a \in Attempts, NEW outcomes, Process(a, outcomes),
           \A o \in outcomes : Lawful(o, Head(pipe[a]), srv[a], work[a])
    PROVE  IInv'
<1> USE DEF IInv
<1> DEFINE cmd == Head(pipe[a])
           awaited == a = attempt /\ rt = "run" /\ link[a] = "up" /\ Len(pipe[a]) = 1 /\ pc \notin Between
<1>0. /\ attempt \in Attempts /\ pipe \in [Attempts -> Seq(Command)] /\ srv \in [Attempts -> {"none", "open", "aborted"}]
      /\ work \in [Attempts -> {"none", "pending", "applied", "discarded"}] /\ table \in [Attempts -> BOOLEAN]
      /\ executed \in [Attempts -> 0 .. MaxBatches] /\ received \in 0 .. MaxBatches /\ adapter \in Adapters
      /\ reply \in Reply /\ MaxBatches \in Nat
  BY WriteAssumption DEF TypeOK, WriteTypeOK, RetryTypeOK
<1>1. PICK o \in outcomes :
         /\ srv' = [srv EXCEPT ![a] = o.srv] /\ work' = [work EXCEPT ![a] = o.work]
         /\ table' = IF cmd = "create" /\ o.answer \in {"ok", "warned"} THEN [table EXCEPT ![a] = TRUE] ELSE table
         /\ reply' = IF awaited THEN o.answer ELSE reply
         /\ executed' = IF awaited /\ pc = "rows" /\ o.answer = "ok" THEN [executed EXCEPT ![a] = @ + 1] ELSE executed
  BY DEF Process
<1>2. /\ pipe[a] # <<>> /\ pipe' = [pipe EXCEPT ![a] = Tail(@)] /\ UNCHANGED <<retry, fixed, kept, dropped, ledger>>
      /\ pc' = pc /\ received' = received /\ cause' = cause /\ why' = why /\ armed' = armed /\ link' = link
  BY DEF Process, client
<1>3. /\ Explicit' = Explicit /\ adapter' = adapter /\ Before' = Before /\ Stages' = Stages /\ attempt' = attempt
      /\ rt' = rt /\ mode' = mode
  BY <1>2, Constant DEF retry
<1>4. Lawful(o, cmd, srv[a], work[a])
  OBVIOUS
<1> HIDE DEF cmd, awaited
\* The two shapes of what is on its way.
<1>5. \/ pipe[a] = <<cmd>> /\ cmd \in Command /\ Len(pipe[a]) = 1 /\ pipe'[a] = <<>>
      \/ /\ pipe[a] = <<cmd, "rollback">> /\ cmd \in {"read", "execute"} /\ Len(pipe[a]) = 2
         /\ pipe'[a] = <<"rollback">> /\ adapter = "postgres"
  <2>1. CASE Single(pipe[a])
    <3>1. PICK c \in Command : pipe[a] = <<c>>
      BY <2>1 DEF Single
    <3>2. Head(<<c>>) = c /\ Len(<<c>>) = 1 /\ Tail(<<c>>) = <<>>
      BY Tuples
    <3> QED
      BY <1>0, <1>2, <3>1, <3>2 DEF cmd
  <2>2. CASE Followed(pipe[a]) /\ adapter = "postgres"
    <3>1. PICK c \in {"read", "execute"} : pipe[a] = <<c, "rollback">>
      BY <2>2 DEF Followed
    <3>2. Head(<<c, "rollback">>) = c /\ Len(<<c, "rollback">>) = 2 /\ Tail(<<c, "rollback">>) = <<"rollback">>
      BY Tuples DEF Command
    <3> QED
      BY <1>0, <1>2, <2>2, <3>1, <3>2 DEF cmd
  <2> QED
    BY <1>2, <2>1, <2>2 DEF PipesOK
<1>6. /\ srv'[a] = o.srv /\ work'[a] = o.work
      /\ \A b \in Attempts : b # a => /\ pipe'[b] = pipe[b] /\ srv'[b] = srv[b] /\ work'[b] = work[b]
                                      /\ table'[b] = table[b] /\ executed'[b] = executed[b]
      /\ cmd # "create" => table'[a] = table[a]
      /\ table'[a] => table[a] \/ (cmd = "create" /\ o.answer \in {"ok", "warned"})
  BY <1>0, <1>1, <1>2
<1>7. a # attempt \/ rt # "run" \/ pc = "start" => reply' = reply /\ executed' = executed
  BY <1>1 DEF awaited, Between
<1>8. Sealed(a) => Sealed(a)'
  <2>1. CASE pipe'[a] = <<>>
    BY <1>3, <1>2, <1>4, <1>6, <2>1 DEF Sealed, Lawful, cmd
  <2>2. CASE pipe'[a] = <<"rollback">> /\ adapter = "postgres"
    <3>1. Head(<<"rollback">>) = "rollback"
      BY Tuples DEF Command
    <3> QED
      BY <1>3, <1>2, <1>4, <1>6, <2>2, <3>1 DEF Sealed, Lawful, cmd
  <2> QED
    BY <1>5, <2>1, <2>2
<1>9. Residue(a)' => Residue(a)
  <2>1. pipe'[a] # <<"create">>
    BY <1>5, Tuples DEF Command
  <2>2. cmd = "create" => pipe[a] = <<"create">>
    BY <1>5
  <2> QED
    BY <1>6, <2>1, <2>2 DEF Residue
<1>10. srv[a] = "none" /\ pipe[a] \in {<<>>, <<"discard">>} => srv'[a] = "none" /\ pipe'[a] = <<>>
  <2> SUFFICES ASSUME srv[a] = "none", pipe[a] = <<"discard">>
               PROVE  srv'[a] = "none" /\ pipe'[a] = <<>>
    BY <1>2
  <2>1. cmd = "discard" /\ Len(pipe[a]) = 1
    BY Tuples DEF cmd, Command
  <2> QED
    BY <1>4, <1>5, <1>6, <2>1 DEF Lawful
<1>11. pipe'[a] = <<>> \/ Single(pipe'[a])
  BY <1>5 DEF Single, Command
\* The attempt that runs.
<1>12. ASSUME a = attempt, rt = "run", pc # "start"
       PROVE  RunOK' /\ executed'[a] \in 0 .. MaxBatches
  <2>0. /\ WireOK /\ BeforeOK /\ InsideOK /\ CommitOK /\ RollbackOK /\ CountOK /\ TableOK
        /\ "start" \notin Stages /\ "input" \notin Stages /\ "rollback" \notin Stages /\ Before \subseteq Stages
        /\ "commit" \notin Before
    BY <1>0, <1>12, StageNames DEF RunOK
  <2>1. /\ reply = "none" /\ pc # "input" /\ pc \notin Between /\ link[a] # "unborn"
        /\ pc # "rollback" => pipe[a] = <<cmd>> /\ Fits(pc, cmd)
        /\ pc = "rollback" => cmd = "rollback" \/ (cmd \in {"read", "execute"} /\ Sound(srv[a], work[a])
                                                     /\ (link[a] = "down" \/ Len(pipe[a]) = 2))
    <3>1. reply = "none" /\ pc # "input" /\ link[a] # "unborn"
      BY <1>2, <1>12, <2>0 DEF WireOK
    <3>2. ASSUME pc # "rollback"
          PROVE  pipe[a] = <<cmd>> /\ Fits(pc, cmd)
      <4>1. PICK c \in Command : pipe[a] = <<c>> /\ Fits(pc, c)
        BY <1>2, <1>12, <2>0, <3>2 DEF WireOK
      <4>2. c = cmd
        BY <4>1, Tuples DEF cmd
      <4> QED
        BY <4>1, <4>2
    <3>3. ASSUME pc = "rollback", cmd # "rollback"
          PROVE  cmd \in {"read", "execute"} /\ Sound(srv[a], work[a]) /\ (link[a] = "down" \/ Len(pipe[a]) = 2)
      BY <1>2, <1>12, <2>0, <3>3 DEF WireOK, Healthy, Sound, cmd
    <3> QED
      BY <1>12, <3>1, <3>2, <3>3 DEF Between
  <2>2. awaited <=> link[a] = "up" /\ Len(pipe[a]) = 1
    BY <1>12, <2>1 DEF awaited
  <2>3. link[a] = "up" \/ link[a] = "down"
    BY <1>0, <2>1 DEF TypeOK, WriteTypeOK
  <2>4. /\ awaited => reply' = o.answer /\ reply' # "none" /\ reply' \in Reply /\ pipe'[a] = <<>>
        /\ ~awaited => reply' = "none" /\ (link[a] = "down" \/ (Len(pipe[a]) = 2 /\ pc = "rollback"))
    <3>1. awaited => reply' = o.answer /\ reply' # "none" /\ reply' \in Reply
      BY <1>1, <1>4 DEF Lawful
    <3>2. awaited => pipe'[a] = <<>>
      BY <1>5, <2>2
    <3>3. ~awaited => reply' = "none"
      BY <1>1, <2>1
    <3>4. Len(pipe[a]) = 2 => pc = "rollback"
      BY <2>1, <1>5, Tuples
    <3> QED
      BY <1>5, <2>2, <2>3, <3>1, <3>2, <3>3, <3>4
  <2>5. WireOK'
    <3>1. pc = "rollback" \/ pipe'[a] = <<>>
      BY <1>5, <2>1, Tuples
    <3>2. pipe'[a] = <<>> \/ (reply' = "none" /\ Head(pipe'[a]) = "rollback" /\ pipe'[a] # <<>>)
      BY <1>5, <2>2, <2>4, Tuples DEF Command
    <3>3. reply' = "none" /\ link[a] = "up" => pipe'[a] # <<>>
      BY <1>5, <2>4, Tuples DEF Command
    <3> QED
      BY <1>2, <1>3, <1>12, <2>1, <3>1, <3>2, <3>3 DEF WireOK
  <2>6. BeforeOK'
    <3> SUFFICES ASSUME pc \in Before
                 PROVE  BeforeOK'
      BY <1>2, <1>3 DEF BeforeOK
    <3>1. Explicit /\ pc # "rollback" /\ pipe'[a] = <<>>
      <4>1. Explicit /\ pc # "rollback"
        BY <2>0 DEF Before, Explicit
      <4> QED
        BY <1>5, <2>1, <4>1, Tuples
    <3>2. srv[a] = "none" /\ work[a] = "none"
      BY <1>2, <1>12, <2>0 DEF BeforeOK
    <3>3. cmd \in {"discard", "read", "create", "begin"} /\ (cmd = "begin" <=> pc = "begin")
      BY <2>0, <2>1, <3>1 DEF Fits, Command
    <3>4. CASE cmd # "begin"
      <4>1. srv'[a] = "none" /\ work'[a] = "none"
        BY <1>4, <1>6, <3>2, <3>3, <3>4 DEF Lawful
      <4> QED
        BY <1>2, <1>3, <1>12, <3>3, <3>4, <4>1 DEF BeforeOK
    <3>5. CASE cmd = "begin"
      <4>1. \/ o.answer = "ok" /\ srv'[a] = "open" /\ work'[a] = "pending"
            \/ o.answer = "error" /\ srv'[a] = "none" /\ work'[a] = "none"
        BY <1>4, <1>6, <3>1, <3>2, <3>5 DEF Lawful
      <4>2. CASE o.answer = "ok" /\ srv'[a] = "open" /\ work'[a] = "pending"
        <5>1. Healthy' /\ (reply' = "ok" \/ link'[attempt'] = "down") /\ ~Refusal' /\ pipe'[attempt'] = <<>>
          BY <1>2, <1>3, <1>12, <2>4, <3>1, <3>3, <3>5, <4>2 DEF Healthy, Refusal
        <5> QED
          BY <1>2, <1>3, <3>3, <3>5, <5>1 DEF BeforeOK
      <4>3. CASE o.answer = "error" /\ srv'[a] = "none" /\ work'[a] = "none"
        BY <1>2, <1>3, <1>12, <2>4, <4>3 DEF BeforeOK
      <4> QED
        BY <4>1, <4>2, <4>3
    <3> QED
      BY <3>4, <3>5
  <2>7. InsideOK'
    <3> SUFFICES ASSUME pc \notin Before \cup {"commit", "rollback"}
                 PROVE  InsideOK'
      BY <1>2, <1>3 DEF InsideOK
    <3>1. Sound(srv[a], work[a]) /\ pipe'[a] = <<>>
      BY <1>2, <1>5, <1>12, <2>0, <2>1, Tuples DEF InsideOK, Healthy, Sound
    <3>2. cmd \notin {"commit", "rollback"} /\ (cmd = "begin" => pc = "begin" /\ Explicit)
      BY <2>1 DEF Fits
    <3>3. cmd \in {"discard", "read", "create", "execute"}
      <4>1. Explicit => "begin" \in Before
        BY DEF Explicit, Before
      <4> QED
        BY <1>5, <3>2, <4>1 DEF Command
    <3>4. work'[a] # "applied"
      BY <1>4, <1>6, <3>1, <3>3 DEF Lawful, Sound
    <3>5. o.answer = "ok" => Healthy'
      BY <1>3, <1>4, <1>6, <1>12, <3>1, <3>3 DEF Lawful, Sound, Healthy
    <3>6. o.answer = "undone" /\ adapter = "mysql" => work'[a] = "discarded"
      BY <1>4, <1>6 DEF Lawful
    <3>7. link[a] = "down" \/ reply' = o.answer
      BY <2>4
    <3> QED
      BY <1>2, <1>3, <1>12, <2>4, <3>1, <3>4, <3>5, <3>6, <3>7 DEF InsideOK, Refusal
  <2>8. CommitOK'
    <3> SUFFICES ASSUME pc = "commit"
                 PROVE  CommitOK'
      BY <1>2 DEF CommitOK
    <3>1. cmd = "commit" /\ Sound(srv[a], work[a]) /\ pipe'[a] = <<>>
      BY <1>2, <1>5, <1>12, <2>0, <2>1, Tuples DEF CommitOK, Healthy, Sound, Fits
    <3>2. (o.answer = "ok" => work'[a] = "applied" /\ srv'[a] = "none") /\ (o.answer = "proven" => work'[a] = "discarded")
      BY <1>4, <1>6, <3>1 DEF Lawful
    <3> QED
      BY <1>2, <1>3, <1>12, <2>4, <3>1, <3>2 DEF CommitOK
  <2>9. RollbackOK'
    <3> SUFFICES ASSUME pc = "rollback"
                 PROVE  RollbackOK'
      BY <1>2 DEF RollbackOK
    <3>0. work[a] # "applied" /\ (adapter = "mysql" /\ cause.effect = "rolled_back" => work[a] = "discarded")
      BY <1>2, <1>12, <2>0 DEF RollbackOK
    <3>1. CASE cmd = "rollback"
      <4>1. /\ o.answer = "ok" => srv'[a] = "none" /\ work'[a] \in {"none", "discarded"}
            /\ work[a] = "discarded" => work'[a] = "discarded"
            /\ work'[a] = "applied" => adapter = "mysql" /\ o.answer = "warned"
        BY <1>4, <1>6, <3>0, <3>1 DEF Lawful
      <4>2. pipe'[a] = <<>>
        BY <1>5, <3>1
      <4> QED
        BY <1>2, <1>3, <1>12, <2>0, <2>4, <3>0, <4>1, <4>2, <2>2, <1>5 DEF RollbackOK
    <3>2. CASE cmd # "rollback"
      <4>1. cmd \in {"read", "execute"} /\ Sound(srv[a], work[a]) /\ reply' = "none"
        BY <2>1, <2>2, <2>4, <3>2
      <4>2. work'[a] # "applied"
        BY <1>4, <1>6, <3>0, <4>1 DEF Lawful, Sound
      <4>3. adapter = "mysql" /\ cause.effect = "rolled_back" => FALSE
        BY <3>0, <4>1 DEF Sound, Explicit
      <4> QED
        BY <1>2, <1>3, <1>12, <2>0, <4>1, <4>2, <4>3 DEF RollbackOK
    <3> QED
      BY <3>1, <3>2
  <2>10. CountOK' /\ executed'[a] \in 0 .. MaxBatches
    <3>1. CASE awaited /\ pc = "rows" /\ o.answer = "ok"
      <4>1. executed[a] = received - 1 /\ executed'[a] = executed[a] + 1 /\ received > 0
        BY <1>0, <1>1, <1>12, <2>0, <2>1, <3>1 DEF CountOK
      <4> QED
        BY <1>0, <1>2, <1>3, <1>12, <2>4, <3>1, <4>1 DEF CountOK
    <3>2. CASE ~(awaited /\ pc = "rows" /\ o.answer = "ok")
      <4>1. executed' = executed
        BY <1>1, <3>2
      <4> QED
        BY <1>0, <1>2, <1>3, <1>12, <2>0, <2>1, <2>4, <3>2, <4>1 DEF CountOK
    <3> QED
      BY <3>1, <3>2
  <2>11. TableOK'
    <3>1. pc = "precheck" => ~table'[a]
      BY <1>6, <1>12, <2>0, <2>1 DEF TableOK, Fits
    <3>2. ASSUME pc = "create"
          PROVE  (reply' \notin {"none", "ok", "warned"} => ~table'[a]) /\ pipe'[a] = <<>>
      <4>1. ~table[a] /\ pipe'[a] = <<>>
        BY <1>2, <1>5, <1>12, <2>0, <2>1, <3>2, Tuples DEF TableOK
      <4> QED
        BY <1>6, <2>4, <4>1
    <3> QED
      BY <1>2, <1>3, <1>12, <2>0, <3>1, <3>2 DEF TableOK
  <2> QED
    BY <2>5, <2>6, <2>7, <2>8, <2>9, <2>10, <2>11 DEF RunOK
<1>13. TypeOK'
  <2>1. reply' \in Reply
    BY <1>0, <1>1, <1>4 DEF Lawful
  <2>2. executed' \in [Attempts -> 0 .. MaxBatches]
    <3>1. CASE a = attempt /\ rt = "run" /\ pc # "start"
      <4>1. executed'[a] \in 0 .. MaxBatches
        BY <1>12, <3>1
      <4> QED
        BY <1>0, <1>1, <4>1
    <3>2. CASE ~(a = attempt /\ rt = "run" /\ pc # "start")
      BY <1>0, <1>7, <3>2
    <3> QED
      BY <3>1, <3>2
  <2>3. pipe' \in [Attempts -> Seq(Command)]
    <3>1. pipe'[a] \in Seq(Command)
      <4>1. <<>> \in Seq(Command) /\ <<"rollback">> \in Seq(Command)
        BY DEF Command
      <4> QED
        BY <1>5, <4>1
    <3> QED
      BY <1>0, <1>2, <3>1
  <2>4. /\ srv' \in [Attempts -> {"none", "open", "aborted"}]
        /\ work' \in [Attempts -> {"none", "pending", "applied", "discarded"}] /\ table' \in [Attempts -> BOOLEAN]
    BY <1>0, <1>1, <1>4 DEF Lawful
  <2> QED
    BY <1>2, <1>3, <2>1, <2>2, <2>3, <2>4 DEF TypeOK, WriteTypeOK, RetryTypeOK, retry
<1> QED
  BY <1>2, <1>6, <1>7, <1>8, <1>9, <1>10, <1>11, <1>12, <1>13, SessionFrame

\* The servers of the adapters are lawful.
LEMMA PostgresLawful ==
    ASSUME adapter = "postgres", NEW cmd \in Command, NEW s \in {"none", "open", "aborted"},
           NEW w \in {"none", "pending", "applied", "discarded"}, NEW o \in Postgres!Served(cmd, s, w)
    PROVE  Lawful(o, cmd, s, w)
<1> USE DEF Explicit, Sound, Reply, Postgres!Outcome
<1>1. CASE cmd \in {"discard", "read", "create"}
  BY <1>1 DEF Lawful, Postgres!Served, Postgres!ServedDiscard, Postgres!ServedBegin,
     Postgres!ServedStatement, Postgres!ServedCommit, Postgres!ServedRollback
<1>2. CASE cmd = "begin"
  BY <1>2 DEF Lawful, Postgres!Served, Postgres!ServedDiscard, Postgres!ServedBegin,
     Postgres!ServedStatement, Postgres!ServedCommit, Postgres!ServedRollback
<1>3. CASE cmd = "execute"
  BY <1>3 DEF Lawful, Postgres!Served, Postgres!ServedDiscard, Postgres!ServedBegin,
     Postgres!ServedStatement, Postgres!ServedCommit, Postgres!ServedRollback
<1>4. CASE cmd = "commit"
  BY <1>4 DEF Lawful, Postgres!Served, Postgres!ServedDiscard, Postgres!ServedBegin,
     Postgres!ServedStatement, Postgres!ServedCommit, Postgres!ServedRollback
<1>5. CASE cmd = "rollback"
  BY <1>5 DEF Lawful, Postgres!Served, Postgres!ServedDiscard, Postgres!ServedBegin,
     Postgres!ServedStatement, Postgres!ServedCommit, Postgres!ServedRollback
<1> QED
  BY <1>1, <1>2, <1>3, <1>4, <1>5 DEF Command

\* The same of MySQL.
LEMMA MysqlLawful ==
    ASSUME adapter = "mysql", NEW cmd \in Command, NEW s \in {"none", "open", "aborted"},
           NEW w \in {"none", "pending", "applied", "discarded"}, NEW o \in Mysql!Serves(cmd, s, w)
    PROVE  Lawful(o, cmd, s, w)
<1> USE DEF Explicit, Sound, Reply, Mysql!Outcome
<1>1. CASE cmd \in {"discard", "read", "create"}
  BY <1>1 DEF Lawful, Mysql!Serves
<1>2. CASE cmd = "begin"
  BY <1>2 DEF Lawful, Mysql!Serves
<1>3. CASE cmd = "execute"
  BY <1>3 DEF Lawful, Mysql!Serves
<1>4. CASE cmd = "commit"
  BY <1>4 DEF Lawful, Mysql!Serves
<1>5. CASE cmd = "rollback"
  BY <1>5 DEF Lawful, Mysql!Serves
<1> QED
  BY <1>1, <1>2, <1>3, <1>4, <1>5 DEF Command

\* The same of Oracle.
LEMMA OracleLawful ==
    ASSUME adapter = "oracle", NEW cmd \in Command, NEW s \in {"none", "open", "aborted"},
           NEW w \in {"none", "pending", "applied", "discarded"}, NEW o \in Oracle!Serves(cmd, s, w)
    PROVE  Lawful(o, cmd, s, w)
<1> USE DEF Explicit, Sound, Reply, Oracle!Outcome
<1>1. CASE cmd \in {"discard", "read", "create"}
  BY <1>1 DEF Lawful, Oracle!Serves
<1>2. CASE cmd = "begin"
  BY <1>2 DEF Lawful, Oracle!Serves
<1>3. CASE cmd = "execute"
  BY <1>3 DEF Lawful, Oracle!Serves
<1>4. CASE cmd = "commit"
  BY <1>4 DEF Lawful, Oracle!Serves
<1>5. CASE cmd = "rollback"
  BY <1>5 DEF Lawful, Oracle!Serves
<1> QED
  BY <1>1, <1>2, <1>3, <1>4, <1>5 DEF Command

\* The same of SQL Server.
LEMMA SqlServerLawful ==
    ASSUME adapter = "sqlserver", NEW cmd \in Command, NEW s \in {"none", "open", "aborted"},
           NEW w \in {"none", "pending", "applied", "discarded"}, NEW o \in SqlServer!Serves(cmd, s, w)
    PROVE  Lawful(o, cmd, s, w)
<1> USE DEF Explicit, Sound, Reply, SqlServer!Outcome
<1>1. CASE cmd \in {"discard", "read", "create"}
  BY <1>1 DEF Lawful, SqlServer!Serves
<1>2. CASE cmd = "begin"
  BY <1>2 DEF Lawful, SqlServer!Serves
<1>3. CASE cmd = "execute"
  BY <1>3 DEF Lawful, SqlServer!Serves
<1>4. CASE cmd = "commit"
  BY <1>4 DEF Lawful, SqlServer!Serves
<1>5. CASE cmd = "rollback"
  BY <1>5 DEF Lawful, SqlServer!Serves
<1> QED
  BY <1>1, <1>2, <1>3, <1>4, <1>5 DEF Command

\* The same of Db2.
LEMMA Db2Lawful ==
    ASSUME adapter = "db2", NEW cmd \in Command, NEW s \in {"none", "open", "aborted"},
           NEW w \in {"none", "pending", "applied", "discarded"}, NEW o \in Db2!Serves(cmd, s, w)
    PROVE  Lawful(o, cmd, s, w)
<1> USE DEF Explicit, Sound, Reply, Db2!Outcome
<1>1. CASE cmd \in {"discard", "read", "create"}
  BY <1>1 DEF Lawful, Db2!Serves
<1>2. CASE cmd = "begin"
  BY <1>2 DEF Lawful, Db2!Serves
<1>3. CASE cmd = "execute"
  BY <1>3 DEF Lawful, Db2!Serves
<1>4. CASE cmd = "commit"
  BY <1>4 DEF Lawful, Db2!Serves
<1>5. CASE cmd = "rollback"
  BY <1>5 DEF Lawful, Db2!Serves
<1> QED
  BY <1>1, <1>2, <1>3, <1>4, <1>5 DEF Command

\* A server processes a command of an attempt.
LEMMA ServerKeeps == ASSUME IInv, NEW a \in Attempts, ServerAnswers(a) PROVE IInv'
<1>1. /\ srv[a] \in {"none", "open", "aborted"} /\ work[a] \in {"none", "pending", "applied", "discarded"}
      /\ adapter \in Adapters
  BY DEF IInv, TypeOK, WriteTypeOK
<1>2. pipe[a] # <<>> => Head(pipe[a]) \in Command
  <2>1. \A c \in Command : Head(<<c>>) \in Command
    BY Tuples
  <2>2. \A c \in {"read", "execute"} : Head(<<c, "rollback">>) \in Command
    BY Tuples DEF Command
  <2> QED
    BY <2>1, <2>2 DEF IInv, PipesOK, Single, Followed
<1>3. CASE adapter = "postgres" /\ Process(a, Postgres!Served(Head(pipe[a]), srv[a], work[a]))
  <2>1. pipe[a] # <<>>
    BY <1>3 DEF Process
  <2>2. \A o \in Postgres!Served(Head(pipe[a]), srv[a], work[a]) : Lawful(o, Head(pipe[a]), srv[a], work[a])
    BY <1>1, <1>2, <1>3, <2>1, PostgresLawful
  <2> QED
    BY <1>3, <2>2, ProcessKeeps
<1>4. CASE adapter = "mysql" /\ Process(a, Mysql!Serves(Head(pipe[a]), srv[a], work[a]))
  <2>1. pipe[a] # <<>>
    BY <1>4 DEF Process
  <2>2. \A o \in Mysql!Serves(Head(pipe[a]), srv[a], work[a]) : Lawful(o, Head(pipe[a]), srv[a], work[a])
    BY <1>1, <1>2, <1>4, <2>1, MysqlLawful
  <2> QED
    BY <1>4, <2>2, ProcessKeeps
<1>5. CASE adapter = "oracle" /\ Process(a, Oracle!Serves(Head(pipe[a]), srv[a], work[a]))
  <2>1. pipe[a] # <<>>
    BY <1>5 DEF Process
  <2>2. \A o \in Oracle!Serves(Head(pipe[a]), srv[a], work[a]) : Lawful(o, Head(pipe[a]), srv[a], work[a])
    BY <1>1, <1>2, <1>5, <2>1, OracleLawful
  <2> QED
    BY <1>5, <2>2, ProcessKeeps
<1>6. CASE adapter = "sqlserver" /\ Process(a, SqlServer!Serves(Head(pipe[a]), srv[a], work[a]))
  <2>1. pipe[a] # <<>>
    BY <1>6 DEF Process
  <2>2. \A o \in SqlServer!Serves(Head(pipe[a]), srv[a], work[a]) : Lawful(o, Head(pipe[a]), srv[a], work[a])
    BY <1>1, <1>2, <1>6, <2>1, SqlServerLawful
  <2> QED
    BY <1>6, <2>2, ProcessKeeps
<1>7. CASE adapter = "db2" /\ Process(a, Db2!Serves(Head(pipe[a]), srv[a], work[a]))
  <2>1. pipe[a] # <<>>
    BY <1>7 DEF Process
  <2>2. \A o \in Db2!Serves(Head(pipe[a]), srv[a], work[a]) : Lawful(o, Head(pipe[a]), srv[a], work[a])
    BY <1>1, <1>2, <1>7, <2>1, Db2Lawful
  <2> QED
    BY <1>7, <2>2, ProcessKeeps
<1> QED
  BY <1>3, <1>4, <1>5, <1>6, <1>7 DEF ServerAnswers

-----------------------------------------------------------------------------
(* The errors of the adapters.                                             *)

\* What an error denies.
LEMMA Denials ==
    /\ \A p \in Phase, e \in Effect, r \in Disposition :
          Error(p, e, r) \in Answer /\ Error(p, e, r).status = "error" /\ Error(p, e, r).effect = e
          /\ (Denies(Error(p, e, r)) => e \in {"none", "rolled_back"} \/ r \in {"safe", "after"})
    /\ \A r \in Disposition : Severe(r) \in {"quarantine", "requires_recovery"}
    /\ \A p \in Phase : NewError(p) = Error(p, "none", "never")
    /\ NoCause = Error("write", "none", "never")
    /\ Committed \in Answer /\ OutcomeUnknown \in Answer /\ ~Denies(Committed) /\ ~Denies(OutcomeUnknown)
    /\ OutcomeUnknown.status # "committed" /\ Committed.effect = "committed"
<1>1. \A p \in Phase, e \in Effect, r \in Disposition :
          Error(p, e, r) \in Answer /\ Error(p, e, r).status = "error" /\ Error(p, e, r).effect = e
          /\ (Denies(Error(p, e, r)) => e \in {"none", "rolled_back"} \/ r \in {"safe", "after"})
  BY DEF Error, Answer, Denies, IsRetryable
<1>2. \A r \in Disposition : Severe(r) \in {"quarantine", "requires_recovery"}
  BY DEF Severe
<1>3. /\ \A p \in Phase : NewError(p) = Error(p, "none", "never")
      /\ NoCause = Error("write", "none", "never")
  BY DEF NewError, NoCause
<1>4. /\ Committed \in Answer /\ OutcomeUnknown \in Answer /\ ~Denies(Committed) /\ ~Denies(OutcomeUnknown)
      /\ OutcomeUnknown.status # "committed" /\ Committed.effect = "committed"
  BY DEF Committed, OutcomeUnknown, Answer, Phase, Effect, Disposition, Denies, IsRetryable
<1> QED
  BY <1>1, <1>2, <1>3, <1>4

\* An attempt that is not a create of MySQL or Oracle has no residue.
LEMMA NoResidue ==
    ASSUME IInv, adapter \notin {"mysql", "oracle"} \/ mode # "create"
    PROVE  ~Residue(attempt)
  BY DEF IInv, ResidueOK, TypeOK, WriteTypeOK, RetryTypeOK

\* An attempt answers an error.
LEMMA ErrorKeeps ==
    ASSUME NEW e, NEW keep, IInv, Running, EndAttempt(e, keep), e \in Answer, e.status = "error",
           Denies(e) => /\ ~Residue(attempt)
                        /\ \/ pc \notin {"commit", "rollback"}
                           \/ pc = "rollback" /\ (adapter # "mysql" \/ reply = "ok" \/ work[attempt] = "discarded")
                           \/ pc = "commit" /\ reply = "proven",
           keep /\ link[attempt] = "up" => srv[attempt] = "none" /\ pipe[attempt] = <<>>
    PROVE  IInv'
<1>1. Denies(e) => Sealed(attempt) /\ ~Residue(attempt)
  BY SealedWhen
<1> QED
  BY <1>1, EndKeeps

\* An answered COMMIT, and an answered ROLLBACK, leave a clean session.
LEMMA CleanSession ==
    ASSUME IInv, Running, reply = "ok", pc \in {"commit", "rollback"}
    PROVE  srv[attempt] = "none" /\ pipe[attempt] = <<>>
  BY DEF IInv, Running, RunOK, WireOK, CommitOK, RollbackOK

\* COMMIT is answered.
LEMMA CommittedKeeps ==
    ASSUME NEW keep, IInv, Running, pc = "commit", reply = "ok", EndAttempt(Committed, keep)
    PROVE  IInv'
  BY CleanSession, Denials, EndKeeps DEF Committed

\* COMMIT may have been applied, or not.
LEMMA UnknownKeeps ==
    ASSUME IInv, Running, EndAttempt(OutcomeUnknown, FALSE)
    PROVE  IInv'
  BY Denials, EndKeeps

\* The parts of an attempt on PostgreSQL are those of WriteAttempt.
LEMMA PostgresParts ==
    /\ \A s, cmd : Postgres!Send(s, cmd) => Send(s, cmd)
    /\ \A s, cmd : Postgres!Await(s, cmd) => Send(s, cmd) /\ UNCHANGED <<received, cause, why, armed, link>>
    /\ \A s, cmd : Postgres!Open(s, cmd) => /\ Send(s, cmd) /\ link' = [link EXCEPT ![attempt] = "up"] /\ received' = 0
                                       /\ UNCHANGED <<cause, why, armed>>
    /\ \A cmd : Postgres!Receive(cmd) => /\ Send("rows", cmd) /\ received < MaxBatches /\ received' = received + 1
                                    /\ UNCHANGED <<cause, why, armed, link>>
    /\ Postgres!ToInput => ToInput
    /\ \A w, e : Postgres!StartRollback(w, e) => StartRollback(w, e)
    /\ \A e, keep : Postgres!EndAttempt(e, keep) => EndAttempt(e, keep)
    /\ \A keep : Postgres!DropCall(keep) => DropCall(keep)
<1> USE DEF Postgres!retry, retry, Postgres!fixed, fixed, Postgres!attempting, attempting, Postgres!remote, remote, Postgres!client, client
<1>1. \A s, cmd : Postgres!Send(s, cmd) => Send(s, cmd)
  BY DEF Postgres!Send, Send
<1>2. /\ \A s, cmd : Postgres!Await(s, cmd) => Send(s, cmd) /\ UNCHANGED <<received, cause, why, armed, link>>
      /\ \A s, cmd : Postgres!Open(s, cmd) => /\ Send(s, cmd) /\ link' = [link EXCEPT ![attempt] = "up"] /\ received' = 0
                                         /\ UNCHANGED <<cause, why, armed>>
      /\ \A cmd : Postgres!Receive(cmd) => /\ Send("rows", cmd) /\ received < MaxBatches /\ received' = received + 1
                                      /\ UNCHANGED <<cause, why, armed, link>>
  BY <1>1 DEF Postgres!Await, Postgres!Open, Postgres!Receive
<1>3. Postgres!ToInput => ToInput
  BY DEF Postgres!ToInput, ToInput
<1>4. \A w, e : Postgres!StartRollback(w, e) => StartRollback(w, e)
  BY <1>1 DEF Postgres!StartRollback, StartRollback
<1>5. Postgres!NoCause = NoCause
  BY DEF Postgres!NoCause, NoCause, Postgres!NewError, NewError, Postgres!Error, Error
<1>6. \A e, keep : Postgres!EndAttempt(e, keep) => EndAttempt(e, keep)
  BY <1>5 DEF Postgres!EndAttempt, EndAttempt, Postgres!OpAnswers, OpAnswers
<1>7. \A keep : Postgres!DropCall(keep) => DropCall(keep)
  BY DEF Postgres!DropCall, DropCall, Postgres!Running, Running
<1> QED
  BY <1>1, <1>2, <1>3, <1>4, <1>6, <1>7

\* The errors of PostgreSQL are those of ErrorAxes.
LEMMA PostgresErrors ==
    /\ \A p, e, r : Postgres!Error(p, e, r) = Error(p, e, r)
    /\ \A p : Postgres!NewError(p) = Error(p, "none", "never") /\ Postgres!Interrupted(p) = Error(p, "none", "never")
    /\ Postgres!NoCause = NoCause /\ Postgres!Committed = Committed /\ Postgres!OutcomeUnknown = OutcomeUnknown
    /\ \A r : Postgres!Severe(r) = Severe(r)
    /\ \A e : Postgres!AfterUnconfirmedRollback(e) = Error("rollback", "unknown", Severe(e.retry))
    /\ \A p \in {"write", "commit"} : \A e, r :
          Postgres!AfterInterruptedSend(Error(p, e, r)) = Error(p, "unknown", Severe(r))
    /\ \A e, r : Postgres!AfterInterruptedSend(Error("prepare", e, r)) = Error("prepare", e, r)
<1>1. \A p, e, r : Postgres!Error(p, e, r) = Error(p, e, r)
  BY DEF Postgres!Error, Error
<1>2. \A r : Postgres!Severe(r) = Severe(r)
  BY DEF Postgres!Severe, Severe
<1>3. \A e : Postgres!AfterUnconfirmedRollback(e) = Error("rollback", "unknown", Severe(e.retry))
  BY <1>1, <1>2 DEF Postgres!AfterUnconfirmedRollback
<1>4. /\ \A p : Postgres!NewError(p) = Error(p, "none", "never") /\ Postgres!Interrupted(p) = Error(p, "none", "never")
      /\ Postgres!NoCause = NoCause /\ Postgres!Committed = Committed /\ Postgres!OutcomeUnknown = OutcomeUnknown
  BY <1>1 DEF Postgres!NewError, Postgres!Interrupted, Postgres!NoCause, NoCause, NewError, Postgres!Committed, Committed,
     Postgres!OutcomeUnknown, OutcomeUnknown
<1>5. /\ \A p \in {"write", "commit"} : \A e, r :
             Postgres!AfterInterruptedSend(Error(p, e, r)) = Error(p, "unknown", Severe(r))
      /\ \A e, r : Postgres!AfterInterruptedSend(Error("prepare", e, r)) = Error("prepare", e, r)
  <2>1. \A p, e, r : Error(p, e, r).phase = p /\ Error(p, e, r).retry = r
    BY DEF Error
  <2> QED
    BY <1>1, <1>2, <2>1 DEF Postgres!AfterInterruptedSend
<1> QED
  BY <1>1, <1>2, <1>3, <1>4, <1>5

\* The errors of the input, and of a rejected row.
LEMMA PostgresVerdicts ==
    /\ \A e \in Postgres!InputErrors : \E f \in {"none", "unknown"}, r \in {"never", "safe"} : e = Error("write", f, r)
    /\ Postgres!RowRejected(TRUE) = Error("write", "rolled_back", "never")
    /\ Postgres!RowRejected(FALSE) = Error("rollback", "unknown", "quarantine")
<1>1. \A p, e, r : Postgres!Error(p, e, r) = Error(p, e, r)
  BY PostgresErrors
<1>2. \A e \in Postgres!InputErrors : \E f \in {"none", "unknown"}, r \in {"never", "safe"} : e = Error("write", f, r)
  BY <1>1 DEF Postgres!InputErrors
<1>3. Postgres!RowRejected(TRUE) = Error("write", "rolled_back", "never")
  BY <1>1 DEF Postgres!RowRejected
<1>4. Postgres!RowRejected(FALSE) = Error("rollback", "unknown", "quarantine")
  BY <1>1 DEF Postgres!RowRejected
<1> QED
  BY <1>2, <1>3, <1>4

\* The parts of an attempt on MySQL are those of WriteAttempt.
LEMMA MysqlParts ==
    /\ \A s, cmd : Mysql!Send(s, cmd) => Send(s, cmd)
    /\ \A s, cmd : Mysql!Await(s, cmd) => Send(s, cmd) /\ UNCHANGED <<received, cause, why, armed, link>>
    /\ \A s, cmd : Mysql!Open(s, cmd) => /\ Send(s, cmd) /\ link' = [link EXCEPT ![attempt] = "up"] /\ received' = 0
                                       /\ UNCHANGED <<cause, why, armed>>
    /\ \A cmd : Mysql!Receive(cmd) => /\ Send("rows", cmd) /\ received < MaxBatches /\ received' = received + 1
                                    /\ UNCHANGED <<cause, why, armed, link>>
    /\ Mysql!ToInput => ToInput
    /\ \A w, e : Mysql!StartRollback(w, e) => StartRollback(w, e)
    /\ \A e, keep : Mysql!EndAttempt(e, keep) => EndAttempt(e, keep)
    /\ \A keep : Mysql!DropCall(keep) => DropCall(keep)
<1> USE DEF Mysql!retry, retry, Mysql!fixed, fixed, Mysql!attempting, attempting, Mysql!remote, remote, Mysql!client, client
<1>1. \A s, cmd : Mysql!Send(s, cmd) => Send(s, cmd)
  BY DEF Mysql!Send, Send
<1>2. /\ \A s, cmd : Mysql!Await(s, cmd) => Send(s, cmd) /\ UNCHANGED <<received, cause, why, armed, link>>
      /\ \A s, cmd : Mysql!Open(s, cmd) => /\ Send(s, cmd) /\ link' = [link EXCEPT ![attempt] = "up"] /\ received' = 0
                                         /\ UNCHANGED <<cause, why, armed>>
      /\ \A cmd : Mysql!Receive(cmd) => /\ Send("rows", cmd) /\ received < MaxBatches /\ received' = received + 1
                                      /\ UNCHANGED <<cause, why, armed, link>>
  BY <1>1 DEF Mysql!Await, Mysql!Open, Mysql!Receive
<1>3. Mysql!ToInput => ToInput
  BY DEF Mysql!ToInput, ToInput
<1>4. \A w, e : Mysql!StartRollback(w, e) => StartRollback(w, e)
  BY <1>1 DEF Mysql!StartRollback, StartRollback
<1>5. Mysql!NoCause = NoCause
  BY DEF Mysql!NoCause, NoCause, Mysql!NewError, NewError, Mysql!Error, Error
<1>6. \A e, keep : Mysql!EndAttempt(e, keep) => EndAttempt(e, keep)
  BY <1>5 DEF Mysql!EndAttempt, EndAttempt, Mysql!OpAnswers, OpAnswers
<1>7. \A keep : Mysql!DropCall(keep) => DropCall(keep)
  BY DEF Mysql!DropCall, DropCall, Mysql!Running, Running
<1> QED
  BY <1>1, <1>2, <1>3, <1>4, <1>6, <1>7

\* The errors of MySQL are those of ErrorAxes.
LEMMA MysqlErrors ==
    /\ \A p, e, r : Mysql!Error(p, e, r) = Error(p, e, r)
    /\ \A p : Mysql!NewError(p) = Error(p, "none", "never") /\ Mysql!Interrupted(p) = Error(p, "none", "never")
    /\ Mysql!NoCause = NoCause /\ Mysql!Committed = Committed /\ Mysql!OutcomeUnknown = OutcomeUnknown
    /\ \A r : Mysql!Severe(r) = Severe(r)
    /\ \A e : Mysql!AfterUnconfirmedRollback(e) = Error("rollback", "unknown", Severe(e.retry))
    /\ \A p \in {"write", "commit"} : \A e, r :
          Mysql!AfterInterruptedSend(Error(p, e, r)) = Error(p, "unknown", Severe(r))
    /\ \A e, r : Mysql!AfterInterruptedSend(Error("prepare", e, r)) = Error("prepare", e, r)
<1>1. \A p, e, r : Mysql!Error(p, e, r) = Error(p, e, r)
  BY DEF Mysql!Error, Error
<1>2. \A r : Mysql!Severe(r) = Severe(r)
  BY DEF Mysql!Severe, Severe
<1>3. \A e : Mysql!AfterUnconfirmedRollback(e) = Error("rollback", "unknown", Severe(e.retry))
  BY <1>1, <1>2 DEF Mysql!AfterUnconfirmedRollback
<1>4. /\ \A p : Mysql!NewError(p) = Error(p, "none", "never") /\ Mysql!Interrupted(p) = Error(p, "none", "never")
      /\ Mysql!NoCause = NoCause /\ Mysql!Committed = Committed /\ Mysql!OutcomeUnknown = OutcomeUnknown
  BY <1>1 DEF Mysql!NewError, Mysql!Interrupted, Mysql!NoCause, NoCause, NewError, Mysql!Committed, Committed,
     Mysql!OutcomeUnknown, OutcomeUnknown
<1>5. /\ \A p \in {"write", "commit"} : \A e, r :
             Mysql!AfterInterruptedSend(Error(p, e, r)) = Error(p, "unknown", Severe(r))
      /\ \A e, r : Mysql!AfterInterruptedSend(Error("prepare", e, r)) = Error("prepare", e, r)
  <2>1. \A p, e, r : Error(p, e, r).phase = p /\ Error(p, e, r).retry = r
    BY DEF Error
  <2> QED
    BY <1>1, <1>2, <2>1 DEF Mysql!AfterInterruptedSend
<1> QED
  BY <1>1, <1>2, <1>3, <1>4, <1>5

\* The errors of the input.
LEMMA MysqlVerdicts ==
    \A e \in Mysql!InputErrors : \E f \in {"none", "unknown"}, r \in {"never", "safe"} : e = Error("write", f, r)
<1>1. \A p, e, r : Mysql!Error(p, e, r) = Error(p, e, r)
  BY MysqlErrors
<1> QED
  BY <1>1 DEF Mysql!InputErrors

\* The parts of an attempt on Oracle are those of WriteAttempt.
LEMMA OracleParts ==
    /\ \A s, cmd : Oracle!Send(s, cmd) => Send(s, cmd)
    /\ \A s, cmd : Oracle!Await(s, cmd) => Send(s, cmd) /\ UNCHANGED <<received, cause, why, armed, link>>
    /\ \A s, cmd : Oracle!Open(s, cmd) => /\ Send(s, cmd) /\ link' = [link EXCEPT ![attempt] = "up"] /\ received' = 0
                                       /\ UNCHANGED <<cause, why, armed>>
    /\ \A cmd : Oracle!Receive(cmd) => /\ Send("rows", cmd) /\ received < MaxBatches /\ received' = received + 1
                                    /\ UNCHANGED <<cause, why, armed, link>>
    /\ Oracle!ToInput => ToInput
    /\ \A w, e : Oracle!StartRollback(w, e) => StartRollback(w, e)
    /\ \A e, keep : Oracle!EndAttempt(e, keep) => EndAttempt(e, keep)
    /\ \A keep : Oracle!DropCall(keep) => DropCall(keep)
<1> USE DEF Oracle!retry, retry, Oracle!fixed, fixed, Oracle!attempting, attempting, Oracle!remote, remote, Oracle!client, client
<1>1. \A s, cmd : Oracle!Send(s, cmd) => Send(s, cmd)
  BY DEF Oracle!Send, Send
<1>2. /\ \A s, cmd : Oracle!Await(s, cmd) => Send(s, cmd) /\ UNCHANGED <<received, cause, why, armed, link>>
      /\ \A s, cmd : Oracle!Open(s, cmd) => /\ Send(s, cmd) /\ link' = [link EXCEPT ![attempt] = "up"] /\ received' = 0
                                         /\ UNCHANGED <<cause, why, armed>>
      /\ \A cmd : Oracle!Receive(cmd) => /\ Send("rows", cmd) /\ received < MaxBatches /\ received' = received + 1
                                      /\ UNCHANGED <<cause, why, armed, link>>
  BY <1>1 DEF Oracle!Await, Oracle!Open, Oracle!Receive
<1>3. Oracle!ToInput => ToInput
  BY DEF Oracle!ToInput, ToInput
<1>4. \A w, e : Oracle!StartRollback(w, e) => StartRollback(w, e)
  BY <1>1 DEF Oracle!StartRollback, StartRollback
<1>5. Oracle!NoCause = NoCause
  BY DEF Oracle!NoCause, NoCause, Oracle!NewError, NewError, Oracle!Error, Error
<1>6. \A e, keep : Oracle!EndAttempt(e, keep) => EndAttempt(e, keep)
  BY <1>5 DEF Oracle!EndAttempt, EndAttempt, Oracle!OpAnswers, OpAnswers
<1>7. \A keep : Oracle!DropCall(keep) => DropCall(keep)
  BY DEF Oracle!DropCall, DropCall, Oracle!Running, Running
<1> QED
  BY <1>1, <1>2, <1>3, <1>4, <1>6, <1>7

\* The errors of Oracle are those of ErrorAxes.
LEMMA OracleErrors ==
    /\ \A p, e, r : Oracle!Error(p, e, r) = Error(p, e, r)
    /\ \A p : Oracle!NewError(p) = Error(p, "none", "never") /\ Oracle!Interrupted(p) = Error(p, "none", "never")
    /\ Oracle!NoCause = NoCause /\ Oracle!Committed = Committed /\ Oracle!OutcomeUnknown = OutcomeUnknown
    /\ \A r : Oracle!Severe(r) = Severe(r)
    /\ \A e : Oracle!AfterUnconfirmedRollback(e) = Error("rollback", "unknown", Severe(e.retry))
    /\ \A p \in {"write", "commit"} : \A e, r :
          Oracle!AfterInterruptedSend(Error(p, e, r)) = Error(p, "unknown", Severe(r))
    /\ \A e, r : Oracle!AfterInterruptedSend(Error("prepare", e, r)) = Error("prepare", e, r)
<1>1. \A p, e, r : Oracle!Error(p, e, r) = Error(p, e, r)
  BY DEF Oracle!Error, Error
<1>2. \A r : Oracle!Severe(r) = Severe(r)
  BY DEF Oracle!Severe, Severe
<1>3. \A e : Oracle!AfterUnconfirmedRollback(e) = Error("rollback", "unknown", Severe(e.retry))
  BY <1>1, <1>2 DEF Oracle!AfterUnconfirmedRollback
<1>4. /\ \A p : Oracle!NewError(p) = Error(p, "none", "never") /\ Oracle!Interrupted(p) = Error(p, "none", "never")
      /\ Oracle!NoCause = NoCause /\ Oracle!Committed = Committed /\ Oracle!OutcomeUnknown = OutcomeUnknown
  BY <1>1 DEF Oracle!NewError, Oracle!Interrupted, Oracle!NoCause, NoCause, NewError, Oracle!Committed, Committed,
     Oracle!OutcomeUnknown, OutcomeUnknown
<1>5. /\ \A p \in {"write", "commit"} : \A e, r :
             Oracle!AfterInterruptedSend(Error(p, e, r)) = Error(p, "unknown", Severe(r))
      /\ \A e, r : Oracle!AfterInterruptedSend(Error("prepare", e, r)) = Error("prepare", e, r)
  <2>1. \A p, e, r : Error(p, e, r).phase = p /\ Error(p, e, r).retry = r
    BY DEF Error
  <2> QED
    BY <1>1, <1>2, <2>1 DEF Oracle!AfterInterruptedSend
<1> QED
  BY <1>1, <1>2, <1>3, <1>4, <1>5

\* The errors of the input.
LEMMA OracleVerdicts ==
    \A e \in Oracle!InputErrors : \E f \in {"none", "unknown"}, r \in {"never", "safe"} : e = Error("write", f, r)
<1>1. \A p, e, r : Oracle!Error(p, e, r) = Error(p, e, r)
  BY OracleErrors
<1> QED
  BY <1>1 DEF Oracle!InputErrors

\* The parts of an attempt on SQL Server are those of WriteAttempt.
LEMMA SqlServerParts ==
    /\ \A s, cmd : SqlServer!Send(s, cmd) => Send(s, cmd)
    /\ \A s, cmd : SqlServer!Await(s, cmd) => Send(s, cmd) /\ UNCHANGED <<received, cause, why, armed, link>>
    /\ \A s, cmd : SqlServer!Open(s, cmd) => /\ Send(s, cmd) /\ link' = [link EXCEPT ![attempt] = "up"] /\ received' = 0
                                       /\ UNCHANGED <<cause, why, armed>>
    /\ \A cmd : SqlServer!Receive(cmd) => /\ Send("rows", cmd) /\ received < MaxBatches /\ received' = received + 1
                                    /\ UNCHANGED <<cause, why, armed, link>>
    /\ SqlServer!ToInput => ToInput
    /\ \A w, e : SqlServer!StartRollback(w, e) => StartRollback(w, e)
    /\ \A e, keep : SqlServer!EndAttempt(e, keep) => EndAttempt(e, keep)
    /\ \A keep : SqlServer!DropCall(keep) => DropCall(keep)
<1> USE DEF SqlServer!retry, retry, SqlServer!fixed, fixed, SqlServer!attempting, attempting, SqlServer!remote, remote, SqlServer!client, client
<1>1. \A s, cmd : SqlServer!Send(s, cmd) => Send(s, cmd)
  BY DEF SqlServer!Send, Send
<1>2. /\ \A s, cmd : SqlServer!Await(s, cmd) => Send(s, cmd) /\ UNCHANGED <<received, cause, why, armed, link>>
      /\ \A s, cmd : SqlServer!Open(s, cmd) => /\ Send(s, cmd) /\ link' = [link EXCEPT ![attempt] = "up"] /\ received' = 0
                                         /\ UNCHANGED <<cause, why, armed>>
      /\ \A cmd : SqlServer!Receive(cmd) => /\ Send("rows", cmd) /\ received < MaxBatches /\ received' = received + 1
                                      /\ UNCHANGED <<cause, why, armed, link>>
  BY <1>1 DEF SqlServer!Await, SqlServer!Open, SqlServer!Receive
<1>3. SqlServer!ToInput => ToInput
  BY DEF SqlServer!ToInput, ToInput
<1>4. \A w, e : SqlServer!StartRollback(w, e) => StartRollback(w, e)
  BY <1>1 DEF SqlServer!StartRollback, StartRollback
<1>5. SqlServer!NoCause = NoCause
  BY DEF SqlServer!NoCause, NoCause, SqlServer!NewError, NewError, SqlServer!Error, Error
<1>6. \A e, keep : SqlServer!EndAttempt(e, keep) => EndAttempt(e, keep)
  BY <1>5 DEF SqlServer!EndAttempt, EndAttempt, SqlServer!OpAnswers, OpAnswers
<1>7. \A keep : SqlServer!DropCall(keep) => DropCall(keep)
  BY DEF SqlServer!DropCall, DropCall, SqlServer!Running, Running
<1> QED
  BY <1>1, <1>2, <1>3, <1>4, <1>6, <1>7

\* The errors of SQL Server are those of ErrorAxes.
LEMMA SqlServerErrors ==
    /\ \A p, e, r : SqlServer!Error(p, e, r) = Error(p, e, r)
    /\ \A p : SqlServer!NewError(p) = Error(p, "none", "never") /\ SqlServer!Interrupted(p) = Error(p, "none", "never")
    /\ SqlServer!NoCause = NoCause /\ SqlServer!Committed = Committed /\ SqlServer!OutcomeUnknown = OutcomeUnknown
    /\ \A r : SqlServer!Severe(r) = Severe(r)
    /\ \A e : SqlServer!AfterUnconfirmedRollback(e) = Error("rollback", "unknown", Severe(e.retry))
    /\ \A p \in {"write", "commit"} : \A e, r :
          SqlServer!AfterInterruptedSend(Error(p, e, r)) = Error(p, "unknown", Severe(r))
    /\ \A e, r : SqlServer!AfterInterruptedSend(Error("prepare", e, r)) = Error("prepare", e, r)
<1>1. \A p, e, r : SqlServer!Error(p, e, r) = Error(p, e, r)
  BY DEF SqlServer!Error, Error
<1>2. \A r : SqlServer!Severe(r) = Severe(r)
  BY DEF SqlServer!Severe, Severe
<1>3. \A e : SqlServer!AfterUnconfirmedRollback(e) = Error("rollback", "unknown", Severe(e.retry))
  BY <1>1, <1>2 DEF SqlServer!AfterUnconfirmedRollback
<1>4. /\ \A p : SqlServer!NewError(p) = Error(p, "none", "never") /\ SqlServer!Interrupted(p) = Error(p, "none", "never")
      /\ SqlServer!NoCause = NoCause /\ SqlServer!Committed = Committed /\ SqlServer!OutcomeUnknown = OutcomeUnknown
  BY <1>1 DEF SqlServer!NewError, SqlServer!Interrupted, SqlServer!NoCause, NoCause, NewError, SqlServer!Committed, Committed,
     SqlServer!OutcomeUnknown, OutcomeUnknown
<1>5. /\ \A p \in {"write", "commit"} : \A e, r :
             SqlServer!AfterInterruptedSend(Error(p, e, r)) = Error(p, "unknown", Severe(r))
      /\ \A e, r : SqlServer!AfterInterruptedSend(Error("prepare", e, r)) = Error("prepare", e, r)
  <2>1. \A p, e, r : Error(p, e, r).phase = p /\ Error(p, e, r).retry = r
    BY DEF Error
  <2> QED
    BY <1>1, <1>2, <2>1 DEF SqlServer!AfterInterruptedSend
<1> QED
  BY <1>1, <1>2, <1>3, <1>4, <1>5

\* The errors of the input, and of a rejected row.
LEMMA SqlServerVerdicts ==
    /\ \A e \in SqlServer!InputErrors : \E f \in {"none", "unknown"}, r \in {"never", "safe"} : e = Error("write", f, r)
    /\ SqlServer!RowRejected(TRUE) = Error("write", "rolled_back", "never")
    /\ SqlServer!RowRejected(FALSE) = Error("rollback", "unknown", "quarantine")
<1>1. \A p, e, r : SqlServer!Error(p, e, r) = Error(p, e, r)
  BY SqlServerErrors
<1>2. \A e \in SqlServer!InputErrors : \E f \in {"none", "unknown"}, r \in {"never", "safe"} : e = Error("write", f, r)
  BY <1>1 DEF SqlServer!InputErrors
<1>3. SqlServer!RowRejected(TRUE) = Error("write", "rolled_back", "never")
  BY <1>1 DEF SqlServer!RowRejected
<1>4. SqlServer!RowRejected(FALSE) = Error("rollback", "unknown", "quarantine")
  BY <1>1 DEF SqlServer!RowRejected
<1> QED
  BY <1>2, <1>3, <1>4

\* The parts of an attempt on Db2 are those of WriteAttempt.
LEMMA Db2Parts ==
    /\ \A s, cmd : Db2!Send(s, cmd) => Send(s, cmd)
    /\ \A s, cmd : Db2!Await(s, cmd) => Send(s, cmd) /\ UNCHANGED <<received, cause, why, armed, link>>
    /\ \A s, cmd : Db2!Open(s, cmd) => /\ Send(s, cmd) /\ link' = [link EXCEPT ![attempt] = "up"] /\ received' = 0
                                       /\ UNCHANGED <<cause, why, armed>>
    /\ \A cmd : Db2!Receive(cmd) => /\ Send("rows", cmd) /\ received < MaxBatches /\ received' = received + 1
                                    /\ UNCHANGED <<cause, why, armed, link>>
    /\ Db2!ToInput => ToInput
    /\ \A w, e : Db2!StartRollback(w, e) => StartRollback(w, e)
    /\ \A e, keep : Db2!EndAttempt(e, keep) => EndAttempt(e, keep)
    /\ \A keep : Db2!DropCall(keep) => DropCall(keep)
<1> USE DEF Db2!retry, retry, Db2!fixed, fixed, Db2!attempting, attempting, Db2!remote, remote, Db2!client, client
<1>1. \A s, cmd : Db2!Send(s, cmd) => Send(s, cmd)
  BY DEF Db2!Send, Send
<1>2. /\ \A s, cmd : Db2!Await(s, cmd) => Send(s, cmd) /\ UNCHANGED <<received, cause, why, armed, link>>
      /\ \A s, cmd : Db2!Open(s, cmd) => /\ Send(s, cmd) /\ link' = [link EXCEPT ![attempt] = "up"] /\ received' = 0
                                         /\ UNCHANGED <<cause, why, armed>>
      /\ \A cmd : Db2!Receive(cmd) => /\ Send("rows", cmd) /\ received < MaxBatches /\ received' = received + 1
                                      /\ UNCHANGED <<cause, why, armed, link>>
  BY <1>1 DEF Db2!Await, Db2!Open, Db2!Receive
<1>3. Db2!ToInput => ToInput
  BY DEF Db2!ToInput, ToInput
<1>4. \A w, e : Db2!StartRollback(w, e) => StartRollback(w, e)
  BY <1>1 DEF Db2!StartRollback, StartRollback
<1>5. Db2!NoCause = NoCause
  BY DEF Db2!NoCause, NoCause, Db2!NewError, NewError, Db2!Error, Error
<1>6. \A e, keep : Db2!EndAttempt(e, keep) => EndAttempt(e, keep)
  BY <1>5 DEF Db2!EndAttempt, EndAttempt, Db2!OpAnswers, OpAnswers
<1>7. \A keep : Db2!DropCall(keep) => DropCall(keep)
  BY DEF Db2!DropCall, DropCall, Db2!Running, Running
<1> QED
  BY <1>1, <1>2, <1>3, <1>4, <1>6, <1>7

\* The errors of Db2 are those of ErrorAxes.
LEMMA Db2Errors ==
    /\ \A p, e, r : Db2!Error(p, e, r) = Error(p, e, r)
    /\ \A p : Db2!NewError(p) = Error(p, "none", "never") /\ Db2!Interrupted(p) = Error(p, "none", "never")
    /\ Db2!NoCause = NoCause /\ Db2!Committed = Committed /\ Db2!OutcomeUnknown = OutcomeUnknown
    /\ \A r : Db2!Severe(r) = Severe(r)
    /\ \A e : Db2!AfterUnconfirmedRollback(e) = Error("rollback", "unknown", Severe(e.retry))
    /\ \A p \in {"write", "commit"} : \A e, r :
          Db2!AfterInterruptedSend(Error(p, e, r)) = Error(p, "unknown", Severe(r))
    /\ \A e, r : Db2!AfterInterruptedSend(Error("prepare", e, r)) = Error("prepare", e, r)
<1>1. \A p, e, r : Db2!Error(p, e, r) = Error(p, e, r)
  BY DEF Db2!Error, Error
<1>2. \A r : Db2!Severe(r) = Severe(r)
  BY DEF Db2!Severe, Severe
<1>3. \A e : Db2!AfterUnconfirmedRollback(e) = Error("rollback", "unknown", Severe(e.retry))
  BY <1>1, <1>2 DEF Db2!AfterUnconfirmedRollback
<1>4. /\ \A p : Db2!NewError(p) = Error(p, "none", "never") /\ Db2!Interrupted(p) = Error(p, "none", "never")
      /\ Db2!NoCause = NoCause /\ Db2!Committed = Committed /\ Db2!OutcomeUnknown = OutcomeUnknown
  BY <1>1 DEF Db2!NewError, Db2!Interrupted, Db2!NoCause, NoCause, NewError, Db2!Committed, Committed,
     Db2!OutcomeUnknown, OutcomeUnknown
<1>5. /\ \A p \in {"write", "commit"} : \A e, r :
             Db2!AfterInterruptedSend(Error(p, e, r)) = Error(p, "unknown", Severe(r))
      /\ \A e, r : Db2!AfterInterruptedSend(Error("prepare", e, r)) = Error("prepare", e, r)
  <2>1. \A p, e, r : Error(p, e, r).phase = p /\ Error(p, e, r).retry = r
    BY DEF Error
  <2> QED
    BY <1>1, <1>2, <2>1 DEF Db2!AfterInterruptedSend
<1> QED
  BY <1>1, <1>2, <1>3, <1>4, <1>5

\* The errors of the input, and of a rejected row.
LEMMA Db2Verdicts ==
    /\ \A e \in Db2!InputErrors : \E f \in {"none", "unknown"}, r \in {"never", "safe"} : e = Error("write", f, r)
    /\ Db2!RowRejected(TRUE) = Error("write", "rolled_back", "never")
    /\ Db2!RowRejected(FALSE) = Error("rollback", "unknown", "quarantine")
<1>1. \A p, e, r : Db2!Error(p, e, r) = Error(p, e, r)
  BY Db2Errors
<1>2. \A e \in Db2!InputErrors : \E f \in {"none", "unknown"}, r \in {"never", "safe"} : e = Error("write", f, r)
  BY <1>1 DEF Db2!InputErrors
<1>3. Db2!RowRejected(TRUE) = Error("write", "rolled_back", "never")
  BY <1>1 DEF Db2!RowRejected
<1>4. Db2!RowRejected(FALSE) = Error("rollback", "unknown", "quarantine")
  BY <1>1 DEF Db2!RowRejected
<1> QED
  BY <1>2, <1>3, <1>4

-----------------------------------------------------------------------------
(* The steps that the adapters share.                                      *)

\* An error before COMMIT and ROLLBACK.
LEMMA FailKeeps ==
    ASSUME NEW p \in Phase, NEW f \in Effect, NEW r \in Disposition, IInv, Running, ~Residue(attempt),
           pc \notin {"commit", "rollback"}, EndAttempt(Error(p, f, r), FALSE)
    PROVE  IInv'
<1>1. Error(p, f, r) \in Answer /\ Error(p, f, r).status = "error"
  BY Denials
<1> QED
  BY <1>1, ErrorKeeps

\* An error that denies nothing, at any time.
LEMMA DoubtKeeps ==
    ASSUME NEW p \in Phase, NEW f \in Effect \ {"none", "rolled_back"}, NEW r \in Disposition \ {"safe", "after"},
           IInv, Running, EndAttempt(Error(p, f, r), FALSE)
    PROVE  IInv'
<1>1. Error(p, f, r) \in Answer /\ Error(p, f, r).status = "error" /\ ~Denies(Error(p, f, r))
  BY Denials
<1> QED
  BY <1>1, ErrorKeeps

\* ROLLBACK is sent for an error.
LEMMA BackKeeps ==
    ASSUME NEW w \in Rollback \ {"none"}, NEW p \in Phase, NEW f \in {"none", "unknown", "rolled_back"},
           NEW r \in Disposition, IInv, Running, StartRollback(w, Error(p, f, r)),
           pc \in (Stages \cup {"input"}) \ (Before \cup {"commit", "create", "discard"}),
           adapter = "postgres" \/ reply # "none" \/ pc = "input" \/ link[attempt] = "down",
           adapter = "mysql" /\ f = "rolled_back" => reply = "undone"
    PROVE  IInv'
<1>1. "start" \notin Stages /\ "rollback" \notin Stages
  BY StageNames DEF IInv, TypeOK, WriteTypeOK
<1>2. WireOK /\ InsideOK
  BY <1>1 DEF IInv, RunOK, Running
<1>3. adapter = "postgres" \/ pipe[attempt] = <<>> \/ link[attempt] = "down"
  BY <1>2 DEF WireOK
<1>4. adapter = "mysql" /\ f = "rolled_back" => work[attempt] = "discarded"
  BY <1>1, <1>2 DEF InsideOK
<1>5. Error(p, f, r) \in Answer /\ Error(p, f, r).status = "error" /\ Error(p, f, r).effect = f
  BY Denials DEF Effect
<1> QED
  BY <1>3, <1>4, <1>5, RollbackKeeps

\* The next stage.
LEMMA AwaitKeeps ==
    ASSUME NEW s, NEW cmd, IInv, Running, Send(s, cmd), UNCHANGED <<received, cause, why, armed, link>>,
           pc \in Stages \cup {"input"}, pc # "commit", reply = "ok" \/ pc = "input",
           s \in Stages \ {"precheck", "create", "rows"}, Fits(s, cmd),
           s \in Before => pc \in Before \ {"begin"},
           s \notin Before => pc \notin Before \/ pc = "begin"
    PROVE  IInv'
<1>1. armed' = armed /\ received' = received /\ armed \in BOOLEAN /\ received \in 0 .. MaxBatches
  BY DEF IInv, TypeOK, WriteTypeOK
<1> QED
  BY <1>1, SendKeeps

\* The next batch.
LEMMA BatchKeeps ==
    ASSUME IInv, Running, pc = "input", received < MaxBatches, received' = received + 1, Send("rows", "execute"),
           UNCHANGED <<cause, why, armed, link>>, "rows" \in Stages
    PROVE  IInv'
<1>1. armed' = armed /\ armed \in BOOLEAN /\ received \in 0 .. MaxBatches /\ "rows" \notin Before /\ "input" \notin Before
  BY DEF IInv, TypeOK, WriteTypeOK, Before
<1>2. received' \in 0 .. MaxBatches
  BY <1>1, WriteAssumption
<1>3. Fits("rows", "execute")
  BY <1>1 DEF Fits, Command
<1> QED
  BY <1>1, <1>2, <1>3, SendKeeps

-----------------------------------------------------------------------------
(* SQL Server.                                                             *)

\* Every step of an attempt on SQL Server.
LEMMA SqlServerKeeps == ASSUME IInv, adapter = "sqlserver", SqlServer!Next PROVE IInv'
<1>0. /\ Stages = {"isolation", "begin", "keys", "drop_keys", "target", "rows", "finish", "commit"}
      /\ Before = {"isolation", "begin"} /\ Explicit /\ ~Residue(attempt) /\ cause \in Answer /\ armed \in BOOLEAN
      /\ mode \in Mode
  BY NoResidue DEF IInv, TypeOK, WriteTypeOK, Stages, Before, Explicit, SqlServer!Stage, SqlServer!Setup,
     SqlServer!Batches, SqlServer!Statements
<1>f. \A s \in Stages : Fits(s, SqlServer!Sends(s))
  BY <1>0 DEF Fits, SqlServer!Sends, Command
<1>p. /\ {"validate", "connect", "prepare", "write", "commit", "rollback"} \subseteq Phase
      /\ {"none", "rolled_back", "unknown"} \subseteq Effect
      /\ {"never", "quarantine", "safe", "requires_recovery"} \subseteq Disposition
      /\ {"error", "rejected"} \subseteq Rollback \ {"none"}
  BY DEF Phase, Effect, Disposition, Rollback
\* What the driver's errors are.
<1>d. \A p \in Phase, c \in {"none", "unknown"}, u \in {"none", "unknown"} :
         \E f \in {"none", "rolled_back", "unknown"}, r \in {"never", "safe", "requires_recovery"} :
            SqlServer!DriverError(p, c, u) = Error(p, f, r)
  BY SqlServerErrors DEF SqlServer!DriverError
<1>1. CASE SqlServer!RefuseEarly \/ SqlServer!CheckoutFails
  <2>1. Running /\ pc = "start"
    BY <1>1 DEF SqlServer!RefuseEarly, SqlServer!CheckoutFails, SqlServer!At, SqlServer!Running, Running
  <2>2. \E p \in Phase, r \in Disposition : EndAttempt(Error(p, "none", r), FALSE)
    BY <1>1, <1>p, SqlServerParts, SqlServerErrors DEF SqlServer!RefuseEarly, SqlServer!CheckoutFails
  <2> QED
    BY <1>0, <1>p, <2>1, <2>2, FailKeeps
<1>2. CASE SqlServer!Checkout
  <2>1. At("start") /\ Send("isolation", "read") /\ link' = [link EXCEPT ![attempt] = "up"] /\ received' = 0
        /\ UNCHANGED <<cause, why, armed>>
    BY <1>2, SqlServerParts DEF SqlServer!Checkout, SqlServer!At, SqlServer!Running, At, Running
  <2>2. Fits("isolation", "read")
    BY <1>0 DEF Fits, Command
  <2> QED
    BY <1>0, <2>1, <2>2, OpenKeeps
<1>3. CASE SqlServer!Advance
  <2>1. Running /\ reply = "ok" /\ pc \in Stages \ {"commit"}
    BY <1>0, <1>3 DEF SqlServer!Advance, SqlServer!Answered, SqlServer!Running, Running, SqlServer!Setup,
       SqlServer!Batches, SqlServer!Statements
  <2>2. PICK s \in SqlServer!Following(pc) : IF s = "input" THEN SqlServer!ToInput ELSE SqlServer!Await(s, SqlServer!Sends(s))
    BY <1>3 DEF SqlServer!Advance
  <2>3. /\ s = "input" \/ s \in Stages \ {"isolation", "rows"}
        /\ s = "begin" => pc = "isolation"
        /\ pc = "isolation" => s = "begin"
    BY <1>0, <2>1, <2>2 DEF SqlServer!Following
  <2>4. CASE s = "input"
    BY <1>0, <2>1, <2>2, <2>3, <2>4, SqlServerParts, InputKeeps
  <2>5. CASE s # "input"
    <3>1. Send(s, SqlServer!Sends(s)) /\ UNCHANGED <<received, cause, why, armed, link>> /\ Fits(s, SqlServer!Sends(s))
      BY <1>f, <2>2, <2>3, <2>5, SqlServerParts
    <3> QED
      BY <1>0, <2>1, <2>3, <2>5, <3>1, AwaitKeeps
  <2> QED
    BY <2>4, <2>5
<1>4. CASE SqlServer!RefuseLocally
  <2>1. Running /\ reply = "ok"
    BY <1>4 DEF SqlServer!RefuseLocally, SqlServer!Answered, SqlServer!Running, Running
  <2>2. \/ pc \in {"isolation", "target", "rows", "finish"} /\ \E p \in Phase : EndAttempt(Error(p, "none", "never"), FALSE)
        \/ pc \in {"target", "rows", "finish"} /\ StartRollback("error", Error("write", "none", "never"))
    BY <1>4, <1>p, SqlServerParts, SqlServerErrors DEF SqlServer!RefuseLocally, SqlServer!Statements
  <2> QED
    BY <1>0, <1>p, <2>1, <2>2, FailKeeps, BackKeeps
<1>5. CASE SqlServer!ControlFails
  <2>1. Running /\ pc \in {"isolation", "begin", "keys", "drop_keys"}
    BY <1>5 DEF SqlServer!ControlFails, SqlServer!Refused, SqlServer!Running, Running, SqlServer!Setup, SqlServer!Batches
  <2>2. \E p \in Phase, c \in {"none", "unknown"}, u \in {"none", "unknown"} :
           EndAttempt(SqlServer!DriverError(p, c, u), FALSE)
    BY <1>5, <1>p, <2>1, SqlServerParts DEF SqlServer!ControlFails
  <2>3. \E p \in Phase, f \in Effect, r \in Disposition : EndAttempt(Error(p, f, r), FALSE)
    <3>1. PICK p \in Phase, c \in {"none", "unknown"}, u \in {"none", "unknown"} :
             EndAttempt(SqlServer!DriverError(p, c, u), FALSE)
      BY <2>2
    <3>2. PICK f \in {"none", "rolled_back", "unknown"}, r \in {"never", "safe", "requires_recovery"} :
             SqlServer!DriverError(p, c, u) = Error(p, f, r)
      BY <1>d
    <3> QED
      BY <1>p, <3>1, <3>2
  <2> QED
    BY <1>0, <2>1, <2>3, FailKeeps
<1>6. CASE SqlServer!StatementFails
  <2>1. Running /\ pc \in {"target", "rows", "finish"}
    BY <1>6 DEF SqlServer!StatementFails, SqlServer!Refused, SqlServer!Running, Running, SqlServer!Statements
  <2>2. PICK f \in {"none", "rolled_back", "unknown"}, r \in {"never", "safe", "requires_recovery"} :
           SqlServer!DriverError("write", "none", "unknown") = Error("write", f, r)
    BY <1>d, <1>p
  <2>3. \/ reply # "none" /\ StartRollback("error", Error("write", f, r))
        \/ EndAttempt(Error("write", f, r), FALSE)
    BY <1>6, <2>2, SqlServerParts DEF SqlServer!StatementFails
  <2> QED
    BY <1>0, <1>p, <2>1, <2>3, FailKeeps, BackKeeps
<1>7. CASE SqlServer!RowFails
  <2>1. /\ Running /\ pc = "rows"
        /\ \/ reply = "error" /\ StartRollback("rejected", Error("write", "none", "never"))
           \/ EndAttempt(Error("write", "unknown", "quarantine"), FALSE)
    BY <1>7, SqlServerParts, SqlServerErrors, Denials DEF SqlServer!RowFails, SqlServer!At, SqlServer!Running, Running
  <2> QED
    BY <1>0, <1>p, <2>1, FailKeeps, BackKeeps
<1>8. CASE SqlServer!Interrupt
  <2>1. Running /\ pc \in Stages \ {"commit"}
    BY <1>0, <1>8 DEF SqlServer!Interrupt, SqlServer!Running, Running, SqlServer!Batches, SqlServer!Statements
  <2>2. Severe("never") = "requires_recovery"
    BY DEF Severe
  <2>3. EndAttempt(Error("prepare", "none", "never"), FALSE) \/ EndAttempt(Error("write", "unknown", "requires_recovery"), FALSE)
    BY <1>8, <2>2, SqlServerParts, SqlServerErrors DEF SqlServer!Interrupt
  <2> QED
    BY <1>0, <1>p, <2>1, <2>3, FailKeeps
<1>9. CASE SqlServer!NextBatch
  <2>1. Running /\ pc = "input" /\ SqlServer!Receive("execute")
    BY <1>9 DEF SqlServer!NextBatch, SqlServer!At, SqlServer!Running, Running
  <2> QED
    BY <1>0, <2>1, SqlServerParts, BatchKeeps
<1>10. CASE SqlServer!NextBatchFails
  <2>1. Running /\ pc = "input" /\ \E e \in SqlServer!InputErrors : StartRollback("error", e)
    BY <1>10, SqlServerParts DEF SqlServer!NextBatchFails, SqlServer!At, SqlServer!Running, Running
  <2>2. PICK f \in {"none", "unknown"}, r \in {"never", "safe"} : StartRollback("error", Error("write", f, r))
    BY <2>1, SqlServerVerdicts
  <2> QED
    BY <1>0, <1>p, <2>1, <2>2, BackKeeps
<1>11. CASE SqlServer!NextBatchEnds
  <2>1. Running /\ pc = "input"
    BY <1>11 DEF SqlServer!NextBatchEnds, SqlServer!At, SqlServer!Running, Running
  <2>2. PICK s \in {"drop_keys", "finish", "commit"} : SqlServer!Await(s, SqlServer!Sends(s))
    BY <1>11 DEF SqlServer!NextBatchEnds
  <2>3. Send(s, SqlServer!Sends(s)) /\ UNCHANGED <<received, cause, why, armed, link>> /\ Fits(s, SqlServer!Sends(s))
    BY <1>0, <1>f, <2>2, SqlServerParts
  <2> QED
    BY <1>0, <2>1, <2>3, AwaitKeeps
<1>12. CASE SqlServer!AfterRollback
  <2>1. Running /\ pc = "rollback" /\ cause.retry \in Disposition /\ cause.phase \in Phase /\ cause.status = "error"
    BY <1>0, <1>12 DEF SqlServer!AfterRollback, SqlServer!Running, Running, Answer, IInv, RunOK, RollbackOK
  <2>2. CASE reply = "ok"
    <3>1. PICK p \in Phase, r \in Disposition : EndAttempt(Error(p, "rolled_back", r), TRUE)
      <4>1. [cause EXCEPT !.effect = "rolled_back"] = Error(cause.phase, "rolled_back", cause.retry)
        BY <1>0, <2>1 DEF Answer, Error
      <4>2. EndAttempt(IF why = "rejected" THEN SqlServer!RowRejected(TRUE) ELSE SqlServer!RollbackAfterError(cause, TRUE), TRUE)
        BY <1>12, <2>2, SqlServerParts DEF SqlServer!AfterRollback
      <4>3. SqlServer!RollbackAfterError(cause, TRUE) = Error(cause.phase, "rolled_back", cause.retry)
        BY <4>1 DEF SqlServer!RollbackAfterError
      <4>4. SqlServer!RowRejected(TRUE) = Error("write", "rolled_back", "never")
        BY SqlServerVerdicts
      <4> QED
        BY <1>p, <2>1, <4>2, <4>3, <4>4
    <3>2. srv[attempt] = "none" /\ pipe[attempt] = <<>>
      BY <2>1, <2>2, CleanSession
    <3>3. Error(p, "rolled_back", r) \in Answer /\ Error(p, "rolled_back", r).status = "error"
      BY <1>p, Denials
    <3> QED
      BY <1>0, <2>1, <2>2, <3>1, <3>2, <3>3, ErrorKeeps
  <2>3. CASE reply # "ok"
    <3>1. \E r \in {"quarantine", "requires_recovery"} : EndAttempt(Error("rollback", "unknown", r), FALSE)
      <4>1. Severe(cause.retry) \in {"quarantine", "requires_recovery"}
        BY <2>1, Denials
      <4>2. EndAttempt(IF why = "rejected" THEN SqlServer!RowRejected(FALSE) ELSE SqlServer!RollbackAfterError(cause, FALSE), FALSE)
        BY <1>12, <2>3, SqlServerParts DEF SqlServer!AfterRollback
      <4>3. SqlServer!RollbackAfterError(cause, FALSE) = Error("rollback", "unknown", Severe(cause.retry))
        BY SqlServerErrors DEF SqlServer!RollbackAfterError
      <4> QED
        BY <4>1, <4>2, <4>3, SqlServerVerdicts
    <3> QED
      BY <1>p, <2>1, <3>1, DoubtKeeps
  <2> QED
    BY <2>2, <2>3
<1>13. CASE SqlServer!AfterCommit
  <2>1. Running /\ pc = "commit"
    BY <1>13 DEF SqlServer!AfterCommit, SqlServer!At, SqlServer!Running, Running
  <2>2. \/ reply = "ok" /\ EndAttempt(Committed, TRUE)
        \/ reply = "proven" /\ EndAttempt(Error("commit", "rolled_back", "safe"), FALSE)
        \/ EndAttempt(OutcomeUnknown, FALSE)
    <3>1. /\ SqlServer!AfterCommitSent(SqlServer!Error("commit", "rolled_back", "safe"), TRUE) = Error("commit", "rolled_back", "safe")
          /\ SqlServer!Committed = Committed /\ SqlServer!OutcomeUnknown = OutcomeUnknown
      <4>1. SqlServer!AfterCommitSent(SqlServer!Error("commit", "rolled_back", "safe"), TRUE)
               = Error("commit", "rolled_back", "safe")
        BY DEF SqlServer!AfterCommitSent, SqlServer!Error, Error
      <4>2. SqlServer!Committed = Committed /\ SqlServer!OutcomeUnknown = OutcomeUnknown
        BY SqlServerErrors
      <4> QED
        BY <4>1, <4>2
    <3> QED
      BY <1>13, <3>1, SqlServerParts DEF SqlServer!AfterCommit
  <2>3. CASE reply = "proven" /\ EndAttempt(Error("commit", "rolled_back", "safe"), FALSE)
    <3>1. Error("commit", "rolled_back", "safe") \in Answer /\ Error("commit", "rolled_back", "safe").status = "error"
      BY <1>p, Denials
    <3> QED
      BY <1>0, <2>1, <2>3, <3>1, ErrorKeeps
  <2> QED
    BY <2>1, <2>2, <2>3, CommittedKeeps, UnknownKeeps
<1> QED
  BY <1>1, <1>2, <1>3, <1>4, <1>5, <1>6, <1>7, <1>8, <1>9, <1>10, <1>11, <1>12, <1>13 DEF SqlServer!Next

-----------------------------------------------------------------------------
(* Db2.                                                                    *)

\* Every step of an attempt on Db2.
LEMMA Db2Keeps == ASSUME IInv, adapter = "db2", Db2!Next PROVE IInv'
<1>0. /\ Stages = {"guard", "visibility", "target", "rows", "begin", "commit"}
      /\ Before = {} /\ ~Explicit /\ ~Residue(attempt) /\ cause \in Answer /\ armed \in BOOLEAN
      /\ mode \in Mode
  BY NoResidue DEF IInv, TypeOK, WriteTypeOK, Stages, Before, Explicit, Db2!Stage, Db2!Load
<1>f. \A s \in Stages : Fits(s, Db2!Sends(s))
  BY <1>0 DEF Fits, Db2!Sends, Command
<1>p. /\ {"validate", "connect", "prepare", "write", "commit", "rollback"} \subseteq Phase
      /\ {"none", "rolled_back", "unknown"} \subseteq Effect
      /\ {"never", "quarantine", "safe", "requires_recovery"} \subseteq Disposition
      /\ {"error", "rejected"} \subseteq Rollback \ {"none"}
      /\ \A s : Db2!PhaseOf(s) \in {"prepare", "write"}
  BY DEF Phase, Effect, Disposition, Rollback, Db2!PhaseOf
\* What the driver's errors are, and those of a lost worker.
<1>d. /\ \A p : \A e \in Db2!DriverErrors(p) :
            \E f \in {"none", "rolled_back", "unknown"}, r \in {"never", "safe", "requires_recovery"} : e = Error(p, f, r)
      /\ \A p : \E f \in {"none", "unknown"}, r \in {"never", "requires_recovery"} : Db2!TaskError(p) = Error(p, f, r)
  BY Db2Errors DEF Db2!DriverErrors, Db2!TaskError
\* What a ROLLBACK makes of its cause.
<1>s. /\ \A e : Db2!RollbackAndShape(e, TRUE) = Error(e.phase, "rolled_back", "never")
      /\ \A e : Db2!RollbackAndShape(e, FALSE) = Error("rollback", "unknown", Severe(e.retry))
  BY Db2Errors DEF Db2!RollbackAndShape
\* A ROLLBACK that is not confirmed.
<1>u. ASSUME Running, pc = "rollback",
             EndAttempt(IF why = "rejected" THEN Db2!RowRejected(FALSE) ELSE Db2!RollbackAndShape(cause, FALSE), FALSE)
      PROVE  IInv'
  <2>1. cause.retry \in Disposition
    BY <1>0 DEF Answer
  <2>2. Severe(cause.retry) \in {"quarantine", "requires_recovery"}
    BY <2>1, Denials
  <2>3. Db2!RowRejected(FALSE) = Error("rollback", "unknown", "quarantine")
    BY Db2Verdicts
  <2>4. \E r \in {"quarantine", "requires_recovery"} : EndAttempt(Error("rollback", "unknown", r), FALSE)
    BY <1>s, <1>u, <2>2, <2>3
  <2> QED
    BY <1>p, <1>u, <2>4, DoubtKeeps
<1>1. CASE Db2!RefuseEarly \/ Db2!BeginFails
  <2>1. Running /\ pc \in {"start", "begin"}
    BY <1>1 DEF Db2!RefuseEarly, Db2!BeginFails, Db2!At, Db2!Refused, Db2!Running, Running
  <2>2. \E p \in Phase, f \in Effect, r \in Disposition : EndAttempt(Error(p, f, r), FALSE)
    <3>1. CASE Db2!RefuseEarly
      BY <1>p, <3>1, Db2Parts, Db2Errors DEF Db2!RefuseEarly
    <3>2. CASE Db2!BeginFails
      <4>1. PICK e \in Db2!DriverErrors("prepare") : EndAttempt(e, FALSE)
        BY <3>2, Db2Parts DEF Db2!BeginFails
      <4>2. PICK f \in {"none", "rolled_back", "unknown"}, r \in {"never", "safe", "requires_recovery"} :
               e = Error("prepare", f, r)
        BY <1>d
      <4> QED
        BY <1>p, <4>1, <4>2
    <3> QED
      BY <1>1, <3>1, <3>2
  <2> QED
    BY <1>0, <2>1, <2>2, FailKeeps
<1>2. CASE Db2!Begin
  <2>1. At("start") /\ Send("begin", "read") /\ link' = [link EXCEPT ![attempt] = "up"] /\ received' = 0
        /\ UNCHANGED <<cause, why, armed>>
    BY <1>2, Db2Parts DEF Db2!Begin, Db2!At, Db2!Running, At, Running
  <2>2. Fits("begin", "read")
    BY <1>0 DEF Fits, Command
  <2> QED
    BY <1>0, <2>1, <2>2, OpenKeeps
<1>3. CASE Db2!Advance
  <2>1. Running /\ reply = "ok" /\ pc \in Stages \ {"commit"}
    BY <1>0, <1>3 DEF Db2!Advance, Db2!Answered, Db2!Running, Running, Db2!Load
  <2>2. PICK s \in Db2!Following(pc) :
           \/ s = "input" /\ Db2!ToInput
           \/ s # "input" /\ Db2!Await(s, Db2!Sends(s))
           \/ s # "input" /\ Db2!StartRollback("error", Db2!Interrupted(Db2!PhaseOf(s)))
    BY <1>3 DEF Db2!Advance
  <2>3. s = "input" \/ s \in Stages \ {"rows"}
    BY <1>0, <2>1, <2>2 DEF Db2!Following
  <2>4. CASE s = "input" /\ Db2!ToInput
    BY <1>0, <2>1, <2>4, Db2Parts, InputKeeps
  <2>5. CASE s # "input" /\ Db2!Await(s, Db2!Sends(s))
    <3>1. Send(s, Db2!Sends(s)) /\ UNCHANGED <<received, cause, why, armed, link>> /\ Fits(s, Db2!Sends(s))
      BY <1>f, <2>3, <2>5, Db2Parts
    <3> QED
      BY <1>0, <2>1, <2>3, <2>5, <3>1, AwaitKeeps
  <2>6. CASE Db2!StartRollback("error", Db2!Interrupted(Db2!PhaseOf(s)))
    <3>1. \E p \in Phase : StartRollback("error", Error(p, "none", "never"))
      BY <1>p, <2>6, Db2Parts, Db2Errors
    <3> QED
      BY <1>0, <1>p, <2>1, <3>1, BackKeeps
  <2> QED
    BY <2>2, <2>4, <2>5, <2>6
<1>4. CASE Db2!RefuseLocally \/ Db2!RowFails
  <2>1. Running /\ pc \in Stages \ {"commit"} /\ reply # "none"
    BY <1>0, <1>4 DEF Db2!RefuseLocally, Db2!RowFails, Db2!At, Db2!Answered, Db2!Running, Running, Db2!Load
  <2>2. \E w \in {"error", "rejected"} : StartRollback(w, Error("write", "none", "never"))
    BY <1>4, Db2Parts, Db2Errors, Denials DEF Db2!RefuseLocally, Db2!RowFails
  <2> QED
    BY <1>0, <1>p, <2>1, <2>2, BackKeeps
<1>5. CASE Db2!LoadFails
  <2>1. Running /\ pc \in Stages \ {"commit"} /\ (reply # "none" \/ link[attempt] = "down")
    BY <1>0, <1>5 DEF Db2!LoadFails, Db2!Refused, Db2!Closed, Db2!Running, Running, Db2!Load
  <2>2. PICK e \in Db2!DriverErrors(Db2!PhaseOf(pc)) : StartRollback("error", e)
    BY <1>5, Db2Parts DEF Db2!LoadFails
  <2>3. PICK f \in {"none", "rolled_back", "unknown"}, r \in {"never", "safe", "requires_recovery"} :
           e = Error(Db2!PhaseOf(pc), f, r)
    BY <1>d
  <2>4. Db2!PhaseOf(pc) \in Phase
    BY <1>p
  <2> QED
    BY <1>0, <1>p, <2>1, <2>2, <2>3, <2>4, BackKeeps
<1>6. CASE Db2!WorkerLost
  <2>1. Running
    BY <1>6 DEF Db2!WorkerLost, Db2!Running, Running
  <2>2. \/ pc = "begin" /\ EndAttempt(Db2!TaskError("prepare"), FALSE)
        \/ pc \in Db2!Load /\ EndAttempt(Db2!RollbackAndShape(Db2!TaskError(Db2!PhaseOf(pc)), TRUE), FALSE)
        \/ pc = "rollback" /\
           EndAttempt(IF why = "rejected" THEN Db2!RowRejected(FALSE) ELSE Db2!RollbackAndShape(cause, FALSE), FALSE)
        \/ pc = "commit" /\ EndAttempt(Db2!OutcomeUnknown, FALSE)
    BY <1>6, Db2Parts DEF Db2!WorkerLost
  <2>3. CASE pc = "begin" /\ EndAttempt(Db2!TaskError("prepare"), FALSE)
    <3>0. PICK f \in {"none", "unknown"}, r \in {"never", "requires_recovery"} : Db2!TaskError("prepare") = Error("prepare", f, r)
      BY <1>d
    <3>1. EndAttempt(Error("prepare", f, r), FALSE)
      BY <2>3, <3>0
    <3> QED
      BY <1>0, <1>p, <2>1, <2>3, <3>1, FailKeeps
  <2>4. CASE pc \in Db2!Load /\ EndAttempt(Db2!RollbackAndShape(Db2!TaskError(Db2!PhaseOf(pc)), TRUE), FALSE)
    <3>1. PICK f \in {"none", "unknown"}, r \in {"never", "requires_recovery"} :
             Db2!TaskError(Db2!PhaseOf(pc)) = Error(Db2!PhaseOf(pc), f, r)
      BY <1>d
    <3>2. EndAttempt(Error(Db2!PhaseOf(pc), "rolled_back", "never"), FALSE)
      <4>1. Db2!TaskError(Db2!PhaseOf(pc)).phase = Db2!PhaseOf(pc)
        BY <3>1 DEF Error
      <4> QED
        BY <1>s, <2>4, <4>1
    <3>3. Db2!PhaseOf(pc) \in Phase /\ pc \notin {"commit", "rollback"}
      BY <1>p, <2>4 DEF Db2!Load
    <3> QED
      BY <1>0, <1>p, <2>1, <3>2, <3>3, FailKeeps
  <2>5. CASE pc = "commit" /\ EndAttempt(Db2!OutcomeUnknown, FALSE)
    <3>1. EndAttempt(OutcomeUnknown, FALSE)
      BY <2>5, Db2Errors
    <3> QED
      BY <2>1, <3>1, UnknownKeeps
  <2> QED
    BY <1>u, <2>1, <2>2, <2>3, <2>4, <2>5
<1>7. CASE Db2!NextBatch
  <2>1. Running /\ pc = "input" /\ Db2!Receive("execute")
    BY <1>7 DEF Db2!NextBatch, Db2!At, Db2!Running, Running
  <2> QED
    BY <1>0, <2>1, Db2Parts, BatchKeeps
<1>8. CASE Db2!NextBatchFails
  <2>1. /\ Running /\ pc = "input"
        /\ \E e \in Db2!InputErrors \cup {Db2!Error("write", "unknown", "requires_recovery")} : StartRollback("error", e)
    BY <1>8, Db2Parts DEF Db2!NextBatchFails, Db2!At, Db2!Running, Running
  <2>2. PICK f \in {"none", "unknown"}, r \in {"never", "safe", "requires_recovery"} : StartRollback("error", Error("write", f, r))
    BY <2>1, Db2Verdicts, Db2Errors
  <2> QED
    BY <1>0, <1>p, <2>1, <2>2, BackKeeps
<1>9. CASE Db2!NextBatchEnds
  <2>1. Running /\ pc = "input"
    BY <1>9 DEF Db2!NextBatchEnds, Db2!At, Db2!Running, Running
  <2>2. CASE Db2!StartRollback("error", Db2!Interrupted("commit"))
    <3>1. StartRollback("error", Error("commit", "none", "never"))
      BY <2>2, Db2Parts, Db2Errors
    <3> QED
      BY <1>0, <1>p, <2>1, <3>1, BackKeeps
  <2>3. CASE Db2!Await("commit", "commit")
    <3>1. Send("commit", "commit") /\ UNCHANGED <<received, cause, why, armed, link>> /\ Fits("commit", "commit")
      BY <1>0, <2>3, Db2Parts DEF Fits, Command
    <3> QED
      BY <1>0, <2>1, <3>1, AwaitKeeps
  <2> QED
    BY <1>9, <2>2, <2>3 DEF Db2!NextBatchEnds
<1>10. CASE Db2!AfterRollback
  <2>1. Running /\ pc = "rollback" /\ cause.phase \in Phase
    BY <1>0, <1>10 DEF Db2!AfterRollback, Db2!Running, Running, Answer
  <2>2. CASE reply = "ok"
    <3>1. EndAttempt(IF why = "rejected" THEN Db2!RowRejected(TRUE) ELSE Db2!RollbackAndShape(cause, TRUE), FALSE)
      BY <1>10, <2>2, Db2Parts DEF Db2!AfterRollback
    <3>2. Db2!RowRejected(TRUE) = Error("write", "rolled_back", "never")
      BY Db2Verdicts
    <3>3. PICK p \in Phase : EndAttempt(Error(p, "rolled_back", "never"), FALSE)
      BY <1>p, <1>s, <2>1, <3>1, <3>2
    <3>4. Error(p, "rolled_back", "never") \in Answer /\ Error(p, "rolled_back", "never").status = "error"
      BY <1>p, Denials
    <3> QED
      BY <1>0, <2>1, <2>2, <3>3, <3>4, ErrorKeeps
  <2>3. CASE reply # "ok"
    <3>1. EndAttempt(IF why = "rejected" THEN Db2!RowRejected(FALSE) ELSE Db2!RollbackAndShape(cause, FALSE), FALSE)
      BY <1>10, <2>3, Db2Parts DEF Db2!AfterRollback
    <3> QED
      BY <1>u, <2>1, <3>1
  <2> QED
    BY <2>2, <2>3
<1>11. CASE Db2!AfterCommit
  <2>1. Running /\ pc = "commit"
    BY <1>11 DEF Db2!AfterCommit, Db2!At, Db2!Running, Running
  <2>2. (reply = "ok" /\ EndAttempt(Committed, FALSE)) \/ EndAttempt(OutcomeUnknown, FALSE)
    BY <1>11, Db2Parts, Db2Errors DEF Db2!AfterCommit
  <2> QED
    BY <2>1, <2>2, CommittedKeeps, UnknownKeeps
<1> QED
  BY <1>1, <1>2, <1>3, <1>4, <1>5, <1>6, <1>7, <1>8, <1>9, <1>10, <1>11 DEF Db2!Next

-----------------------------------------------------------------------------
(* PostgreSQL.                                                             *)

\* What the errors of the driver are.
LEMMA PostgresClassifies ==
    ASSUME NEW p \in Phase, NEW closed \in BOOLEAN, NEW e \in Postgres!ClassifyError(p, closed)
    PROVE  \E f \in {"none", "rolled_back", "unknown"}, r \in Disposition : e = Error(p, f, r)
<1>1. \A x \in Postgres!SqlstateAxes : x[1] \in {"none", "rolled_back", "unknown"} /\ x[2] \in Disposition
  BY DEF Postgres!SqlstateAxes, Disposition
<1>2. {"quarantine", "requires_recovery"} \subseteq Disposition
  BY DEF Disposition
<1>3. \/ \E x \in Postgres!SqlstateAxes : e = Error(p, x[1], x[2])
      \/ e = Error(p, "unknown", "requires_recovery") \/ e = Error(p, "unknown", "quarantine")
      \/ e = Error(p, "none", "quarantine")
  BY PostgresErrors DEF Postgres!ClassifyError
<1> QED
  BY <1>1, <1>2, <1>3

\* What a ROLLBACK makes of its cause is an error.
LEMMA PostgresRollsBack ==
    ASSUME NEW w \in Rollback \ {"none"}, NEW evidence \in {"confirmed", "closed", "unconfirmed"}, NEW e \in Answer,
           e.status = "error"
    PROVE  \E p \in Phase, f \in Effect, r \in Disposition : Postgres!RolledBack(w, evidence, e) = Error(p, f, r)
<1>0. /\ e.phase \in Phase /\ e.retry \in Disposition /\ {"write", "rollback"} \subseteq Phase
      /\ {"none", "rolled_back", "unknown"} \subseteq Effect
      /\ {"never", "quarantine", "requires_recovery"} \subseteq Disposition
  BY DEF Answer, Phase, Effect, Disposition
<1>1. \A r \in Disposition : Severe(r) \in Disposition
  BY <1>0, Denials
<1>2. [e EXCEPT !.effect = "rolled_back"] = Error(e.phase, "rolled_back", e.retry)
  BY DEF Answer, Error
<1>3. Postgres!AfterUnconfirmedRollback(e) = Error("rollback", "unknown", Severe(e.retry))
  BY PostgresErrors
<1>4. \E r \in Disposition : Postgres!NeverCommitted(e) = Error(e.phase, "none", r)
  BY <1>0, PostgresErrors DEF Postgres!NeverCommitted
<1>5. CASE w \in {"cancellation", "resource"}
  <2>1. Postgres!InterruptedWrite(TRUE) = Error("write", "rolled_back", "never")
    BY PostgresErrors DEF Postgres!InterruptedWrite
  <2>2. \E r \in Disposition : Postgres!InterruptedWrite(FALSE) = Error("rollback", "unknown", r)
    <3>1. Error("write", "unknown", "requires_recovery").retry = "requires_recovery"
      BY DEF Error
    <3>2. Postgres!InterruptedWrite(FALSE) = Error("rollback", "unknown", Severe("requires_recovery"))
      BY <3>1, PostgresErrors DEF Postgres!InterruptedWrite
    <3> QED
      BY <1>0, <1>1, <3>2
  <2>3. \E r \in Disposition :
           [Postgres!NeverCommitted(Postgres!InterruptedWrite(FALSE)) EXCEPT !.phase = "write"] = Error("write", "none", r)
    <3>1. PICK r \in Disposition : Postgres!NeverCommitted(Postgres!InterruptedWrite(FALSE)) = Error("rollback", "none", r)
      <4>1. PICK q \in Disposition : Postgres!InterruptedWrite(FALSE) = Error("rollback", "unknown", q)
        BY <2>2
      <4>2. Error("rollback", "unknown", q).phase = "rollback" /\ Error("rollback", "unknown", q).retry = q
        BY DEF Error
      <4> QED
        BY <1>0, <4>1, <4>2, PostgresErrors DEF Postgres!NeverCommitted
    <3>2. [Error("rollback", "none", r) EXCEPT !.phase = "write"] = Error("write", "none", r)
      BY DEF Error
    <3> QED
      BY <3>1, <3>2
  <2>4. CASE evidence = "closed"
    BY <1>0, <1>5, <2>3, <2>4 DEF Postgres!RolledBack
  <2>5. CASE evidence = "confirmed"
    <3>1. Postgres!RolledBack(w, evidence, e) = Postgres!InterruptedWrite(TRUE)
      BY <1>5, <2>5 DEF Postgres!RolledBack
    <3> QED
      BY <1>0, <2>1, <3>1
  <2>6. CASE evidence = "unconfirmed"
    <3>1. Postgres!RolledBack(w, evidence, e) = Postgres!InterruptedWrite(FALSE)
      BY <1>5, <2>6 DEF Postgres!RolledBack
    <3> QED
      BY <1>0, <2>2, <3>1
  <2> QED
    BY <2>4, <2>5, <2>6
<1>6. CASE w = "aborted"
  BY <1>0, <1>2, <1>4, <1>6 DEF Postgres!RolledBack
<1>7. CASE w = "error"
  BY <1>0, <1>1, <1>2, <1>3, <1>4, <1>7 DEF Postgres!RolledBack, Postgres!AfterRollbackOf
<1>8. CASE w = "row"
  <2>1. Postgres!RolledBack(w, evidence, e) = Postgres!RowRolledBack(evidence, e)
    BY <1>8 DEF Postgres!RolledBack
  <2> QED
    BY <1>0, <2>1, PostgresErrors DEF Postgres!RowRolledBack
<1>9. CASE w = "rejected"
  <2>1. Postgres!RowRejected(TRUE) = Error("write", "rolled_back", "never")
    BY PostgresVerdicts
  <2>2. Postgres!RowRejected(FALSE) = Error("rollback", "unknown", "quarantine")
    BY PostgresVerdicts
  <2>3. Postgres!RolledBack(w, evidence, e) \in {Postgres!RowRejected(TRUE), Postgres!RowRejected(FALSE)}
    BY <1>9 DEF Postgres!RolledBack
  <2> QED
    BY <1>0, <2>1, <2>2, <2>3
<1> QED
  BY <1>5, <1>6, <1>7, <1>8, <1>9 DEF Rollback

\* Every step of an attempt on PostgreSQL.
LEMMA PostgresKeeps == ASSUME IInv, adapter = "postgres", Postgres!Next PROVE IInv'
<1>0. /\ Stages = {"discard", "begin", "path", "pin", "postgis", "evolve", "target", "key_facts", "session_rules",
                   "visibility", "register", "row_statement", "rows", "index", "restore", "commit"}
      /\ Before = {"discard", "begin"} /\ Explicit /\ ~Residue(attempt) /\ cause \in Answer /\ why \in Rollback
  BY NoResidue DEF IInv, TypeOK, WriteTypeOK, Stages, Before, Explicit, Postgres!Stage
<1>f. \A s \in Stages : Fits(s, Postgres!Sends(s))
  BY <1>0 DEF Fits, Postgres!Sends, Command
<1>p. /\ {"validate", "connect", "prepare", "write", "commit", "rollback"} \subseteq Phase
      /\ {"none", "rolled_back", "unknown"} \subseteq Effect
      /\ {"never", "quarantine", "safe", "requires_recovery"} \subseteq Disposition
      /\ {"error", "rejected", "row", "aborted", "cancellation", "resource"} \subseteq Rollback \ {"none"}
  BY DEF Phase, Effect, Disposition, Rollback
\* A ROLLBACK that is sent in the transaction.
<1>b. ASSUME Running, pc \in (Stages \cup {"input"}) \ {"discard", "begin", "commit"},
             NEW w \in Rollback \ {"none"}, NEW f \in {"none", "unknown", "rolled_back"}, NEW r \in Disposition,
             StartRollback(w, Error("write", f, r))
      PROVE  IInv'
  BY <1>0, <1>b, <1>p, BackKeeps
\* The same, for an error of the driver.
<1>c. ASSUME Running, pc \in (Stages \cup {"input"}) \ {"discard", "begin", "commit"},
             NEW w \in Rollback \ {"none"}, NEW closed \in BOOLEAN, NEW e \in Postgres!ClassifyError("write", closed),
             StartRollback(w, e)
      PROVE  IInv'
  <2>1. PICK f \in {"none", "rolled_back", "unknown"}, r \in Disposition : e = Error("write", f, r)
    BY <1>p, <1>c, PostgresClassifies
  <2> QED
    BY <1>b, <1>c, <2>1
\* An error before BEGIN is answered.
<1>e. ASSUME Running, pc \notin {"commit", "rollback"}, NEW p \in Phase, NEW closed \in BOOLEAN,
             NEW e \in Postgres!ClassifyError(p, closed), EndAttempt(e, FALSE)
      PROVE  IInv'
  <2>1. PICK f \in {"none", "rolled_back", "unknown"}, r \in Disposition : e = Error(p, f, r)
    BY <1>e, PostgresClassifies
  <2> QED
    BY <1>0, <1>e, <1>p, <2>1, FailKeeps
<1>1. CASE Postgres!RefuseEarly
  <2>1. Running /\ pc = "start"
    BY <1>1 DEF Postgres!RefuseEarly, Postgres!At, Postgres!Running, Running
  <2>2. \E p \in Phase : EndAttempt(Error(p, "none", "never"), FALSE)
    BY <1>1, <1>p, PostgresParts, PostgresErrors DEF Postgres!RefuseEarly
  <2> QED
    BY <1>0, <1>p, <2>1, <2>2, FailKeeps
<1>2. CASE Postgres!Checkout
  <2>1. PICK s \in {"discard", "begin"} : Postgres!Open(s, s)
    BY <1>2 DEF Postgres!Checkout
  <2>2. At("start") /\ Send(s, s) /\ link' = [link EXCEPT ![attempt] = "up"] /\ received' = 0
        /\ UNCHANGED <<cause, why, armed>>
    BY <1>2, <2>1, PostgresParts DEF Postgres!Checkout, Postgres!At, Postgres!Running, At, Running
  <2>3. Fits(s, s) /\ armed \in BOOLEAN
    BY <1>0 DEF Fits, Command, IInv, TypeOK, WriteTypeOK
  <2> QED
    BY <1>0, <2>2, <2>3, OpenKeeps
<1>3. CASE Postgres!CheckoutFails
  <2>1. Running /\ pc = "start" /\ \E e \in Postgres!ClassifyError("connect", TRUE) : EndAttempt(e, FALSE)
    BY <1>3, PostgresParts DEF Postgres!CheckoutFails, Postgres!At, Postgres!Running, Running
  <2> QED
    BY <1>e, <1>p, <2>1
<1>4. CASE Postgres!Advance
  <2>1. Running /\ reply = "ok" /\ pc \in Stages \ {"commit"}
    BY <1>0, <1>4 DEF Postgres!Advance, Postgres!Answered, Postgres!Awaiting, Postgres!Running, Running, Postgres!Stage
  <2>2. PICK s \in Postgres!Following(pc) : IF s = "input" THEN Postgres!ToInput ELSE Postgres!Await(s, Postgres!Sends(s))
    BY <1>4 DEF Postgres!Advance
  <2>3. /\ s = "input" \/ s \in Stages \ {"discard", "rows"}
        /\ s = "begin" => pc = "discard"
        /\ pc = "discard" => s = "begin"
    BY <1>0, <2>1, <2>2 DEF Postgres!Following, Postgres!Entry, Postgres!RowPath
  <2>4. CASE s = "input"
    BY <1>0, <2>1, <2>2, <2>3, <2>4, PostgresParts, InputKeeps
  <2>5. CASE s # "input"
    <3>1. Send(s, Postgres!Sends(s)) /\ UNCHANGED <<received, cause, why, armed, link>> /\ Fits(s, Postgres!Sends(s))
      BY <1>f, <2>2, <2>3, <2>5, PostgresParts
    <3> QED
      BY <1>0, <2>1, <2>3, <2>5, <3>1, AwaitKeeps
  <2> QED
    BY <2>4, <2>5
<1>5. CASE Postgres!RefuseLocally
  <2>1. Running /\ pc \in Stages \ {"discard", "begin", "commit"}
    BY <1>0, <1>5 DEF Postgres!RefuseLocally, Postgres!Awaiting, Postgres!Running, Running, Postgres!Stage
  <2>2. \E w \in {"row", "error", "resource"} : StartRollback(w, Error("write", "none", "never"))
    BY <1>5, PostgresParts, PostgresErrors DEF Postgres!RefuseLocally
  <2> QED
    BY <1>b, <1>p, <2>1, <2>2
<1>6. CASE Postgres!StageFails
  <2>1. Running /\ pc \in Stages \ {"commit"} /\ Postgres!Closed \in BOOLEAN
    BY <1>0, <1>6 DEF Postgres!StageFails, Postgres!Awaiting, Postgres!Running, Running, Postgres!Stage, Postgres!Closed
  <2>2. CASE \E e \in Postgres!ClassifyError(IF pc = "begin" THEN "write" ELSE "connect", Postgres!Closed) :
                Postgres!EndAttempt(e, FALSE)
    <3>1. (IF pc = "begin" THEN "write" ELSE "connect") \in Phase /\ pc \notin {"commit", "rollback"}
      BY <1>0, <1>p, <2>1
    <3> QED
      BY <1>e, <2>1, <2>2, <3>1, PostgresParts
  <2>3. CASE /\ pc \notin {"discard", "begin"}
             /\ \E e \in Postgres!ClassifyError("write", Postgres!Closed) :
                   Postgres!StartRollback(IF pc = "rows" /\ ~Postgres!Closed THEN "aborted" ELSE "error", e)
    <3>1. (IF pc = "rows" /\ ~Postgres!Closed THEN "aborted" ELSE "error") \in Rollback \ {"none"}
      BY <1>p
    <3> QED
      BY <1>c, <2>1, <2>3, <3>1, PostgresParts
  <2> QED
    BY <1>6, <2>2, <2>3 DEF Postgres!StageFails
<1>7. CASE Postgres!RowFails
  <2>1. Running /\ pc \in {"row_statement", "rows"} /\ Postgres!Closed \in BOOLEAN
    BY <1>7 DEF Postgres!RowFails, Postgres!RowStage, Postgres!Awaiting, Postgres!Stage, Postgres!Running, Running, Postgres!Closed
  <2>2. \/ \E e \in Postgres!ClassifyError("write", Postgres!Closed) : StartRollback("row", e)
        \/ StartRollback("rejected", Error("write", "none", "never"))
    BY <1>7, PostgresParts, PostgresErrors, Denials DEF Postgres!RowFails
  <2> QED
    BY <1>0, <1>b, <1>c, <1>p, <2>1, <2>2
<1>8. CASE Postgres!Interrupt
  <2>1. Running /\ pc \in Stages \ {"commit"}
    BY <1>0, <1>8 DEF Postgres!Interrupt, Postgres!Awaiting, Postgres!Running, Running, Postgres!Stage
  <2>2. \/ \E p \in Phase : EndAttempt(Error(p, "none", "never"), FALSE)
        \/ /\ pc \notin {"discard", "begin"}
           /\ \E w \in {"row", "cancellation"}, f \in {"none", "unknown"}, r \in {"never", "requires_recovery"} :
                 StartRollback(w, Error("write", f, r))
    <3>1. Postgres!DiagnosticError = Error("write", "unknown", "requires_recovery")
          /\ Postgres!NoCause = Error("write", "none", "never")
      BY PostgresErrors, Denials DEF Postgres!DiagnosticError
    <3> QED
      BY <1>8, <1>p, <3>1, PostgresParts, PostgresErrors DEF Postgres!Interrupt
  <2> QED
    BY <1>0, <1>b, <1>p, <2>1, <2>2, FailKeeps
<1>9. CASE Postgres!NextBatch
  <2>1. Running /\ pc = "input" /\ Postgres!Receive("execute")
    BY <1>9 DEF Postgres!NextBatch, Postgres!At, Postgres!Running, Running
  <2> QED
    BY <1>0, <2>1, PostgresParts, BatchKeeps
<1>10. CASE Postgres!NextBatchFails
  <2>1. Running /\ pc = "input"
    BY <1>10 DEF Postgres!NextBatchFails, Postgres!At, Postgres!Running, Running
  <2>2. \E w \in {"row", "error", "resource", "cancellation"}, f \in {"none", "unknown"},
           r \in {"never", "safe", "requires_recovery"} : StartRollback(w, Error("write", f, r))
    <3>1. Postgres!DiagnosticError = Error("write", "unknown", "requires_recovery")
          /\ Postgres!NoCause = Error("write", "none", "never")
      BY PostgresErrors, Denials DEF Postgres!DiagnosticError
    <3>2. CASE \E e \in Postgres!InputErrors \cup {Postgres!DiagnosticError} :
                  Postgres!StartRollback(IF Postgres!Diag THEN "row" ELSE "error", e)
      <4>1. PICK e \in Postgres!InputErrors \cup {Postgres!DiagnosticError} :
               Postgres!StartRollback(IF Postgres!Diag THEN "row" ELSE "error", e)
        BY <3>2
      <4>2. PICK f \in {"none", "unknown"}, r \in {"never", "safe", "requires_recovery"} : e = Error("write", f, r)
        BY <3>1, <4>1, PostgresVerdicts
      <4> QED
        BY <4>1, <4>2, PostgresParts
    <3>3. CASE Postgres!StartRollback("resource", Postgres!NoCause) \/ Postgres!StartRollback("cancellation", Postgres!NoCause)
      BY <3>1, <3>3, PostgresParts
    <3> QED
      BY <1>10, <3>2, <3>3 DEF Postgres!NextBatchFails
  <2> QED
    BY <1>0, <1>b, <1>p, <2>1, <2>2
<1>11. CASE Postgres!NextBatchEnds
  <2>1. Running /\ pc = "input"
    BY <1>11 DEF Postgres!NextBatchEnds, Postgres!At, Postgres!Running, Running
  <2>2. PICK s \in {"index", "restore", "commit"} : Postgres!Await(s, Postgres!Sends(s))
    BY <1>11 DEF Postgres!NextBatchEnds
  <2>3. Send(s, Postgres!Sends(s)) /\ UNCHANGED <<received, cause, why, armed, link>> /\ Fits(s, Postgres!Sends(s))
    BY <1>0, <1>f, <2>2, PostgresParts
  <2> QED
    BY <1>0, <2>1, <2>3, AwaitKeeps
<1>12. CASE Postgres!AfterRollback
  <2>1. Running /\ pc = "rollback" /\ cause.status = "error" /\ why # "none"
    BY <1>12 DEF Postgres!AfterRollback, Postgres!At, Postgres!Running, Running, IInv, RunOK, RollbackOK
  <2>2. PICK evidence \in {"confirmed", "closed", "unconfirmed"} : EndAttempt(Postgres!RolledBack(why, evidence, cause), FALSE)
    BY <1>12, PostgresParts DEF Postgres!AfterRollback
  <2>3. PICK p \in Phase, f \in Effect, r \in Disposition : Postgres!RolledBack(why, evidence, cause) = Error(p, f, r)
    BY <1>0, <2>1, PostgresRollsBack
  <2>4. Error(p, f, r) \in Answer /\ Error(p, f, r).status = "error"
    BY Denials
  <2> QED
    BY <1>0, <2>1, <2>2, <2>3, <2>4, ErrorKeeps
<1>13. CASE Postgres!AfterCommit
  <2>1. Running /\ pc = "commit"
    BY <1>13 DEF Postgres!AfterCommit, Postgres!At, Postgres!Running, Running
  <2>2. \/ reply = "ok" /\ EndAttempt(Committed, TRUE)
        \/ reply = "proven" /\ \E r \in Disposition : EndAttempt(Error("commit", "rolled_back", r), FALSE)
        \/ EndAttempt(OutcomeUnknown, FALSE)
        \/ \E r \in {"quarantine", "requires_recovery"} : EndAttempt(Error("commit", "unknown", r), FALSE)
    <3>1. CASE reply = "ok" /\ Postgres!EndAttempt(Postgres!Committed, TRUE)
      BY <3>1, PostgresParts, PostgresErrors
    <3>2. CASE reply = "proven" /\ \E x \in Postgres!SqlstateAxes :
                  Postgres!EndAttempt(Postgres!AfterCommitSent(Postgres!Error("commit", x[1], x[2]), TRUE), FALSE)
      <4>1. PICK x \in Postgres!SqlstateAxes :
               Postgres!EndAttempt(Postgres!AfterCommitSent(Postgres!Error("commit", x[1], x[2]), TRUE), FALSE)
        BY <3>2
      <4>2. x[2] \in Disposition
        BY <4>1 DEF Postgres!SqlstateAxes, Disposition
      <4>3. Postgres!AfterCommitSent(Postgres!Error("commit", x[1], x[2]), TRUE) = Error("commit", "rolled_back", x[2])
        BY DEF Postgres!AfterCommitSent, Postgres!Error, Error
      <4> QED
        BY <3>2, <4>1, <4>2, <4>3, PostgresParts
    <3>3. CASE Postgres!EndAttempt(IF Postgres!Diag THEN Postgres!Error("commit", "unknown", "quarantine")
                                   ELSE Postgres!OutcomeUnknown, FALSE)
      BY <3>3, PostgresParts, PostgresErrors
    <3>4. CASE Postgres!EndAttempt(Postgres!Error("commit", "unknown", IF Postgres!Diag THEN "quarantine" ELSE "requires_recovery"),
                                   FALSE)
      BY <3>4, PostgresParts, PostgresErrors
    <3> QED
      BY <1>13, <3>1, <3>2, <3>3, <3>4 DEF Postgres!AfterCommit
  <2>3. CASE reply = "proven" /\ \E r \in Disposition : EndAttempt(Error("commit", "rolled_back", r), FALSE)
    <3>1. \A r \in Disposition : Error("commit", "rolled_back", r) \in Answer /\ Error("commit", "rolled_back", r).status = "error"
      BY <1>p, Denials
    <3> QED
      BY <1>0, <2>1, <2>3, <3>1, ErrorKeeps
  <2>4. CASE \E r \in {"quarantine", "requires_recovery"} : EndAttempt(Error("commit", "unknown", r), FALSE)
    BY <1>p, <2>1, <2>4, DoubtKeeps
  <2> QED
    BY <2>1, <2>2, <2>3, <2>4, CommittedKeeps, UnknownKeeps
<1> QED
  BY <1>1, <1>2, <1>3, <1>4, <1>5, <1>6, <1>7, <1>8, <1>9, <1>10, <1>11, <1>12, <1>13 DEF Postgres!Next

-----------------------------------------------------------------------------
(* Oracle.                                                                 *)

\* An attempt that opened no session left nothing.
LEMMA StartClean == ASSUME IInv, Running, pc = "start" PROVE ~Residue(attempt)
<1>1. attempt \in Attempts /\ Fresh(attempt)
  BY DEF IInv, Running, RetryOK, Fresh, TypeOK, WriteTypeOK, RetryTypeOK
<1>2. pipe[attempt] = <<>> /\ ~table[attempt]
  BY <1>1 DEF IInv, FreshOK
<1>3. <<>> # <<"create">>
  BY Tuples DEF Command
<1> QED
  BY <1>2, <1>3 DEF Residue

\* A ROLLBACK that is sent for an error of the load.
LEMMA OracleBack ==
    ASSUME IInv, adapter = "oracle", Running, pc \in {"facts", "clear", "rows", "input"},
           reply # "none" \/ pc = "input" \/ link[attempt] = "down",
           NEW f \in {"none", "unknown", "rolled_back"}, NEW r \in Disposition, StartRollback("error", Error("write", f, r))
    PROVE  IInv'
<1>1. pc \in (Stages \cup {"input"}) \ (Before \cup {"commit", "create", "discard"})
  BY DEF Stages, Before, Oracle!Stage, Oracle!Setup, Oracle!Load
<1>2. "write" \in Phase /\ "error" \in Rollback \ {"none"}
  BY DEF Phase, Rollback
<1> QED
  BY <1>1, <1>2, BackKeeps

\* An error that is stamped with the table that a create left behind.
LEMMA OracleStamps ==
    ASSUME IInv, adapter = "oracle", Running, NEW p \in Phase, NEW f \in Effect, NEW r \in Disposition, NEW keep,
           EndAttempt(Oracle!StampCreatedTarget(Error(p, f, r)), keep),
           pc # "commit" \/ reply = "proven", keep => reply = "ok" /\ pc = "rollback"
    PROVE  IInv'
<1>1. keep => srv[attempt] = "none" /\ pipe[attempt] = <<>>
  BY CleanSession
<1>2. Severe(r) \in {"quarantine", "requires_recovery"} /\ {"quarantine", "requires_recovery"} \subseteq Disposition
      /\ {"unknown", "partial"} \subseteq Effect
  BY Denials DEF Disposition, Effect
<1>3. Error(p, f, r).status = "error" /\ Error(p, f, r).phase = p /\ Error(p, f, r).retry = r
  BY DEF Error
<1>4. CASE mode = "create"
  <2>1. PICK g \in {"unknown", "partial"} : Oracle!StampCreatedTarget(Error(p, f, r)) = Error(p, g, Severe(r))
    BY <1>3, <1>4, OracleErrors DEF Oracle!StampCreatedTarget
  <2>2. Error(p, g, Severe(r)) \in Answer /\ Error(p, g, Severe(r)).status = "error" /\ ~Denies(Error(p, g, Severe(r)))
    BY <1>2, Denials
  <2> QED
    BY <1>1, <2>1, <2>2, ErrorKeeps
<1>5. CASE mode # "create"
  <2>1. Oracle!StampCreatedTarget(Error(p, f, r)) = Error(p, f, r)
    BY <1>5 DEF Oracle!StampCreatedTarget
  <2>2. Error(p, f, r) \in Answer /\ Error(p, f, r).status = "error" /\ ~Residue(attempt)
    BY <1>5, Denials, NoResidue
  <2> QED
    BY <1>1, <2>1, <2>2, ErrorKeeps
<1> QED
  BY <1>4, <1>5

\* Every step of an attempt on Oracle.
LEMMA OracleKeeps == ASSUME IInv, adapter = "oracle", Oracle!Next PROVE IInv'
<1>0. /\ Stages = {"create", "metadata", "settle", "facts", "clear", "rows", "commit"}
      /\ Before = {} /\ ~Explicit /\ cause \in Answer /\ armed \in BOOLEAN /\ attempt \in Attempts
  BY DEF IInv, TypeOK, WriteTypeOK, RetryTypeOK, Stages, Before, Explicit, Oracle!Stage, Oracle!Setup, Oracle!Load
<1>f. /\ \A s \in {"metadata", "settle", "facts"} : Fits(s, "read")
      /\ Fits("create", "create") /\ Fits("clear", "execute") /\ Fits("commit", "commit")
  BY <1>0 DEF Fits, Command
<1>p. /\ {"validate", "connect", "prepare", "write", "commit", "rollback"} \subseteq Phase
      /\ {"none", "rolled_back", "unknown"} \subseteq Effect
      /\ {"never", "quarantine", "safe", "requires_recovery"} \subseteq Disposition
      /\ Severe("never") = "requires_recovery"
  BY DEF Phase, Effect, Disposition, Severe
\* An interrupted command.
<1>i. /\ Oracle!AfterInterruptedSend(Oracle!NewError("write")) = Error("write", "unknown", "requires_recovery")
      /\ Oracle!AfterInterruptedSend(Oracle!NewError("commit")) = Error("commit", "unknown", "requires_recovery")
      /\ \A e \in Oracle!SentCommandErrors :
            \/ reply = "error" /\ \E r \in {"never", "safe"} : e = Error("write", "none", r)
            \/ e = Error("write", "unknown", "requires_recovery")
  <2>1. /\ Oracle!AfterInterruptedSend(Oracle!NewError("write")) = Error("write", "unknown", "requires_recovery")
        /\ Oracle!AfterInterruptedSend(Oracle!NewError("commit")) = Error("commit", "unknown", "requires_recovery")
    BY <1>p DEF Oracle!AfterInterruptedSend, Oracle!NewError, Oracle!Error, Error, Oracle!Severe, Severe
  <2> QED
    BY <2>1, OracleErrors DEF Oracle!SentCommandErrors
<1>1. CASE Oracle!RefuseEarly \/ Oracle!CheckoutFails
  <2>1. Running /\ pc = "start"
    BY <1>1 DEF Oracle!RefuseEarly, Oracle!CheckoutFails, Oracle!At, Oracle!Running, Running
  <2>2. \E p \in Phase, r \in Disposition : EndAttempt(Error(p, "none", r), FALSE)
    BY <1>1, <1>p, OracleParts, OracleErrors DEF Oracle!RefuseEarly, Oracle!CheckoutFails
  <2> QED
    BY <1>p, <2>1, <2>2, StartClean, FailKeeps
<1>2. CASE Oracle!Checkout
  <2>1. At("start")
    BY <1>2 DEF Oracle!Checkout, Oracle!At, Oracle!Running, At, Running
  <2>2. CASE Oracle!Open("facts", "read")
    <3>1. Send("facts", "read") /\ link' = [link EXCEPT ![attempt] = "up"] /\ received' = 0
          /\ UNCHANGED <<cause, why, armed>>
      BY <2>2, OracleParts
    <3> QED
      BY <1>0, <1>f, <2>1, <3>1, OpenKeeps
  <2>3. CASE /\ mode = "create" /\ armed' = TRUE /\ link' = [link EXCEPT ![attempt] = "up"] /\ received' = 0
             /\ Oracle!Send("create", "create") /\ UNCHANGED <<cause, why>>
    <3>1. Send("create", "create")
      BY <2>3, OracleParts
    <3> QED
      BY <1>0, <1>f, <2>1, <2>3, <3>1, OpenKeeps
  <2> QED
    BY <1>2, <2>2, <2>3 DEF Oracle!Checkout
<1>3. CASE Oracle!SetupAdvances
  <2>1. Running /\ reply = "ok" /\ pc \in {"create", "metadata", "settle"}
    BY <1>3 DEF Oracle!SetupAdvances, Oracle!Answered, Oracle!Running, Running, Oracle!Setup
  <2>2. \/ \E s \in {"metadata", "settle", "facts"} : Oracle!Await(s, "read")
        \/ \E r \in {"never", "safe"} : EndAttempt(Oracle!StampCreatedTarget(Oracle!Error("connect", "none", r)), FALSE)
    BY <1>3, OracleParts DEF Oracle!SetupAdvances
  <2>3. ASSUME NEW s \in {"metadata", "settle", "facts"}, Oracle!Await(s, "read")
        PROVE  IInv'
    <3>1. Send(s, "read") /\ UNCHANGED <<received, cause, why, armed, link>>
      BY <2>3, OracleParts
    <3> QED
      BY <1>0, <1>f, <2>1, <3>1, AwaitKeeps
  <2>4. ASSUME NEW r \in {"never", "safe"}, EndAttempt(Oracle!StampCreatedTarget(Oracle!Error("connect", "none", r)), FALSE)
        PROVE  IInv'
    <3>1. EndAttempt(Oracle!StampCreatedTarget(Error("connect", "none", r)), FALSE)
      BY <2>4, OracleErrors
    <3> QED
      BY <1>p, <2>1, <3>1, OracleStamps
  <2> QED
    BY <2>2, <2>3, <2>4
<1>4. CASE Oracle!SetupFails
  <2>1. Running /\ pc \in {"create", "metadata", "settle"}
    BY <1>4 DEF Oracle!SetupFails, Oracle!Refused, Oracle!Running, Running, Oracle!Setup
  <2>2. CASE pc = "create" /\ \E e \in Oracle!SentCommandErrors : Oracle!EndAttempt(e, FALSE)
    <3>1. PICK e \in Oracle!SentCommandErrors : EndAttempt(e, FALSE)
      BY <2>2, OracleParts
    <3>2. CASE e = Error("write", "unknown", "requires_recovery")
      BY <1>p, <2>1, <3>1, <3>2, DoubtKeeps
    <3>3. CASE reply = "error" /\ \E r \in {"never", "safe"} : e = Error("write", "none", r)
      <4>1. ~Residue(attempt)
        <5>1. WireOK /\ TableOK
          BY <2>1, <2>2 DEF IInv, RunOK, Running
        <5>2. pipe[attempt] = <<>> /\ ~table[attempt]
          BY <2>2, <3>3, <5>1 DEF WireOK, TableOK
        <5>3. <<>> # <<"create">>
          BY Tuples DEF Command
        <5> QED
          BY <5>2, <5>3 DEF Residue
      <4> QED
        BY <1>p, <2>1, <3>1, <3>3, <4>1, FailKeeps
    <3> QED
      BY <1>i, <3>1, <3>2, <3>3
  <2>3. CASE pc = "metadata" /\ \E e \in Oracle!SentCommandErrors : Oracle!EndAttempt(Oracle!StampCreatedTarget(e), FALSE)
    <3>1. PICK e \in Oracle!SentCommandErrors : EndAttempt(Oracle!StampCreatedTarget(e), FALSE)
      BY <2>3, OracleParts
    <3>2. PICK f \in {"none", "unknown"}, r \in {"never", "safe", "requires_recovery"} : e = Error("write", f, r)
      BY <1>i
    <3> QED
      BY <1>p, <2>1, <3>1, <3>2, OracleStamps
  <2>4. CASE pc = "settle" /\ \E e \in Oracle!SetupCommitErrors : Oracle!EndAttempt(Oracle!StampCreatedTarget(e), FALSE)
    <3>1. PICK e \in Oracle!SetupCommitErrors : EndAttempt(Oracle!StampCreatedTarget(e), FALSE)
      BY <2>4, OracleParts
    <3>2. PICK f \in {"rolled_back", "unknown"}, r \in {"never", "requires_recovery"} : e = Error("commit", f, r)
      <4>1. PICK proven \in BOOLEAN : e = Oracle!AfterCommitSent(Oracle!NewError("commit"), proven)
        BY DEF Oracle!SetupCommitErrors
      <4> QED
        BY <4>1 DEF Oracle!AfterCommitSent, Oracle!NewError, Oracle!Error, Error, Oracle!Severe
    <3> QED
      BY <1>p, <2>1, <3>1, <3>2, OracleStamps
  <2> QED
    BY <1>4, <2>2, <2>3, <2>4 DEF Oracle!SetupFails
<1>5. CASE Oracle!LoadAdvances
  <2>1. Running /\ reply = "ok" /\ pc \in {"facts", "clear", "rows"}
    BY <1>5 DEF Oracle!LoadAdvances, Oracle!Answered, Oracle!Running, Running, Oracle!Load
  <2>2. CASE Oracle!ToInput
    BY <1>0, <2>1, <2>2, OracleParts, InputKeeps
  <2>3. CASE Oracle!Await("clear", "execute")
    <3>1. Send("clear", "execute") /\ UNCHANGED <<received, cause, why, armed, link>>
      BY <2>3, OracleParts
    <3> QED
      BY <1>0, <1>f, <2>1, <3>1, AwaitKeeps
  <2> QED
    BY <1>5, <2>2, <2>3 DEF Oracle!LoadAdvances
<1>6. CASE Oracle!LoadFails
  <2>1. Running /\ pc \in {"facts", "clear", "rows"} /\ (reply # "none" \/ link[attempt] = "down")
    BY <1>6 DEF Oracle!LoadFails, Oracle!Refused, Oracle!Closed, Oracle!Running, Running, Oracle!Load
  <2>2. PICK e \in Oracle!ProtectedErrors \cup Oracle!SentCommandErrors : StartRollback("error", e)
    BY <1>6, OracleParts DEF Oracle!LoadFails
  <2>3. PICK f \in {"none", "unknown", "rolled_back"}, r \in {"never", "safe", "requires_recovery"} : e = Error("write", f, r)
    <3>1. CASE e \in Oracle!ProtectedErrors
      BY <3>1, OracleErrors DEF Oracle!ProtectedErrors
    <3>2. CASE e \in Oracle!SentCommandErrors
      BY <1>i, <3>2
    <3> QED
      BY <3>1, <3>2
  <2> QED
    BY <1>p, <2>1, <2>2, <2>3, OracleBack
<1>7. CASE Oracle!RefuseLocally
  <2>1. Running /\ reply = "ok" /\ pc \in {"facts", "clear", "rows"}
    BY <1>7 DEF Oracle!RefuseLocally, Oracle!Answered, Oracle!Running, Running, Oracle!Load
  <2>2. StartRollback("error", Error("write", "none", "never"))
    BY <1>7, OracleParts, OracleErrors DEF Oracle!RefuseLocally
  <2> QED
    BY <1>p, <2>1, <2>2, OracleBack
<1>8. CASE Oracle!Interrupt
  <2>1. Running
    BY <1>8 DEF Oracle!Interrupt, Oracle!Running, Running
  <2>2. CASE pc = "create" /\ Oracle!EndAttempt(Oracle!AfterInterruptedSend(Oracle!NewError("write")), FALSE)
    <3>1. EndAttempt(Error("write", "unknown", "requires_recovery"), FALSE)
      BY <1>i, <2>2, OracleParts
    <3> QED
      BY <1>p, <2>1, <3>1, DoubtKeeps
  <2>3. CASE /\ pc \in {"metadata", "settle"}
             /\ Oracle!EndAttempt(Oracle!StampCreatedTarget(Oracle!AfterInterruptedSend(
                   Oracle!NewError(IF pc = "settle" THEN "commit" ELSE "write"))), FALSE)
    <3>1. \E p \in {"write", "commit"} : EndAttempt(Oracle!StampCreatedTarget(Error(p, "unknown", "requires_recovery")), FALSE)
      <4>1. CASE pc = "settle"
        <5>1. EndAttempt(Oracle!StampCreatedTarget(Oracle!AfterInterruptedSend(Oracle!NewError("commit"))), FALSE)
          BY <2>3, <4>1, OracleParts
        <5> QED
          BY <1>i, <5>1
      <4>2. CASE pc # "settle"
        <5>1. EndAttempt(Oracle!StampCreatedTarget(Oracle!AfterInterruptedSend(Oracle!NewError("write"))), FALSE)
          BY <2>3, <4>2, OracleParts
        <5> QED
          BY <1>i, <5>1
      <4> QED
        BY <4>1, <4>2
    <3> QED
      BY <1>p, <2>1, <2>3, <3>1, OracleStamps
  <2>4. CASE /\ pc \in Oracle!Load
             /\ Oracle!EndAttempt(Oracle!StampCreatedTarget(Oracle!RollbackAndShape(Oracle!NewError("write"), FALSE)), FALSE)
    <3>1. Oracle!RollbackAndShape(Oracle!NewError("write"), FALSE) = Error("rollback", "unknown", "requires_recovery")
      BY <1>p DEF Oracle!RollbackAndShape, Oracle!AfterUnconfirmedRollback, Oracle!NewError, Oracle!Error, Error,
         Oracle!Severe, Severe
    <3>2. EndAttempt(Oracle!StampCreatedTarget(Error("rollback", "unknown", "requires_recovery")), FALSE) /\ pc # "commit"
      BY <2>4, <3>1, OracleParts DEF Oracle!Load
    <3> QED
      BY <1>p, <2>1, <3>2, OracleStamps
  <2> QED
    BY <1>8, <2>2, <2>3, <2>4 DEF Oracle!Interrupt
<1>9. CASE Oracle!NextBatch
  <2>1. Running /\ pc = "input" /\ Oracle!Receive("execute")
    BY <1>9 DEF Oracle!NextBatch, Oracle!At, Oracle!Running, Running
  <2> QED
    BY <1>0, <2>1, OracleParts, BatchKeeps
<1>10. CASE Oracle!NextBatchFails
  <2>1. Running /\ pc = "input" /\ \E e \in Oracle!InputErrors : StartRollback("error", e)
    BY <1>10, OracleParts DEF Oracle!NextBatchFails, Oracle!At, Oracle!Running, Running
  <2>2. PICK f \in {"none", "unknown"}, r \in {"never", "safe"} : StartRollback("error", Error("write", f, r))
    BY <2>1, OracleVerdicts
  <2> QED
    BY <1>p, <2>1, <2>2, OracleBack
<1>11. CASE Oracle!NextBatchEnds
  <2>1. Running /\ pc = "input" /\ Send("commit", "commit") /\ UNCHANGED <<received, cause, why, armed, link>>
    BY <1>11, OracleParts DEF Oracle!NextBatchEnds, Oracle!At, Oracle!Running, Running
  <2> QED
    BY <1>0, <1>f, <2>1, AwaitKeeps
<1>12. CASE Oracle!AfterRollback
  <2>1. Running /\ pc = "rollback" /\ cause.phase \in Phase /\ cause.retry \in Disposition
    BY <1>0, <1>12 DEF Oracle!AfterRollback, Oracle!Running, Running, Answer
  <2>2. CASE reply = "ok"
    <3>1. EndAttempt(Oracle!StampCreatedTarget(Oracle!RollbackAndShape(cause, TRUE)), TRUE)
      BY <1>12, <2>2, OracleParts DEF Oracle!AfterRollback
    <3>2. PICK f \in {"partial", "rolled_back"}, r \in {"requires_recovery", "never"} :
             Oracle!RollbackAndShape(cause, TRUE) = Error(cause.phase, f, r)
      BY OracleErrors DEF Oracle!RollbackAndShape
    <3>3. f \in Effect
      BY DEF Effect
    <3> QED
      BY <1>p, <2>1, <2>2, <3>1, <3>2, <3>3, OracleStamps
  <2>3. CASE reply # "ok"
    <3>1. EndAttempt(Oracle!StampCreatedTarget(Oracle!RollbackAndShape(cause, FALSE)), FALSE)
      BY <1>12, <2>3, OracleParts DEF Oracle!AfterRollback
    <3>2. Oracle!RollbackAndShape(cause, FALSE) = Error("rollback", "unknown", Severe(cause.retry))
      BY OracleErrors DEF Oracle!RollbackAndShape
    <3>3. Severe(cause.retry) \in Disposition
      BY <1>p, <2>1, Denials
    <3> QED
      BY <1>p, <2>1, <3>1, <3>2, <3>3, OracleStamps
  <2> QED
    BY <2>2, <2>3
<1>13. CASE Oracle!AfterCommit
  <2>1. Running /\ pc = "commit"
    BY <1>13 DEF Oracle!AfterCommit, Oracle!At, Oracle!Running, Running
  <2>2. \/ reply = "ok" /\ EndAttempt(Committed, TRUE)
        \/ reply = "proven" /\ EndAttempt(Oracle!StampCreatedTarget(Error("commit", "rolled_back", "never")), FALSE)
        \/ EndAttempt(OutcomeUnknown, FALSE)
    <3>1. /\ Oracle!AfterCommitSent(Oracle!NewError("commit"), TRUE) = Error("commit", "rolled_back", "never")
          /\ Oracle!Committed = Committed /\ Oracle!OutcomeUnknown = OutcomeUnknown
      <4>1. Oracle!AfterCommitSent(Oracle!NewError("commit"), TRUE) = Error("commit", "rolled_back", "never")
        BY DEF Oracle!AfterCommitSent, Oracle!NewError, Oracle!Error, Error
      <4>2. Oracle!Committed = Committed /\ Oracle!OutcomeUnknown = OutcomeUnknown
        BY OracleErrors
      <4> QED
        BY <4>1, <4>2
    <3> QED
      BY <1>13, <3>1, OracleParts DEF Oracle!AfterCommit
  <2>3. CASE reply = "proven" /\ EndAttempt(Oracle!StampCreatedTarget(Error("commit", "rolled_back", "never")), FALSE)
    BY <1>p, <2>1, <2>3, OracleStamps
  <2> QED
    BY <2>1, <2>2, <2>3, CommittedKeeps, UnknownKeeps
<1> QED
  BY <1>1, <1>2, <1>3, <1>4, <1>5, <1>6, <1>7, <1>8, <1>9, <1>10, <1>11, <1>12, <1>13 DEF Oracle!Next

-----------------------------------------------------------------------------
(* MySQL and MariaDB.                                                      *)

\* An error that is stamped with the table that a create left behind.
LEMMA MysqlStamps ==
    ASSUME IInv, adapter = "mysql", Running, NEW p \in Phase, NEW f \in Effect \ {"committed"}, NEW r \in Disposition,
           NEW keep, EndAttempt(Mysql!StampDdlResidue(Error(p, f, r)), keep),
           \/ pc \notin {"commit", "rollback"}
           \/ pc = "rollback" /\ (reply = "ok" \/ work[attempt] = "discarded")
           \/ pc = "commit" /\ reply = "proven"
           \/ f = "unknown" /\ r \notin {"safe", "after"},
           keep /\ link[attempt] = "up" => srv[attempt] = "none" /\ pipe[attempt] = <<>>
    PROVE  IInv'
<1>1. Severe(r) \in {"quarantine", "requires_recovery"} /\ {"quarantine", "requires_recovery"} \subseteq Disposition
      /\ {"unknown", "partial"} \subseteq Effect
  BY Denials DEF Disposition, Effect
<1>2. Error(p, f, r).status = "error" /\ Error(p, f, r).phase = p /\ Error(p, f, r).effect = f /\ Error(p, f, r).retry = r
  BY DEF Error
<1>3. CASE mode = "create"
  <2>1. PICK g \in {"unknown", "partial"} : Mysql!StampDdlResidue(Error(p, f, r)) = Error(p, g, Severe(r))
    <3>1. f \in {"none", "rolled_back"} \/ f \in {"unknown", "partial"}
      BY DEF Effect
    <3> QED
      BY <1>2, <1>3, <3>1, MysqlErrors DEF Mysql!StampDdlResidue
  <2>2. Error(p, g, Severe(r)) \in Answer /\ Error(p, g, Severe(r)).status = "error" /\ ~Denies(Error(p, g, Severe(r)))
    BY <1>1, Denials
  <2> QED
    BY <2>1, <2>2, ErrorKeeps
<1>4. CASE mode # "create"
  <2>1. Mysql!StampDdlResidue(Error(p, f, r)) = Error(p, f, r)
    BY <1>4 DEF Mysql!StampDdlResidue
  <2>2. /\ Error(p, f, r) \in Answer /\ ~Residue(attempt)
        /\ Denies(Error(p, f, r)) => f \in {"none", "rolled_back"} \/ r \in {"safe", "after"}
    BY <1>4, Denials, NoResidue
  <2> QED
    BY <1>2, <2>1, <2>2, ErrorKeeps
<1> QED
  BY <1>3, <1>4

\* A session whose transaction has not begun.
LEMMA MysqlBefore ==
    ASSUME IInv, Running, pc \in Before, pc # "start", reply # "none" \/ link[attempt] = "down", pc # "begin" \/ reply # "ok"
    PROVE  link[attempt] = "up" => srv[attempt] = "none" /\ pipe[attempt] = <<>>
<1>1. WireOK /\ BeforeOK
  BY DEF IInv, RunOK, Running
<1> QED
  BY <1>1 DEF WireOK, BeforeOK, Refusal

\* Before CREATE there is no table of this attempt, nor after a refusal.
LEMMA MysqlClean ==
    ASSUME IInv, Running, pc = "precheck" \/ (pc = "create" /\ reply \notin {"none", "ok", "warned"})
    PROVE  ~Residue(attempt)
<1>1. WireOK /\ TableOK
  BY DEF IInv, RunOK, Running
<1>2. ~table[attempt]
  BY <1>1 DEF TableOK
<1>3. pipe[attempt] # <<"create">>
  <2>1. <<>> # <<"create">> /\ \A c \in Command : <<c>> = <<"create">> => c = "create"
    BY Tuples DEF Command
  <2>2. CASE pc = "precheck"
    <3>1. pipe[attempt] # <<>> => \E c \in Command : pipe[attempt] = <<c>> /\ Fits(pc, c)
      BY <1>1, <2>2 DEF WireOK
    <3>2. \A c \in Command : Fits(pc, c) => c # "create"
      BY <2>2 DEF Fits
    <3> QED
      BY <2>1, <3>1, <3>2
  <2>3. CASE pc = "create" /\ reply \notin {"none", "ok", "warned"}
    BY <1>1, <2>1, <2>3 DEF WireOK
  <2> QED
    BY <2>2, <2>3
<1> QED
  BY <1>2, <1>3 DEF Residue

\* The errors of the driver, and those of an interruption.
LEMMA MysqlSent ==
    ASSUME NEW p \in {"prepare", "write", "commit"}
    PROVE  /\ \A e \in Mysql!DriverErrors(p) :
                 \/ reply = "undone" /\ e = Error(p, "rolled_back", "safe")
                 \/ \E r \in {"requires_recovery", "never"} : e = Error(p, "unknown", r)
                 \/ reply \notin {"undone", "warned"} /\ e = Error(p, "none", "never") /\ (p = "prepare" \/ ~Closed)
           /\ \A e \in Mysql!SentAndInterrupted(p) :
                 \/ p = "prepare" /\ \E f \in {"none", "unknown"} : e = Error(p, f, "never")
                 \/ p # "prepare" /\ e = Error(p, "unknown", "requires_recovery")
<1>1. Mysql!Closed <=> Closed
  BY DEF Mysql!Closed, Closed
<1>2. \A e \in Mysql!DriverErrors(p) :
         \/ reply = "undone" /\ e = Error(p, "rolled_back", "safe")
         \/ \E r \in {"requires_recovery", "never"} : e = Error(p, "unknown", r)
         \/ reply \notin {"undone", "warned"} /\ e = Error(p, "none", "never") /\ (p = "prepare" \/ ~Closed)
  <2> SUFFICES ASSUME NEW e \in Mysql!DriverErrors(p)
               PROVE  \/ reply = "undone" /\ e = Error(p, "rolled_back", "safe")
                      \/ \E r \in {"requires_recovery", "never"} : e = Error(p, "unknown", r)
                      \/ reply \notin {"undone", "warned"} /\ e = Error(p, "none", "never") /\ (p = "prepare" \/ ~Closed)
    OBVIOUS
  <2>1. Mysql!NewError(p) = Error(p, "none", "never") /\ \A f, r : Mysql!Error(p, f, r) = Error(p, f, r)
    BY MysqlErrors
  <2>2. CASE reply = "undone"
    <3>1. e = Mysql!Error(p, "rolled_back", "safe")
      BY <1>1, <2>1, <2>2 DEF Mysql!DriverErrors, Closed
    <3> QED
      BY <2>1, <2>2, <3>1
  <2>3. CASE reply = "warned"
    <3>1. \E r \in {"requires_recovery", "never"} : e = Mysql!Error(p, "unknown", r)
      BY <1>1, <2>1, <2>3 DEF Mysql!DriverErrors, Closed
    <3> QED
      BY <2>1, <3>1
  <2>4. CASE reply \notin {"undone", "warned"} /\ Closed
    <3>1. e = IF p = "prepare" THEN Error(p, "none", "never") ELSE Error(p, "unknown", "requires_recovery")
      BY <1>1, <2>1, <2>4 DEF Mysql!DriverErrors
    <3> QED
      BY <2>4, <3>1
  <2>5. CASE reply \notin {"undone", "warned"} /\ ~Closed
    <3>1. e = Error(p, "none", "never")
      BY <1>1, <2>1, <2>5 DEF Mysql!DriverErrors
    <3> QED
      BY <2>5, <3>1
  <2> QED
    BY <2>2, <2>3, <2>4, <2>5
<1>3. Severe("never") = "requires_recovery"
  BY DEF Severe
<1>4. ASSUME NEW f \in {"none", "unknown"}
      PROVE  /\ p = "prepare" => Mysql!AfterInterruptedSend(Mysql!Error(p, f, "never")) = Error(p, f, "never")
             /\ p # "prepare" => Mysql!AfterInterruptedSend(Mysql!Error(p, f, "never")) = Error(p, "unknown", "requires_recovery")
  BY <1>3 DEF Mysql!AfterInterruptedSend, Mysql!Error, Error, Mysql!Severe
<1>5. ASSUME NEW e \in Mysql!SentAndInterrupted(p)
      PROVE  \/ p = "prepare" /\ \E f \in {"none", "unknown"} : e = Error(p, f, "never")
             \/ p # "prepare" /\ e = Error(p, "unknown", "requires_recovery")
  BY <1>4, <1>5 DEF Mysql!SentAndInterrupted
<1> QED
  BY <1>2, <1>5

\* Every step of an attempt on MySQL.
LEMMA MysqlKeeps == ASSUME IInv, adapter = "mysql", Mysql!Next PROVE IInv'
<1>0. /\ Stages = {"precheck", "create", "profile", "facts", "staging", "begin", "clear", "rows", "update", "verify", "commit"}
      /\ Before = {"precheck", "create", "profile", "facts", "staging", "begin"} /\ Explicit
      /\ Mysql!Setup = Before /\ Mysql!Load = {"clear", "rows", "update"}
      /\ cause \in Answer /\ armed \in BOOLEAN /\ attempt \in Attempts /\ received \in 0 .. MaxBatches
  BY DEF IInv, TypeOK, WriteTypeOK, RetryTypeOK, Stages, Before, Explicit, Mysql!Stage, Mysql!Setup, Mysql!Load
<1>f. /\ \A s \in {"precheck", "profile", "facts", "staging", "verify"} : Fits(s, "read")
      /\ Fits("create", "create") /\ Fits("begin", "begin") /\ Fits("clear", "execute") /\ Fits("update", "execute")
      /\ Fits("commit", "commit")
  BY <1>0 DEF Fits, Command
<1>s. \A s \in Stages : Fits(s, Mysql!Sends(s)) \/ s = "rows"
  BY <1>0, <1>f DEF Mysql!Sends, Mysql!Load
<1>p. /\ {"validate", "connect", "prepare", "write", "commit", "rollback"} \subseteq Phase
      /\ {"none", "rolled_back", "unknown", "committed"} \subseteq Effect
      /\ {"never", "quarantine", "safe", "requires_recovery"} \subseteq Disposition
      /\ {"error", "rejected"} \subseteq Rollback \ {"none"}
      /\ Severe("never") = "requires_recovery"
  BY DEF Phase, Effect, Disposition, Severe, Rollback
<1>1. CASE Mysql!RefuseEarly \/ Mysql!CheckoutFails
  <2>1. Running /\ pc = "start"
    BY <1>1 DEF Mysql!RefuseEarly, Mysql!CheckoutFails, Mysql!At, Mysql!Running, Running
  <2>2. \E p \in Phase : EndAttempt(Error(p, "none", "never"), FALSE)
    BY <1>1, <1>p, MysqlParts, MysqlErrors DEF Mysql!RefuseEarly, Mysql!CheckoutFails
  <2> QED
    BY <1>p, <2>1, <2>2, StartClean, FailKeeps
<1>2. CASE Mysql!Checkout
  <2>1. At("start")
    BY <1>2 DEF Mysql!Checkout, Mysql!At, Mysql!Running, At, Running
  <2>2. CASE mode = "create" /\ Mysql!Open("precheck", "read")
    <3>1. Send("precheck", "read") /\ link' = [link EXCEPT ![attempt] = "up"] /\ received' = 0
          /\ UNCHANGED <<cause, why, armed>>
      BY <2>2, MysqlParts
    <3> QED
      BY <1>0, <1>f, <2>1, <2>2, <3>1, OpenKeeps
  <2>3. CASE Mysql!Open("profile", "read")
    <3>1. Send("profile", "read") /\ link' = [link EXCEPT ![attempt] = "up"] /\ received' = 0
          /\ UNCHANGED <<cause, why, armed>>
      BY <2>3, MysqlParts
    <3> QED
      BY <1>0, <1>f, <2>1, <3>1, OpenKeeps
  <2> QED
    BY <1>2, <2>2, <2>3 DEF Mysql!Checkout
<1>3. CASE Mysql!Precheck
  <2>1. Running /\ pc = "precheck" /\ reply = "ok"
    BY <1>3 DEF Mysql!Precheck, Mysql!Answered, Mysql!Running, Running
  <2>2. CASE EndAttempt(Error("prepare", "none", "never"), TRUE)
    <3>1. Error("prepare", "none", "never") \in Answer /\ Error("prepare", "none", "never").status = "error"
      BY <1>p, Denials
    <3>2. ~Residue(attempt) /\ (link[attempt] = "up" => srv[attempt] = "none" /\ pipe[attempt] = <<>>)
      BY <1>0, <2>1, MysqlClean, MysqlBefore
    <3> QED
      BY <2>1, <2>2, <3>1, <3>2, ErrorKeeps
  <2>3. CASE armed' = TRUE /\ Send("create", "create") /\ UNCHANGED <<received, cause, why, link>>
    <3>1. mode = "create" /\ ~table[attempt]
      BY <2>1 DEF IInv, RunOK, TableOK, Running
    <3> QED
      BY <1>0, <1>f, <2>1, <2>3, <3>1, SendKeeps
  <2> QED
    BY <1>3, <2>2, <2>3, MysqlParts, MysqlErrors DEF Mysql!Precheck
<1>4. CASE Mysql!Advance
  <2>1. Running /\ reply = "ok" /\ pc \in Stages \ {"precheck", "commit"}
    BY <1>0, <1>4 DEF Mysql!Advance, Mysql!Answered, Mysql!Running, Running
  <2>2. PICK s \in Mysql!Following(pc) : IF s = "input" THEN Mysql!ToInput ELSE Mysql!Await(s, Mysql!Sends(s))
    BY <1>4 DEF Mysql!Advance
  <2>3. CASE s = "input"
    <3>1. pc \notin Before \/ pc = "begin"
      BY <1>0, <2>1, <2>3 DEF Mysql!Following
    <3>2. ToInput
      BY <2>2, <2>3, MysqlParts
    <3> QED
      BY <2>1, <3>1, <3>2, InputKeeps
  <2>4. CASE s # "input"
    <3>1. \/ s \in {"profile", "facts", "staging", "begin"} /\ pc \in Before \ {"begin"}
          \/ s \in {"clear", "verify", "commit"} /\ (pc = "begin" \/ pc \notin Before)
      BY <1>0, <2>1, <2>4 DEF Mysql!Following
    <3>2. Send(s, Mysql!Sends(s)) /\ UNCHANGED <<received, cause, why, armed, link>>
      BY <2>2, <2>4, MysqlParts
    <3>3. Fits(s, Mysql!Sends(s))
      BY <1>0, <1>s, <3>1
    <3> QED
      BY <1>0, <2>1, <3>1, <3>2, <3>3, AwaitKeeps
  <2> QED
    BY <2>3, <2>4
<1>5. CASE Mysql!RefuseLocally
  <2>1. Running /\ reply = "ok"
    BY <1>5 DEF Mysql!RefuseLocally, Mysql!Answered, Mysql!Running, Running
  <2>2. CASE pc \in {"profile", "facts", "staging"} /\ Mysql!EndAttempt(Mysql!StampDdlResidue(Mysql!NewError("prepare")), pc # "profile")
    <3>1. EndAttempt(Mysql!StampDdlResidue(Error("prepare", "none", "never")), pc # "profile")
      BY <2>2, MysqlParts, MysqlErrors
    <3>2. link[attempt] = "up" => srv[attempt] = "none" /\ pipe[attempt] = <<>>
      BY <1>0, <2>1, <2>2, MysqlBefore
    <3> QED
      BY <1>p, <2>1, <2>2, <3>1, <3>2, MysqlStamps
  <2>3. CASE pc \in Mysql!Load /\ Mysql!StartRollback("error", Mysql!NewError("write"))
    <3>1. StartRollback("error", Error("write", "none", "never"))
      BY <2>3, MysqlParts, MysqlErrors
    <3> QED
      BY <1>0, <1>p, <2>1, <2>3, <3>1, BackKeeps
  <2> QED
    BY <1>5, <2>2, <2>3 DEF Mysql!RefuseLocally
<1>6. CASE Mysql!SetupFails
  <2>1. Running /\ pc \in Before /\ reply # "ok" /\ (reply # "none" \/ link[attempt] = "down")
    BY <1>0, <1>6 DEF Mysql!SetupFails, Mysql!Refused, Mysql!Closed, Mysql!Running, Running
  <2>2. PICK e \in Mysql!DriverErrors(Mysql!PhaseOf(pc)) :
           EndAttempt(IF pc \in {"precheck", "create"} /\ reply # "warned" THEN e ELSE Mysql!StampDdlResidue(e), pc # "profile")
    BY <1>6, MysqlParts DEF Mysql!SetupFails
  <2>3. pc \notin {"start", "commit", "rollback"} /\ (link[attempt] = "up" => srv[attempt] = "none" /\ pipe[attempt] = <<>>)
    BY <1>0, <2>1, MysqlBefore
  <2>4. PICK p \in {"prepare", "write"} : p = Mysql!PhaseOf(pc) /\ (p = "prepare" => pc # "create")
    BY <1>0, <2>1 DEF Mysql!PhaseOf
  <2>5. PICK f \in {"none", "unknown", "rolled_back"}, r \in {"never", "safe", "requires_recovery"} :
           /\ e = Error(p, f, r) /\ (f = "unknown" => r # "safe")
           /\ f # "unknown" => reply = "undone" \/ (reply \notin {"undone", "warned"} /\ (p = "prepare" \/ ~Closed))
    BY <2>4, MysqlSent
  <2>6. CASE pc \in {"precheck", "create"} /\ reply # "warned"
    <3>1. EndAttempt(Error(p, f, r), pc # "profile")
      BY <2>2, <2>5, <2>6
    <3>2. /\ Error(p, f, r) \in Answer /\ Error(p, f, r).status = "error"
          /\ Denies(Error(p, f, r)) => f \in {"none", "rolled_back"} \/ r \in {"safe", "after"}
      BY <1>p, Denials
    <3>3. ASSUME f # "unknown" PROVE ~Residue(attempt)
      <4>1. pc = "precheck" \/ (pc = "create" /\ reply \notin {"none", "ok", "warned"})
        BY <2>1, <2>4, <2>5, <2>6, <3>3 DEF Closed
      <4> QED
        BY <2>1, <4>1, MysqlClean
    <3>4. Denies(Error(p, f, r)) => ~Residue(attempt)
      BY <2>5, <3>2, <3>3
    <3> QED
      BY <2>1, <2>3, <3>1, <3>2, <3>4, ErrorKeeps
  <2>7. CASE ~(pc \in {"precheck", "create"} /\ reply # "warned")
    <3>1. EndAttempt(Mysql!StampDdlResidue(Error(p, f, r)), pc # "profile")
      BY <2>2, <2>5, <2>7
    <3>2. p \in Phase /\ f \in Effect \ {"committed"} /\ r \in Disposition
      BY <1>p
    <3> QED
      BY <2>1, <2>3, <3>1, <3>2, MysqlStamps
  <2> QED
    BY <2>6, <2>7
<1>7. CASE Mysql!LoadFails
  <2>1. Running /\ pc \in {"clear", "rows", "update"} /\ (reply # "none" \/ link[attempt] = "down")
    BY <1>0, <1>7 DEF Mysql!LoadFails, Mysql!Refused, Mysql!Closed, Mysql!Running, Running
  <2>2. PICK e \in Mysql!DriverErrors("write") : StartRollback("error", e)
    BY <1>7, MysqlParts DEF Mysql!LoadFails
  <2>3. PICK f \in {"none", "unknown", "rolled_back"}, r \in {"never", "safe", "requires_recovery"} :
           e = Error("write", f, r) /\ (f = "rolled_back" => reply = "undone")
    <3>1. \/ reply = "undone" /\ e = Error("write", "rolled_back", "safe")
          \/ \E r \in {"requires_recovery", "never"} : e = Error("write", "unknown", r)
          \/ e = Error("write", "none", "never")
      BY MysqlSent
    <3> QED
      BY <3>1
  <2> QED
    BY <1>0, <1>p, <2>1, <2>2, <2>3, BackKeeps
<1>8. CASE Mysql!RowFails
  <2>1. Running /\ pc = "rows"
    BY <1>8 DEF Mysql!RowFails, Mysql!At, Mysql!Running, Running
  <2>2. CASE reply = "error" /\ Mysql!StartRollback("rejected", Mysql!NoCause)
    <3>1. StartRollback("rejected", Error("write", "none", "never"))
      BY <2>2, MysqlParts, MysqlErrors, Denials
    <3> QED
      BY <1>0, <1>p, <2>1, <2>2, <3>1, BackKeeps
  <2>3. CASE Mysql!EndAttempt(Mysql!AfterUnconfirmedRollback(Mysql!Error("write", "unknown", "quarantine")), FALSE)
    <3>1. Mysql!AfterUnconfirmedRollback(Mysql!Error("write", "unknown", "quarantine")) = Error("rollback", "unknown", "quarantine")
      BY DEF Mysql!AfterUnconfirmedRollback, Mysql!Error, Error, Mysql!Severe
    <3>2. EndAttempt(Error("rollback", "unknown", "quarantine"), FALSE)
      BY <2>3, <3>1, MysqlParts
    <3> QED
      BY <1>p, <2>1, <3>2, DoubtKeeps
  <2> QED
    BY <1>8, <2>2, <2>3 DEF Mysql!RowFails
<1>9. CASE Mysql!Interrupt
  <2>1. Running
    BY <1>9 DEF Mysql!Interrupt, Mysql!Running, Running
  <2>2. CASE /\ pc \in Mysql!Setup
             /\ \E e \in Mysql!SentAndInterrupted(Mysql!PhaseOf(pc)) :
                   Mysql!EndAttempt(IF pc \in {"precheck", "create"} THEN e ELSE Mysql!StampDdlResidue(e), FALSE)
    <3>1. PICK e \in Mysql!SentAndInterrupted(Mysql!PhaseOf(pc)) :
             EndAttempt(IF pc \in {"precheck", "create"} THEN e ELSE Mysql!StampDdlResidue(e), FALSE)
      BY <2>2, MysqlParts
    <3>2. PICK p \in {"prepare", "write"} : p = Mysql!PhaseOf(pc) /\ (p = "prepare" => pc # "create")
      BY <1>0, <2>2 DEF Mysql!PhaseOf
    <3>3. PICK f \in {"none", "unknown"}, r \in {"never", "requires_recovery"} :
             e = Error(p, f, r) /\ (p = "write" => f = "unknown")
      BY <3>2, MysqlSent
    <3>4. pc \notin {"commit", "rollback"} /\ p \in Phase /\ f \in Effect \ {"committed"} /\ r \in Disposition
      BY <1>0, <1>p, <2>2
    <3>5. CASE pc = "precheck"
      <4>1. EndAttempt(Error(p, f, r), FALSE) /\ ~Residue(attempt)
        BY <2>1, <3>1, <3>3, <3>5, MysqlClean
      <4> QED
        BY <2>1, <3>4, <4>1, FailKeeps
    <3>6. CASE pc = "create"
      <4>1. EndAttempt(Error("write", "unknown", r), FALSE)
        BY <3>1, <3>2, <3>3, <3>6
      <4> QED
        BY <1>p, <2>1, <3>4, <4>1, DoubtKeeps
    <3>7. CASE pc \notin {"precheck", "create"}
      <4>1. EndAttempt(Mysql!StampDdlResidue(Error(p, f, r)), FALSE)
        BY <3>1, <3>3, <3>7
      <4> QED
        BY <2>1, <3>4, <4>1, MysqlStamps
    <3> QED
      BY <3>5, <3>6, <3>7
  <2>3. CASE /\ pc \in Mysql!Load
             /\ \E e \in Mysql!SentAndInterrupted("write") :
                   Mysql!EndAttempt(Mysql!StampDdlResidue(Mysql!RollbackCleanupResult(e, "lost")), FALSE)
    <3>1. PICK e \in Mysql!SentAndInterrupted("write") :
             EndAttempt(Mysql!StampDdlResidue(Mysql!RollbackCleanupResult(e, "lost")), FALSE)
      BY <2>3, MysqlParts
    <3>2. e = Error("write", "unknown", "requires_recovery")
      BY MysqlSent
    <3>3. Mysql!RollbackCleanupResult(e, "lost") = Error("rollback", "unknown", "requires_recovery")
      BY <3>2 DEF Mysql!RollbackCleanupResult, Mysql!AfterUnconfirmedRollback, Mysql!Error, Error, Mysql!Severe
    <3>4. EndAttempt(Mysql!StampDdlResidue(Error("rollback", "unknown", "requires_recovery")), FALSE)
          /\ pc \notin {"commit", "rollback"}
      BY <1>0, <2>3, <3>1, <3>3
    <3> QED
      BY <1>p, <2>1, <3>4, MysqlStamps
  <2> QED
    BY <1>9, <2>2, <2>3 DEF Mysql!Interrupt
<1>10. CASE Mysql!NextBatch
  <2>1. Running /\ pc = "input" /\ Mysql!Receive("execute")
    BY <1>10 DEF Mysql!NextBatch, Mysql!At, Mysql!Running, Running
  <2> QED
    BY <1>0, <2>1, MysqlParts, BatchKeeps
<1>11. CASE Mysql!NextBatchFails
  <2>1. Running /\ pc = "input" /\ \E e \in Mysql!InputErrors : StartRollback("error", e)
    BY <1>11, MysqlParts DEF Mysql!NextBatchFails, Mysql!At, Mysql!Running, Running
  <2>2. PICK f \in {"none", "unknown"}, r \in {"never", "safe"} : StartRollback("error", Error("write", f, r))
    BY <2>1, MysqlVerdicts
  <2> QED
    BY <1>0, <1>p, <2>1, <2>2, BackKeeps
<1>12. CASE Mysql!NextBatchEnds
  <2>1. Running /\ pc = "input"
    BY <1>12 DEF Mysql!NextBatchEnds, Mysql!At, Mysql!Running, Running
  <2>2. PICK s \in {"update", "verify"} : Send(s, Mysql!Sends(s)) /\ UNCHANGED <<received, cause, why, armed, link>>
    BY <1>12, MysqlParts DEF Mysql!NextBatchEnds
  <2>3. Fits(s, Mysql!Sends(s))
    BY <1>0, <1>s
  <2> QED
    BY <1>0, <2>1, <2>2, <2>3, AwaitKeeps
<1>13. CASE Mysql!AfterRollback
  <2>1. Running /\ pc = "rollback" /\ RollbackOK
    BY <1>13 DEF Mysql!AfterRollback, Mysql!Running, Running, IInv, RunOK
  <2>2. PICK evidence \in (IF reply = "none" THEN {} ELSE {reply}) \cup {"lost"} :
           EndAttempt(Mysql!StampDdlResidue(IF why = "rejected" THEN Mysql!RowRejected(evidence = "ok")
                                            ELSE Mysql!RollbackCleanupResult(cause, evidence)),
                      evidence = "ok")
    BY <1>13, MysqlParts DEF Mysql!AfterRollback
  <2>3. PICK p \in Phase, f \in {"none", "unknown", "rolled_back"}, r \in Disposition :
           cause = Error(p, f, r) /\ (f = "rolled_back" => work[attempt] = "discarded")
    <3>1. cause = Error(cause.phase, cause.effect, cause.retry) /\ cause.phase \in Phase /\ cause.retry \in Disposition
      BY <1>0, <2>1 DEF Answer, Error, RollbackOK
    <3> QED
      BY <2>1, <3>1 DEF RollbackOK
  <2>4. \A q : Mysql!Error(p, f, r).effect = f /\ [Error(p, f, r) EXCEPT !.effect = q] = Error(p, q, r)
               /\ Error(p, f, r).effect = f /\ Error(p, f, r).retry = r
    BY DEF Mysql!Error, Error
  <2>5. Severe(r) \in {"quarantine", "requires_recovery"} /\ Severe(r) \in Disposition
    BY <1>p, Denials
  <2>6. CASE evidence = "ok"
    <3>1. reply = "ok"
      BY <2>2, <2>6
    <3>2. Mysql!RowRejected(evidence = "ok") = Error("write", "rolled_back", "never")
      BY <2>6 DEF Mysql!RowRejected, Mysql!Error, Error
    <3>3. Mysql!RollbackCleanupResult(cause, evidence) = Error(p, "rolled_back", r)
      BY <2>3, <2>4, <2>6 DEF Mysql!RollbackCleanupResult
    <3>4. \E q \in Phase, d \in Disposition : EndAttempt(Mysql!StampDdlResidue(Error(q, "rolled_back", d)), evidence = "ok")
      BY <1>p, <2>2, <3>2, <3>3
    <3> QED
      BY <1>p, <2>1, <3>1, <3>4, CleanSession, MysqlStamps
  <2>7. CASE evidence # "ok"
    <3>1. Mysql!RowRejected(evidence = "ok") = Error("rollback", "unknown", "quarantine")
      BY <2>7 DEF Mysql!RowRejected, Mysql!Error, Error
    <3>2. \/ Mysql!RollbackCleanupResult(cause, evidence) = Error(p, "rolled_back", r) /\ f = "rolled_back"
          \/ Mysql!RollbackCleanupResult(cause, evidence) = Error("rollback", "unknown", Severe(r))
      BY <2>3, <2>4, <2>7, MysqlErrors DEF Mysql!RollbackCleanupResult
    <3>3. \/ \E q \in Phase, d \in Disposition :
                EndAttempt(Mysql!StampDdlResidue(Error(q, "rolled_back", d)), evidence = "ok") /\ work[attempt] = "discarded"
          \/ \E d \in {"quarantine", "requires_recovery"} :
                EndAttempt(Mysql!StampDdlResidue(Error("rollback", "unknown", d)), evidence = "ok")
      BY <2>2, <2>3, <2>5, <3>1, <3>2
    <3> QED
      BY <1>p, <2>1, <2>7, <3>3, MysqlStamps
  <2> QED
    BY <2>6, <2>7
<1>14. CASE Mysql!VerifyFails
  <2>1. Running /\ pc = "verify"
    BY <1>14 DEF Mysql!VerifyFails, Mysql!At, Mysql!Running, Running
  <2>2. PICK e \in Mysql!DriverErrors("commit") \cup Mysql!SentAndInterrupted("commit") :
           EndAttempt(Mysql!StampDdlResidue(Mysql!CommitFailure(Mysql!AfterUnprovenSend(e))), FALSE)
    BY <1>14, MysqlParts DEF Mysql!VerifyFails
  <2>3. PICK f \in {"none", "unknown", "rolled_back"}, r \in {"never", "safe", "requires_recovery"} : e = Error("commit", f, r)
    BY MysqlSent
  <2>4. Mysql!CommitFailure(Mysql!AfterUnprovenSend(e)) = IF f = "rolled_back" THEN Error("commit", f, r) ELSE OutcomeUnknown
    <3>1. Mysql!AfterUnprovenSend(e) = IF f = "none" THEN Error("commit", "unknown", Severe(r)) ELSE Error("commit", f, r)
      BY <2>3, MysqlErrors DEF Mysql!AfterUnprovenSend, Error
    <3>2. \A g, d : Error("commit", g, d).effect = g
      BY DEF Error
    <3>3. Mysql!OutcomeUnknown = OutcomeUnknown
      BY MysqlErrors
    <3> QED
      BY <3>1, <3>2, <3>3 DEF Mysql!CommitFailure
  <2>5. CASE f = "rolled_back"
    <3>1. EndAttempt(Mysql!StampDdlResidue(Error("commit", "rolled_back", r)), FALSE)
      BY <2>2, <2>4, <2>5
    <3> QED
      BY <1>p, <2>1, <3>1, MysqlStamps
  <2>6. CASE f # "rolled_back"
    <3>1. Mysql!StampDdlResidue(OutcomeUnknown) = OutcomeUnknown
      BY DEF Mysql!StampDdlResidue, OutcomeUnknown
    <3>2. EndAttempt(OutcomeUnknown, FALSE)
      BY <2>2, <2>4, <2>6, <3>1
    <3> QED
      BY <2>1, <3>2, UnknownKeeps
  <2> QED
    BY <2>5, <2>6
<1>15. CASE Mysql!AfterCommit
  <2>1. Running /\ pc = "commit"
    BY <1>15 DEF Mysql!AfterCommit, Mysql!At, Mysql!Running, Running
  <2>2. CASE reply = "ok" /\ Mysql!EndAttempt(Mysql!Committed, TRUE)
    <3>1. EndAttempt(Committed, TRUE)
      BY <2>2, MysqlParts, MysqlErrors
    <3> QED
      BY <2>1, <2>2, <3>1, CommittedKeeps
  <2>3. CASE reply = "ok" /\ Mysql!EndAttempt(Mysql!Error("write", "committed", "never"), TRUE)
    <3>1. EndAttempt(Error("write", "committed", "never"), TRUE)
      BY <2>3, MysqlParts, MysqlErrors
    <3>2. /\ Error("write", "committed", "never") \in Answer /\ Error("write", "committed", "never").status = "error"
          /\ ~Denies(Error("write", "committed", "never"))
      BY <1>p, Denials
    <3> QED
      BY <2>1, <2>3, <3>1, <3>2, CleanSession, ErrorKeeps
  <2>4. CASE /\ reply = "proven"
             /\ Mysql!EndAttempt(Mysql!StampDdlResidue(Mysql!CommitFailure(
                   Mysql!AfterCommitSent(Mysql!Error("commit", "none", "safe"), TRUE))), FALSE)
    <3>1. Mysql!CommitFailure(Mysql!AfterCommitSent(Mysql!Error("commit", "none", "safe"), TRUE)) = Error("commit", "rolled_back", "safe")
      BY DEF Mysql!CommitFailure, Mysql!AfterCommitSent, Mysql!Error, Error
    <3>2. EndAttempt(Mysql!StampDdlResidue(Error("commit", "rolled_back", "safe")), FALSE)
      BY <2>4, <3>1, MysqlParts
    <3> QED
      BY <1>p, <2>1, <2>4, <3>2, MysqlStamps
  <2>5. CASE Mysql!EndAttempt(Mysql!CommitFailure(Mysql!AfterCommitSent(Mysql!NewError("commit"), FALSE)), FALSE)
    <3>1. Mysql!CommitFailure(Mysql!AfterCommitSent(Mysql!NewError("commit"), FALSE)) = Mysql!OutcomeUnknown
      BY DEF Mysql!CommitFailure, Mysql!AfterCommitSent, Mysql!NewError, Mysql!Error
    <3>2. EndAttempt(OutcomeUnknown, FALSE)
      BY <2>5, <3>1, MysqlParts, MysqlErrors
    <3> QED
      BY <2>1, <3>2, UnknownKeeps
  <2> QED
    BY <1>15, <2>2, <2>3, <2>4, <2>5 DEF Mysql!AfterCommit
<1> QED
  BY <1>1, <1>2, <1>3, <1>4, <1>5, <1>6, <1>7, <1>8, <1>9, <1>10, <1>11, <1>12, <1>13, <1>14, <1>15 DEF Mysql!Next

-----------------------------------------------------------------------------
(* The specification.                                                      *)

\* A step of an attempt, whatever its adapter.
LEMMA AttemptKeeps == ASSUME IInv, AttemptNext PROVE IInv'
  BY PostgresKeeps, MysqlKeeps, OracleKeeps, SqlServerKeeps, Db2Keeps DEF AttemptNext

\* The caller drops the call; only PostgreSQL keeps a client, and only while
\* it is reset.
LEMMA DroppedKeeps == ASSUME IInv, Dropped PROVE IInv'
<1>1. CASE adapter = "postgres" /\ Postgres!Dropped
  <2>1. DropCall(pc = "discard")
    BY <1>1, PostgresParts DEF Postgres!Dropped
  <2> QED
    BY <1>1, <2>1, DropKeeps
<1>2. CASE \/ adapter = "mysql" /\ Mysql!Dropped
           \/ adapter = "oracle" /\ Oracle!Dropped
           \/ adapter = "sqlserver" /\ SqlServer!Dropped
           \/ adapter = "db2" /\ Db2!Dropped
  <2>1. DropCall(FALSE)
    <3>1. CASE adapter = "mysql" /\ Mysql!Dropped
      BY <3>1, MysqlParts DEF Mysql!Dropped
    <3>2. CASE adapter = "oracle" /\ Oracle!Dropped
      BY <3>2, OracleParts DEF Oracle!Dropped
    <3>3. CASE adapter = "sqlserver" /\ SqlServer!Dropped
      BY <3>3, SqlServerParts DEF SqlServer!Dropped
    <3>4. CASE adapter = "db2" /\ Db2!Dropped
      BY <3>4, Db2Parts DEF Db2!Dropped
    <3> QED
      BY <1>2, <3>1, <3>2, <3>3, <3>4
  <2> QED
    BY <2>1, DropKeeps
<1> QED
  BY <1>1, <1>2 DEF Dropped

\* Nothing happens.
LEMMA StutterKeeps == ASSUME IInv, UNCHANGED vars PROVE IInv'
<1>1. UNCHANGED <<retry, fixed, attempting, remote, client>>
  BY DEF vars
<1>2. /\ Stages' = Stages /\ Before' = Before /\ (Explicit' <=> Explicit) /\ adapter' = adapter /\ mode' = mode
  BY <1>1, Constant
<1>3. /\ rt' = rt /\ attempt' = attempt /\ told' = told /\ cancelled' = cancelled /\ final' = final
      /\ pc' = pc /\ received' = received /\ cause' = cause /\ why' = why /\ reply' = reply /\ armed' = armed
      /\ pipe' = pipe /\ srv' = srv /\ work' = work /\ table' = table /\ executed' = executed
      /\ link' = link /\ kept' = kept /\ dropped' = dropped /\ ledger' = ledger
  BY <1>1 DEF retry, attempting, remote, client
<1>4. TypeOK' /\ PipesOK' /\ RetryOK'
  BY <1>2, <1>3 DEF IInv, TypeOK, WriteTypeOK, RetryTypeOK, PipesOK, RetryOK
<1>5. FreshOK' /\ KeptOK' /\ KeptIsClean'
  BY <1>2, <1>3 DEF IInv, FreshOK, Fresh, KeptOK, KeptIsClean
<1>6. ToldOK' /\ DoneOK' /\ ResidueOK'
  BY <1>2, <1>3 DEF IInv, ToldOK, DoneOK, ResidueOK, Sealed, Residue, Denies
<1>7. RunOK'
  <2> SUFFICES ASSUME rt = "run", pc # "start"
               PROVE  (WireOK /\ BeforeOK /\ InsideOK /\ CommitOK /\ RollbackOK /\ CountOK /\ TableOK)'
    BY <1>3 DEF RunOK
  <2>1. WireOK /\ BeforeOK /\ InsideOK /\ CommitOK /\ RollbackOK /\ CountOK /\ TableOK
    BY DEF IInv, RunOK
  <2>2. (Healthy' <=> Healthy) /\ (Refusal' <=> Refusal) /\ \A s, c : Fits(s, c)' <=> Fits(s, c)
    BY <1>2, <1>3 DEF Healthy, Refusal, Fits
  <2>3. WireOK' /\ CountOK' /\ TableOK'
    BY <1>2, <1>3, <2>1, <2>2 DEF WireOK, CountOK, TableOK
  <2>4. BeforeOK' /\ InsideOK' /\ CommitOK' /\ RollbackOK'
    BY <1>2, <1>3, <2>1, <2>2 DEF BeforeOK, InsideOK, CommitOK, RollbackOK
  <2> QED
    BY <2>3, <2>4
<1> QED
  BY <1>4, <1>5, <1>6, <1>7 DEF IInv

\* Every step keeps the invariant.
LEMMA NextKeeps == ASSUME IInv, [Next]_vars PROVE IInv'
<1>1. CASE Executor(RetryNext)
  BY <1>1, ExecutorKeeps
<1>2. CASE AttemptNext
  BY <1>2, AttemptKeeps
<1>3. ASSUME NEW a \in Attempts, ServerAnswers(a) \/ Break(a) \/ Hangup(a)
      PROVE  IInv'
  BY <1>3, ServerKeeps, BreakKeeps, HangupKeeps
<1>4. CASE Dropped
  BY <1>4, DroppedKeeps
<1>5. CASE UNCHANGED vars
  BY <1>5, StutterKeeps
<1> QED
  BY <1>1, <1>2, <1>3, <1>4, <1>5 DEF Next

\* A call starts with nothing sent.
LEMMA InitHolds == ASSUME Init PROVE IInv
<1> USE DEF Init, WriteInit, RetryInit
<1>1. /\ rt = "check" /\ attempt = 1 /\ pc = "start" /\ reply = "none" /\ ~armed /\ ~dropped /\ kept = {}
      /\ \A a \in Attempts : /\ told[a] = Untold /\ pipe[a] = <<>> /\ srv[a] = "none" /\ work[a] = "none"
                             /\ ~table[a] /\ executed[a] = 0 /\ link[a] = "unborn"
  OBVIOUS
<1>2. attempt \in Attempts /\ \A a \in Attempts : ~(a < attempt)
  BY <1>1, RetryAssumption DEF Attempts
<1>3. ~Denies(Untold) /\ Untold.status = "untold"
  BY DEF Untold, Denies
<1>4. TypeOK
  <2>1. NoCause \in Answer
    BY Denials DEF Phase, Effect, Disposition
  <2>2. RetryTypeOK
    BY <1>2 DEF RetryTypeOK
  <2>3. pipe \in [Attempts -> Seq(Command)]
    OBVIOUS
  <2>4. link \in [Attempts -> {"unborn", "up", "down"}] /\ srv \in [Attempts -> {"none", "open", "aborted"}]
        /\ work \in [Attempts -> {"none", "pending", "applied", "discarded"}] /\ table \in [Attempts -> BOOLEAN]
    OBVIOUS
  <2>5. 0 \in 0 .. MaxBatches
    BY WriteAssumption
  <2>6. executed \in [Attempts -> 0 .. MaxBatches] /\ received \in 0 .. MaxBatches
    BY <2>5
  <2>7. pc \in Between /\ why \in Rollback /\ reply \in Reply
    BY DEF Between, Rollback, Reply
  <2> QED
    BY <2>1, <2>2, <2>3, <2>4, <2>6, <2>7 DEF TypeOK, WriteTypeOK
<1>5. PipesOK /\ FreshOK /\ KeptOK /\ KeptIsClean
  BY <1>1 DEF PipesOK, FreshOK, KeptOK, KeptIsClean
<1>6. RetryOK
  BY <1>1, <1>2 DEF RetryOK
<1>7. ToldOK /\ DoneOK
  BY <1>1, <1>3 DEF ToldOK, DoneOK
<1>8. ResidueOK
  <2>1. <<>> # <<"create">>
    BY Tuples DEF Command
  <2> QED
    BY <1>1, <2>1 DEF ResidueOK, Residue
<1>9. RunOK
  BY <1>1 DEF RunOK
<1> QED
  BY <1>4, <1>5, <1>6, <1>7, <1>8, <1>9 DEF IInv

\* What a write tells its caller, what is on its way to the server and what the
\* server did agree in every state of a call through retry_with_policy.
THEOREM WritesInv == Spec => []IInv
  BY InitHolds, NextKeeps, PTL DEF Spec

\* The fields of the executor, the attempt, the sessions and the guard keep
\* their types, an attempt of each adapter at a stage of its own.
THEOREM WriteTypes == Spec => []TypeOK
<1>1. IInv => TypeOK
  BY DEF IInv
<1> QED
  BY <1>1, WritesInv, PTL

\* An attempt whose error has the effect none or rolled_back never becomes
\* visible: nothing that is still on its way to its session can apply it.
THEOREM EffectStaysTrue == Spec => []EffectIsTrue
<1>1. IInv => EffectIsTrue
  BY DEF IInv, EffectIsTrue, ToldOK, Denies, Sealed
<1> QED
  BY <1>1, WritesInv, PTL

\* An attempt that answers Committed has applied every batch it received, and
\* no attempt follows it.
THEOREM CommittedStaysComplete == Spec => []CommittedIsComplete
<1>1. ASSUME IInv PROVE CommittedIsComplete
  <2> SUFFICES ASSUME NEW a \in Attempts, told[a].status = "committed"
               PROVE  a = attempt /\ work[a] = "applied" /\ executed[a] = received
    BY DEF CommittedIsComplete
  <2>1. ~(a < attempt)
    BY <1>1 DEF IInv, RetryOK
  <2>2. ~(a > attempt)
    BY <1>1 DEF IInv, FreshOK, Fresh, Untold
  <2>3. a = attempt
    BY <1>1, <2>1, <2>2, RetryAssumption DEF IInv, TypeOK, WriteTypeOK, RetryTypeOK, Attempts
  <2> QED
    BY <1>1, <2>3 DEF IInv, ToldOK
<1> QED
  BY <1>1, WritesInv, PTL

\* retry_with_policy never applies the same write twice, and what the caller
\* is told at the end holds of all the attempts together.
THEOREM FinalStaysTrue == Spec => []FinalIsTrue
<1>1. ASSUME IInv PROVE FinalIsTrue
  <2>1. ASSUME NEW a \in Attempts, work[a] = "applied" PROVE a = attempt
    <3>1. ~(a < attempt)
      BY <1>1, <2>1 DEF IInv, RetryOK, ToldOK, Denies, Sealed
    <3>2. ~(a > attempt)
      BY <1>1, <2>1 DEF IInv, FreshOK, Fresh
    <3> QED
      BY <1>1, <3>1, <3>2, RetryAssumption DEF IInv, TypeOK, WriteTypeOK, RetryTypeOK, Attempts
  <2>2. attempt \in Attempts
    BY <1>1 DEF IInv, TypeOK, WriteTypeOK, RetryTypeOK
  <2>3. rt = "done" /\ ~dropped =>
           /\ final.effect \in {"none", "rolled_back"} => \A a \in Attempts : work[a] # "applied"
           /\ final.status = "committed" => work[attempt] = "applied"
    BY <1>1 DEF IInv, DoneOK, Sealed
  <2> QED
    BY <2>1, <2>2, <2>3 DEF FinalIsTrue
<1> QED
  BY <1>1, WritesInv, PTL

\* A connection in a pool has no transaction and nothing on its way, but for
\* the reset of a PostgreSQL client whose call was dropped.
THEOREM KeptStaysClean == Spec => []KeptIsClean
<1>1. IInv => KeptIsClean
  BY DEF IInv
<1> QED
  BY <1>1, WritesInv, PTL

\* A table that CREATE left outside of the transaction is told by the error,
\* or recorded in the ResidueLedger when the call is dropped; the attempt that
\* left it is never repeated.
THEOREM NoResidueHidden == Spec => []NoHiddenResidue
<1>1. ASSUME IInv PROVE NoHiddenResidue
  <2> SUFFICES ASSUME NEW a \in Attempts, table[a]
               PROVE  /\ told[a].status = "error" => told[a].effect \notin {"none", "rolled_back"}
                      /\ a = attempt
                      /\ dropped => a \in ledger
    BY DEF NoHiddenResidue
  <2>1. Residue(a)
    BY DEF Residue
  <2>2. a = attempt
    BY <1>1, <2>1, ResidueHere
  <2> QED
    BY <1>1, <2>1, <2>2 DEF IInv, ToldOK, ResidueOK, Denies
<1> QED
  BY <1>1, WritesInv, PTL
=============================================================================
