------------------------- MODULE PgTransactionProof -------------------------
(***************************************************************************)
(* Proofs about PgTransaction for any number of transactions, connections  *)
(* and operations.  The invariant says what can be on its way on a         *)
(* connection: statements of the transaction that is open there, and then  *)
(* only the resets of those that took the connection after it; so that a   *)
(* command never meets another state of the server than the adapter        *)
(* believes, whatever was interrupted, dropped or lost.                    *)
(***************************************************************************)
EXTENDS PgTransaction, TLAPS

\* Commands that do not end a transaction, and those that run inside one.
Stmt == {"verify", "context", "execute", "read", "rollbackto", "fetch"}
Ender == {"commit", "rollback"}
Outside == {"discard", "guard", "begin"}

\* The states before BEGIN is sent.
Fresh == {"new", "discard", "guard"}

\* The command that a state awaits.
CmdOf(s) ==
    IF s \in {"unverify", "uncontext"} THEN "rollback" ELSE IF s = "update" THEN "execute" ELSE s

Entries(c) == 1 .. Len(pipe[c])
Cmd(c, i) == pipe[c][i][1]
Who(c, i) == pipe[c][i][2]

\* A connection has one owner or is idle; a transaction has a connection
\* while it lasts.
OwnersOK ==
    /\ \A t \in Txn : on[t] = NoConn <=> st[t] \in {"new", "done"}
    /\ \A t, u \in Txn : on[t] # NoConn /\ on[t] = on[u] => t = u
    /\ \A t \in Txn : on[t] # NoConn => on[t] \notin idle /\ link[on[t]] # "unborn"
    /\ \A c \in idle : link[c] # "unborn"
    /\ \A c \in Conn : link[c] = "unborn" => pipe[c] = <<>> /\ srv[c] = "none"

\* What a transaction left on a connection is on no other.
Present(t, c) == cur[c] = t \/ \E i \in Entries(c) : Who(c, i) = t

HomeOK ==
    \A t \in Txn, c \in Conn : Present(t, c) =>
        /\ st[t] # "new" /\ (on[t] = c \/ st[t] = "done")
        /\ \A d \in Conn : Present(t, d) => d = c

\* The server's transaction belongs to the one that opened it, whose writes
\* are pending.
ServerOK ==
    \A c \in Conn : /\ cur[c] = NoTxn <=> srv[c] = "none"
                    /\ \A t \in Txn : cur[c] = t => work[t] = "pending"

\* What is on its way.
EntryOK(c, i) ==
    /\ Cmd(c, i) \in Stmt \cup Ender =>
          /\ cur[c] = Who(c, i)
          /\ \A j \in 1 .. i - 1 : Cmd(c, j) \in Stmt /\ Who(c, j) = Who(c, i)
    /\ Cmd(c, i) \in {"guard", "begin"} => i = 1 /\ srv[c] = "none"
    /\ Cmd(c, i) = "begin" => st[Who(c, i)] \notin Fresh
    /\ Cmd(c, i) \in Outside =>
          /\ work[Who(c, i)] = "none"
          /\ \A j \in Entries(c) : j # i => Who(c, j) # Who(c, i)

PipeOK == \A c \in Conn : \A i \in Entries(c) : EntryOK(c, i)

\* The states in which the server's transaction is the caller's own.
Inside(t) ==
    \/ st[t] \in Operating \cup {"ready", "verify", "context"}
    \/ st[t] \in {"commit", "rollback", "unverify", "uncontext"} /\ reply[t] = "none"

\* What the owner of a connection knows of it.
AwaitOf(t, c) ==
    /\ reply[t] # "none" => st[t] \in Waiting /\ pipe[c] = <<>>
    /\ link[c] = "up" =>
          /\ Inside(t) => cur[c] = t
          /\ st[t] \in Waiting /\ reply[t] = "none" =>
                Len(pipe[c]) > 0 /\ pipe[c][Len(pipe[c])] = <<CmdOf(st[t]), t>>
          /\ st[t] = "ready" => \A i \in Entries(c) : Cmd(c, i) \in Stmt
          /\ st[t] = "discard" /\ reply[t] = "ok" => srv[c] = "none"
          /\ st[t] = "guard" => srv[c] = "none"
          /\ st[t] = "begin" /\ reply[t] = "ok" => cur[c] = t
          /\ st[t] \in {"commit", "rollback", "unverify"} /\ reply[t] # "none" => srv[c] = "none"

AwaitOK == \A t \in Txn : on[t] # NoConn => AwaitOf(t, on[t])

\* A transaction that is not open any more is not reused, and a report is the
\* end.
FlagsOK ==
    \A t \in Txn :
        /\ st[t] \in Operating \cup {"ready", "commit", "rollback"} => open[t] \/ ~reusable[t]
        /\ st[t] = "commit" => open[t]
        /\ report[t] # "none" => st[t] = "done"

\* What became of the writes, and what is known and said of it.
OutcomeOf(t) ==
    /\ st[t] \in Fresh => work[t] = "none"
    /\ work[t] = "applied" => st[t] = "commit" \/ report[t] \in {"committed", "unknown", "abandoned"}
    /\ st[t] = "commit" /\ reply[t] = "proven" => work[t] # "applied"
    /\ st[t] = "commit" /\ reply[t] = "ok" /\ ~spoiled[t] => work[t] = "applied"

\* Its COMMIT is on its way: it awaits it or has said that it does not know.
CommitSent(t) ==
    \A c \in Conn : \A i \in Entries(c) :
        Cmd(c, i) = "commit" /\ Who(c, i) = t => st[t] = "commit" \/ report[t] \in {"unknown", "abandoned"}

OutcomeOK == \A t \in Txn : OutcomeOf(t) /\ CommitSent(t)

IInv ==
    /\ TypeOK /\ OwnersOK /\ HomeOK /\ ServerOK /\ PipeOK /\ AwaitOK /\ FlagsOK /\ OutcomeOK
    /\ CommittedIsApplied /\ PoolIsClean

-----------------------------------------------------------------------------
(* Sequences, commands and answers.                                        *)

\* The head and the tail of what is on its way.
LEMMA TailFacts ==
  ASSUME NEW S, NEW q \in Seq(S), q # <<>>
  PROVE  /\ Len(q) \in Nat /\ Len(q) > 0 /\ Head(q) = q[1] /\ q[1] \in S
         /\ Tail(q) \in Seq(S) /\ Len(Tail(q)) = Len(q) - 1
         /\ \A i \in 1 .. Len(q) - 1 : Tail(q)[i] = q[i + 1]
         /\ Len(q) = 1 => Tail(q) = <<>>
  OBVIOUS

\* One more command is on its way.
LEMMA AppendFacts ==
  ASSUME NEW S, NEW q \in Seq(S), NEW e \in S
  PROVE  /\ Len(q) \in Nat /\ Append(q, e) \in Seq(S) /\ Len(Append(q, e)) = Len(q) + 1
         /\ Append(q, e)[Len(q) + 1] = e
         /\ \A i \in 1 .. Len(q) : Append(q, e)[i] = q[i]
  OBVIOUS

\* What the adapter can send is a statement, an end or comes before BEGIN.
LEMMA Commands ==
  /\ Command = Stmt \cup Ender \cup Outside
  /\ Stmt \cap Ender = {} /\ Stmt \cap Outside = {} /\ Ender \cap Outside = {}
  BY DEF Command, Stmt, Ender, Outside

\* What the server answers to a command, in the states in which it meets it.
LEMMA ServedFacts ==
  ASSUME NEW cmd \in Command, NEW s \in {"none", "open", "aborted"},
         NEW w \in {"none", "pending", "applied", "discarded"}, NEW o \in Served(cmd, s, w)
  PROVE  /\ o.srv \in {"none", "open", "aborted"} /\ o.answer \in {"ok", "error", "proven"}
         /\ o.work \in {"none", "pending", "applied", "discarded"}
         /\ cmd \in Stmt /\ s # "none" => o.srv # "none" /\ o.work = w
         /\ cmd = "rollback" => o.srv = "none" /\ (w = "pending" => o.work = "discarded")
         /\ cmd = "commit" /\ s # "none" =>
               /\ o.srv = "none" /\ o.work \in {"applied", "discarded"}
               /\ o.answer = "proven" => o.work = "discarded"
               /\ o.answer = "ok" /\ s # "aborted" => o.work = "applied"
         /\ cmd = "discard" => /\ o.work = w /\ (s = "none" <=> o.srv = "none")
                               /\ o.answer = "ok" => o.srv = "none"
         /\ cmd = "guard" /\ s = "none" => o.srv = "none" /\ o.work = w
         /\ cmd = "begin" /\ s = "none" =>
               \/ o.srv # "none" /\ o.work = "pending"
               \/ o.srv = "none" /\ o.work = w /\ o.answer # "ok"
  <1>1. CASE cmd = "discard"
    BY <1>1 DEF Served, ServedDiscard, Outcome, Stmt
  <1>2. CASE cmd = "begin"
    BY <1>2 DEF Served, ServedBegin, Outcome, Stmt
  <1>3. CASE cmd = "rollbackto"
    BY <1>3 DEF Served, ServedRollbackTo, Outcome, Stmt
  <1>4. CASE cmd = "commit"
    BY <1>4 DEF Served, ServedCommit, Outcome, Stmt
  <1>5. CASE cmd = "rollback"
    BY <1>5 DEF Served, ServedRollback, Outcome, Stmt
  <1>6. CASE cmd \in {"guard", "verify", "context", "execute", "read", "fetch"}
    <2>1. Served(cmd, s, w) = ServedStatement(cmd, s, w)
      BY <1>6 DEF Served
    <2> QED
      BY <1>6, <2>1 DEF ServedStatement, Outcome, Stmt
  <1> QED
    BY <1>1, <1>2, <1>3, <1>4, <1>5, <1>6 DEF Command

\* The initial states satisfy the invariant.
LEMMA InitOK == Init => IInv
  <1> SUFFICES ASSUME Init PROVE IInv
    OBVIOUS
  <1> USE PgTransactionAssumption DEF Init
  <1>1. TypeOK
    BY DEF TypeOK, Waiting, Opening, Report
  <1>2. \A c \in Conn : pipe[c] = <<>> /\ Len(pipe[c]) = 0 /\ Entries(c) = {}
    BY DEF Entries
  <1>3. OwnersOK
    BY <1>2 DEF OwnersOK
  <1>4. HomeOK
    BY <1>2 DEF HomeOK, Present
  <1>5. ServerOK /\ PipeOK
    BY <1>2 DEF ServerOK, PipeOK
  <1>6. AwaitOK /\ FlagsOK
    BY DEF AwaitOK, FlagsOK, Operating
  <1>7. OutcomeOK
    BY <1>2 DEF OutcomeOK, OutcomeOf, CommitSent
  <1>8. CommittedIsApplied /\ PoolIsClean
    BY DEF CommittedIsApplied, PoolIsClean
  <1> QED
    BY <1>1, <1>3, <1>4, <1>5, <1>6, <1>7, <1>8 DEF IInv

-----------------------------------------------------------------------------
(* The steps of the adapter.                                               *)

\* Sending a command in a state that the command fits: the first of an owner
\* who has just taken the connection, one that finds the session quiet, or
\* one that continues the transaction.
LEMMA SendStep ==
  ASSUME IInv, NEW t \in Txn, NEW c \in Conn, NEW cmd \in Command, NEW s \in Waiting,
         CmdOf(s) = cmd, Send(t, c, cmd, s),
         on' = [on EXCEPT ![t] = c], idle' \subseteq idle, c \notin idle',
         \A u \in Txn : on[u] = c => u = t,
         link' \in [Conn -> {"unborn", "up", "down"}], link'[c] # "unborn",
         \A d \in Conn : d # c => link'[d] = link[d],
         link[c] = "down" <=> link'[c] = "down",
         UNCHANGED <<abandoned, open, reusable, report>>, ops' \in [Txn -> 0 .. MaxOps],
         st[t] \notin {"done", "commit"}, on[t] = c \/ st[t] = "new",
         s \in Operating \cup {"commit", "rollback"} => open[t] \/ ~reusable[t],
         s = "commit" => open[t], s \in {"discard", "guard"} => st[t] \in Fresh,
         link[c] # "down" =>
            \/ cmd = "discard" /\ st[t] = "new"
            \/ cmd \in {"guard", "begin"} /\ pipe[c] = <<>> /\ srv[c] = "none" /\ work[t] = "none"
            \/ cmd \in Stmt \cup Ender /\ cur[c] = t /\ \A i \in Entries(c) : Cmd(c, i) \in Stmt
  PROVE  IInv'
  <1> USE PgTransactionAssumption
  <1>a. /\ TypeOK /\ OwnersOK /\ HomeOK /\ ServerOK /\ PipeOK /\ AwaitOK /\ FlagsOK /\ OutcomeOK
        /\ CommittedIsApplied /\ PoolIsClean
    BY DEF IInv
  <1>b. /\ st' = [st EXCEPT ![t] = s] /\ reply' = [reply EXCEPT ![t] = "none"]
        /\ srv' = srv /\ cur' = cur /\ work' = work /\ spoiled' = spoiled
    BY DEF Send
  <1>c. c # NoConn /\ t # NoTxn /\ s \notin {"new", "ready", "done"}
    BY DEF Waiting, Opening, Operating
  <1>d. /\ \A u \in Txn : u # t => st'[u] = st[u] /\ on'[u] = on[u] /\ reply'[u] = reply[u]
        /\ st'[t] = s /\ on'[t] = c /\ reply'[t] = "none"
    BY <1>a, <1>b DEF TypeOK
  <1>e. /\ \A d \in Conn : (d # c \/ link[c] = "down") => pipe'[d] = pipe[d]
        /\ link[c] # "down" => pipe'[c] = Append(pipe[c], <<cmd, t>>)
        /\ pipe' \in [Conn -> Seq(Command \X Txn)]
    BY <1>a DEF TypeOK, Send
  <1>f. /\ pipe[c] \in Seq(Command \X Txn) /\ <<cmd, t>> \in Command \X Txn
        /\ Len(pipe[c]) \in Nat
    BY <1>a DEF TypeOK
  <1>g. link[c] # "down" =>
          /\ Len(pipe'[c]) = Len(pipe[c]) + 1 /\ pipe'[c][Len(pipe[c]) + 1] = <<cmd, t>>
          /\ \A i \in 1 .. Len(pipe[c]) : pipe'[c][i] = pipe[c][i]
    BY <1>e, <1>f, AppendFacts
  <1>n. PICK n : n = Len(pipe[c]) + 1
    OBVIOUS
  <1>h. \A d \in Conn : d # c \/ link[c] = "down" =>
           /\ Entries(d)' = Entries(d)
           /\ \A i \in Entries(d) : Cmd(d, i)' = Cmd(d, i) /\ Who(d, i)' = Who(d, i)
    BY <1>e DEF Entries, Cmd, Who
  <1>i. link[c] # "down" =>
           /\ Entries(c)' = Entries(c) \cup {n} /\ n \notin Entries(c) /\ Entries(c) = 1 .. n - 1
           /\ \A i \in Entries(c) : Cmd(c, i)' = Cmd(c, i) /\ Who(c, i)' = Who(c, i)
           /\ Cmd(c, n)' = cmd /\ Who(c, n)' = t
    <2> SUFFICES ASSUME link[c] # "down"
                 PROVE  /\ Entries(c)' = Entries(c) \cup {n} /\ n \notin Entries(c) /\ Entries(c) = 1 .. n - 1
                        /\ \A i \in Entries(c) : Cmd(c, i)' = Cmd(c, i) /\ Who(c, i)' = Who(c, i)
                        /\ Cmd(c, n)' = cmd /\ Who(c, n)' = t
      OBVIOUS
    <2>1. n \in Nat /\ Len(pipe'[c]) = n /\ Entries(c)' = 1 .. n /\ Entries(c) = 1 .. n - 1
      BY <1>f, <1>g, <1>n DEF Entries
    <2>2. Entries(c)' = Entries(c) \cup {n} /\ n \notin Entries(c)
      BY <2>1, <1>f, <1>n
    <2>3. \A i \in Entries(c) : Cmd(c, i)' = Cmd(c, i) /\ Who(c, i)' = Who(c, i)
      BY <1>g DEF Entries, Cmd, Who
    <2>4. pipe'[c][n] = <<cmd, t>>
      BY <1>g, <1>n
    <2>5. Cmd(c, n)' = cmd /\ Who(c, n)' = t
      BY <2>4 DEF Cmd, Who
    <2> QED
      BY <2>1, <2>2, <2>3, <2>5
  <1>j. \A u \in Txn, d \in Conn : Present(u, d)' => Present(u, d) \/ (u = t /\ d = c)
    BY <1>b, <1>h, <1>i DEF Present
  <1>k. \A d \in Conn : Present(t, d) => d = c /\ st[t] # "new"
    BY <1>a DEF HomeOK
  <1>l. report[t] = "none"
    BY <1>a DEF FlagsOK
  <1>1. TypeOK'
    BY <1>a, <1>b, <1>e DEF TypeOK
  <1>2. OwnersOK'
    <2>1. (\A u \in Txn : on[u] = NoConn <=> st[u] \in {"new", "done"})'
      BY <1>a, <1>c, <1>d DEF OwnersOK
    <2>2. (\A u, v \in Txn : on[u] # NoConn /\ on[u] = on[v] => u = v)'
      BY <1>a, <1>d DEF OwnersOK
    <2>3. (\A u \in Txn : on[u] # NoConn => on[u] \notin idle /\ link[on[u]] # "unborn")'
      BY <1>a, <1>d DEF OwnersOK, TypeOK
    <2>4. (\A d \in idle : link[d] # "unborn")'
      BY <1>a DEF OwnersOK, TypeOK
    <2>5. (\A d \in Conn : link[d] = "unborn" => pipe[d] = <<>> /\ srv[d] = "none")'
      BY <1>a, <1>b, <1>e DEF OwnersOK
    <2> QED
      BY <2>1, <2>2, <2>3, <2>4, <2>5 DEF OwnersOK
  <1>3. HomeOK'
    <2> SUFFICES ASSUME NEW u \in Txn, NEW d \in Conn, Present(u, d)'
                 PROVE  /\ st'[u] # "new" /\ (on'[u] = d \/ st'[u] = "done")
                        /\ \A e \in Conn : Present(u, e)' => e = d
      BY DEF HomeOK
    <2>1. CASE u = t
      BY <1>c, <1>d, <1>j, <1>k, <2>1
    <2>2. CASE u # t
      BY <1>a, <1>d, <1>j, <2>2 DEF HomeOK
    <2> QED
      BY <2>1, <2>2
  <1>4. ServerOK'
    BY <1>a, <1>b DEF ServerOK
  <1>5. PipeOK'
    <2>1. ASSUME NEW d \in Conn, d # c \/ link[c] = "down", NEW i \in Entries(d)
          PROVE  Cmd(d, i) = "begin" => st'[Who(d, i)] \notin Fresh
      <3>1. Cmd(d, i) = "begin" => st[Who(d, i)] \notin Fresh
        BY <1>a DEF PipeOK, EntryOK
      <3> QED
        BY <3>1, <1>b, <1>c, <1>a DEF Fresh, TypeOK
    <2>2. ASSUME NEW d \in Conn, d # c \/ link[c] = "down", NEW i \in Entries(d)'
          PROVE  EntryOK(d, i)'
      <3>1. i \in Entries(d) /\ pipe'[d] = pipe[d]
        BY <1>h, <1>e, <2>2
      <3>2. Cmd(d, i) = "begin" => st'[Who(d, i)] \notin Fresh
        BY <2>1, <2>2, <3>1
      <3> QED
        BY <1>a, <1>b, <3>1, <3>2 DEF PipeOK, EntryOK, Cmd, Who, Entries
    <2>3. ASSUME link[c] # "down", NEW i \in Entries(c)
          PROVE  EntryOK(c, i)'
      <3>0. Cmd(c, i)' = Cmd(c, i) /\ Who(c, i)' = Who(c, i) /\ Len(pipe[c]) > 0
            /\ \A j \in 1 .. i - 1 : j \in Entries(c) /\ Cmd(c, j)' = Cmd(c, j) /\ Who(c, j)' = Who(c, j)
        <4>1. i \in 1 .. Len(pipe[c]) /\ Len(pipe[c]) \in Nat
          BY <1>f, <2>3 DEF Entries
        <4>2. \A j \in 1 .. i - 1 : j \in 1 .. Len(pipe[c])
          BY <4>1
        <4>3. \A j \in 1 .. i - 1 : j \in Entries(c)
          BY <4>2 DEF Entries
        <4> QED
          BY <4>1, <4>3, <1>i, <2>3
      <3>1. pipe[c] # <<>>
        BY <3>0, <1>f
      <3>2. (Cmd(c, i) \in Stmt \cup Ender =>
                        /\ cur[c] = Who(c, i)
                        /\ \A j \in 1 .. i - 1 : Cmd(c, j) \in Stmt /\ Who(c, j) = Who(c, i))'
        BY <1>a, <1>b, <3>0 DEF PipeOK, EntryOK
      <3>3. (Cmd(c, i) \in {"guard", "begin"} => i = 1 /\ srv[c] = "none")'
        BY <1>a, <1>b, <3>0 DEF PipeOK, EntryOK
      <3>4. Cmd(c, i) \in Outside => Who(c, i) # t
        BY <1>k, <2>3, <3>1, Commands DEF Present
      <3>5. (Cmd(c, i) = "begin" => st[Who(c, i)] \notin Fresh)'
        <4>1. Cmd(c, i) = "begin" => st[Who(c, i)] \notin Fresh
          BY <1>a DEF PipeOK, EntryOK
        <4> QED
          BY <4>1, <3>0, <3>4, <1>b, <1>a DEF TypeOK, Outside
      <3>6. (Cmd(c, i) \in Outside =>
                        /\ work[Who(c, i)] = "none"
                        /\ \A j \in Entries(c) : j # i => Who(c, j) # Who(c, i))'
        <4>1. Cmd(c, i) \in Outside =>
                        /\ work[Who(c, i)] = "none"
                        /\ \A j \in Entries(c) : j # i => Who(c, j) # Who(c, i)
          BY <1>a DEF PipeOK, EntryOK
        <4> QED
          BY <4>1, <3>0, <3>4, <1>b, <1>i, <2>3
      <3> QED
        BY <3>2, <3>3, <3>5, <3>6 DEF EntryOK
    <2>4. ASSUME link[c] # "down", NEW i, i = n
          PROVE  EntryOK(c, i)'
      <3>0. Cmd(c, i)' = cmd /\ Who(c, i)' = t /\ 1 .. i - 1 = Entries(c)
        BY <1>i, <2>4
      <3>1. cmd \in Stmt \cup Ender => 
               /\ cur[c] = t /\ \A j \in Entries(c) : Cmd(c, j) \in Stmt /\ Who(c, j) = t
        <4>1. cmd \in Stmt \cup Ender => cur[c] = t /\ \A j \in Entries(c) : Cmd(c, j) \in Stmt
          BY <2>4, Commands DEF Outside
        <4>2. \A j \in Entries(c) : Cmd(c, j) \in Stmt => cur[c] = Who(c, j)
          BY <1>a DEF PipeOK, EntryOK
        <4> QED
          BY <4>1, <4>2
      <3>2. (Cmd(c, i) \in Stmt \cup Ender =>
                        /\ cur[c] = Who(c, i)
                        /\ \A j \in 1 .. i - 1 : Cmd(c, j) \in Stmt /\ Who(c, j) = Who(c, i))'
        <4>1. \A j \in 1 .. i - 1 : Cmd(c, j)' = Cmd(c, j) /\ Who(c, j)' = Who(c, j) /\ j \in Entries(c)
          BY <3>0, <1>i, <2>4
        <4>2. cmd \in Stmt \cup Ender =>
                 cur'[c] = t /\ \A j \in 1 .. i - 1 : Cmd(c, j)' \in Stmt /\ Who(c, j)' = t
          BY <3>1, <4>1, <1>b
        <4> QED
          BY <3>0, <4>2
      <3>3. cmd \in {"guard", "begin"} => pipe[c] = <<>> /\ srv[c] = "none" /\ work[t] = "none"
        BY <2>4, Commands DEF Outside
      <3>4. (Cmd(c, i) \in {"guard", "begin"} => i = 1 /\ srv[c] = "none")'
        BY <3>0, <3>3, <1>b, <1>n, <2>4
      <3>5. cmd = "begin" => s \notin Fresh
        BY <1>c DEF Fresh, CmdOf
      <3>6. (Cmd(c, i) = "begin" => st[Who(c, i)] \notin Fresh)'
        BY <3>0, <3>5, <1>d
      <3>7. cmd \in Outside => work[t] = "none" /\ \A j \in Entries(c) : Who(c, j) # t
        <4>1. CASE cmd = "discard"
          <5>1. st[t] = "new"
            BY <4>1, <2>4 DEF Stmt, Ender
          <5> QED
            BY <5>1, <1>k, <1>a DEF Present, OutcomeOK, OutcomeOf, Fresh
        <4>2. CASE cmd \in {"guard", "begin"}
          BY <4>2, <3>3 DEF Entries
        <4> QED
          BY <4>1, <4>2 DEF Outside
      <3>8. (Cmd(c, i) \in Outside =>
                        /\ work[Who(c, i)] = "none"
                        /\ \A j \in Entries(c) : j # i => Who(c, j) # Who(c, i))'
        BY <3>0, <3>7, <1>b, <1>i, <2>4
      <3> QED
        BY <3>2, <3>4, <3>6, <3>8 DEF EntryOK
    <2> QED
      BY <1>i, <2>2, <2>3, <2>4 DEF PipeOK
  <1>6. AwaitOK'
    <2> SUFFICES ASSUME NEW u \in Txn, on'[u] # NoConn
                 PROVE  AwaitOf(u, on[u])'
      BY DEF AwaitOK
    <2>1. CASE u # t
      <3>1. on'[u] = on[u] /\ st'[u] = st[u] /\ reply'[u] = reply[u] /\ on[u] \in Conn /\ on[u] # c
        BY <1>a, <1>d, <2>1 DEF TypeOK
      <3>2. link'[on[u]] = link[on[u]] /\ pipe'[on[u]] = pipe[on[u]]
        BY <1>e, <3>1
      <3>3. AwaitOf(u, on[u])
        BY <1>a, <2>1, <3>1, <1>c DEF AwaitOK
      <3>4. \A i \in Entries(on[u])' : i \in Entries(on[u]) /\ Cmd(on[u], i)' = Cmd(on[u], i)
        BY <3>1, <3>2 DEF Entries, Cmd
      <3>5. Inside(u)' <=> Inside(u)
        BY <3>1 DEF Inside
      <3> QED
        BY <1>b, <3>1, <3>2, <3>3, <3>4, <3>5 DEF AwaitOf
    <2>2. CASE u = t
      <3>1. link'[c] = "up" => link[c] # "down"
        OBVIOUS
      <3>2. s \in Operating \cup {"verify", "context", "commit", "rollback", "unverify", "uncontext"}
              => cmd \in Stmt \cup Ender
        BY DEF CmdOf, Operating, Stmt, Ender
      <3>3. link'[c] = "up" /\ Inside(t)' => cur'[c] = t
        BY <3>1, <3>2, <1>b, <1>c, <1>d, Commands DEF Inside, Outside
      <3>4. link'[c] = "up" => Len(pipe'[c]) > 0 /\ pipe'[c][Len(pipe'[c])] = <<CmdOf(s), t>>
        BY <3>1, <1>g, <1>f
      <3>5. link'[c] = "up" /\ s = "guard" => srv'[c] = "none"
        BY <3>1, <1>b DEF CmdOf, Stmt, Ender
      <3> QED
        BY <2>2, <1>c, <1>d, <3>3, <3>4, <3>5 DEF AwaitOf
    <2> QED
      BY <2>1, <2>2
  <1>7. FlagsOK'
    BY <1>a, <1>c, <1>d, <1>l DEF FlagsOK
  <1>8. OutcomeOK'
    <2> SUFFICES ASSUME NEW u \in Txn
                 PROVE  OutcomeOf(u)' /\ CommitSent(u)'
      BY DEF OutcomeOK
    <2>1. u = t => (st'[u] \in Fresh => work'[u] = "none") /\ work'[u] # "applied"
      BY <1>a, <1>b, <1>c, <1>d, <1>l DEF OutcomeOK, OutcomeOf, Fresh
    <2>2. ASSUME NEW d \in Conn, NEW i \in Entries(d)', Cmd(d, i)' = "commit", Who(d, i)' = u
          PROVE  st'[u] = "commit" \/ report'[u] \in {"unknown", "abandoned"}
      <3>1. CASE i \in Entries(d) /\ Cmd(d, i)' = Cmd(d, i) /\ Who(d, i)' = Who(d, i)
        <4>1. st[u] = "commit" \/ report[u] \in {"unknown", "abandoned"}
          BY <1>a, <2>2, <3>1 DEF OutcomeOK, CommitSent
        <4> QED
          BY <4>1, <1>d, <1>l
      <3>2. CASE d = c /\ i = n /\ link[c] # "down"
        <4>1. u = t /\ cmd = "commit"
          BY <2>2, <3>2, <1>i
        <4>2. s = "commit"
          BY <4>1 DEF CmdOf
        <4> QED
          BY <4>1, <4>2, <1>d
      <3> QED
        BY <3>1, <3>2, <2>2, <1>h, <1>i
    <2>3. u # t => OutcomeOf(u)'
      BY <1>a, <1>b, <1>d DEF OutcomeOK, OutcomeOf
    <2> QED
      BY <2>1, <2>2, <2>3, <1>d DEF OutcomeOf, CommitSent
  <1>9. CommittedIsApplied'
    BY <1>a, <1>b DEF CommittedIsApplied
  <1>10. PoolIsClean'
    BY <1>a, <1>b, <1>e DEF PoolIsClean, TypeOK
  <1> QED
    BY <1>1, <1>2, <1>3, <1>4, <1>5, <1>6, <1>7, <1>8, <1>9, <1>10 DEF IInv

\* Entries, owners and answers of a connection that a step leaves alone.
LEMMA SamePipe ==
  ASSUME NEW c, pipe'[c] = pipe[c]
  PROVE  /\ Entries(c)' = Entries(c)
         /\ \A i : Cmd(c, i)' = Cmd(c, i) /\ Who(c, i)' = Who(c, i)
  BY DEF Entries, Cmd, Who

\* Giving a connection up: with a report that fits what became of the writes,
\* and to the pool only when nothing is left on it or the call was dropped.
LEMMA ReleaseStep ==
  ASSUME IInv, NEW t \in Txn, NEW keep \in BOOLEAN, NEW r \in Report \ {"none"}, Release(t, keep, r),
         on[t] # NoConn, abandoned' \in SUBSET Conn, abandoned \subseteq abandoned',
         keep /\ link[on[t]] = "up" =>
            on[t] \in abandoned' \/ (srv[on[t]] = "none" /\ pipe[on[t]] = <<>>),
         work[t] = "applied" => r \in {"committed", "unknown", "abandoned"},
         r = "committed" /\ ~spoiled[t] => work[t] = "applied",
         \A c \in Conn : \A i \in Entries(c) :
            Cmd(c, i) = "commit" /\ Who(c, i) = t => r \in {"unknown", "abandoned"}
  PROVE  IInv'
  <1> USE PgTransactionAssumption
  <1>a. /\ TypeOK /\ OwnersOK /\ HomeOK /\ ServerOK /\ PipeOK /\ AwaitOK /\ FlagsOK /\ OutcomeOK
        /\ CommittedIsApplied /\ PoolIsClean
    BY DEF IInv
  <1>b. /\ st' = [st EXCEPT ![t] = "done"] /\ reply' = [reply EXCEPT ![t] = "none"]
        /\ report' = [report EXCEPT ![t] = r] /\ on' = [on EXCEPT ![t] = NoConn]
        /\ open' = [open EXCEPT ![t] = FALSE]
        /\ pipe' = pipe /\ srv' = srv /\ cur' = cur /\ work' = work /\ spoiled' = spoiled
        /\ reusable' = reusable /\ ops' = ops
    BY DEF Release, server
  <1>c. /\ on[t] \in Conn
        /\ \A u \in Txn : u # t => /\ st'[u] = st[u] /\ on'[u] = on[u] /\ reply'[u] = reply[u]
                                   /\ report'[u] = report[u] /\ open'[u] = open[u]
        /\ st'[t] = "done" /\ on'[t] = NoConn /\ reply'[t] = "none" /\ report'[t] = r /\ open'[t] = FALSE
    BY <1>a, <1>b DEF TypeOK
  <1>d. /\ link' \in [Conn -> {"unborn", "up", "down"}]
        /\ \A d \in Conn : d # on[t] => link'[d] = link[d]
        /\ link'[on[t]] # "unborn"
        /\ \A d \in idle' : d \in idle \/ (d = on[t] /\ keep /\ link[on[t]] = "up")
        /\ idle' \in SUBSET Conn
    <2>1. CASE keep /\ link[on[t]] = "up"
      BY <2>1, <1>a, <1>c DEF Release, TypeOK
    <2>2. CASE ~(keep /\ link[on[t]] = "up")
      <3>1. link' = [link EXCEPT ![on[t]] = "down"] /\ idle' = idle
        BY <2>2, Zenon DEF Release
      <3> QED
        BY <3>1, <1>a, <1>c DEF TypeOK
    <2> QED
      BY <2>1, <2>2
  <1>e. \A d : /\ Entries(d)' = Entries(d)
               /\ \A i : Cmd(d, i)' = Cmd(d, i) /\ Who(d, i)' = Who(d, i)
    BY <1>b, SamePipe
  <1>f. \A u \in Txn, d \in Conn : Present(u, d)' <=> Present(u, d)
    BY <1>b, <1>e DEF Present
  <1>1. TypeOK'
    BY <1>a, <1>b, <1>d DEF TypeOK
  <1>2. OwnersOK'
    <2>1. (\A u \in Txn : on[u] = NoConn <=> st[u] \in {"new", "done"})'
      BY <1>a, <1>c DEF OwnersOK
    <2>2. (\A u, v \in Txn : on[u] # NoConn /\ on[u] = on[v] => u = v)'
      BY <1>a, <1>c DEF OwnersOK
    <2>3. (\A u \in Txn : on[u] # NoConn => on[u] \notin idle /\ link[on[u]] # "unborn")'
      <3> SUFFICES ASSUME NEW u \in Txn, on'[u] # NoConn
                   PROVE  on'[u] \notin idle' /\ link'[on'[u]] # "unborn"
        OBVIOUS
      <3>1. u # t /\ on'[u] = on[u] /\ on[u] # on[t] /\ on[u] \in Conn
        BY <1>a, <1>c DEF OwnersOK, TypeOK
      <3>2. on[u] \notin idle /\ link[on[u]] # "unborn"
        BY <1>a, <3>1 DEF OwnersOK
      <3> QED
        BY <1>d, <3>1, <3>2
    <2>4. (\A d \in idle : link[d] # "unborn")'
      BY <1>a, <1>d DEF OwnersOK
    <2>5. (\A d \in Conn : link[d] = "unborn" => pipe[d] = <<>> /\ srv[d] = "none")'
      BY <1>a, <1>b, <1>d DEF OwnersOK
    <2> QED
      BY <2>1, <2>2, <2>3, <2>4, <2>5 DEF OwnersOK
  <1>3. HomeOK'
    BY <1>a, <1>c, <1>f DEF HomeOK
  <1>4. ServerOK'
    BY <1>a, <1>b DEF ServerOK
  <1>5. PipeOK'
    <2> SUFFICES ASSUME NEW d \in Conn, NEW i \in Entries(d) PROVE EntryOK(d, i)'
      BY <1>e DEF PipeOK
    <2>1. EntryOK(d, i)
      BY <1>a DEF PipeOK
    <2>2. st[Who(d, i)] \notin Fresh => st'[Who(d, i)] \notin Fresh
      BY <1>a, <1>b DEF Fresh, TypeOK
    <2> QED
      BY <2>1, <2>2, <1>b, <1>e DEF EntryOK
  <1>6. AwaitOK'
    <2> SUFFICES ASSUME NEW u \in Txn, on'[u] # NoConn PROVE AwaitOf(u, on[u])'
      BY DEF AwaitOK
    <2>1. u # t /\ on'[u] = on[u] /\ on[u] # on[t] /\ on[u] \in Conn
      BY <1>a, <1>c DEF OwnersOK, TypeOK
    <2>2. st'[u] = st[u] /\ reply'[u] = reply[u] /\ link'[on[u]] = link[on[u]]
      BY <1>c, <1>d, <2>1
    <2>3. AwaitOf(u, on[u])
      BY <1>a, <2>1 DEF AwaitOK
    <2>4. Inside(u)' <=> Inside(u)
      BY <2>2 DEF Inside
    <2> QED
      BY <1>b, <1>e, <2>1, <2>2, <2>3, <2>4 DEF AwaitOf
  <1>7. FlagsOK'
    BY <1>a, <1>b, <1>c DEF FlagsOK, Operating
  <1>8. OutcomeOK'
    <2> SUFFICES ASSUME NEW u \in Txn PROVE OutcomeOf(u)' /\ CommitSent(u)'
      BY DEF OutcomeOK
    <2>1. OutcomeOf(u) /\ CommitSent(u)
      BY <1>a DEF OutcomeOK
    <2>2. CASE u = t
      BY <2>2, <1>b, <1>c, <1>e DEF OutcomeOf, CommitSent, Fresh
    <2>3. CASE u # t
      BY <2>1, <2>3, <1>b, <1>c, <1>e DEF OutcomeOf, CommitSent
    <2> QED
      BY <2>2, <2>3
  <1>9. CommittedIsApplied'
    BY <1>a, <1>b, <1>c DEF CommittedIsApplied
  <1>10. PoolIsClean'
    BY <1>a, <1>b, <1>d DEF PoolIsClean
  <1> QED
    BY <1>1, <1>2, <1>3, <1>4, <1>5, <1>6, <1>7, <1>8, <1>9, <1>10 DEF IInv

\* The transaction is ready for its next operation: the one it awaited is
\* answered, interrupted or dropped, or it has just been opened.
LEMMA ResumeStep ==
  ASSUME IInv, NEW t \in Txn, Resume(t, "ready"),
         st[t] \in Operating \/ (st[t] \in {"begin", "verify", "context"} /\ reply[t] = "ok"),
         open' \in [Txn -> BOOLEAN], reusable' \in [Txn -> BOOLEAN],
         \A u \in Txn : u # t => open'[u] = open[u] /\ reusable'[u] = reusable[u],
         open'[t] \/ ~reusable'[t]
  PROVE  IInv'
  <1> USE PgTransactionAssumption
  <1>a. /\ TypeOK /\ OwnersOK /\ HomeOK /\ ServerOK /\ PipeOK /\ AwaitOK /\ FlagsOK /\ OutcomeOK
        /\ CommittedIsApplied /\ PoolIsClean
    BY DEF IInv
  <1>b. /\ st' = [st EXCEPT ![t] = "ready"] /\ reply' = [reply EXCEPT ![t] = "none"]
        /\ pipe' = pipe /\ srv' = srv /\ cur' = cur /\ work' = work /\ spoiled' = spoiled
        /\ link' = link /\ idle' = idle /\ abandoned' = abandoned
        /\ on' = on /\ ops' = ops /\ report' = report
    BY DEF Resume, server, pool
  <1>c. /\ \A u \in Txn : u # t => st'[u] = st[u] /\ reply'[u] = reply[u]
        /\ st'[t] = "ready" /\ reply'[t] = "none"
        /\ st[t] \in Waiting /\ st[t] \notin Fresh \cup {"ready", "done", "commit"}
    BY <1>a, <1>b DEF TypeOK, Operating, Waiting, Opening, Fresh
  <1>d. on[t] \in Conn /\ on[t] # NoConn /\ report[t] = "none"
    BY <1>a, <1>c DEF OwnersOK, TypeOK, FlagsOK, Fresh
  <1>e. \A d : /\ Entries(d)' = Entries(d)
               /\ \A i : Cmd(d, i)' = Cmd(d, i) /\ Who(d, i)' = Who(d, i)
    BY <1>b, SamePipe
  <1>f. \A u \in Txn, d \in Conn : Present(u, d)' <=> Present(u, d)
    BY <1>b, <1>e DEF Present
  <1>1. TypeOK'
    BY <1>a, <1>b DEF TypeOK
  <1>2. OwnersOK'
    BY <1>a, <1>b, <1>c, <1>d DEF OwnersOK
  <1>3. HomeOK'
    BY <1>a, <1>b, <1>c, <1>f DEF HomeOK
  <1>4. ServerOK'
    BY <1>a, <1>b DEF ServerOK
  <1>5. PipeOK'
    <2> SUFFICES ASSUME NEW d \in Conn, NEW i \in Entries(d) PROVE EntryOK(d, i)'
      BY <1>e DEF PipeOK
    <2>1. EntryOK(d, i)
      BY <1>a DEF PipeOK
    <2>2. st[Who(d, i)] \notin Fresh => st'[Who(d, i)] \notin Fresh
      BY <1>a, <1>b DEF Fresh, TypeOK
    <2> QED
      BY <2>1, <2>2, <1>b, <1>e DEF EntryOK
  <1>6. AwaitOK'
    <2> SUFFICES ASSUME NEW u \in Txn, on[u] # NoConn PROVE AwaitOf(u, on[u])'
      BY <1>b DEF AwaitOK
    <2>1. AwaitOf(u, on[u])
      BY <1>a DEF AwaitOK
    <2>2. CASE u # t
      <3>1. Inside(u)' <=> Inside(u)
        BY <2>2, <1>c DEF Inside
      <3> QED
        BY <2>1, <2>2, <3>1, <1>b, <1>c, <1>e DEF AwaitOf
    <2>3. CASE u = t
      <3>1. link[on[t]] = "up" => cur[on[t]] = t
        BY <2>1, <2>3 DEF AwaitOf, Inside
      <3>2. ASSUME link[on[t]] = "up", NEW i \in Entries(on[t]) PROVE Cmd(on[t], i) \in Stmt
        <4>1. CASE reply[t] # "none"
          BY <4>1, <2>1, <2>3, <3>2 DEF AwaitOf, Entries
        <4>2. CASE reply[t] = "none"
          <5> DEFINE c == on[t]
          <5> DEFINE n == Len(pipe[c])
          <5>1. n > 0 /\ pipe[c][n] = <<CmdOf(st[t]), t>>
            BY <4>2, <2>1, <2>3, <3>2, <1>c DEF AwaitOf
          <5>2. n \in Nat /\ n \in Entries(c) /\ i \in 1 .. n
            BY <5>1, <1>a, <1>d, <3>2 DEF TypeOK, Entries
          <5>3. Cmd(c, n) = CmdOf(st[t]) /\ CmdOf(st[t]) \in Stmt
            <6>1. CmdOf(st[t]) \in Stmt
              BY <4>2 DEF CmdOf, Stmt, Operating
            <6> QED
              BY <6>1, <5>1 DEF Cmd
          <5>4. EntryOK(c, n)
            BY <5>2, <1>a, <1>d DEF PipeOK
          <5>5. i = n \/ i \in 1 .. n - 1
            BY <5>2
          <5> HIDE DEF n, c
          <5>6. Cmd(c, i) \in Stmt
            BY <5>3, <5>4, <5>5 DEF EntryOK
          <5> QED
            BY <5>6 DEF c
        <4> QED
          BY <4>1, <4>2
      <3> QED
        BY <2>3, <3>1, <3>2, <1>b, <1>c, <1>e DEF AwaitOf, Waiting, Opening, Operating
    <2> QED
      BY <2>2, <2>3
  <1>7. FlagsOK'
    BY <1>a, <1>b, <1>c, <1>d DEF FlagsOK
  <1>8. OutcomeOK'
    <2> SUFFICES ASSUME NEW u \in Txn PROVE OutcomeOf(u)' /\ CommitSent(u)'
      BY DEF OutcomeOK
    <2>1. OutcomeOf(u) /\ CommitSent(u)
      BY <1>a DEF OutcomeOK
    <2>2. CASE u = t
      BY <2>1, <2>2, <1>b, <1>c, <1>d, <1>e DEF OutcomeOf, CommitSent, Fresh
    <2>3. CASE u # t
      BY <2>1, <2>3, <1>b, <1>c, <1>e DEF OutcomeOf, CommitSent
    <2> QED
      BY <2>2, <2>3
  <1>9. CommittedIsApplied'
    BY <1>a, <1>b DEF CommittedIsApplied
  <1>10. PoolIsClean'
    BY <1>a, <1>b DEF PoolIsClean
  <1> QED
    BY <1>1, <1>2, <1>3, <1>4, <1>5, <1>6, <1>7, <1>8, <1>9, <1>10 DEF IInv

-----------------------------------------------------------------------------
(* The steps of the server and of the network.                             *)

\* What processing the command cmd of t does, when it is one of n on its way.
Takes(c, cmd, t, n) ==
    \E o \in Served(cmd, srv[c], work[t]) :
        /\ srv' = [srv EXCEPT ![c] = o.srv]
        /\ cur' = [cur EXCEPT ![c] = CASE o.srv = "none" -> NoTxn
                                       [] o.srv # "none" /\ srv[c] = "none" -> t
                                       [] OTHER -> @]
        /\ work' = [work EXCEPT ![t] = o.work]
        /\ spoiled' = [spoiled EXCEPT ![t] = @ \/ (cmd = "commit" /\ srv[c] = "aborted")]
        /\ reply' = IF link[c] = "up" /\ on[t] = c /\ n = 1 /\ st[t] \in Waiting
                    THEN [reply EXCEPT ![t] = o.answer] ELSE reply

\* The server takes the next command: what it does depends on what the
\* invariant says of the first entry; the entries behind it move up.
LEMMA ProcessStep ==
  ASSUME IInv, NEW c \in Conn, Process(c)
  PROVE  IInv'
  <1> USE PgTransactionAssumption
  <1>a. /\ TypeOK /\ OwnersOK /\ HomeOK /\ ServerOK /\ PipeOK /\ AwaitOK /\ FlagsOK /\ OutcomeOK
        /\ CommittedIsApplied /\ PoolIsClean
    BY DEF IInv
  <1>b. /\ link' = link /\ idle' = idle /\ abandoned' = abandoned /\ st' = st /\ on' = on
        /\ open' = open /\ reusable' = reusable /\ ops' = ops /\ report' = report
        /\ pipe' = [pipe EXCEPT ![c] = Tail(pipe[c])] /\ pipe[c] # <<>>
    BY DEF Process, pool
  <1>n. PICK n : n = Len(pipe[c])
    OBVIOUS
  <1>c. /\ pipe[c] \in Seq(Command \X Txn) /\ n \in Nat /\ n > 0 /\ Head(pipe[c]) = pipe[c][1]
        /\ pipe[c][1] \in Command \X Txn /\ pipe'[c] = Tail(pipe[c])
        /\ pipe'[c] \in Seq(Command \X Txn) /\ Len(pipe'[c]) = n - 1
        /\ \A i \in 1 .. n - 1 : pipe'[c][i] = pipe[c][i + 1]
        /\ n = 1 => pipe'[c] = <<>>
        /\ \A d \in Conn : d # c => pipe'[d] = pipe[d]
    <2>1. pipe[c] \in Seq(Command \X Txn) /\ pipe'[c] = Tail(pipe[c])
      BY <1>a, <1>b DEF TypeOK
    <2>2. \A d \in Conn : d # c => pipe'[d] = pipe[d]
      BY <1>a, <1>b DEF TypeOK
    <2>3. /\ Len(pipe[c]) \in Nat /\ Len(pipe[c]) > 0 /\ Head(pipe[c]) = pipe[c][1]
          /\ pipe[c][1] \in Command \X Txn
          /\ Tail(pipe[c]) \in Seq(Command \X Txn) /\ Len(Tail(pipe[c])) = Len(pipe[c]) - 1
          /\ \A i \in 1 .. Len(pipe[c]) - 1 : Tail(pipe[c])[i] = pipe[c][i + 1]
          /\ Len(pipe[c]) = 1 => Tail(pipe[c]) = <<>>
      <3> HIDE DEF Command
      <3> QED
        BY <2>1, <1>b, TailFacts
    <2> QED
      BY <1>n, <2>1, <2>2, <2>3
  <1>d. PICK cmd \in Command, t \in Txn : pipe[c][1] = <<cmd, t>>
    BY <1>c
  <1>A. PICK A \in BOOLEAN : A <=> link[c] = "up" /\ on[t] = c /\ n = 1 /\ st[t] \in Waiting
    OBVIOUS
  <1>e. PICK o \in Served(cmd, srv[c], work[t]) :
           /\ srv' = [srv EXCEPT ![c] = o.srv]
           /\ cur' = [cur EXCEPT ![c] = CASE o.srv = "none" -> NoTxn
                                          [] o.srv # "none" /\ srv[c] = "none" -> t
                                          [] OTHER -> @]
           /\ work' = [work EXCEPT ![t] = o.work]
           /\ spoiled' = [spoiled EXCEPT ![t] = @ \/ (cmd = "commit" /\ srv[c] = "aborted")]
           /\ reply' = IF A THEN [reply EXCEPT ![t] = o.answer] ELSE reply
    <2>1. Head(pipe[c])[1] = cmd /\ Head(pipe[c])[2] = t /\ Len(pipe[c]) = n
      BY <1>c, <1>d, <1>n
    <2>2. Takes(c, Head(pipe[c])[1], Head(pipe[c])[2], Len(pipe[c]))
      BY DEF Process, Takes
    <2>3. Takes(c, cmd, t, n)
      BY <2>1, <2>2
    <2>4. CASE A
      BY <2>3, <2>4, <1>A, Zenon DEF Takes
    <2>5. CASE ~A
      BY <2>3, <2>5, <1>A, Zenon DEF Takes
    <2> QED
      BY <2>4, <2>5
  <1>f. srv[c] \in {"none", "open", "aborted"} /\ work[t] \in {"none", "pending", "applied", "discarded"}
    BY <1>a DEF TypeOK
  <1>g. /\ o.srv \in {"none", "open", "aborted"} /\ o.answer \in {"ok", "error", "proven"}
        /\ o.work \in {"none", "pending", "applied", "discarded"}
    BY <1>f, ServedFacts
  <1>h. /\ \A d \in Conn : d # c => srv'[d] = srv[d] /\ cur'[d] = cur[d]
        /\ srv'[c] = o.srv
        /\ o.srv = "none" => cur'[c] = NoTxn
        /\ o.srv # "none" /\ srv[c] = "none" => cur'[c] = t
        /\ o.srv # "none" /\ srv[c] # "none" => cur'[c] = cur[c]
    BY <1>a, <1>e DEF TypeOK
  <1>i. /\ \A u \in Txn : u # t => work'[u] = work[u] /\ reply'[u] = reply[u]
        /\ work'[t] = o.work
        /\ A => reply'[t] = o.answer
        /\ ~A => reply'[t] = reply[t]
    BY <1>a, <1>e DEF TypeOK
  <1>j. /\ \A u \in Txn : u # t => spoiled'[u] = spoiled[u]
        /\ spoiled'[t] <=> spoiled[t] \/ (cmd = "commit" /\ srv[c] = "aborted")
    BY <1>a, <1>e DEF TypeOK
  <1>k. /\ Entries(c) = 1 .. n /\ Entries(c)' = 1 .. n - 1 /\ 1 \in Entries(c) /\ n \in Entries(c)
        /\ Cmd(c, 1) = cmd /\ Who(c, 1) = t
        /\ \A i \in Entries(c)' : i + 1 \in Entries(c) /\ Cmd(c, i)' = Cmd(c, i + 1) /\ Who(c, i)' = Who(c, i + 1)
        /\ \A d \in Conn : d # c =>
              /\ Entries(d)' = Entries(d)
              /\ \A i : Cmd(d, i)' = Cmd(d, i) /\ Who(d, i)' = Who(d, i)
    <2>1. Entries(c) = 1 .. n /\ Entries(c)' = 1 .. n - 1 /\ 1 \in Entries(c) /\ n \in Entries(c)
      BY <1>c, <1>n DEF Entries
    <2>2. Cmd(c, 1) = cmd /\ Who(c, 1) = t
      BY <1>d DEF Cmd, Who
    <2>3. ASSUME NEW i \in Entries(c)'
          PROVE  i + 1 \in Entries(c) /\ Cmd(c, i)' = Cmd(c, i + 1) /\ Who(c, i)' = Who(c, i + 1)
      BY <2>1, <2>3, <1>c DEF Cmd, Who
    <2> QED
      BY <2>1, <2>2, <2>3, <1>c, SamePipe
  <1>l. EntryOK(c, 1)
    BY <1>a, <1>k DEF PipeOK
  <1>m. Present(t, c) /\ st[t] # "new" /\ (on[t] = c \/ st[t] = "done")
        /\ \A d \in Conn : Present(t, d) => d = c
    BY <1>a, <1>k DEF HomeOK, Present
  <1>o. on[t] = c => reply[t] = "none"
    BY <1>a, <1>b DEF AwaitOK, AwaitOf
  <1>p. NoTxn # t /\ (cur[c] = NoTxn <=> srv[c] = "none") /\ (cur[c] = t => work[t] = "pending")
    BY <1>a DEF ServerOK
  \* The cases of the first entry.
  <1>S. cmd \in Stmt => /\ cur[c] = t /\ work[t] = "pending" /\ srv[c] # "none" /\ srv'[c] # "none"
                        /\ cur'[c] = t /\ work'[t] = work[t]
    <2>1. cmd \in Stmt => cur[c] = t /\ work[t] = "pending" /\ srv[c] # "none"
      BY <1>l, <1>k, <1>p DEF EntryOK
    <2>2. cmd \in Stmt /\ srv[c] # "none" => o.srv # "none" /\ o.work = work[t]
      BY <1>f, ServedFacts
    <2> QED
      BY <2>1, <2>2, <1>h, <1>i
  <1>E. cmd \in Ender => /\ cur[c] = t /\ work[t] = "pending" /\ srv[c] # "none" /\ srv'[c] = "none"
                         /\ cur'[c] = NoTxn
    <2>1. cmd \in Ender => cur[c] = t /\ work[t] = "pending" /\ srv[c] # "none"
      BY <1>l, <1>k, <1>p DEF EntryOK
    <2>2. cmd \in Ender /\ srv[c] # "none" => o.srv = "none"
      BY <1>f, ServedFacts DEF Ender
    <2> QED
      BY <2>1, <2>2, <1>h
  <1>D. cmd \in {"discard", "guard"} => /\ work'[t] = work[t] /\ work[t] = "none" /\ cur'[c] = cur[c]
                                        /\ srv'[c] = "none" <=> srv[c] = "none"
    <2>1. cmd \in {"discard", "guard"} => work[t] = "none" /\ (cmd = "guard" => srv[c] = "none")
      BY <1>l, <1>k DEF EntryOK, Outside
    <2>2. cmd \in {"discard", "guard"} => o.work = work[t] /\ (o.srv = "none" <=> srv[c] = "none")
      BY <2>1, <1>f, ServedFacts
    <2> QED
      BY <2>1, <2>2, <1>h, <1>i, <1>p
  <1>B. cmd = "begin" => /\ srv[c] = "none" /\ work[t] = "none" /\ st[t] \notin Fresh
                         /\ \/ srv'[c] # "none" /\ cur'[c] = t /\ work'[t] = "pending"
                            \/ srv'[c] = "none" /\ cur'[c] = NoTxn /\ work'[t] = "none" /\ o.answer # "ok"
    <2>1. cmd = "begin" => srv[c] = "none" /\ work[t] = "none" /\ st[t] \notin Fresh
      BY <1>l, <1>k DEF EntryOK, Outside
    <2>2. cmd = "begin" /\ srv[c] = "none" =>
               \/ o.srv # "none" /\ o.work = "pending"
               \/ o.srv = "none" /\ o.work = work[t] /\ o.answer # "ok"
      BY <1>f, ServedFacts
    <2> QED
      BY <2>1, <2>2, <1>h, <1>i
  <1>C. cmd \in Stmt \/ cmd \in Ender \/ cmd \in {"discard", "guard"} \/ cmd = "begin"
    BY Commands DEF Outside
  \* What stands behind the first entry.
  <1>q. ASSUME NEW i \in Entries(c), i > 1
        PROVE  /\ Cmd(c, i) \in Stmt \cup Ender => cmd \in Stmt
               /\ Cmd(c, i) \notin {"guard", "begin"}
               /\ Cmd(c, i) \in Outside => Who(c, i) # t
    <2>1. EntryOK(c, i) /\ 1 \in 1 .. i - 1
      BY <1>a, <1>k, <1>q DEF PipeOK
    <2> QED
      BY <2>1, <1>k, <1>q DEF EntryOK
  <1>r. \A u \in Txn, d \in Conn : Present(u, d)' => Present(u, d)
    <2> SUFFICES ASSUME NEW u \in Txn, NEW d \in Conn, Present(u, d)' PROVE Present(u, d)
      OBVIOUS
    <2>1. CASE d # c
      BY <2>1, <1>h, <1>k DEF Present
    <2>2. CASE d = c /\ cur'[c] = u
      BY <2>2, <1>h, <1>m, <1>g DEF Present
    <2>3. CASE d = c /\ \E i \in Entries(c)' : Who(c, i)' = u
      BY <2>3, <1>k DEF Present
    <2> QED
      BY <2>1, <2>2, <2>3 DEF Present
  <1>1. TypeOK'
    <2>1. /\ srv' \in [Conn -> {"none", "open", "aborted"}]
          /\ work' \in [Txn -> {"none", "pending", "applied", "discarded"}]
          /\ spoiled' \in [Txn -> BOOLEAN]
          /\ reply' \in [Txn -> {"none", "ok", "error", "proven"}]
      BY <1>a, <1>e, <1>g DEF TypeOK
    <2>2. pipe' \in [Conn -> Seq(Command \X Txn)]
      BY <1>a, <1>b, <1>c DEF TypeOK
    <2>3. cur' \in [Conn -> Txn \cup {NoTxn}]
      BY <1>a, <1>e DEF TypeOK
    <2> QED
      BY <2>1, <2>2, <2>3, <1>a, <1>b DEF TypeOK
  <1>2. OwnersOK'
    BY <1>a, <1>b, <1>c, <1>h DEF OwnersOK
  <1>3. HomeOK'
    BY <1>a, <1>b, <1>r DEF HomeOK
  <1>4. ServerOK'
    <2> SUFFICES ASSUME NEW d \in Conn
                 PROVE  /\ cur'[d] = NoTxn <=> srv'[d] = "none"
                        /\ \A u \in Txn : cur'[d] = u => work'[u] = "pending"
      BY DEF ServerOK
    <2>1. CASE d # c
      <3>1. cur[d] # t
        BY <1>m, <2>1 DEF Present
      <3> QED
        BY <2>1, <3>1, <1>a, <1>h, <1>i DEF ServerOK
    <2>2. CASE d = c
      <3>1. cur'[c] = NoTxn <=> srv'[c] = "none"
        BY <1>C, <1>S, <1>E, <1>D, <1>B, <1>p
      <3>2. ASSUME NEW u \in Txn, cur'[c] = u PROVE work'[u] = "pending"
        <4>1. cur[c] = u => work[u] = "pending"
          BY <1>a DEF ServerOK
        <4>2. NoTxn # u
          OBVIOUS
        <4> QED
          BY <3>2, <4>1, <4>2, <1>C, <1>S, <1>E, <1>D, <1>B, <1>i
      <3> QED
        BY <2>2, <3>1, <3>2
    <2> QED
      BY <2>1, <2>2
  <1>5. PipeOK'
    <2> SUFFICES ASSUME NEW d \in Conn, NEW i \in Entries(d)' PROVE EntryOK(d, i)'
      BY DEF PipeOK
    <2>1. CASE d # c
      <3>1. i \in Entries(d) /\ EntryOK(d, i) /\ Who(d, i) # t
        BY <2>1, <1>a, <1>k, <1>m DEF PipeOK, Present
      <3>2. work'[Who(d, i)] = work[Who(d, i)]
        BY <3>1, <1>a, <1>e DEF TypeOK
      <3> QED
        BY <2>1, <3>1, <3>2, <1>b, <1>h, <1>k DEF EntryOK
    <2>2. CASE d = c
      <3>0. PICK k : k = i + 1
        OBVIOUS
      <3>1. /\ i \in Nat /\ i \in 1 .. n - 1 /\ k \in Entries(c) /\ k > 1 /\ EntryOK(c, k)
            /\ Cmd(c, i)' = Cmd(c, k) /\ Who(c, i)' = Who(c, k)
        BY <2>2, <3>0, <1>a, <1>k, <1>c DEF PipeOK
      <3>2. Cmd(c, k) \in Command
        BY <3>1, <1>a, <1>c, <1>k, <1>n DEF Cmd
      <3>3. CASE Cmd(c, k) \in Stmt \cup Ender
        <4>1. cur[c] = Who(c, k) /\ \A j \in 1 .. k - 1 : Cmd(c, j) \in Stmt /\ Who(c, j) = Who(c, k)
          BY <3>1, <3>3 DEF EntryOK
        <4>2. cur'[c] = cur[c]
          BY <3>1, <3>3, <1>q, <1>S
        <4>3. ASSUME NEW j \in 1 .. i - 1
              PROVE  Cmd(c, j)' \in Stmt /\ Who(c, j)' = Who(c, k)
          <5>1. j \in Entries(c)' /\ j + 1 \in 1 .. k - 1
            BY <3>0, <3>1, <4>3, <1>k, <1>c
          <5> QED
            BY <5>1, <4>1, <1>k
        <4> QED
          BY <2>2, <3>1, <3>3, <4>1, <4>2, <4>3, Commands DEF EntryOK, Outside
      <3>4. CASE Cmd(c, k) = "discard"
        <4>1. work[Who(c, k)] = "none" /\ Who(c, k) # t
              /\ \A j \in Entries(c) : j # k => Who(c, j) # Who(c, k)
          BY <3>1, <3>4, <1>q DEF EntryOK, Outside
        <4>2. work'[Who(c, k)] = "none"
          BY <4>1, <1>a, <1>e DEF TypeOK
        <4>3. ASSUME NEW j \in Entries(c)', j # i PROVE Who(c, j)' # Who(c, i)'
          <5>1. j + 1 \in Entries(c) /\ j + 1 # k /\ Who(c, j)' = Who(c, j + 1)
            BY <3>0, <3>1, <4>3, <1>k, <1>c
          <5> QED
            BY <5>1, <4>1, <3>1
        <4> QED
          BY <2>2, <3>1, <3>4, <4>2, <4>3 DEF EntryOK, Stmt, Ender
      <3> QED
        BY <3>1, <3>2, <3>3, <3>4, <1>q, Commands DEF Outside
    <2> QED
      BY <2>1, <2>2
  <1>6. AwaitOK'
    <2> SUFFICES ASSUME NEW u \in Txn, on[u] # NoConn PROVE AwaitOf(u, on[u])'
      BY <1>b DEF AwaitOK
    <2>a. AwaitOf(u, on[u]) /\ on[u] \in Conn
      BY <1>a DEF AwaitOK, TypeOK
    <2>b. on[u] # c => u # t
      <3>1. st[u] # "done"
        BY <1>a DEF OwnersOK
      <3> QED
        BY <3>1, <1>m
    <2>1. CASE on[u] # c
      <3>1. reply'[u] = reply[u] /\ pipe'[on[u]] = pipe[on[u]] /\ cur'[on[u]] = cur[on[u]]
            /\ srv'[on[u]] = srv[on[u]]
        BY <2>1, <2>a, <2>b, <1>c, <1>h, <1>i
      <3>2. Inside(u)' <=> Inside(u)
        BY <3>1, <1>b DEF Inside
      <3> QED
        BY <2>a, <2>1, <3>1, <3>2, <1>b, <1>k DEF AwaitOf
    <2>2. CASE on[u] = c
      <3>0. AwaitOf(u, c) /\ reply[u] = "none"
        BY <2>a, <2>2, <1>b DEF AwaitOf
      <3> SUFFICES /\ reply'[u] # "none" => st[u] \in Waiting /\ pipe'[c] = <<>>
                   /\ link[c] = "up" =>
                        /\ Inside(u)' => cur'[c] = u
                        /\ st[u] \in Waiting /\ reply'[u] = "none" =>
                              Len(pipe'[c]) > 0 /\ pipe'[c][Len(pipe'[c])] = <<CmdOf(st[u]), u>>
                        /\ st[u] = "ready" => \A i \in Entries(c)' : Cmd(c, i)' \in Stmt
                        /\ st[u] = "discard" /\ reply'[u] = "ok" => srv'[c] = "none"
                        /\ st[u] = "guard" => srv'[c] = "none"
                        /\ st[u] = "begin" /\ reply'[u] = "ok" => cur'[c] = u
                        /\ st[u] \in {"commit", "rollback", "unverify"} /\ reply'[u] # "none" => srv'[c] = "none"
        BY <2>2, <1>b DEF AwaitOf
      <3>1. reply'[u] # "none" => A /\ u = t
        BY <3>0, <1>i
      <3>2. reply'[u] # "none" => st[u] \in Waiting /\ pipe'[c] = <<>>
        BY <3>1, <1>A, <1>c
      <3> SUFFICES ASSUME link[c] = "up"
                   PROVE  /\ Inside(u)' => cur'[c] = u
                          /\ st[u] \in Waiting /\ reply'[u] = "none" =>
                                Len(pipe'[c]) > 0 /\ pipe'[c][Len(pipe'[c])] = <<CmdOf(st[u]), u>>
                          /\ st[u] = "ready" => \A i \in Entries(c)' : Cmd(c, i)' \in Stmt
                          /\ st[u] = "discard" /\ reply'[u] = "ok" => srv'[c] = "none"
                          /\ st[u] = "guard" => srv'[c] = "none"
                          /\ st[u] = "begin" /\ reply'[u] = "ok" => cur'[c] = u
                          /\ st[u] \in {"commit", "rollback", "unverify"} /\ reply'[u] # "none" => srv'[c] = "none"
        BY <3>2
      <3>a. /\ Inside(u) => cur[c] = u
            /\ st[u] \in Waiting => pipe[c][n] = <<CmdOf(st[u]), u>>
            /\ st[u] = "ready" => \A i \in Entries(c) : Cmd(c, i) \in Stmt
            /\ st[u] = "guard" => srv[c] = "none"
        BY <3>0, <1>n DEF AwaitOf
      <3>b. st[u] \in Waiting => Cmd(c, n) = CmdOf(st[u]) /\ Who(c, n) = u
        BY <3>a DEF Cmd, Who
      <3>c. A /\ u = t => st[u] \in Waiting /\ n = 1 /\ cmd = CmdOf(st[u])
        BY <3>b, <1>A, <1>k
      <3>d. st[u] \in Waiting /\ ~(A /\ u = t) => n > 1
        <4>1. st[u] \in Waiting /\ n = 1 => u = t
          BY <3>b, <1>k
        <4> QED
          BY <4>1, <2>2, <1>A, <1>c
      <3>3. Inside(u)' => Inside(u)
        BY <3>0, <1>b DEF Inside
      <3>4. Inside(u) => st[u] = "ready" \/ st[u] \in Waiting
        BY DEF Inside, Waiting, Opening
      <3>5. Inside(u)' => cur'[c] = u
        <4> SUFFICES ASSUME Inside(u)', Inside(u), cur[c] = u PROVE cur'[c] = u
          BY <3>3, <3>a
        <4>1. CASE cmd \in Ender
          <5>1. u = t
            BY <4>1, <1>E
          <5>2. st[u] # "ready"
            BY <4>1, <3>a, <1>k, Commands
          <5>3. ~A
            <6> SUFFICES ASSUME A PROVE FALSE
              OBVIOUS
            <6>1. cmd = CmdOf(st[u]) /\ reply'[u] # "none"
              BY <3>c, <5>1, <1>i, <1>g
            <6>2. st[u] \in Operating \cup {"ready", "verify", "context"}
              BY <6>1, <1>b DEF Inside
            <6> QED
              BY <6>1, <6>2, <5>2, <4>1 DEF CmdOf, Operating, Ender
          <5>4. n > 1 /\ Cmd(c, n) = CmdOf(st[u]) /\ Who(c, n) = t /\ CmdOf(st[u]) \in Command
            <6>1. n > 1 /\ Cmd(c, n) = CmdOf(st[u]) /\ Who(c, n) = t
              BY <3>4, <3>b, <3>d, <5>1, <5>2, <5>3
            <6> QED
              BY <6>1, <1>c, <1>n DEF Cmd
          <5> QED
            BY <5>4, <4>1, <1>q, <1>k, Commands
        <4>2. CASE cmd \notin Ender
          BY <4>2, <1>C, <1>S, <1>D, <1>B, <1>p
        <4> QED
          BY <4>1, <4>2
      <3>6. st[u] \in Waiting /\ reply'[u] = "none" =>
               Len(pipe'[c]) > 0 /\ pipe'[c][Len(pipe'[c])] = <<CmdOf(st[u]), u>>
        <4> SUFFICES ASSUME st[u] \in Waiting, reply'[u] = "none"
                     PROVE  Len(pipe'[c]) > 0 /\ pipe'[c][Len(pipe'[c])] = <<CmdOf(st[u]), u>>
          OBVIOUS
        <4>1. n > 1
          BY <3>d, <1>i, <1>g
        <4>2. n - 1 \in 1 .. n - 1 /\ (n - 1) + 1 = n
          BY <4>1, <1>c
        <4>3. pipe'[c][n - 1] = pipe[c][n]
          BY <4>2, <1>c
        <4> QED
          BY <4>1, <4>3, <3>a, <1>c
      <3>7. st[u] = "ready" => \A i \in Entries(c)' : Cmd(c, i)' \in Stmt
        BY <3>a, <1>k
      <3>8. st[u] = "discard" /\ reply'[u] = "ok" => srv'[c] = "none"
        <4>1. st[u] = "discard" /\ reply'[u] = "ok" => cmd = "discard" /\ o.answer = "ok"
          BY <3>1, <3>c, <1>i DEF CmdOf
        <4> QED
          BY <4>1, <1>f, <1>h, ServedFacts
      <3>9. st[u] = "guard" => srv'[c] = "none"
        <4> SUFFICES ASSUME st[u] = "guard", srv[c] = "none" PROVE srv'[c] = "none"
          BY <3>a
        <4>1. cmd \notin Stmt \cup Ender
          BY <1>S, <1>E
        <4>2. CASE cmd = "begin"
          <5>1. u # t
            BY <4>2, <1>B DEF Fresh
          <5>2. Cmd(c, n) = "guard" /\ n > 1
            BY <5>1, <3>b, <3>d DEF CmdOf, Waiting, Opening
          <5> QED
            BY <5>2, <1>q, <1>k
        <4> QED
          BY <4>1, <4>2, <1>C, <1>D
      <3>10. st[u] = "begin" /\ reply'[u] = "ok" => cur'[c] = u
        <4>1. st[u] = "begin" /\ reply'[u] = "ok" => cmd = "begin" /\ o.answer = "ok" /\ u = t
          BY <3>1, <3>c, <1>i DEF CmdOf
        <4> QED
          BY <4>1, <1>B
      <3>11. st[u] \in {"commit", "rollback", "unverify"} /\ reply'[u] # "none" => srv'[c] = "none"
        <4>1. st[u] \in {"commit", "rollback", "unverify"} /\ reply'[u] # "none" => cmd \in Ender
          BY <3>1, <3>c DEF CmdOf, Ender
        <4> QED
          BY <4>1, <1>E
      <3> QED
        BY <3>5, <3>6, <3>7, <3>8, <3>9, <3>10, <3>11
    <2> QED
      BY <2>1, <2>2
  <1>7. FlagsOK'
    BY <1>a, <1>b DEF FlagsOK
  <1>8. OutcomeOK'
    <2> SUFFICES ASSUME NEW u \in Txn PROVE OutcomeOf(u)' /\ CommitSent(u)'
      BY DEF OutcomeOK
    <2>a. OutcomeOf(u) /\ CommitSent(u)
      BY <1>a DEF OutcomeOK
    <2>1. CommitSent(u)'
      <3> SUFFICES ASSUME NEW d \in Conn, NEW i \in Entries(d)', Cmd(d, i)' = "commit", Who(d, i)' = u
                   PROVE  st[u] = "commit" \/ report[u] \in {"unknown", "abandoned"}
        BY <1>b DEF CommitSent
      <3>1. \E k \in Entries(d) : Cmd(d, k) = "commit" /\ Who(d, k) = u
        BY <1>k
      <3> QED
        BY <3>1, <2>a DEF CommitSent
    <2>2. CASE u # t
      <3>1. /\ work'[u] = work[u] /\ reply'[u] = reply[u] /\ spoiled'[u] = spoiled[u]
            /\ st'[u] = st[u] /\ report'[u] = report[u]
        BY <2>2, <1>b, <1>i, <1>j
      <3> QED
        BY <3>1, <2>a, <2>1 DEF OutcomeOf
    <2>3. CASE u = t
      <3>1. st[t] \in Fresh => work'[t] = "none"
        BY <2>3, <2>a, <1>C, <1>S, <1>E, <1>D, <1>B DEF OutcomeOf
      <3>2. work'[t] = "applied" => st[t] = "commit" \/ report[t] \in {"committed", "unknown", "abandoned"}
        <4>1. cmd = "rollback" => work'[t] # "applied"
          BY <1>E, <1>f, <1>i, ServedFacts DEF Ender
        <4>2. cmd = "commit" => st[t] = "commit" \/ report[t] \in {"unknown", "abandoned"}
          BY <2>3, <2>a, <1>k DEF CommitSent
        <4>3. cmd \notin Ender => (work'[t] = "applied" => work[t] = "applied")
          BY <1>C, <1>S, <1>D, <1>B
        <4> QED
          BY <2>3, <2>a, <4>1, <4>2, <4>3 DEF OutcomeOf, Ender
      <3>3. st[t] = "commit" => on[t] = c /\ reply[t] = "none"
        BY <1>m, <1>o
      <3>4. st[t] = "commit" /\ A => cmd = "commit"
        <4> SUFFICES ASSUME st[t] = "commit", A PROVE cmd = "commit"
          OBVIOUS
        <4>1. AwaitOf(t, c) /\ link[c] = "up" /\ n = 1 /\ st[t] \in Waiting /\ reply[t] = "none"
          BY <3>3, <1>a, <1>A DEF AwaitOK
        <4>2. pipe[c][n] = <<CmdOf(st[t]), t>>
          BY <4>1, <1>n DEF AwaitOf
        <4> QED
          BY <4>1, <4>2, <1>d DEF CmdOf
      <3>5. st[t] = "commit" /\ reply'[t] # "none" => /\ cmd = "commit" /\ srv[c] # "none"
                                                      /\ reply'[t] = o.answer /\ work'[t] = o.work
        BY <3>3, <3>4, <1>i, <1>E DEF Ender
      <3>6. cmd = "commit" /\ srv[c] # "none" =>
               /\ o.answer = "proven" => o.work = "discarded"
               /\ o.answer = "ok" /\ srv[c] # "aborted" => o.work = "applied"
        BY <1>f, ServedFacts
      <3>7. st[t] = "commit" /\ reply'[t] = "proven" => work'[t] # "applied"
        BY <3>5, <3>6
      <3>8. st[t] = "commit" /\ reply'[t] = "ok" /\ ~spoiled'[t] => work'[t] = "applied"
        BY <3>5, <3>6, <1>j
      <3> QED
        BY <2>3, <3>1, <3>2, <3>7, <3>8, <1>b, <2>1 DEF OutcomeOf
    <2> QED
      BY <2>1, <2>2, <2>3
  <1>9. CommittedIsApplied'
    <2> SUFFICES ASSUME NEW u \in Txn, report[u] = "committed", ~spoiled'[u] PROVE work'[u] = "applied"
      BY <1>b DEF CommittedIsApplied
    <2>1. work[u] = "applied"
      BY <1>a, <1>j DEF CommittedIsApplied
    <2> QED
      BY <2>1, <1>i, <1>C, <1>S, <1>E, <1>D, <1>B
  <1>10. PoolIsClean'
    <2> SUFFICES ASSUME NEW d \in idle, d \notin abandoned PROVE srv'[d] = "none" /\ pipe'[d] = <<>>
      BY <1>b DEF PoolIsClean
    <2>1. srv[d] = "none" /\ pipe[d] = <<>> /\ d \in Conn
      BY <1>a DEF PoolIsClean, TypeOK
    <2>2. d # c
      BY <2>1, <1>b
    <2> QED
      BY <2>1, <2>2, <1>c, <1>h
  <1> QED
    BY <1>1, <1>2, <1>3, <1>4, <1>5, <1>6, <1>7, <1>8, <1>9, <1>10 DEF IInv

\* A connection fails: nobody relies on it any more.
LEMMA BreakStep ==
  ASSUME IInv, NEW c \in Conn, Break(c)
  PROVE  IInv'
  <1> USE PgTransactionAssumption
  <1>a. /\ TypeOK /\ OwnersOK /\ HomeOK /\ ServerOK /\ PipeOK /\ AwaitOK /\ FlagsOK /\ OutcomeOK
        /\ CommittedIsApplied /\ PoolIsClean
    BY DEF IInv
  <1>b. /\ link[c] = "up" /\ link' = [link EXCEPT ![c] = "down"]
        /\ pipe' = pipe /\ srv' = srv /\ cur' = cur /\ work' = work /\ spoiled' = spoiled
        /\ idle' = idle /\ abandoned' = abandoned
        /\ st' = st /\ on' = on /\ open' = open /\ reusable' = reusable /\ reply' = reply
        /\ ops' = ops /\ report' = report
    BY DEF Break, server, client
  <1>c. \A d \in Conn : /\ link'[d] = "up" => link[d] = "up"
                        /\ link'[d] = "unborn" <=> link[d] = "unborn"
    BY <1>a, <1>b DEF TypeOK
  <1>d. \A d : /\ Entries(d)' = Entries(d)
               /\ \A i : Cmd(d, i)' = Cmd(d, i) /\ Who(d, i)' = Who(d, i)
    BY <1>b, SamePipe
  <1>1. TypeOK'
    BY <1>a, <1>b DEF TypeOK
  <1>2. OwnersOK'
    BY <1>a, <1>b, <1>c DEF OwnersOK, TypeOK
  <1>3. HomeOK'
    BY <1>a, <1>b, <1>d DEF HomeOK, Present
  <1>4. ServerOK'
    BY <1>a, <1>b DEF ServerOK
  <1>5. PipeOK'
    BY <1>a, <1>b, <1>d DEF PipeOK, EntryOK
  <1>6. AwaitOK'
    <2> SUFFICES ASSUME NEW u \in Txn, on[u] # NoConn PROVE AwaitOf(u, on[u])'
      BY <1>b DEF AwaitOK
    <2>1. AwaitOf(u, on[u]) /\ on[u] \in Conn
      BY <1>a DEF AwaitOK, TypeOK
    <2>2. Inside(u)' <=> Inside(u)
      BY <1>b DEF Inside
    <2> QED
      BY <2>1, <2>2, <1>b, <1>c, <1>d DEF AwaitOf
  <1>7. FlagsOK'
    BY <1>a, <1>b DEF FlagsOK
  <1>8. OutcomeOK'
    BY <1>a, <1>b, <1>d DEF OutcomeOK, OutcomeOf, CommitSent
  <1>9. CommittedIsApplied'
    BY <1>a, <1>b DEF CommittedIsApplied
  <1>10. PoolIsClean'
    BY <1>a, <1>b DEF PoolIsClean
  <1> QED
    BY <1>1, <1>2, <1>3, <1>4, <1>5, <1>6, <1>7, <1>8, <1>9, <1>10 DEF IInv

\* The server notices: the transaction that was open there is discarded, and
\* it is open nowhere else.
LEMMA HangupStep ==
  ASSUME IInv, NEW c \in Conn, Hangup(c)
  PROVE  IInv'
  <1> USE PgTransactionAssumption
  <1>a. /\ TypeOK /\ OwnersOK /\ HomeOK /\ ServerOK /\ PipeOK /\ AwaitOK /\ FlagsOK /\ OutcomeOK
        /\ CommittedIsApplied /\ PoolIsClean
    BY DEF IInv
  <1>b. /\ link[c] = "down" /\ link' = link /\ idle' = idle /\ abandoned' = abandoned
        /\ st' = st /\ on' = on /\ open' = open /\ reusable' = reusable /\ reply' = reply
        /\ ops' = ops /\ report' = report /\ spoiled' = spoiled
    BY DEF Hangup, pool, client
  <1>c. /\ pipe'[c] = <<>> /\ srv'[c] = "none" /\ cur'[c] = NoTxn
        /\ \A d \in Conn : d # c => pipe'[d] = pipe[d] /\ srv'[d] = srv[d] /\ cur'[d] = cur[d]
    BY <1>a DEF Hangup, TypeOK
  <1>d. \A u \in Txn : work'[u] = IF cur[c] = u /\ work[u] = "pending" THEN "discarded" ELSE work[u]
    BY DEF Hangup
  <1>e. /\ Entries(c)' = {}
        /\ \A d \in Conn : d # c => /\ Entries(d)' = Entries(d)
                                    /\ \A i : Cmd(d, i)' = Cmd(d, i) /\ Who(d, i)' = Who(d, i)
    <2>1. Entries(c)' = {}
      BY <1>c DEF Entries
    <2> QED
      BY <2>1, <1>c, SamePipe
  <1>f. \A u \in Txn, d \in Conn : Present(u, d)' => Present(u, d) /\ d # c
    BY <1>c, <1>e DEF Present
  <1>1. TypeOK'
    <2>1. work' \in [Txn -> {"none", "pending", "applied", "discarded"}]
      BY <1>a DEF Hangup, TypeOK
    <2>2. /\ pipe' \in [Conn -> Seq(Command \X Txn)] /\ srv' \in [Conn -> {"none", "open", "aborted"}]
          /\ cur' \in [Conn -> Txn \cup {NoTxn}]
      BY <1>a DEF Hangup, TypeOK
    <2> QED
      BY <2>1, <2>2, <1>a, <1>b DEF TypeOK
  <1>2. OwnersOK'
    BY <1>a, <1>b, <1>c DEF OwnersOK
  <1>3. HomeOK'
    BY <1>a, <1>b, <1>f DEF HomeOK
  <1>4. ServerOK'
    <2> SUFFICES ASSUME NEW d \in Conn
                 PROVE  /\ cur'[d] = NoTxn <=> srv'[d] = "none"
                        /\ \A u \in Txn : cur'[d] = u => work'[u] = "pending"
      BY DEF ServerOK
    <2>1. CASE d = c
      BY <2>1, <1>c
    <2>2. CASE d # c
      <3>1. \A u \in Txn : cur[d] = u => cur[c] # u
        BY <2>2, <1>a DEF HomeOK, Present
      <3> QED
        BY <2>2, <3>1, <1>a, <1>c, <1>d DEF ServerOK
    <2> QED
      BY <2>1, <2>2
  <1>5. PipeOK'
    <2> SUFFICES ASSUME NEW d \in Conn, NEW i \in Entries(d)' PROVE EntryOK(d, i)'
      BY DEF PipeOK
    <2>1. d # c /\ i \in Entries(d) /\ EntryOK(d, i)
      BY <1>a, <1>e DEF PipeOK
    <2>2. Who(d, i) \in Txn
      BY <2>1, <1>a DEF TypeOK, Entries, Who
    <2>3. work[Who(d, i)] = "none" => work'[Who(d, i)] = "none"
      BY <2>2, <1>d
    <2> QED
      BY <2>1, <2>3, <1>b, <1>c, <1>e DEF EntryOK
  <1>6. AwaitOK'
    <2> SUFFICES ASSUME NEW u \in Txn, on[u] # NoConn PROVE AwaitOf(u, on[u])'
      BY <1>b DEF AwaitOK
    <2>1. AwaitOf(u, on[u]) /\ on[u] \in Conn
      BY <1>a DEF AwaitOK, TypeOK
    <2>2. Inside(u)' <=> Inside(u)
      BY <1>b DEF Inside
    <2>3. CASE on[u] = c
      BY <2>1, <2>3, <1>b, <1>c DEF AwaitOf
    <2>4. CASE on[u] # c
      BY <2>1, <2>2, <2>4, <1>b, <1>c, <1>e DEF AwaitOf
    <2> QED
      BY <2>3, <2>4
  <1>7. FlagsOK'
    BY <1>a, <1>b DEF FlagsOK
  <1>8. OutcomeOK'
    <2> SUFFICES ASSUME NEW u \in Txn PROVE OutcomeOf(u)' /\ CommitSent(u)'
      BY DEF OutcomeOK
    <2>1. OutcomeOf(u) /\ CommitSent(u)
      BY <1>a DEF OutcomeOK
    <2>2. (work'[u] = "applied" <=> work[u] = "applied") /\ (work[u] = "none" => work'[u] = "none")
      BY <1>d
    <2>3. OutcomeOf(u)'
      BY <2>1, <2>2, <1>b DEF OutcomeOf
    <2>4. CommitSent(u)'
      BY <2>1, <1>b, <1>e DEF CommitSent
    <2> QED
      BY <2>3, <2>4
  <1>9. CommittedIsApplied'
    BY <1>a, <1>b, <1>d DEF CommittedIsApplied
  <1>10. PoolIsClean'
    BY <1>a, <1>b, <1>c DEF PoolIsClean, TypeOK
  <1> QED
    BY <1>1, <1>2, <1>3, <1>4, <1>5, <1>6, <1>7, <1>8, <1>9, <1>10 DEF IInv

-----------------------------------------------------------------------------
(* The actions of the adapter, each as one of the steps above.             *)

\* What the invariant says to a transaction that holds a connection.
LEMMA OwnerFacts ==
  ASSUME IInv, NEW t \in Txn, st[t] \notin {"new", "done"}
  PROVE  /\ on[t] \in Conn /\ on[t] # NoConn /\ on[t] \notin idle /\ link[on[t]] \in {"up", "down"}
         /\ AwaitOf(t, on[t]) /\ report[t] = "none"
         /\ \A u \in Txn : on[u] = on[t] => u = t
         /\ reply[t] # "none" => Entries(on[t]) = {}
         /\ st[t] \in Operating \cup {"ready", "commit", "rollback"} => open[t] \/ ~reusable[t]
         /\ st[t] # "commit" =>
               /\ work[t] # "applied"
               /\ \A c \in Conn : \A i \in Entries(c) : ~(Cmd(c, i) = "commit" /\ Who(c, i) = t)
  <1> USE PgTransactionAssumption
  <1>a. TypeOK /\ OwnersOK /\ AwaitOK /\ FlagsOK /\ OutcomeOK
    BY DEF IInv
  <1>1. on[t] \in Conn /\ on[t] # NoConn /\ on[t] \notin idle /\ link[on[t]] \in {"up", "down"}
    BY <1>a DEF TypeOK, OwnersOK
  <1>2. AwaitOf(t, on[t]) /\ report[t] = "none" /\ \A u \in Txn : on[u] = on[t] => u = t
    BY <1>1, <1>a DEF AwaitOK, OwnersOK, FlagsOK
  <1>3. reply[t] # "none" => Entries(on[t]) = {}
    BY <1>2 DEF AwaitOf, Entries
  <1>4. st[t] \in Operating \cup {"ready", "commit", "rollback"} => open[t] \/ ~reusable[t]
    BY <1>a DEF FlagsOK
  <1>5. OutcomeOf(t) /\ CommitSent(t)
    BY <1>a DEF OutcomeOK
  <1>6. st[t] # "commit" =>
               /\ work[t] # "applied"
               /\ \A c \in Conn : \A i \in Entries(c) : ~(Cmd(c, i) = "commit" /\ Who(c, i) = t)
    BY <1>2, <1>5 DEF OutcomeOf, CommitSent
  <1> QED
    BY <1>1, <1>2, <1>3, <1>4, <1>6

\* A transaction sends one more command on its own connection.
LEMMA OwnerSends ==
  ASSUME IInv, NEW t \in Txn, st[t] \notin {"new", "done", "commit"},
         NEW cmd \in Command, NEW s \in Waiting, CmdOf(s) = cmd, Send(t, on[t], cmd, s),
         UNCHANGED <<pool, on, open, reusable, report>>, ops' \in [Txn -> 0 .. MaxOps],
         s \in Operating \cup {"commit", "rollback"} => open[t] \/ ~reusable[t],
         s = "commit" => open[t], s \in {"discard", "guard"} => st[t] \in Fresh,
         link[on[t]] = "up" =>
            \/ /\ cmd \in {"guard", "begin"} /\ pipe[on[t]] = <<>> /\ srv[on[t]] = "none"
               /\ work[t] = "none"
            \/ /\ cmd \in Stmt \cup Ender /\ cur[on[t]] = t
               /\ \A i \in Entries(on[t]) : Cmd(on[t], i) \in Stmt
  PROVE  IInv'
  <1> USE PgTransactionAssumption
  <1>c. PICK c : c = on[t]
    OBVIOUS
  <1>1. /\ c \in Conn /\ c \notin idle /\ link[c] \in {"up", "down"} /\ \A u \in Txn : on[u] = c => u = t
    BY <1>c, OwnerFacts
  <1>2. /\ link' = link /\ idle' = idle /\ abandoned' = abandoned /\ on' = on
        /\ open' = open /\ reusable' = reusable /\ report' = report
    BY DEF pool
  <1>3. TypeOK
    BY DEF IInv
  <1>4. on' = [on EXCEPT ![t] = c] /\ link' \in [Conn -> {"unborn", "up", "down"}]
    BY <1>2, <1>3, <1>c DEF TypeOK
  <1>5. Send(t, c, cmd, s)
    BY <1>c
  <1>6. link[c] # "down" =>
            \/ cmd = "discard" /\ st[t] = "new"
            \/ cmd \in {"guard", "begin"} /\ pipe[c] = <<>> /\ srv[c] = "none" /\ work[t] = "none"
            \/ cmd \in Stmt \cup Ender /\ cur[c] = t /\ \A i \in Entries(c) : Cmd(c, i) \in Stmt
    BY <1>c, <1>1
  <1> QED
    <2>1. /\ idle' \subseteq idle /\ c \notin idle' /\ link'[c] # "unborn"
          /\ \A d \in Conn : d # c => link'[d] = link[d]
          /\ link[c] = "down" <=> link'[c] = "down"
          /\ UNCHANGED <<abandoned, open, reusable, report>>
          /\ st[t] \notin {"done", "commit"} /\ (on[t] = c \/ st[t] = "new")
      BY <1>1, <1>2, <1>c
    <2> QED
      BY <1>1, <1>4, <1>5, <1>6, <2>1, SendStep

\* A transaction gives its connection up before or without a COMMIT.
LEMMA OwnerReleases ==
  ASSUME IInv, NEW t \in Txn, st[t] \notin {"new", "done", "commit"}, NEW keep \in BOOLEAN,
         NEW r \in Report \ {"none", "committed"}, Release(t, keep, r),
         abandoned' \in SUBSET Conn, abandoned \subseteq abandoned',
         keep /\ link[on[t]] = "up" =>
            on[t] \in abandoned' \/ (srv[on[t]] = "none" /\ pipe[on[t]] = <<>>)
  PROVE  IInv'
  <1>1. /\ on[t] # NoConn /\ work[t] # "applied"
        /\ \A c \in Conn : \A i \in Entries(c) : ~(Cmd(c, i) = "commit" /\ Who(c, i) = t)
    BY OwnerFacts
  <1> QED
    BY <1>1, ReleaseStep

\* The steps that open a transaction.
LEMMA OpeningStep ==
  ASSUME IInv, NEW t \in Txn,
         \/ \E c \in Conn : Checkout(t, c) \/ Connect(t, c)
         \/ AfterDiscard(t) \/ AfterGuard(t) \/ AfterBegin(t)
         \/ AfterVerify(t) \/ AfterUnverify(t) \/ AfterContext(t) \/ AfterUncontext(t)
  PROVE  IInv'
  <1> USE PgTransactionAssumption
  <1>a. TypeOK /\ OwnersOK /\ OutcomeOK
    BY DEF IInv
  <1>b. /\ ops \in [Txn -> 0 .. MaxOps] /\ abandoned \in SUBSET Conn
        /\ link \in [Conn -> {"unborn", "up", "down"}]
        /\ open \in [Txn -> BOOLEAN] /\ reusable \in [Txn -> BOOLEAN]
    BY <1>a DEF TypeOK
  <1>c. st[t] \in Fresh => work[t] = "none"
    BY <1>a DEF OutcomeOK, OutcomeOf
  <1>w. /\ {"discard", "guard", "begin", "verify", "context", "unverify", "uncontext"} \subseteq Waiting
        /\ {"discard", "guard", "begin", "verify", "context", "rollback"} \subseteq Command
        /\ \A s \in {"discard", "guard", "begin", "verify", "context"} : CmdOf(s) = s
        /\ CmdOf("unverify") = "rollback" /\ CmdOf("uncontext") = "rollback"
        /\ {"discard", "guard", "begin", "verify", "context", "unverify", "uncontext"}
             \cap (Operating \cup {"commit", "rollback"}) = {}
        /\ "failed" \in Report \ {"none", "committed"}
        /\ {"verify", "context"} \subseteq Stmt /\ "rollback" \in Ender
        /\ {"new", "discard", "guard"} \subseteq Fresh
    BY DEF Waiting, Opening, Operating, Command, CmdOf, Report, Stmt, Ender, Fresh
  \* What the transaction knows once it holds a connection.
  <1>d. st[t] \notin {"new", "done"} =>
           /\ AwaitOf(t, on[t]) /\ link[on[t]] \in {"up", "down"} /\ on[t] \in Conn
           /\ reply[t] # "none" => pipe[on[t]] = <<>> /\ Entries(on[t]) = {}
    BY OwnerFacts DEF AwaitOf
  <1>e. \A s : Refused(t, s) => st[t] = s /\ (reply[t] # "none" \/ link[on[t]] = "down")
    BY DEF Refused, Closed
  <1>1. ASSUME NEW c \in Conn, Checkout(t, c) PROVE IInv'
    <2>1. /\ st[t] = "new" /\ c \in idle /\ link[c] = "up" /\ idle' = idle \ {c}
          /\ on' = [on EXCEPT ![t] = c] /\ Send(t, c, "discard", "discard")
          /\ link' = link /\ abandoned' = abandoned /\ open' = open /\ reusable' = reusable
          /\ ops' = ops /\ report' = report
      BY <1>1 DEF Checkout
    <2>2. \A u \in Txn : on[u] # c
      BY <2>1, <1>a DEF OwnersOK
    <2>3. /\ idle' \subseteq idle /\ c \notin idle' /\ link'[c] # "unborn"
          /\ \A u \in Txn : on[u] = c => u = t
          /\ \A d \in Conn : d # c => link'[d] = link[d]
          /\ link[c] = "down" <=> link'[c] = "down"
          /\ link' \in [Conn -> {"unborn", "up", "down"}] /\ ops' \in [Txn -> 0 .. MaxOps]
          /\ UNCHANGED <<abandoned, open, reusable, report>>
          /\ st[t] \notin {"done", "commit"} /\ (on[t] = c \/ st[t] = "new") /\ st[t] \in Fresh
      BY <2>1, <2>2, <1>b, <1>w
    <2>5. PICK cmd : cmd = "discard"
      OBVIOUS
    <2>6. /\ cmd \in Command /\ cmd \in Waiting /\ CmdOf(cmd) = cmd
          /\ cmd \in Operating \cup {"commit", "rollback"} => open[t] \/ ~reusable[t]
          /\ cmd = "commit" => open[t]
          /\ cmd \in {"discard", "guard"} => st[t] \in Fresh
      BY <2>5, <2>3, <1>w
    <2>7. on' = [on EXCEPT ![t] = c] /\ Send(t, c, cmd, cmd)
      BY <2>1, <2>5
    <2>8. link[c] # "down" =>
            \/ cmd = "discard" /\ st[t] = "new"
            \/ cmd \in {"guard", "begin"} /\ pipe[c] = <<>> /\ srv[c] = "none" /\ work[t] = "none"
            \/ cmd \in Stmt \cup Ender /\ cur[c] = t /\ \A i \in Entries(c) : Cmd(c, i) \in Stmt
      BY <2>5, <2>1
    <2> QED
      BY <2>3, <2>6, <2>7, <2>8, SendStep
  <1>2. ASSUME NEW c \in Conn, Connect(t, c) PROVE IInv'
    <2>1. /\ st[t] = "new" /\ link[c] = "unborn" /\ link' = [link EXCEPT ![c] = "up"]
          /\ idle' \subseteq idle
          /\ on' = [on EXCEPT ![t] = c] /\ Send(t, c, "guard", "guard")
          /\ abandoned' = abandoned /\ open' = open /\ reusable' = reusable
          /\ ops' = ops /\ report' = report
      BY <1>2 DEF Connect
    <2>2. /\ \A u \in Txn : on[u] # c
          /\ c \notin idle /\ pipe[c] = <<>> /\ srv[c] = "none"
      BY <2>1, <1>a DEF OwnersOK
    <2>3. /\ idle' \subseteq idle /\ c \notin idle' /\ link'[c] # "unborn"
          /\ \A u \in Txn : on[u] = c => u = t
          /\ \A d \in Conn : d # c => link'[d] = link[d]
          /\ link[c] = "down" <=> link'[c] = "down"
          /\ link' \in [Conn -> {"unborn", "up", "down"}] /\ ops' \in [Txn -> 0 .. MaxOps]
          /\ UNCHANGED <<abandoned, open, reusable, report>>
          /\ st[t] \notin {"done", "commit"} /\ (on[t] = c \/ st[t] = "new") /\ st[t] \in Fresh
      BY <2>1, <2>2, <1>b, <1>w
    <2>4. work[t] = "none"
      BY <2>1, <1>c, <1>w
    <2>5. PICK cmd : cmd = "guard"
      OBVIOUS
    <2>6. /\ cmd \in Command /\ cmd \in Waiting /\ CmdOf(cmd) = cmd
          /\ cmd \in Operating \cup {"commit", "rollback"} => open[t] \/ ~reusable[t]
          /\ cmd = "commit" => open[t]
          /\ cmd \in {"discard", "guard"} => st[t] \in Fresh
      BY <2>5, <2>3, <1>w
    <2>7. on' = [on EXCEPT ![t] = c] /\ Send(t, c, cmd, cmd)
      BY <2>1, <2>5
    <2>8. link[c] # "down" =>
            \/ cmd = "discard" /\ st[t] = "new"
            \/ cmd \in {"guard", "begin"} /\ pipe[c] = <<>> /\ srv[c] = "none" /\ work[t] = "none"
            \/ cmd \in Stmt \cup Ender /\ cur[c] = t /\ \A i \in Entries(c) : Cmd(c, i) \in Stmt
      BY <2>5, <2>1, <2>2, <2>4
    <2> QED
      BY <2>3, <2>6, <2>7, <2>8, SendStep
  <1>3. CASE AfterDiscard(t)
    <2>1. CASE /\ Answered(t, "discard", "ok") /\ Send(t, on[t], "guard", "guard")
               /\ UNCHANGED <<pool, on, open, reusable, ops, report>>
      <3>1. st[t] = "discard" /\ reply[t] = "ok"
        BY <2>1 DEF Answered
      <3>2. pipe[on[t]] = <<>> /\ (link[on[t]] = "up" => srv[on[t]] = "none") /\ work[t] = "none"
        BY <3>1, <1>c, <1>d, <1>w DEF AwaitOf
      <3>3. /\ ops' \in [Txn -> 0 .. MaxOps] /\ UNCHANGED <<pool, on, open, reusable, report>>
            /\ st[t] \notin {"new", "done", "commit"} /\ st[t] \in Fresh
        BY <2>1, <3>1, <1>b, <1>w
      <3> QED
        BY <2>1, <3>2, <3>3, <1>w, OwnerSends
    <2>2. CASE Refused(t, "discard") /\ Release(t, FALSE, "failed") /\ UNCHANGED abandoned
      <3>1. st[t] = "discard"
        BY <2>2, <1>e
      <3> QED
        BY <2>2, <3>1, <1>b, <1>w, OwnerReleases
    <2> QED
      BY <1>3, <2>1, <2>2 DEF AfterDiscard
  <1>4. CASE AfterGuard(t)
    <2>0. st[t] = "guard" /\ (reply[t] # "none" \/ link[on[t]] = "down")
      BY <1>4, <1>e DEF AfterGuard, Answered
    <2>1. CASE /\ Answered(t, "guard", "ok") /\ Send(t, on[t], "begin", "begin")
               /\ UNCHANGED <<pool, on, open, reusable, ops, report>>
      <3>1. st[t] = "guard" /\ reply[t] = "ok"
        BY <2>1 DEF Answered
      <3>2. pipe[on[t]] = <<>> /\ (link[on[t]] = "up" => srv[on[t]] = "none") /\ work[t] = "none"
        BY <3>1, <1>c, <1>d, <1>w DEF AwaitOf
      <3>3. /\ ops' \in [Txn -> 0 .. MaxOps] /\ UNCHANGED <<pool, on, open, reusable, report>>
            /\ st[t] \notin {"new", "done", "commit"} /\ st[t] \in Fresh
        BY <2>1, <3>1, <1>b, <1>w
      <3> QED
        BY <2>1, <3>2, <3>3, <1>w, OwnerSends
    <2>2. CASE Release(t, TRUE, "failed") /\ UNCHANGED abandoned
      <3>1. link[on[t]] = "up" => srv[on[t]] = "none" /\ pipe[on[t]] = <<>>
        BY <2>0, <1>d DEF AwaitOf
      <3>2. abandoned' \in SUBSET Conn /\ abandoned \subseteq abandoned'
        BY <2>2, <1>b
      <3> QED
        BY <2>0, <2>2, <3>1, <3>2, <1>w, OwnerReleases
    <2> QED
      BY <1>4, <2>1, <2>2 DEF AfterGuard
  \* Opened, or the session context and the isolation level are still to come.
  <1>f. ASSUME st[t] \in {"begin", "verify", "context"}, reply[t] # "none" \/ link[on[t]] = "down",
               st[t] = "begin" => reply[t] = "ok",
               \/ \E cmd \in {"verify", "context"} :
                     /\ Send(t, on[t], cmd, cmd)
                     /\ UNCHANGED <<pool, on, open, reusable, ops, report>>
               \/ \E s \in {"unverify", "uncontext"} :
                     /\ Send(t, on[t], "rollback", s)
                     /\ UNCHANGED <<pool, on, open, reusable, ops, report>>
        PROVE  IInv'
    <2>1. link[on[t]] = "up" => cur[on[t]] = t /\ Entries(on[t]) = {}
      BY <1>f, <1>d DEF AwaitOf, Inside
    <2>2. st[t] \notin {"new", "done", "commit"}
      BY <1>f
    <2>3. ASSUME NEW cmd \in {"verify", "context"}, Send(t, on[t], cmd, cmd),
                 UNCHANGED <<pool, on, open, reusable, ops, report>>
          PROVE  IInv'
      <3>1. ops' \in [Txn -> 0 .. MaxOps] /\ UNCHANGED <<pool, on, open, reusable, report>>
        BY <2>3, <1>b
      <3>2. /\ cmd \in Command /\ cmd \in Waiting /\ CmdOf(cmd) = cmd
            /\ cmd \notin Operating \cup {"commit", "rollback"} /\ cmd \notin {"discard", "guard"}
            /\ cmd \in Stmt \cup Ender
        BY <1>w
      <3> QED
        BY <2>1, <2>2, <2>3, <3>1, <3>2, OwnerSends
    <2>4. ASSUME NEW s \in {"unverify", "uncontext"}, Send(t, on[t], "rollback", s),
                 UNCHANGED <<pool, on, open, reusable, ops, report>>
          PROVE  IInv'
      <3>1. ops' \in [Txn -> 0 .. MaxOps] /\ UNCHANGED <<pool, on, open, reusable, report>>
        BY <2>4, <1>b
      <3>2. /\ "rollback" \in Command /\ s \in Waiting /\ CmdOf(s) = "rollback"
            /\ s \notin Operating \cup {"commit", "rollback"} /\ s \notin {"discard", "guard"}
            /\ "rollback" \in Stmt \cup Ender
        BY <1>w
      <3> QED
        BY <2>1, <2>2, <2>4, <3>1, <3>2, OwnerSends
    <2> QED
      BY <1>f, <2>3, <2>4
  <1>g. ASSUME st[t] \in {"begin", "verify", "context"}, reply[t] = "ok", Resume(t, "ready"),
               open' = [open EXCEPT ![t] = TRUE], UNCHANGED reusable
        PROVE  IInv'
    <2>1. /\ open' \in [Txn -> BOOLEAN] /\ reusable' \in [Txn -> BOOLEAN]
          /\ \A u \in Txn : u # t => open'[u] = open[u] /\ reusable'[u] = reusable[u]
          /\ open'[t]
      BY <1>b, <1>g
    <2> QED
      BY <1>g, <2>1, ResumeStep
  <1>h. ASSUME st[t] \in Opening, Release(t, FALSE, "failed"), UNCHANGED abandoned PROVE IInv'
    <2>1. st[t] \notin {"new", "done", "commit"}
      BY <1>h DEF Opening
    <2>2. abandoned' \in SUBSET Conn /\ abandoned \subseteq abandoned'
      BY <1>h, <1>b
    <2> QED
      BY <2>1, <2>2, <1>h, <1>w, OwnerReleases
  <1>5. CASE AfterBegin(t)
    <2>1. CASE Answered(t, "begin", "ok") /\ \E cmd \in {"verify", "context"} :
                /\ Send(t, on[t], cmd, cmd)
                /\ UNCHANGED <<pool, on, open, reusable, ops, report>>
      BY <2>1, <1>f DEF Answered
    <2>2. CASE /\ Answered(t, "begin", "ok") /\ Resume(t, "ready")
               /\ open' = [open EXCEPT ![t] = TRUE] /\ UNCHANGED reusable
      BY <2>2, <1>g DEF Answered
    <2>3. CASE Refused(t, "begin") /\ Release(t, FALSE, "failed") /\ UNCHANGED abandoned
      BY <2>3, <1>e, <1>h DEF Opening
    <2> QED
      BY <1>5, <2>1, <2>2, <2>3 DEF AfterBegin
  <1>6. CASE AfterVerify(t)
    <2>0. st[t] = "verify" /\ (reply[t] # "none" \/ link[on[t]] = "down")
      BY <1>6, <1>e DEF AfterVerify, Answered
    <2>1. CASE \/ /\ Send(t, on[t], "context", "context")
                  /\ UNCHANGED <<pool, on, open, reusable, ops, report>>
               \/ /\ Send(t, on[t], "rollback", "unverify")
                  /\ UNCHANGED <<pool, on, open, reusable, ops, report>>
      BY <2>0, <2>1, <1>f
    <2>2. CASE /\ Answered(t, "verify", "ok") /\ Resume(t, "ready")
               /\ open' = [open EXCEPT ![t] = TRUE] /\ UNCHANGED reusable
      BY <2>2, <1>g DEF Answered
    <2> QED
      BY <1>6, <2>1, <2>2 DEF AfterVerify
  <1>7. CASE AfterUnverify(t)
    <2>0. st[t] = "unverify"
      BY <1>7, <1>e DEF AfterUnverify, Answered
    <2>1. CASE Answered(t, "unverify", "ok") /\ Release(t, TRUE, "failed") /\ UNCHANGED abandoned
      <3>1. link[on[t]] = "up" => srv[on[t]] = "none" /\ pipe[on[t]] = <<>>
        BY <2>0, <2>1, <1>d DEF AwaitOf, Answered
      <3>2. abandoned' \in SUBSET Conn /\ abandoned \subseteq abandoned'
        BY <2>1, <1>b
      <3> QED
        BY <2>0, <2>1, <3>1, <3>2, <1>w, OwnerReleases
    <2>2. CASE Release(t, FALSE, "failed") /\ UNCHANGED abandoned
      BY <2>0, <2>2, <1>h DEF Opening
    <2> QED
      BY <1>7, <2>1, <2>2 DEF AfterUnverify
  <1>8. CASE AfterContext(t)
    <2>1. CASE /\ Answered(t, "context", "ok") /\ Resume(t, "ready")
               /\ open' = [open EXCEPT ![t] = TRUE] /\ UNCHANGED reusable
      BY <2>1, <1>g DEF Answered
    <2>2. CASE /\ Refused(t, "context") /\ Send(t, on[t], "rollback", "uncontext")
               /\ UNCHANGED <<pool, on, open, reusable, ops, report>>
      BY <2>2, <1>e, <1>f
    <2> QED
      BY <1>8, <2>1, <2>2 DEF AfterContext
  <1>9. CASE AfterUncontext(t)
    <2>1. st[t] = "uncontext" /\ Release(t, FALSE, "failed") /\ UNCHANGED abandoned
      BY <1>9, <1>e DEF AfterUncontext, Answered
    <2> QED
      BY <2>1, <1>h DEF Opening
  <1> QED
    BY <1>1, <1>2, <1>3, <1>4, <1>5, <1>6, <1>7, <1>8, <1>9

\* The operations of an open transaction and what ends them.
LEMMA OperatingStep ==
  ASSUME IInv, NEW t \in Txn,
         \/ Execute(t) \/ Query(t) \/ Savepoint(t) \/ ReleaseSavepoint(t)
         \/ RollbackToSavepoint(t) \/ ReadCatalog(t) \/ QueryStream(t) \/ NextBatch(t)
         \/ ConditionalUpdate(t) \/ ProbeKey(t) \/ AfterOperation(t) \/ Interrupt(t)
  PROVE  IInv'
  <1> USE PgTransactionAssumption
  <1>a. TypeOK
    BY DEF IInv
  <1>b. /\ ops \in [Txn -> 0 .. MaxOps]
        /\ open \in [Txn -> BOOLEAN] /\ reusable \in [Txn -> BOOLEAN]
    BY <1>a DEF TypeOK
  <1>w. \A s \in Operating : /\ s \in Waiting /\ CmdOf(s) \in Command /\ CmdOf(s) \in Stmt
                             /\ s \notin {"commit", "discard", "guard", "new", "done"}
    BY DEF Operating, Waiting, CmdOf, Command, Stmt
  <1>1. ASSUME NEW s \in Operating, Operate(t, CmdOf(s), s) PROVE IInv'
    <2>1. /\ st[t] = "ready" /\ open[t] /\ Send(t, on[t], CmdOf(s), s)
          /\ UNCHANGED <<pool, on, open, reusable, report>>
          /\ ops[t] < MaxOps /\ ops' = [ops EXCEPT ![t] = @ + 1]
      BY <1>1 DEF Operate
    <2>2. ops' \in [Txn -> 0 .. MaxOps]
      BY <2>1, <1>b
    <2>3. AwaitOf(t, on[t])
      BY <2>1, OwnerFacts
    <2>4. link[on[t]] = "up" => cur[on[t]] = t /\ \A i \in Entries(on[t]) : Cmd(on[t], i) \in Stmt
      BY <2>1, <2>3 DEF AwaitOf, Inside
    <2> QED
      BY <2>1, <2>2, <2>4, <1>w, OwnerSends
  <1>2. CASE \/ Execute(t) \/ Query(t) \/ Savepoint(t) \/ ReleaseSavepoint(t)
             \/ RollbackToSavepoint(t) \/ ReadCatalog(t) \/ QueryStream(t) \/ NextBatch(t)
             \/ ConditionalUpdate(t)
    <2>1. \E s \in Operating : Operate(t, CmdOf(s), s)
      <3>1. /\ CmdOf("execute") = "execute" /\ CmdOf("read") = "read" /\ CmdOf("update") = "execute"
            /\ CmdOf("rollbackto") = "rollbackto" /\ CmdOf("fetch") = "fetch"
            /\ {"execute", "read", "update", "rollbackto", "fetch"} \subseteq Operating
        BY DEF CmdOf, Operating
      <3> QED
        BY <1>2, <3>1, Zenon DEF Execute, Query, Savepoint, ReleaseSavepoint, RollbackToSavepoint, ReadCatalog,
              QueryStream, NextBatch, ConditionalUpdate
    <2> QED
      BY <2>1, <1>1
  <1>3. CASE ProbeKey(t)
    <2>1. /\ st[t] = "update" /\ reply[t] = "ok" /\ Send(t, on[t], "read", "read")
          /\ UNCHANGED <<pool, on, open, reusable, report>> /\ ops' \in [Txn -> 0 .. MaxOps]
      BY <1>3, <1>b DEF ProbeKey, Answered
    <2>2. /\ AwaitOf(t, on[t]) /\ Entries(on[t]) = {} /\ (open[t] \/ ~reusable[t])
      BY <2>1, OwnerFacts DEF Operating
    <2>3. link[on[t]] = "up" => cur[on[t]] = t
      BY <2>1, <2>2 DEF AwaitOf, Inside, Operating
    <2>4. "read" \in Operating /\ CmdOf("read") = "read" /\ "read" \in Command /\ "read" \in Stmt /\ "read" \in Waiting
      BY DEF Operating, CmdOf, Command, Stmt, Waiting
    <2> QED
      BY <2>1, <2>2, <2>3, <2>4, OwnerSends
  <1>4. CASE AfterOperation(t) \/ Interrupt(t)
    <2>1. st[t] \in Operating /\ Resume(t, "ready")
      BY <1>4 DEF AfterOperation, Interrupt
    <2>2. open[t] \/ ~reusable[t]
      BY <2>1, <1>w, OwnerFacts
    <2>3. \/ open' = open /\ reusable' = reusable
          \/ open' = [open EXCEPT ![t] = FALSE] /\ reusable' = [reusable EXCEPT ![t] = FALSE]
      BY <1>4 DEF AfterOperation, Interrupt
    <2>4. /\ open' \in [Txn -> BOOLEAN] /\ reusable' \in [Txn -> BOOLEAN]
          /\ \A u \in Txn : u # t => open'[u] = open[u] /\ reusable'[u] = reusable[u]
          /\ open'[t] \/ ~reusable'[t]
      BY <2>2, <2>3, <1>b
    <2> QED
      BY <2>1, <2>4, ResumeStep
  <1> QED
    BY <1>2, <1>3, <1>4

\* The ends of a transaction.
LEMMA EndingStep ==
  ASSUME IInv, NEW t \in Txn,
         \/ Commit(t) \/ CommitRefused(t) \/ AfterCommit(t) \/ InterruptCommit(t)
         \/ Rollback(t) \/ AfterRollback(t) \/ Drop(t) \/ DropCall(t)
  PROVE  IInv'
  <1> USE PgTransactionAssumption
  <1>a. TypeOK /\ HomeOK /\ OutcomeOK
    BY DEF IInv
  <1>b. /\ ops \in [Txn -> 0 .. MaxOps] /\ abandoned \in SUBSET Conn
        /\ open \in [Txn -> BOOLEAN] /\ reusable \in [Txn -> BOOLEAN]
        /\ open[t] \in BOOLEAN /\ reusable[t] \in BOOLEAN
    BY <1>a DEF TypeOK
  <1>c. st[t] \notin {"new", "done"} =>
           /\ AwaitOf(t, on[t]) /\ on[t] \in Conn /\ on[t] # NoConn
           /\ reply[t] # "none" => pipe[on[t]] = <<>> /\ Entries(on[t]) = {}
           /\ st[t] \in Operating \cup {"ready", "commit", "rollback"} => open[t] \/ ~reusable[t]
    BY OwnerFacts DEF AwaitOf
  <1>w. /\ \A r \in {"rolledback", "refused", "dropped", "failed", "unknown", "abandoned"} :
              r \in Report \ {"none", "committed"} /\ r \in Report \ {"none"}
        /\ "committed" \in Report \ {"none"}
    BY DEF Report
  <1>1. CASE Commit(t) \/ Rollback(t)
    <2>1. PICK e \in Ender : Send(t, on[t], e, e) /\ (e = "commit" => open[t])
      BY <1>1 DEF Commit, Rollback, Ender
    <2>2. st[t] = "ready" /\ UNCHANGED <<pool, on, open, reusable, report>> /\ ops' \in [Txn -> 0 .. MaxOps]
      BY <1>1, <1>b DEF Commit, Rollback
    <2>3. /\ link[on[t]] = "up" => cur[on[t]] = t /\ \A i \in Entries(on[t]) : Cmd(on[t], i) \in Stmt
          /\ open[t] \/ ~reusable[t]
      BY <2>2, <1>c DEF AwaitOf, Inside
    <2>4. e \in Command /\ e \in Waiting /\ CmdOf(e) = e /\ e \notin {"discard", "guard"}
      BY DEF Ender, Command, Waiting, CmdOf
    <2> QED
      BY <2>1, <2>2, <2>3, <2>4, OwnerSends
  \* Without a COMMIT, an open transaction is never kept.
  <1>2. ASSUME st[t] = "ready" \/ st[t] = "rollback", NEW r \in {"refused", "dropped", "abandoned"},
               Release(t, ~open[t] /\ reusable[t], r), UNCHANGED abandoned
        PROVE  IInv'
    <2>1. ~(~open[t] /\ reusable[t])
      BY <1>2, <1>c
    <2>2. PICK k \in BOOLEAN : k = (~open[t] /\ reusable[t])
      OBVIOUS
    <2>3. ~k /\ Release(t, k, r)
      BY <2>1, <2>2, <1>2
    <2>4. abandoned' \in SUBSET Conn /\ abandoned \subseteq abandoned'
      BY <1>2, <1>b
    <2> QED
      BY <1>2, <2>3, <2>4, <1>w, OwnerReleases
  <1>3. CASE CommitRefused(t) \/ Drop(t)
    BY <1>2, <1>3 DEF CommitRefused, Drop
  <1>4. ASSUME st[t] = "commit", NEW k \in BOOLEAN, NEW r \in {"unknown", "abandoned"}, Release(t, k, r),
               ~k, UNCHANGED abandoned
        PROVE  IInv'
    <2>1. abandoned' \in SUBSET Conn /\ abandoned \subseteq abandoned'
      BY <1>4, <1>b
    <2> QED
      BY <1>4, <2>1, <1>c, <1>w, ReleaseStep
  <1>5. CASE AfterCommit(t)
    <2>1. CASE Refused(t, "commit") /\ Release(t, FALSE, "unknown") /\ UNCHANGED abandoned
      BY <2>1, <1>4 DEF Refused
    <2>2. ASSUME reply[t] # "none", st[t] = "commit", NEW r \in {"committed", "rolledback"},
                 Release(t, reusable[t], r), UNCHANGED abandoned,
                 r = "committed" => reply[t] = "ok", r = "rolledback" => reply[t] = "proven"
          PROVE  IInv'
      <3>1. link[on[t]] = "up" => srv[on[t]] = "none" /\ pipe[on[t]] = <<>>
        BY <2>2, <1>c DEF AwaitOf
      <3>2. \A c \in Conn : \A i \in Entries(c) : ~(Cmd(c, i) = "commit" /\ Who(c, i) = t)
        <4> SUFFICES ASSUME NEW c \in Conn, NEW i \in Entries(c), Who(c, i) = t PROVE FALSE
          OBVIOUS
        <4>1. Present(t, c)
          BY DEF Present
        <4>2. on[t] = c
          BY <4>1, <2>2, <1>a DEF HomeOK
        <4> QED
          BY <4>2, <2>2, <1>c
      <3>3. /\ work[t] = "applied" => r = "committed"
            /\ r = "committed" /\ ~spoiled[t] => work[t] = "applied"
        BY <2>2, <1>a DEF OutcomeOK, OutcomeOf
      <3>4. abandoned' \in SUBSET Conn /\ abandoned \subseteq abandoned'
        BY <2>2, <1>b
      <3>5. r \in Report \ {"none"} /\ on[t] # NoConn
        BY <2>2, <1>c, <1>w
      <3> QED
        BY <2>2, <3>1, <3>2, <3>3, <3>4, <3>5, <1>b, ReleaseStep
    <2>3. CASE Answered(t, "commit", "ok") /\ Release(t, reusable[t], "committed") /\ UNCHANGED abandoned
      BY <2>2, <2>3 DEF Answered
    <2>4. CASE Answered(t, "commit", "proven") /\ Release(t, reusable[t], "rolledback") /\ UNCHANGED abandoned
      BY <2>2, <2>4 DEF Answered
    <2> QED
      BY <1>5, <2>1, <2>3, <2>4 DEF AfterCommit
  <1>6. CASE InterruptCommit(t)
    BY <1>4, <1>6 DEF InterruptCommit
  <1>7. CASE AfterRollback(t)
    <2>0. st[t] = "rollback" /\ abandoned' \in SUBSET Conn /\ abandoned \subseteq abandoned'
      BY <1>7, <1>b DEF AfterRollback, Answered, Refused
    <2>1. CASE Answered(t, "rollback", "ok") /\ Release(t, reusable[t], "rolledback")
      <3>1. link[on[t]] = "up" => srv[on[t]] = "none" /\ pipe[on[t]] = <<>>
        BY <2>0, <2>1, <1>c DEF AwaitOf, Answered
      <3> QED
        BY <2>0, <2>1, <3>1, <1>b, <1>w, OwnerReleases
    <2>2. CASE Release(t, FALSE, "unknown")
      BY <2>0, <2>2, <1>w, OwnerReleases
    <2> QED
      BY <1>7, <2>1, <2>2 DEF AfterRollback
  <1>8. CASE DropCall(t)
    <2>1. CASE /\ st[t] \in Opening /\ abandoned' = abandoned \cup {on[t]} /\ Release(t, TRUE, "failed")
      <3>1. st[t] \notin {"new", "done", "commit"}
        BY <2>1 DEF Opening
      <3>2. /\ abandoned' \in SUBSET Conn /\ abandoned \subseteq abandoned' /\ on[t] \in abandoned'
        BY <2>1, <3>1, <1>b, <1>c
      <3> QED
        BY <2>1, <3>1, <3>2, <1>w, OwnerReleases
    <2>2. CASE st[t] \in Operating /\ Resume(t, "ready") /\ UNCHANGED <<open, reusable>>
      <3>1. st[t] \notin {"new", "done"}
        BY <2>2 DEF Operating
      <3> QED
        BY <2>2, <3>1, <1>b, <1>c, ResumeStep
    <2>3. CASE /\ st[t] \in {"commit", "rollback"} /\ Release(t, ~open[t] /\ reusable[t], "abandoned")
               /\ UNCHANGED abandoned
      <3>1. CASE st[t] = "rollback"
        BY <2>3, <3>1, <1>2
      <3>2. CASE st[t] = "commit"
        <4>1. ~(~open[t] /\ reusable[t])
          BY <3>2, <1>c
        <4>2. PICK k \in BOOLEAN : k = (~open[t] /\ reusable[t])
          OBVIOUS
        <4> QED
          BY <2>3, <3>2, <4>1, <4>2, <1>4
      <3> QED
        BY <2>3, <3>1, <3>2
    <2> QED
      BY <1>8, <2>1, <2>2, <2>3 DEF DropCall
  <1> QED
    BY <1>1, <1>3, <1>5, <1>6, <1>7, <1>8

-----------------------------------------------------------------------------
(* The theorems.                                                           *)

\* Every step preserves the invariant.
LEMMA NextOK == IInv /\ [Next]_vars => IInv'
  <1> SUFFICES ASSUME IInv, [Next]_vars PROVE IInv'
    OBVIOUS
  <1>1. CASE \E c \in Conn : Process(c) \/ Break(c) \/ Hangup(c)
    BY <1>1, ProcessStep, BreakStep, HangupStep
  <1>2. ASSUME NEW t \in Txn,
               \/ \E c \in Conn : Checkout(t, c) \/ Connect(t, c)
               \/ AfterDiscard(t) \/ AfterGuard(t) \/ AfterBegin(t)
               \/ AfterVerify(t) \/ AfterUnverify(t) \/ AfterContext(t) \/ AfterUncontext(t)
               \/ Execute(t) \/ Query(t) \/ Savepoint(t) \/ ReleaseSavepoint(t)
               \/ RollbackToSavepoint(t) \/ ReadCatalog(t) \/ QueryStream(t) \/ NextBatch(t)
               \/ ConditionalUpdate(t) \/ ProbeKey(t)
               \/ AfterOperation(t) \/ Interrupt(t)
               \/ Commit(t) \/ CommitRefused(t) \/ AfterCommit(t) \/ InterruptCommit(t)
               \/ Rollback(t) \/ AfterRollback(t) \/ Drop(t) \/ DropCall(t)
        PROVE  IInv'
    BY <1>2, OpeningStep, OperatingStep, EndingStep
  <1>3. CASE UNCHANGED vars
    <2>1. /\ link' = link /\ pipe' = pipe /\ srv' = srv /\ cur' = cur /\ work' = work
          /\ spoiled' = spoiled /\ idle' = idle /\ abandoned' = abandoned /\ st' = st /\ on' = on
          /\ open' = open /\ reusable' = reusable /\ reply' = reply /\ ops' = ops /\ report' = report
      BY <1>3 DEF vars, server, pool, client
    <2> QED
      BY <2>1 DEF IInv, TypeOK, OwnersOK, HomeOK, Present, ServerOK, PipeOK, EntryOK, Entries, Cmd, Who,
              AwaitOK, AwaitOf, Inside, FlagsOK, OutcomeOK, OutcomeOf, CommitSent, CommittedIsApplied, PoolIsClean
  <1> QED
    BY <1>1, <1>2, <1>3 DEF Next

\* The invariant holds in every reachable state, for any number of
\* transactions, connections and operations.
THEOREM TransactionsInv == Spec => []IInv
  BY InitOK, NextOK, PTL DEF Spec

\* Type correctness of the PostgreSQL transactions.
THEOREM TransactionTypes == Spec => []TypeOK
  <1>1. IInv => TypeOK
    BY DEF IInv
  <1> QED
    BY <1>1, TransactionsInv, PTL

\* Between BEGIN and the end, the session works inside the server
\* transaction that its own BEGIN opened, whatever command of a dropped or
\* interrupted call was still on its way when the connection changed hands.
THEOREM SessionsWorkInTheirOwn == Spec => []OwnTransaction
  <1>1. IInv => OwnTransaction
    <2> SUFFICES ASSUME IInv, NEW t \in Txn,
                        st[t] \in Operating \cup {"ready", "verify", "context", "commit"}, link[on[t]] = "up",
                        st[t] = "commit" => reply[t] = "none"
                 PROVE  cur[on[t]] = t
      BY DEF OwnTransaction
    <2>1. st[t] \notin {"new", "done"}
      BY DEF Operating
    <2>2. AwaitOf(t, on[t])
      BY <2>1, OwnerFacts
    <2> QED
      BY <2>2 DEF AwaitOf, Inside
  <1> QED
    BY <1>1, TransactionsInv, PTL

\* CommitOutcome::Committed is only said of writes that are applied, but for
\* a COMMIT that met an aborted transaction.
THEOREM CommittedStaysTrue == Spec => []CommittedIsApplied
  <1>1. IInv => CommittedIsApplied
    BY DEF IInv
  <1> QED
    BY <1>1, TransactionsInv, PTL

\* Rolled back, refused, dropped and failed are only said of transactions
\* whose writes are not applied and never will be.
THEOREM NotCommittedStaysTrue == Spec => []NotCommittedNotApplied
  <1>1. IInv => NotCommittedNotApplied
    BY DEF IInv, FlagsOK, OutcomeOK, OutcomeOf, NotCommittedNotApplied
  <1> QED
    BY <1>1, TransactionsInv, PTL

\* What the pool hands out again is quiet, unless an opening call was
\* dropped on it.
THEOREM IdleStaysClean == Spec => []PoolIsClean
  <1>1. IInv => PoolIsClean
    BY DEF IInv
  <1> QED
    BY <1>1, TransactionsInv, PTL
=============================================================================
