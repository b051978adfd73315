-------------------------- MODULE AdapterScopesProof --------------------------
(***************************************************************************)
(* Proofs about AdapterScopes, for any number of statements and any set of *)
(* adapters: what a commit or a rollback answers the caller is true.       *)
(*                                                                         *)
(* None of the properties is inductive.  What makes them so is Held: while *)
(* the scope stands (it is open, its session ready, its connection up and  *)
(* no answer says otherwise) the server's transaction holds what the       *)
(* caller was told is done and nothing that it was told is undone.  The    *)
(* other parts say which command can be on its way when (WireOK, CallOK),  *)
(* that it finds a transaction (LiveOK), and what the numbers of the       *)
(* statements are (CountOK).  The steps of the adapters are made of a few  *)
(* parts; a lemma for each part says when it preserves the invariant.      *)
(***************************************************************************)
EXTENDS AdapterScopes, TLAPS

-----------------------------------------------------------------------------
(* The inductive invariant.                                                *)

\* A statement of Oracle and Db2 opens the transaction it needs.
Implicit == adapter \in {"oracle", "db2"}

Commands ==
    CASE adapter = "mysql" -> Command \ {"none", "reset"}
      [] adapter = "sqlserver" -> {"execute", "query", "stream", "save", "rollback_to", "commit", "rollback"}
      [] adapter = "oracle" -> {"execute", "query", "save", "rollback_to", "commit", "rollback"}
      [] OTHER -> {"execute", "query", "save", "release", "rollback_to", "commit", "rollback"}

InCall == at \notin {"idle", "ended"}

\* What is on its way, and where its answer goes.
WireOK ==
    /\ InCall => at \in Commands
    /\ ~InCall => reply = "none"
    /\ reply # "none" => wire = "none"
    /\ wire \in {"none", "reset"} \cup Commands
    /\ wire = "reset" => kept /\ adapter = "mysql"
    /\ InCall => wire \in {"none", at}
    /\ InCall /\ link = "up" /\ reply = "none" => wire = at
    /\ at = "idle" /\ link = "up" => wire = "none" \/ ~open \/ (wire = "stream" /\ adapter = "sqlserver")
    /\ at = "ended" /\ ~kept => link = "down"

\* The call that awaits a command.
CallOK ==
    /\ InCall /\ at # "rollback" => open /\ state = "ready"
    /\ ~InCall => call = "none"
    /\ at = "idle" => result = "ok"
    /\ at = "execute" => call \in {"execute", "conditional"}
    /\ at \in {"save_own", "release_own", "rollback_own"} => call = "conditional"
    /\ at = "query" => call = "query" \/ (call = "conditional" /\ adapter # "mysql")
    /\ at = "stream" => call = "stream"
    /\ at = "read" => call \in {"execute", "conditional", "query", "stream", "commit"}
    /\ at = "save" <=> call = "save"
    /\ at = "release" => call = "release"
    /\ at = "rollback_to" <=> call = "rollback_to"
    /\ at = "commit" => call = "commit"
    /\ at = "rollback" => call = "rollback"

\* Statements are numbered up to count; the number of the statement in
\* progress is new.
CountOK ==
    /\ tx.work \subseteq 1 .. count /\ promised \subseteq 1 .. count /\ revoked \subseteq 1 .. count
    /\ mark <= count /\ tx.saved["own"] < count
    /\ InCall /\ call \in {"execute", "conditional"} => count >= 1 /\ count \notin promised /\ count \notin revoked
    /\ wire = "execute" => count >= 1

\* What is on its way finds the transaction it is meant for.
LiveOK ==
    /\ unnoticed => adapter = "sqlserver" /\ ~tx.live
    /\ wire \notin {"none", "reset", "rollback"} => tx.live \/ unnoticed \/ Implicit
    /\ reply \in {"undone", "proven"} => tx = NoTx

CommitOK ==
    /\ committing => at \in {"commit", "ended"}
    /\ wire = "commit" => committing /\ (applied = {} \/ unnoticed)
    /\ at = "commit" => committing
    /\ at = "commit" /\ reply = "ok" => promised \subseteq applied /\ revoked \cap applied = {}
    /\ at = "commit" /\ reply \in {"undone", "proven"} => applied = {} \/ unnoticed
    /\ at \in {"commit", "rollback"} /\ reply = "ok" => tx = NoTx

ToldOK ==
    /\ told # NotTold => at = "ended"
    /\ told = Committed => tx = NoTx /\ wire \in {"none", "reset"}
    /\ told.effect \in {"none", "rolled_back"} => wire # "commit"
    /\ kept => at = "ended" /\ link = "up"

\* The scope stands: its next commit may be answered Committed.
Stands ==
    /\ link = "up" /\ open /\ state = "ready" /\ ~unnoticed /\ at # "ended"
    /\ reply # "none" =>
          /\ at \notin {"commit", "rollback"}
          /\ \/ reply = "ok"
             \/ reply \in {"error", "warned"} /\ adapter # "sqlserver"
             \/ at = "stream" /\ adapter = "sqlserver"

Did(cmd) == at = cmd /\ reply = "ok"

\* The transaction holds what the caller was told.
Held ==
    /\ Implicit \/ tx.live
    /\ revoked \cap tx.work = {}
    /\ promised \subseteq tx.work \/ Did("rollback_to")
    /\ Did("rollback_to") =>
          \A k \in 1 .. count : (k \in tx.work => k <= mark) /\ (k \in promised /\ k <= mark => k \in tx.work)
    /\ tx.saved["caller"] \in {-1, mark} \/ Did("save")
    /\ Did("save") => tx.saved["caller"] = count
    /\ at = "execute" /\ reply \in {"ok", "warned"} => count \in tx.work
    /\ at = "read" /\ result = "ok" /\ call \in {"execute", "conditional"} => count \in tx.work
    /\ at = "release_own" => count \in tx.work
    /\ Did("save_own") \/ (adapter = "mysql" /\ call = "conditional" /\ at \in {"execute", "read", "rollback_own"})
          => tx.saved["own"] = count - 1
    /\ Did("rollback_own") => count \notin tx.work

IInv ==
    /\ TypeOK /\ WireOK /\ CallOK /\ CountOK /\ LiveOK /\ CommitOK /\ ToldOK
    /\ CommittedIsWhole /\ NothingEscapes /\ RolledBackIsUndone /\ KeptIsClean
    /\ Stands => Held

-----------------------------------------------------------------------------
(* The parts of a call.                                                    *)

\* What the caller has not been told is neither a commit nor a rollback.
LEMMA Untold == NotTold # Committed /\ NotTold.effect = "unknown"
  BY DEF NotTold, Committed

\* The calls, by the command that they begin with.
Begins ==
    {<<"execute", "execute">>, <<"query", "query">>, <<"stream", "stream">>, <<"save", "save">>,
     <<"release", "release">>, <<"rollback_to", "rollback_to">>, <<"rollback", "rollback">>}
    \cup (IF adapter = "mysql" THEN {<<"conditional", "save_own">>, <<"commit", "read">>}
                               ELSE {<<"conditional", "execute">>, <<"commit", "commit">>})

\* A call begins: its first command finds the transaction that the scope holds.
LEMMA StartKeeps ==
    ASSUME NEW c, NEW cmd, IInv, Start(c, cmd), <<c, cmd>> \in Begins, cmd \in Commands
    PROVE  IInv'
<1> USE ScopeAssumption DEF IInv, Start, Send, fields, server, caller
<1>0. cmd \notin {"none", "reset", "idle", "ended"} /\ Commands' = Commands /\ "none" \notin Commands
  BY DEF Commands, Command, Begins
<1>1. TypeOK'
  BY DEF TypeOK, Begins, Command, Call
<1>2. link = "up" => Implicit \/ tx.live \/ unnoticed
  BY DEF Stands, Held, WireOK, InCall
<1>3. WireOK'
  BY <1>0 DEF WireOK, InCall, ToldOK
<1>4. CallOK'
  BY <1>1 DEF CallOK, InCall, Begins
<1>5. CountOK'
  <2>1. count \in Nat /\ count' \in {count, count + 1}
    BY DEF TypeOK
  <2>2. \A S : S \subseteq 1 .. count => S \subseteq 1 .. count' /\ count + 1 \notin S
    BY <2>1
  <2>3. c \in {"execute", "conditional"} =>
           count' = count + 1 /\ count' \notin promised /\ count' \notin revoked
    BY <2>2 DEF CountOK
  <2>4. cmd = "execute" => c \in {"execute", "conditional"}
    BY DEF Begins
  <2>5. tx.saved["own"] \in Int /\ mark \in Int
    BY DEF TypeOK, Savepoint
  <2> QED
    BY <2>1, <2>2, <2>3, <2>4, <2>5 DEF CountOK, InCall
<1>6. LiveOK'
  BY <1>2 DEF LiveOK, Implicit
<1>7. CommitOK' /\ ToldOK'
  <2>1. ~committing /\ (committing' <=> cmd = "commit") /\ (applied = {} \/ unnoticed) /\ told = NotTold
    BY DEF CommitOK, ToldOK, NothingEscapes
  <2> QED
    BY <1>0, <2>1, Untold DEF CommitOK, ToldOK
<1>8. CommittedIsWhole' /\ NothingEscapes' /\ RolledBackIsUndone' /\ KeptIsClean'
  BY DEF CommittedIsWhole, NothingEscapes, RolledBackIsUndone, KeptIsClean, ToldOK, InCall
<1>9. (Stands => Held)'
  <2> SUFFICES ASSUME Stands' PROVE Held'
    OBVIOUS
  <2>1. Stands /\ Held
    BY DEF Stands, WireOK, InCall
  <2> QED
    BY <2>1, <1>1 DEF Held, Did, Implicit, CountOK, Begins, TypeOK
<1> QED
  BY <1>1, <1>3, <1>4, <1>5, <1>6, <1>7, <1>8, <1>9

\* The command that a call sends after the answer to another.
Follows(cmd, r) ==
    \/ /\ adapter = "mysql" /\ call # "commit"
       /\ \/ at \in {"execute", "query", "stream"} /\ reply \in {"ok", "error"} /\ cmd = "read" /\ r = reply
          \/ at = "read" /\ call = "conditional" /\ reply = "ok" /\ result = "ok"
                /\ cmd \in {"release_own", "rollback_own"} /\ r = "ok"
          \/ Did("save_own") /\ cmd = "execute" /\ r = "ok"
    \/ adapter = "mysql" /\ Did("read") /\ call = "commit" /\ cmd = "commit" /\ r = "ok"
    \/ adapter # "mysql" /\ Did("execute") /\ call = "conditional" /\ cmd = "query" /\ r = "ok"

\* A call goes on with another command.
LEMMA ThenKeeps ==
    ASSUME NEW cmd, NEW r, IInv, Then(cmd, r), Follows(cmd, r)
    PROVE  IInv'
<1> USE ScopeAssumption DEF IInv, Then, Send, fields, server, caller
<1>1. TypeOK' /\ cmd \notin {"none", "reset", "rollback", "idle", "ended"} /\ InCall /\ at \notin {"commit", "rollback"}
  BY DEF TypeOK, Follows, Did, Command, InCall
<1>2. cmd \in Commands /\ Commands' = Commands /\ "none" \notin Commands
  BY DEF Follows, Commands, Did, Command, TypeOK
<1>3. link = "up" => Implicit \/ tx.live \/ unnoticed
  BY <1>1 DEF Stands, Held, WireOK, InCall, Follows, Did, CallOK
<1>4. WireOK'
  BY <1>1, <1>2 DEF WireOK, InCall, ToldOK
<1>5. CallOK'
  BY <1>1 DEF CallOK, InCall, Follows, Did
<1>6. CountOK'
  BY <1>1 DEF CountOK, InCall, Follows, Did, CallOK
<1>7. LiveOK'
  BY <1>3 DEF LiveOK, Implicit
<1>8. CommitOK' /\ ToldOK'
  <2>1. ~committing /\ (committing' <=> cmd = "commit") /\ (applied = {} \/ unnoticed) /\ told = NotTold
    BY <1>1 DEF CommitOK, ToldOK, NothingEscapes, InCall
  <2> QED
    BY <1>1, <2>1, Untold DEF CommitOK, ToldOK, InCall
<1>9. CommittedIsWhole' /\ NothingEscapes' /\ RolledBackIsUndone' /\ KeptIsClean'
  BY <1>1 DEF CommittedIsWhole, NothingEscapes, RolledBackIsUndone, KeptIsClean, ToldOK, InCall
<1>10. (Stands => Held)'
  <2> SUFFICES ASSUME Stands' PROVE Held'
    OBVIOUS
  <2>1. Stands /\ Held
    BY <1>1 DEF Stands, Follows, Did, InCall, CallOK
  <2>2. /\ Implicit' = Implicit /\ tx' = tx /\ revoked' = revoked /\ promised' = promised /\ mark' = mark
        /\ count' = count /\ \A x : ~Did(x)'
    BY DEF Implicit, Did
  <2>3. promised \subseteq tx.work /\ tx.saved["caller"] \in {-1, mark}
    BY <2>1 DEF Held, Follows, CallOK, Did
  <2>4. (at = "read" /\ result = "ok" /\ call \in {"execute", "conditional"} => count \in tx.work)'
    BY <2>1, <2>2 DEF Held, Follows, CallOK, Did
  <2>5. (at = "release_own" => count \in tx.work)'
    BY <2>1, <2>2 DEF Held, Follows, Did
  <2>6. (adapter = "mysql" /\ call = "conditional" /\ at \in {"execute", "read", "rollback_own"}
           => tx.saved["own"] = count - 1)'
    BY <2>1, <2>2 DEF Held, Follows, CallOK, Did
  <2> QED
    BY <2>1, <2>2, <2>3, <2>4, <2>5, <2>6 DEF Held
<1> QED
  BY <1>1, <1>4, <1>5, <1>6, <1>7, <1>8, <1>9, <1>10

\* A call returns: the scope no longer stands, or the transaction still holds
\* what the caller knows.
LEMMA BackKeeps ==
    ASSUME NEW o \in BOOLEAN, NEW rec \in BOOLEAN, NEW s \in {"ready", "uncommittable", "gone"},
           NEW l \in {"up", "down"}, IInv,
           Back(o, rec, s, l), mark' \in {mark, count},
           promised' \subseteq 1 .. count, revoked' \subseteq 1 .. count, at \notin {"commit", "ended"}, l \in {link, "down"},
           l = "up" => ~o \/ wire = "none" \/ (wire = "stream" /\ adapter = "sqlserver"),
           (Stands => Held)'
    PROVE  IInv'
<1> USE ScopeAssumption DEF IInv, Back, server
<1>1. TypeOK'
  BY DEF TypeOK, CountOK, Command, Call, Statement
<1>2. told = NotTold /\ ~kept /\ ~committing
  BY DEF ToldOK, CommitOK
<1>3. Commands' = Commands
  BY DEF Commands
<1>4. WireOK'
  BY <1>2, <1>3 DEF WireOK, InCall
<1>5. CallOK' /\ LiveOK' /\ CommitOK' /\ ToldOK'
  BY <1>2, Untold DEF CallOK, InCall, LiveOK, Implicit, CommitOK, ToldOK
<1>6. CountOK'
  BY DEF CountOK, InCall, TypeOK
<1>7. CommittedIsWhole' /\ NothingEscapes' /\ RolledBackIsUndone' /\ KeptIsClean'
  BY <1>2, Untold DEF CommittedIsWhole, NothingEscapes, RolledBackIsUndone, KeptIsClean
<1> QED
  BY <1>1, <1>4, <1>5, <1>6, <1>7

\* A call returns an error, and the scope is left closed, quarantined or
\* without its connection.
LEMMA ReturnsKeeps ==
    ASSUME NEW o \in BOOLEAN, NEW rec \in BOOLEAN, NEW s \in {"ready", "uncommittable", "gone"},
           NEW l \in {"up", "down"}, IInv, Returns(o, rec, s, l),
           at \notin {"commit", "ended"}, l \in {link, "down"}, l = "up" => ~o \/ wire = "none",
           ~o \/ s # "ready" \/ l = "down"
    PROVE  IInv'
<1>1. Back(o, rec, s, l) /\ promised' = promised /\ revoked' = revoked /\ mark' \in {mark, count}
  BY DEF Returns, caller
<1>2. promised' \subseteq 1 .. count /\ revoked' \subseteq 1 .. count
  BY <1>1 DEF IInv, CountOK
<1>3. ~Stands'
  BY DEF Returns, Back, Stands
<1>4. (Stands => Held)'
  BY <1>3
<1> QED
  BY <1>1, <1>2, <1>4, BackKeeps

\* A call returns an error, and the scope is as it was.
LEMMA FailsKeeps ==
    ASSUME IInv, Fails, InCall, at \notin {"commit", "rollback"},
           \/ link = "down"
           \/ reply = "error" /\ adapter # "sqlserver"
           \/ reply = "ok" /\ at \notin {"save", "rollback_to"}
           \/ at = "stream" /\ adapter = "sqlserver"
    PROVE  IInv'
<1> USE DEF IInv
<1>1. /\ Back(open, recovery, state, link) /\ promised' = promised /\ revoked' = revoked /\ mark' = mark
      /\ promised' \subseteq 1 .. count /\ revoked' \subseteq 1 .. count
      /\ open \in BOOLEAN /\ recovery \in BOOLEAN /\ state \in {"ready", "uncommittable", "gone"}
      /\ link \in {"up", "down"}
  BY DEF Fails, Returns, caller, CountOK, TypeOK
<1>2. link = "up" => ~open \/ wire = "none" \/ (wire = "stream" /\ adapter = "sqlserver")
  BY DEF WireOK, InCall
<1>3. (Stands => Held)'
  <2> SUFFICES ASSUME Stands' PROVE Held'
    OBVIOUS
  <2>1. /\ tx' = tx /\ adapter' = adapter /\ count' = count /\ at' = "idle" /\ reply' = "none"
        /\ link' = link /\ open' = open /\ state' = state /\ unnoticed' = unnoticed
    BY <1>1 DEF Back, server
  <2>2. Stands /\ Held
    BY <2>1 DEF Stands, InCall, LiveOK, WireOK, TypeOK
  <2>3. ~Did("save") /\ ~Did("rollback_to")
    BY <2>1 DEF Did, Stands
  <2> QED
    BY <1>1, <2>1, <2>2, <2>3 DEF Held, Did, Implicit
<1>4. at \notin {"commit", "ended"} /\ mark' \in {mark, count}
  BY <1>1 DEF InCall
<1> HIDE DEF IInv
<1> QED
  BY <1>1, <1>2, <1>3, <1>4, BackKeeps

\* A call succeeds: what the caller learns is what the transaction holds.
LEMMA SucceedsKeeps ==
    ASSUME IInv, Succeeds, reply = "ok", InCall, at \notin {"commit", "rollback"},
           call \in {"execute", "conditional"} =>
              at \in {"execute", "release_own"} \/ (at = "read" /\ result = "ok")
    PROVE  IInv'
<1> USE DEF IInv
<1> DEFINE P == CASE call \in {"execute", "conditional"} -> promised \cup {count}
                  [] call = "rollback_to" -> {k \in promised : k <= mark}
                  [] OTHER -> promised
           R == IF call = "rollback_to" THEN revoked \cup {k \in 1 .. count : k > mark} ELSE revoked
<1>1. /\ Back(open, recovery, state, link) /\ promised' = P /\ revoked' = R
      /\ mark' = IF call = "save" THEN count ELSE mark
      /\ open \in BOOLEAN /\ recovery \in BOOLEAN /\ state \in {"ready", "uncommittable", "gone"}
      /\ link \in {"up", "down"} /\ count \in Nat /\ mark \in Int
  BY DEF Succeeds, TypeOK
<1>2. P \subseteq 1 .. count /\ R \subseteq 1 .. count
  BY <1>1 DEF CountOK
<1>3. /\ call \in {"execute", "conditional"} => P = promised \cup {count} /\ R = revoked
      /\ call = "rollback_to" => P = {k \in promised : k <= mark} /\ R = revoked \cup {k \in 1 .. count : k > mark}
      /\ call \notin {"execute", "conditional", "rollback_to"} => P = promised /\ R = revoked
  OBVIOUS
<1> HIDE DEF P, R
<1>4. (Stands => Held)'
  <2> SUFFICES ASSUME Stands' PROVE Held'
    OBVIOUS
  <2>1. /\ tx' = tx /\ adapter' = adapter /\ count' = count /\ at' = "idle" /\ reply' = "none"
        /\ link' = link /\ open' = open /\ state' = state /\ unnoticed' = unnoticed
    BY <1>1 DEF Back, server
  <2>2. Stands /\ Held
    BY <2>1 DEF Stands, InCall
  <2>3. P \subseteq tx.work
    <3>1. CASE call \in {"execute", "conditional"}
      BY <1>3, <2>2, <3>1 DEF Held, Did, CallOK
    <3>2. CASE call = "rollback_to"
      BY <1>3, <2>2, <3>2 DEF Held, Did, CallOK, CountOK
    <3>3. CASE call \notin {"execute", "conditional", "rollback_to"}
      BY <1>3, <2>2, <3>3 DEF Held, Did, CallOK
    <3> QED
      BY <3>1, <3>2, <3>3
  <2>4. R \cap tx.work = {}
    BY <1>1, <1>3, <2>2 DEF Held, Did, CallOK, CountOK
  <2>5. tx.saved["caller"] \in {-1, mark'}
    BY <1>1, <2>2 DEF Held, Did, CallOK
  <2> QED
    BY <1>1, <2>1, <2>2, <2>3, <2>4, <2>5 DEF Held, Did, Implicit
<1>5. /\ at \notin {"commit", "ended"} /\ mark' \in {mark, count} /\ wire = "none"
      /\ promised' \subseteq 1 .. count /\ revoked' \subseteq 1 .. count
  BY <1>1, <1>2 DEF InCall, WireOK
<1> HIDE DEF IInv
<1> QED
  BY <1>1, <1>2, <1>4, <1>5, BackKeeps

\* The caller is told that the server ended the transaction: the scope is
\* closed, or the next statement opens another transaction.
LEMMA ToldKeeps ==
    ASSUME NEW o \in BOOLEAN, NEW rec \in BOOLEAN, NEW s \in {"ready", "uncommittable", "gone"},
           NEW l \in {"up", "down"}, IInv, ToldRolledBack(o, rec, s, l), reply = "undone",
           InCall, at # "commit", l \in {link, "down"},
           ~o \/ s # "ready" \/ l = "down" \/ Implicit
    PROVE  IInv'
<1> USE DEF IInv
<1>1. /\ Back(o, rec, s, l) /\ promised' = {} /\ revoked' = revoked /\ mark' = mark
      /\ revoked' \subseteq 1 .. count /\ wire = "none" /\ tx = NoTx
  BY DEF ToldRolledBack, CountOK, WireOK, LiveOK
<1>2. (Stands => Held)'
  <2> SUFFICES ASSUME Stands' PROVE Held'
    OBVIOUS
  <2>1. tx' = NoTx /\ adapter' = adapter /\ at' = "idle" /\ link' = l /\ open' = o /\ state' = s
    BY <1>1 DEF Back, server
  <2>2. NoTx.work = {} /\ NoTx.saved["caller"] = -1
    BY DEF NoTx, Savepoint
  <2> QED
    BY <1>1, <2>1, <2>2 DEF Held, Did, Implicit, Stands
<1>3. at \notin {"commit", "ended"} /\ mark' \in {mark, count} /\ promised' \subseteq 1 .. count
  BY <1>1 DEF InCall
<1> HIDE DEF IInv
<1> QED
  BY <1>1, <1>2, <1>3, BackKeeps

\* The caller is told that a conditional update was undone.
LEMMA UndoneKeeps ==
    ASSUME IInv, Back(open, recovery, state, link), Did("rollback_own"),
           revoked' = revoked \cup {count}, promised' = promised, mark' = mark
    PROVE  IInv'
<1> USE DEF IInv
<1>1. /\ at \notin {"commit", "ended"} /\ InCall /\ wire = "none" /\ mark' \in {mark, count} /\ count \in 1 .. count
      /\ open \in BOOLEAN /\ recovery \in BOOLEAN /\ state \in {"ready", "uncommittable", "gone"}
      /\ link \in {"up", "down"}
  BY DEF Did, WireOK, InCall, TypeOK, CountOK, CallOK
<1>2. promised' \subseteq 1 .. count /\ revoked' \subseteq 1 .. count
  BY <1>1 DEF CountOK
<1>3. (Stands => Held)'
  <2> SUFFICES ASSUME Stands' PROVE Held'
    OBVIOUS
  <2>1. /\ tx' = tx /\ adapter' = adapter /\ count' = count /\ at' = "idle" /\ reply' = "none"
        /\ link' = link /\ open' = open /\ state' = state /\ unnoticed' = unnoticed
    BY DEF Back, server
  <2>2. Stands /\ Held
    BY <2>1 DEF Stands, Did
  <2> QED
    BY <2>1, <2>2 DEF Held, Did, Implicit
<1> HIDE DEF IInv
<1> QED
  BY <1>1, <1>2, <1>3, BackKeeps

\* commit or rollback answers a, which is true, and the connection is clean
\* if it goes back to the pool.
LEMMA EndsKeeps ==
    ASSUME NEW a \in Answer \cup {RolledBack, NotTold}, NEW keep \in BOOLEAN, IInv, Ends(a, keep), at # "ended",
           \/ wire' = wire /\ (keep => wire = "none" /\ tx = NoTx)
           \/ wire' = "reset" /\ wire = "none" /\ keep /\ link = "up" /\ adapter = "mysql",
           a = Committed => Did("commit"),
           a.effect \in {"none", "rolled_back"} => wire # "commit" /\ (applied = {} \/ unnoticed)
    PROVE  IInv'
<1> USE ScopeAssumption DEF IInv, Ends, server, caller
<1>0. "reset" \in Command /\ wire' \in Command /\ kept' \in BOOLEAN /\ link' \in {"up", "down"}
  BY DEF TypeOK, Command
<1>1. TypeOK' /\ "reset" \in Command
  BY <1>0 DEF TypeOK, Call
<1>2. ~kept /\ Commands' = Commands /\ "none" \notin Commands
  BY DEF ToldOK, Commands, Command
<1>3. wire' = "reset" => kept' /\ adapter' = "mysql"
  BY <1>2 DEF WireOK
<1>4. WireOK'
  BY <1>2, <1>3, <1>1 DEF WireOK, InCall, TypeOK
<1>5. CallOK' /\ CountOK'
  BY DEF CallOK, CountOK, InCall, WireOK
<1>6. LiveOK' /\ CommitOK'
  BY DEF LiveOK, Implicit, CommitOK
<1>7. ToldOK'
  BY <1>1, <1>2 DEF ToldOK, CommitOK, Did, WireOK, TypeOK
<1>8. CommittedIsWhole' /\ NothingEscapes' /\ RolledBackIsUndone'
  BY DEF CommittedIsWhole, NothingEscapes, RolledBackIsUndone, CommitOK, Did
<1>9. KeptIsClean'
  BY <1>2 DEF KeptIsClean
<1>10. ~Stands'
  BY DEF Stands
<1> QED
  BY <1>1, <1>4, <1>5, <1>6, <1>7, <1>8, <1>9, <1>10

\* What EndsWith asks for.
LEMMA EndsWithKeeps ==
    ASSUME NEW a \in Answer \cup {RolledBack, NotTold}, NEW keep \in BOOLEAN, IInv, EndsWith(a, keep), at # "ended",
           keep => Did("commit") \/ Did("rollback"),
           a = Committed => Did("commit"),
           a.effect \in {"none", "rolled_back"} =>
              ~committing \/ (at = "commit" /\ reply \in {"undone", "proven"})
    PROVE  IInv'
<1>1. Ends(a, keep) /\ wire' = wire
  BY DEF EndsWith
<1>2. keep => wire = "none" /\ tx = NoTx
  BY DEF IInv, WireOK, CommitOK, Did
<1>3. a.effect \in {"none", "rolled_back"} => wire # "commit" /\ (applied = {} \/ unnoticed)
  BY DEF IInv, WireOK, CommitOK, NothingEscapes
<1> QED
  BY <1>1, <1>2, <1>3, EndsKeeps

\* The scope is dropped, in a call or not.
LEMMA DropKeeps == ASSUME IInv, DropScope PROVE IInv'
<1>1. NotTold \in Answer \cup {RolledBack, NotTold} /\ FALSE \in BOOLEAN
  OBVIOUS
<1>2. at # "ended" /\ EndsWith(NotTold, FALSE)
  BY DEF DropScope, EndsWith
<1> QED
  BY <1>1, <1>2, Untold, EndsWithKeeps

\* The drop of every adapter drops the scope.
LEMMA DropsAreDrops == Drops => DropScope
<1> USE DEF DropScope, Ends, NotTold, server, caller
<1>1. Mysql!Drop => DropScope
  BY DEF Mysql!Drop, Mysql!DropScope, Mysql!Ends, Mysql!NotTold, Mysql!server, Mysql!caller
<1>2. SqlServer!Drop => DropScope
  BY DEF SqlServer!Drop, SqlServer!DropScope, SqlServer!Ends, SqlServer!NotTold, SqlServer!server, SqlServer!caller
<1>3. Oracle!Drop => DropScope
  BY DEF Oracle!Drop, Oracle!DropScope, Oracle!Ends, Oracle!NotTold, Oracle!server, Oracle!caller
<1>4. Db2!Drop => DropScope
  BY DEF Db2!Drop, Db2!DropScope, Db2!Ends, Db2!NotTold, Db2!server, Db2!caller
<1> QED
  BY <1>1, <1>2, <1>3, <1>4 DEF Drops

-----------------------------------------------------------------------------
(* The connection and the server.                                          *)

\* A broken connection.
LEMMA BreakKeeps == ASSUME IInv, Break PROVE IInv'
<1> USE ScopeAssumption DEF IInv, Break, fields, server, caller
<1>1. TypeOK' /\ Commands' = Commands
  BY DEF TypeOK, Commands
<1>2. WireOK' /\ CallOK' /\ CountOK' /\ LiveOK' /\ CommitOK' /\ ToldOK'
  BY <1>1 DEF WireOK, CallOK, CountOK, LiveOK, CommitOK, ToldOK, InCall, Implicit
<1>3. CommittedIsWhole' /\ NothingEscapes' /\ RolledBackIsUndone' /\ KeptIsClean' /\ ~Stands'
  BY DEF CommittedIsWhole, NothingEscapes, RolledBackIsUndone, KeptIsClean, Stands
<1> QED
  BY <1>1, <1>2, <1>3

\* The server notices a broken connection.
LEMMA HangupKeeps == ASSUME IInv, Hangup PROVE IInv'
<1> USE ScopeAssumption DEF IInv, Hangup, fields, server, caller
<1>0. NoTx.live = FALSE /\ NoTx.work = {} /\ NoTx.saved = [p \in Savepoint |-> -1] /\ NoTx.saved["own"] = -1
  BY DEF NoTx, Savepoint
<1>1. TypeOK' /\ Commands' = Commands
  BY DEF TypeOK, Commands, NoTx, Command, Savepoint
<1>2. WireOK' /\ CallOK'
  BY <1>1 DEF WireOK, CallOK, InCall
<1>3. CountOK' /\ LiveOK'
  BY <1>0 DEF CountOK, LiveOK, InCall, Implicit, TypeOK
<1>4. CommitOK' /\ ToldOK'
  BY <1>0 DEF CommitOK, ToldOK
<1>5. CommittedIsWhole' /\ NothingEscapes' /\ RolledBackIsUndone' /\ KeptIsClean' /\ ~Stands'
  BY DEF CommittedIsWhole, NothingEscapes, RolledBackIsUndone, KeptIsClean, Stands
<1> QED
  BY <1>1, <1>2, <1>3, <1>4, <1>5

Transaction == [live : BOOLEAN, work : SUBSET Statement, saved : [Savepoint -> -1 .. MaxStatements]]

\* What no outcome of a command may do to the transaction.
Lawful(o) ==
    /\ o.tx \in Transaction /\ o.applied \subseteq Statement
    /\ o.answer \in {"ok", "error", "undone", "proven", "warned"}
    /\ o.tx.work \subseteq 1 .. count /\ o.tx.saved["own"] < count
    /\ o.tx.live => tx.live \/ Implicit
    /\ o.answer \in {"undone", "proven"} => o.tx = NoTx
    /\ wire \in {"commit", "rollback"} /\ o.answer = "ok" => o.tx = NoTx
    /\ wire = "reset" => o.tx = NoTx
    /\ o.applied = applied \/ wire = "commit" \/ (wire = "execute" /\ unnoticed)

\* The server processes a command.
LEMMA ServedKeeps ==
    ASSUME NEW o, IInv, Process({o}), Lawful(o),
           wire = "commit" /\ link = "up" =>
              /\ o.answer = "ok" => promised \subseteq o.applied /\ revoked \cap o.applied = {}
              /\ o.answer \in {"undone", "proven"} => o.applied = applied,
           (Stands => Held)'
    PROVE  IInv'
<1> USE ScopeAssumption DEF IInv
<1>1. /\ wire # "none" /\ wire' = "none" /\ tx' = o.tx /\ applied' = o.applied
      /\ reply' = IF wire = at /\ link = "up" THEN o.answer ELSE reply
      /\ unnoticed' = (unnoticed \/ (adapter = "sqlserver" /\ wire = "stream" /\ tx.live /\ ~o.tx.live))
      /\ UNCHANGED <<adapter, open, recovery, state, call, at, result, count, link, promised, revoked, mark,
                     committing, told, kept>>
  BY DEF Process, fields, caller
<1>2. unnoticed' \in BOOLEAN /\ reply' \in {"none", "ok", "error", "undone", "proven", "warned"}
      /\ "none" \in Command
  BY <1>1 DEF TypeOK, Lawful, Command
<1>3. TypeOK'
  BY <1>1, <1>2 DEF TypeOK, Lawful, Transaction
<1>4. Commands' = Commands /\ "none" \notin Commands /\ "idle" \notin Commands /\ "ended" \notin Commands
      /\ "reset" \notin Commands
  BY <1>1 DEF Commands, Command
<1>5. wire = at => InCall
  BY <1>1, <1>4 DEF WireOK, InCall, ToldOK
<1>6. WireOK'
  BY <1>1, <1>4, <1>5 DEF WireOK, InCall, Lawful
<1>7. CallOK'
  BY <1>1 DEF CallOK, InCall
<1>8. CountOK'
  BY <1>1 DEF CountOK, InCall, Lawful
<1>9. unnoticed' => adapter = "sqlserver" /\ ~o.tx.live
  BY <1>1 DEF LiveOK, Lawful, Implicit
<1>10. LiveOK'
  BY <1>1, <1>9, <1>4 DEF LiveOK, Lawful, Implicit, WireOK
<1>11. CommitOK'
  BY <1>1, <1>2 DEF CommitOK, Lawful, WireOK
<1>12. ToldOK'
  BY <1>1 DEF ToldOK, Lawful, WireOK
<1>13. CommittedIsWhole' /\ NothingEscapes' /\ RolledBackIsUndone' /\ KeptIsClean'
  BY <1>1 DEF CommittedIsWhole, NothingEscapes, RolledBackIsUndone, KeptIsClean, Lawful, ToldOK, CommitOK
<1> QED
  BY <1>3, <1>6, <1>7, <1>8, <1>10, <1>11, <1>12, <1>13

\* A scope that stands after the server has processed a command stood before.
LEMMA StoodBefore ==
    ASSUME NEW o, IInv, Process({o}), Stands'
    PROVE  /\ Stands /\ Held /\ tx' = o.tx /\ adapter \in {"mysql", "sqlserver", "oracle", "db2"}
           /\ reply = "none" /\ count \in Nat /\ mark \in Int
           /\ UNCHANGED <<adapter, call, at, result, count, promised, revoked, mark>>
           /\ \/ InCall /\ wire = at /\ reply' = o.answer
              \/ at = "idle" /\ wire = "stream" /\ adapter = "sqlserver" /\ reply' = "none"
           /\ adapter = "sqlserver" /\ wire = "stream" => o.tx.live
<1> USE ScopeAssumption DEF IInv
<1>1. /\ wire # "none" /\ tx' = o.tx /\ reply' = IF wire = at /\ link = "up" THEN o.answer ELSE reply
      /\ unnoticed' = (unnoticed \/ (adapter = "sqlserver" /\ wire = "stream" /\ tx.live /\ ~o.tx.live))
      /\ UNCHANGED <<adapter, open, state, call, at, result, count, link, promised, revoked, mark>>
  BY DEF Process, fields, caller
<1>2. reply = "none" /\ count \in Nat /\ mark \in Int /\ adapter \in {"mysql", "sqlserver", "oracle", "db2"}
  BY <1>1 DEF WireOK, TypeOK
<1>3. Stands /\ Held
  BY <1>1, <1>2 DEF Stands
<1>4. \/ InCall /\ wire = at /\ reply' = o.answer
      \/ at = "idle" /\ wire = "stream" /\ adapter = "sqlserver" /\ reply' = "none"
  BY <1>1, <1>2, <1>3 DEF WireOK, InCall, Stands
<1>5. adapter = "sqlserver" /\ wire = "stream" => o.tx.live
  BY <1>1, <1>3 DEF Stands, Held, Implicit
<1> QED
  BY <1>1, <1>2, <1>3, <1>4, <1>5

\* A command that reads, or that is refused.
LEMMA UnmovedKeeps ==
    ASSUME NEW ans \in {"ok", "warned", "error"}, IInv, Process({Unmoved(ans)}), wire # "reset",
           ans # "error" => wire \in {"query", "stream", "read"}
    PROVE  IInv'
<1> DEFINE o == Unmoved(ans)
<1>1. o.tx = tx /\ o.applied = applied /\ o.answer = ans
  BY DEF Unmoved, Outcome
<1> HIDE DEF o
<1>2. Lawful(o)
  BY <1>1 DEF Lawful, IInv, TypeOK, CountOK, Transaction
<1>3. (Stands => Held)'
  <2> SUFFICES ASSUME Stands' PROVE Held'
    OBVIOUS
  <2>1. /\ Held /\ tx' = tx /\ UNCHANGED <<adapter, call, at, result, count, promised, revoked, mark>>
        /\ reply = "none" /\ reply' \in {"none", ans} /\ (reply' # "none" => wire = at)
    BY <1>1, StoodBefore DEF o
  <2> QED
    BY <2>1 DEF Held, Did, Implicit
<1> QED
  BY <1>1, <1>2, <1>3, ServedKeeps DEF o

\* A command that ends the transaction and undoes it.
LEMMA AbortedKeeps ==
    ASSUME NEW ans \in {"ok", "error", "undone", "proven"}, IInv, Process({Aborted(ans)}),
           ans = "ok" => wire \in {"rollback", "reset"},
           ans = "error" => wire = "commit" \/ adapter = "sqlserver",
           ans = "proven" => wire = "commit"
    PROVE  IInv'
<1> DEFINE o == Aborted(ans)
<1>1. /\ o.tx = NoTx /\ o.applied = applied /\ o.answer = ans
      /\ NoTx.live = FALSE /\ NoTx.work = {} /\ NoTx.saved["own"] = -1
  BY DEF Aborted, Outcome, NoTx, Savepoint
<1>2. NoTx \in Transaction
  BY ScopeAssumption DEF NoTx, Transaction, Savepoint
<1> HIDE DEF o
<1>3. Lawful(o)
  BY <1>1, <1>2 DEF Lawful, IInv, TypeOK, CountOK
<1>4. ASSUME Stands' PROVE FALSE
  <2>1. /\ adapter = "sqlserver" /\ wire = "stream" => o.tx.live
        /\ at' = at /\ adapter' = adapter
        /\ \/ InCall /\ wire = at /\ reply' = o.answer
           \/ at = "idle" /\ wire = "stream" /\ adapter = "sqlserver" /\ reply' = "none"
    BY <1>4, StoodBefore DEF o
  <2>2. InCall /\ wire = at /\ reply' = ans /\ ~(adapter = "sqlserver" /\ at = "stream")
    BY <1>1, <2>1
  <2>3. at # "reset"
    BY <2>2 DEF IInv, WireOK, Commands, Command
  <2> QED
    BY <1>4, <2>1, <2>2, <2>3 DEF Stands
<1>5. (Stands => Held)'
  BY <1>4
<1> QED
  BY <1>1, <1>3, <1>5, ServedKeeps DEF o

\* A COMMIT that is applied, whatever it answers.
LEMMA CommittingKeeps ==
    ASSUME NEW ans \in {"ok", "warned", "error"}, IInv, Process({Committing(ans)}), wire = "commit",
           adapter = "sqlserver" => tx.live
    PROVE  IInv'
<1> DEFINE o == Committing(ans)
<1>1. /\ o.tx = NoTx /\ o.applied = applied \cup tx.work /\ o.answer = ans
      /\ NoTx.live = FALSE /\ NoTx.work = {} /\ NoTx.saved["own"] = -1
  BY DEF Committing, Outcome, NoTx, Savepoint
<1>2. NoTx \in Transaction
  BY ScopeAssumption DEF NoTx, Transaction, Savepoint
<1> HIDE DEF o
<1>3. Lawful(o)
  <2>1. tx.work \subseteq Statement /\ applied \subseteq Statement /\ count \in Nat
    BY DEF IInv, TypeOK
  <2> QED
    BY <1>1, <1>2, <2>1 DEF Lawful
<1>4. link = "up" => promised \subseteq o.applied /\ revoked \cap o.applied = {}
  <2> SUFFICES ASSUME link = "up" PROVE promised \subseteq o.applied /\ revoked \cap o.applied = {}
    OBVIOUS
  <2>1. ~unnoticed /\ applied = {}
    BY DEF IInv, LiveOK, CommitOK
  <2>2. at = "commit" /\ reply = "none"
    BY DEF IInv, CommitOK, WireOK, ToldOK, InCall, KeptIsClean
  <2>3. Stands /\ Held
    BY <2>1, <2>2 DEF IInv, Stands, CallOK, InCall
  <2> QED
    BY <1>1, <2>1, <2>2, <2>3 DEF Held, Did
<1>5. ~Stands'
  <2>1. Stands' => reply' = ans /\ at' = "commit"
    BY <1>1, StoodBefore DEF o
  <2> QED
    BY <2>1 DEF Stands
<1>6. (Stands => Held)'
  BY <1>5
<1> QED
  BY <1>1, <1>3, <1>4, <1>6, ServedKeeps DEF o

\* A statement that is executed, in the transaction if there is one.
LEMMA ExecutedKeeps ==
    ASSUME NEW ans \in {"ok", "warned"}, NEW implicit \in BOOLEAN, implicit <=> Implicit, IInv,
           Process({Executed(implicit, ans)}), wire = "execute"
    PROVE  IInv'
<1> DEFINE o == Executed(implicit, ans)
<1>1. /\ tx \in Transaction /\ tx.work \subseteq 1 .. count /\ tx.saved["own"] < count
      /\ applied \subseteq Statement /\ count \in 1 .. count /\ count \in Statement
  BY DEF IInv, TypeOK, CountOK, Transaction, Statement
<1>2. CASE tx.live \/ implicit
  <2>1. /\ o.tx = [tx EXCEPT !.live = TRUE, !.work = @ \cup {count}] /\ o.applied = applied /\ o.answer = ans
    BY <1>2 DEF Executed, Outcome
  <2> HIDE DEF o
  <2>2. o.tx.live = TRUE /\ o.tx.work = tx.work \cup {count} /\ o.tx.saved = tx.saved /\ o.tx \in Transaction
    <3>1. tx.work \cup {count} \subseteq Statement
      BY <1>1 DEF Transaction
    <3> QED
      BY <1>1, <2>1, <3>1 DEF Transaction
  <2>3. Lawful(o)
    BY <1>1, <1>2, <2>1, <2>2 DEF Lawful
  <2>4. (Stands => Held)'
    <3> SUFFICES ASSUME Stands' PROVE Held'
      OBVIOUS
    <3>1. /\ Held /\ tx' = o.tx /\ UNCHANGED <<adapter, call, at, result, count, promised, revoked, mark>>
          /\ InCall /\ at = "execute" /\ reply = "none" /\ reply' = ans
      BY <2>1, StoodBefore DEF o
    <3>2. count \notin revoked
      BY <3>1 DEF IInv, CountOK, CallOK
    <3> QED
      BY <2>2, <3>1, <3>2 DEF Held, Did, Implicit
  <2> QED
    BY <2>1, <2>3, <2>4, ServedKeeps DEF o
<1>3. CASE ~(tx.live \/ implicit)
  <2>1. o.tx = tx /\ o.applied = applied \cup {count} /\ o.answer = ans
    BY <1>3 DEF Executed, Outcome
  <2> HIDE DEF o
  <2>2. unnoticed
    BY <1>3 DEF IInv, LiveOK
  <2>3. Lawful(o)
    BY <1>1, <2>1, <2>2 DEF Lawful
  <2>4. ~Stands'
    BY <2>2 DEF Process, Stands
  <2>5. (Stands => Held)'
    BY <2>4
  <2> QED
    BY <2>1, <2>3, <2>5, ServedKeeps DEF o
<1> QED
  BY <1>2, <1>3

\* The commands about the savepoint p.
Saving(p) == IF p = "own" THEN "save_own" ELSE "save"
Releasing(p) == IF p = "own" THEN "release_own" ELSE "release"
Undoing(p) == IF p = "own" THEN "rollback_own" ELSE "rollback_to"

\* A savepoint is set.
LEMMA SavedKeeps ==
    ASSUME NEW p \in Savepoint, IInv, Process({Saved(p)}), wire = Saving(p)
    PROVE  IInv'
<1> DEFINE o == Saved(p)
           n == IF p = "own" THEN count - 1 ELSE count
<1>1. /\ tx \in Transaction /\ tx.work \subseteq 1 .. count /\ tx.saved["own"] < count
      /\ applied \subseteq Statement /\ count \in 0 .. MaxStatements /\ n \in -1 .. MaxStatements
  BY ScopeAssumption DEF IInv, TypeOK, CountOK, Transaction
<1>2. o.tx = [tx EXCEPT !.saved[p] = n] /\ o.applied = applied /\ o.answer = "ok"
  BY DEF Saved, Outcome
<1>3. p = "own" \/ p = "caller"
  BY DEF Savepoint
<1> HIDE DEF o
<1>4. /\ o.tx.live = tx.live /\ o.tx.work = tx.work /\ o.tx \in Transaction
      /\ o.tx.saved["own"] = IF p = "own" THEN count - 1 ELSE tx.saved["own"]
      /\ o.tx.saved["caller"] = IF p = "own" THEN tx.saved["caller"] ELSE count
  BY <1>1, <1>2, <1>3 DEF Transaction, Savepoint
<1>5. Lawful(o)
  BY <1>1, <1>2, <1>4 DEF Lawful, Saving
<1>6. (Stands => Held)'
  <2> SUFFICES ASSUME Stands' PROVE Held'
    OBVIOUS
  <2>1. /\ Held /\ tx' = o.tx /\ UNCHANGED <<adapter, call, at, result, count, promised, revoked, mark>>
        /\ InCall /\ at = wire /\ reply = "none" /\ reply' = "ok"
    BY <1>2, StoodBefore DEF o, Saving
  <2>2. p = "own" => at = "save_own"
    BY <2>1 DEF Saving
  <2>3. p # "own" => at = "save" /\ call = "save"
    BY <2>1 DEF Saving, IInv, CallOK
  <2> QED
    BY <1>3, <1>4, <2>1, <2>2, <2>3 DEF Held, Did, Implicit
<1> QED
  BY <1>2, <1>5, <1>6, ServedKeeps DEF o, Saving

\* A savepoint is released.
LEMMA ReleasedKeeps ==
    ASSUME NEW p \in Savepoint, IInv, Process({Released(p)}), wire = Releasing(p)
    PROVE  IInv'
<1>1. CASE tx.saved[p] = -1
  <2>1. Released(p) = Unmoved("error")
    BY <1>1 DEF Released
  <2>2. wire # "reset"
    BY DEF Releasing
  <2> QED
    BY <2>1, <2>2, UnmovedKeeps
<1>2. CASE tx.saved[p] # -1
  <2> DEFINE o == Released(p)
  <2>1. /\ tx \in Transaction /\ tx.work \subseteq 1 .. count /\ tx.saved["own"] < count
        /\ applied \subseteq Statement /\ count \in 0 .. MaxStatements
    BY DEF IInv, TypeOK, CountOK, Transaction
  <2>2. o.tx = [tx EXCEPT !.saved[p] = -1] /\ o.applied = applied /\ o.answer = "ok"
    BY <1>2 DEF Released, Outcome
  <2>3. p = "own" \/ p = "caller"
    BY DEF Savepoint
  <2> HIDE DEF o
  <2>4. /\ o.tx.live = tx.live /\ o.tx.work = tx.work /\ o.tx \in Transaction
        /\ o.tx.saved["own"] \in {-1, tx.saved["own"]}
        /\ o.tx.saved["caller"] \in {-1, tx.saved["caller"]}
    BY ScopeAssumption, <2>1, <2>2, <2>3 DEF Transaction, Savepoint
  <2>5. Lawful(o)
    BY <2>1, <2>2, <2>4 DEF Lawful, Releasing
  <2>6. (Stands => Held)'
    <3> SUFFICES ASSUME Stands' PROVE Held'
      OBVIOUS
    <3>1. /\ Held /\ tx' = o.tx /\ UNCHANGED <<adapter, call, at, result, count, promised, revoked, mark>>
          /\ InCall /\ at = wire /\ reply = "none" /\ reply' = "ok"
      BY <2>2, StoodBefore DEF o, Releasing
    <3>2. at \in {"release", "release_own"}
      BY <3>1 DEF Releasing
    <3> QED
      BY <2>3, <2>4, <3>1, <3>2 DEF Held, Did, Implicit
  <2> QED
    BY <2>2, <2>5, <2>6, ServedKeeps DEF o, Releasing
<1> QED
  BY <1>1, <1>2

\* The work after a savepoint is undone.
LEMMA UndoneToKeeps ==
    ASSUME NEW p \in Savepoint, IInv, Process({UndoneTo(p)}), wire = Undoing(p)
    PROVE  IInv'
<1>1. CASE tx.saved[p] = -1
  <2>1. UndoneTo(p) = Unmoved("error")
    BY <1>1 DEF UndoneTo
  <2>2. wire # "reset"
    BY DEF Undoing
  <2> QED
    BY <2>1, <2>2, UnmovedKeeps
<1>2. CASE tx.saved[p] # -1
  <2> DEFINE o == UndoneTo(p)
  <2>1. /\ tx \in Transaction /\ tx.work \subseteq 1 .. count /\ tx.saved["own"] < count
        /\ applied \subseteq Statement /\ count \in 0 .. MaxStatements /\ tx.saved[p] \in Int
    BY DEF IInv, TypeOK, CountOK, Transaction
  <2>2. o.tx = [tx EXCEPT !.work = {k \in @ : k <= tx.saved[p]}] /\ o.applied = applied /\ o.answer = "ok"
    BY <1>2 DEF UndoneTo, Outcome
  <2>3. p = "own" \/ p = "caller"
    BY DEF Savepoint
  <2> HIDE DEF o
  <2>4. /\ o.tx.live = tx.live /\ o.tx.work = {k \in tx.work : k <= tx.saved[p]} /\ o.tx \in Transaction
        /\ o.tx.saved = tx.saved
    BY <2>1, <2>2 DEF Transaction
  <2>5. Lawful(o)
    BY <2>1, <2>2, <2>4 DEF Lawful, Undoing
  <2>6. (Stands => Held)'
    <3> SUFFICES ASSUME Stands' PROVE Held'
      OBVIOUS
    <3>1. /\ Held /\ tx' = o.tx /\ UNCHANGED <<adapter, call, at, result, count, promised, revoked, mark>>
          /\ InCall /\ at = wire /\ reply = "none" /\ reply' = "ok" /\ count \in Nat /\ mark \in Int
      BY <2>2, StoodBefore DEF o, Undoing
    <3>2. CASE p = "own"
      <4>1. at = "rollback_own" /\ call = "conditional"
        BY <3>1, <3>2 DEF Undoing, IInv, CallOK
      <4>2. adapter = "mysql"
        BY <3>1, <4>1 DEF IInv, WireOK, Commands
      <4>3. tx.saved["own"] = count - 1 /\ promised \subseteq tx.work
        BY <3>1, <4>1, <4>2 DEF Held, Did
      <4>4. count \notin promised /\ promised \subseteq 1 .. count
        BY <3>1, <4>1 DEF IInv, CountOK
      <4>5. promised \subseteq o.tx.work /\ count \notin o.tx.work
        BY <2>4, <3>1, <3>2, <4>3, <4>4
      <4> QED
        BY <2>4, <3>1, <4>1, <4>3, <4>5 DEF Held, Did, Implicit
    <3>3. CASE p = "caller"
      <4>1. at = "rollback_to" /\ call = "rollback_to"
        BY <3>1, <3>3 DEF Undoing, IInv, CallOK
      <4>2. tx.saved["caller"] = mark
        BY <1>2, <3>1, <3>3 DEF Held, Did
      <4> QED
        BY <2>4, <3>1, <3>3, <4>1, <4>2 DEF Held, Did, Implicit
    <3> QED
      BY <2>3, <3>2, <3>3
  <2> QED
    BY <2>2, <2>5, <2>6, ServedKeeps DEF o, Undoing
<1> QED
  BY <1>1, <1>2

\* What a command may come to, on any server.
Ordinary(o) ==
    \/ \E ans \in {"ok", "warned"} : o = Unmoved(ans) /\ wire \in {"query", "stream", "read"}
    \/ o = Unmoved("error") /\ wire # "reset"
    \/ o = Aborted("ok") /\ wire \in {"rollback", "reset"}
    \/ o = Aborted("error") /\ (wire = "commit" \/ adapter = "sqlserver")
    \/ o = Aborted("undone")
    \/ o = Aborted("proven") /\ wire = "commit"
    \/ \E ans \in {"ok", "warned", "error"} :
          o = Committing(ans) /\ wire = "commit" /\ (adapter = "sqlserver" => tx.live)
    \/ \E ans \in {"ok", "warned"} : o = Executed(Implicit, ans) /\ wire = "execute"
    \/ \E p \in Savepoint : \/ o = Saved(p) /\ wire = Saving(p)
                            \/ o = Released(p) /\ wire = Releasing(p)
                            \/ o = UndoneTo(p) /\ wire = Undoing(p)

\* The server processes a command.
LEMMA OrdinaryKeeps == ASSUME NEW o, IInv, Process({o}), Ordinary(o) PROVE IInv'
<1>1. ASSUME NEW ans \in {"ok", "warned"}, o = Unmoved(ans), wire \in {"query", "stream", "read"} PROVE IInv'
  BY <1>1, UnmovedKeeps
<1>2. ASSUME o = Unmoved("error"), wire # "reset" PROVE IInv'
  BY <1>2, UnmovedKeeps
<1>3. ASSUME o = Aborted("ok"), wire \in {"rollback", "reset"} PROVE IInv'
  BY <1>3, AbortedKeeps
<1>4. ASSUME o = Aborted("error"), wire = "commit" \/ adapter = "sqlserver" PROVE IInv'
  BY <1>4, AbortedKeeps
<1>5. ASSUME o = Aborted("undone") PROVE IInv'
  BY <1>5, AbortedKeeps
<1>6. ASSUME o = Aborted("proven"), wire = "commit" PROVE IInv'
  BY <1>6, AbortedKeeps
<1>7. ASSUME NEW ans \in {"ok", "warned", "error"}, o = Committing(ans), wire = "commit",
             adapter = "sqlserver" => tx.live
      PROVE  IInv'
  BY <1>7, CommittingKeeps
<1>8. ASSUME NEW ans \in {"ok", "warned"}, o = Executed(Implicit, ans), wire = "execute" PROVE IInv'
  <2>1. PICK implicit \in BOOLEAN : implicit <=> Implicit
    OBVIOUS
  <2>2. Executed(Implicit, ans) = Executed(implicit, ans)
    BY <2>1, Zenon DEF Executed
  <2>3. Process({Executed(implicit, ans)})
    BY <1>8, <2>2
  <2> QED
    BY <1>8, <2>1, <2>3, ExecutedKeeps
<1>9. ASSUME NEW p \in Savepoint,
             \/ o = Saved(p) /\ wire = Saving(p)
             \/ o = Released(p) /\ wire = Releasing(p)
             \/ o = UndoneTo(p) /\ wire = Undoing(p)
      PROVE  IInv'
  BY <1>9, SavedKeeps, ReleasedKeeps, UndoneToKeeps
<1> QED
  BY <1>1, <1>2, <1>3, <1>4, <1>5, <1>6, <1>7, <1>8, <1>9 DEF Ordinary

-----------------------------------------------------------------------------
(* MySQL.                                                                  *)

\* What a command comes to.
LEMMA MysqlServes == ASSUME IInv, adapter = "mysql", Process(Mysql!Serves(wire)) PROVE IInv'
<1>1. PICK o \in Mysql!Serves(wire) : Process({o})
  BY DEF Process
<1>2. /\ \A ans : Mysql!Unmoved(ans) = Unmoved(ans) /\ Mysql!Aborted(ans) = Aborted(ans)
      /\ \A ans : Mysql!Committing(ans) = Committing(ans)
      /\ \A p : Mysql!Saved(p) = Saved(p) /\ Mysql!Released(p) = Released(p) /\ Mysql!UndoneTo(p) = UndoneTo(p)
  BY DEF Mysql!Unmoved, Unmoved, Mysql!Aborted, Aborted, Mysql!Committing, Committing, Mysql!Saved, Saved,
         Mysql!Released, Released, Mysql!UndoneTo, UndoneTo, Mysql!Outcome, Outcome, Mysql!NoTx, NoTx,
         Mysql!Savepoint, Savepoint
<1>3. \A ans : Mysql!Executed(FALSE, ans) = Executed(Implicit, ans)
  BY Zenon DEF Mysql!Executed, Executed, Mysql!Outcome, Outcome, Implicit
<1>4. wire \in {"none", "reset"} \cup (Command \ {"none", "reset"}) /\ wire # "none"
  BY <1>1 DEF IInv, WireOK, Commands, Process
<1>5. "own" \in Savepoint /\ "caller" \in Savepoint
  BY DEF Savepoint
<1>6. Ordinary(o)
  BY <1>1, <1>2, <1>3, <1>4, <1>5 DEF Mysql!Serves, Ordinary, Saving, Releasing, Undoing, Command
<1> QED
  BY <1>1, <1>6, OrdinaryKeeps

\* The parts of a call are those of CallerScope.
LEMMA MysqlParts ==
    /\ \A c, cmd : Mysql!Start(c, cmd) => Start(c, cmd)
    /\ \A cmd, r : Mysql!Then(cmd, r) => Then(cmd, r)
    /\ \A o, rec, s, l : Mysql!Back(o, rec, s, l) => Back(o, rec, s, l)
    /\ \A o, rec, s, l : Mysql!Returns(o, rec, s, l) => Returns(o, rec, s, l)
    /\ \A o, rec, s, l : Mysql!ToldRolledBack(o, rec, s, l) => ToldRolledBack(o, rec, s, l)
    /\ Mysql!Fails => Fails
    /\ Mysql!Succeeds => Succeeds
    /\ \A a, keep : Mysql!Ends(a, keep) => Ends(a, keep)
<1> USE DEF Mysql!fields, fields, Mysql!server, server, Mysql!caller, caller, Mysql!Send, Send, Mysql!Back, Back
<1>1. \A c, cmd : Mysql!Start(c, cmd) => Start(c, cmd)
  BY DEF Mysql!Start, Start
<1>2. \A cmd, r : Mysql!Then(cmd, r) => Then(cmd, r)
  BY DEF Mysql!Then, Then
<1>3. /\ \A o, rec, s, l : Mysql!Back(o, rec, s, l) => Back(o, rec, s, l)
      /\ \A o, rec, s, l : Mysql!Returns(o, rec, s, l) => Returns(o, rec, s, l)
      /\ \A o, rec, s, l : Mysql!ToldRolledBack(o, rec, s, l) => ToldRolledBack(o, rec, s, l)
      /\ Mysql!Fails => Fails
  BY DEF Mysql!Returns, Returns, Mysql!ToldRolledBack, ToldRolledBack, Mysql!Fails, Fails
<1>4. Mysql!Succeeds => Succeeds
  BY DEF Mysql!Succeeds, Succeeds
<1>5. \A a, keep : Mysql!Ends(a, keep) => Ends(a, keep)
  BY DEF Mysql!Ends, Ends
<1> QED
  BY <1>1, <1>2, <1>3, <1>4, <1>5

\* discard_after_failure.
LEMMA MysqlDiscardKeeps ==
    ASSUME IInv, at \notin {"commit", "ended"},
           Mysql!Discard("unknown") \/ (Mysql!Discard("rolled_back") /\ InCall /\ reply = "undone")
    PROVE  IInv'
<1>1. CASE Mysql!Discard("unknown")
  <2>1. Returns(FALSE, TRUE, "gone", "down")
    BY <1>1, MysqlParts DEF Mysql!Discard
  <2> QED
    BY <2>1, ReturnsKeeps
<1>2. CASE Mysql!Discard("rolled_back") /\ InCall /\ reply = "undone"
  <2>1. ToldRolledBack(FALSE, FALSE, "gone", "down")
    BY <1>2, MysqlParts DEF Mysql!Discard
  <2> QED
    BY <2>1, <1>2, ToldKeeps
<1> QED
  BY <1>1, <1>2

\* The calls of the caller's SQL, and the streams.
LEMMA MysqlSqlKeeps ==
    ASSUME IInv, adapter = "mysql",
           \/ Mysql!Execute \/ Mysql!Query \/ Mysql!ConditionalUpdate \/ Mysql!FinishCallerWrite
           \/ Mysql!Interrupt \/ Mysql!VerifyProfile \/ Mysql!UpdateUndone
           \/ Mysql!QueryStream \/ Mysql!PumpEnds \/ Mysql!StreamEnds \/ Mysql!AbandonStream
    PROVE  IInv'
<1>c. {"execute", "query", "save_own", "stream", "save", "release", "rollback_to", "read", "rollback"} \subseteq Commands
  BY DEF Commands, Command
<1>d. InCall => at \in Commands /\ at # "idle" /\ at # "ended"
  BY DEF IInv, WireOK, InCall
<1>1. CASE Mysql!Execute \/ Mysql!Query \/ Mysql!ConditionalUpdate \/ Mysql!QueryStream
  <2>1. PICK c, cmd : Start(c, cmd) /\ <<c, cmd>> \in {<<"execute", "execute">>, <<"query", "query">>,
                                           <<"conditional", "save_own">>, <<"stream", "stream">>}
    BY <1>1, MysqlParts DEF Mysql!Execute, Mysql!Query, Mysql!ConditionalUpdate, Mysql!QueryStream
  <2>2. <<c, cmd>> \in Begins /\ cmd \in Commands
    BY <2>1, <1>c DEF Begins
  <2> QED
    BY <2>1, <2>2, StartKeeps
<1>2. CASE Mysql!FinishCallerWrite
  <2>1. CASE reply \in {"ok", "error"} /\ Mysql!Then("read", reply)
    <3>1. PICK r : r = reply
      OBVIOUS
    <3>2. Then("read", r)
      BY <2>1, <3>1, MysqlParts
    <3>3. Follows("read", r)
      BY <1>2, <2>1, <3>1 DEF Mysql!FinishCallerWrite, Mysql!CallerSql, Follows, IInv, CallOK
    <3> QED
      BY <3>2, <3>3, ThenKeeps
  <2>2. at \in {"execute", "query"} /\ InCall
    BY <1>2 DEF Mysql!FinishCallerWrite, Mysql!CallerSql, InCall
  <2> QED
    BY <1>2, <2>1, <2>2, MysqlDiscardKeeps DEF Mysql!FinishCallerWrite
<1>3. CASE Mysql!Interrupt
  BY <1>3, MysqlDiscardKeeps DEF Mysql!Interrupt, Mysql!CallerSql
<1>4. CASE Mysql!VerifyProfile
  <2>1. at = "read" /\ InCall /\ call \notin {"commit", "stream"}
    BY <1>4 DEF Mysql!VerifyProfile, InCall
  <2>2. CASE reply = "ok" /\ result = "error" /\ Mysql!Fails
    BY <2>1, <2>2, MysqlParts, FailsKeeps
  <2>3. CASE reply = "ok" /\ result = "ok" /\ Mysql!Succeeds
    BY <2>1, <2>3, MysqlParts, SucceedsKeeps
  <2>4. CASE /\ reply = "ok" /\ result = "ok" /\ call = "conditional"
             /\ \E cmd \in {"release_own", "rollback_own"} : Mysql!Then(cmd, "ok")
    <3>1. PICK cmd \in {"release_own", "rollback_own"} : Then(cmd, "ok")
      BY <2>4, MysqlParts
    <3>2. Follows(cmd, "ok")
      BY <2>1, <2>4, <3>1 DEF Follows
    <3> QED
      BY <3>1, <3>2, ThenKeeps
  <2> QED
    BY <1>4, <2>1, <2>2, <2>3, <2>4, MysqlDiscardKeeps DEF Mysql!VerifyProfile
<1>5. CASE Mysql!UpdateUndone
  <2>1. /\ Did("rollback_own") /\ Back(open, recovery, state, link)
        /\ revoked' = revoked \cup {count} /\ promised' = promised /\ mark' = mark
    BY <1>5, MysqlParts DEF Mysql!UpdateUndone, Mysql!Answered, Did
  <2> QED
    BY <2>1, UndoneKeeps
<1>6. CASE Mysql!PumpEnds
  <2>1. Then("read", "ok") /\ Follows("read", "ok")
    BY <1>6, MysqlParts DEF Mysql!PumpEnds, Mysql!Answered, Follows, IInv, CallOK
  <2> QED
    BY <2>1, ThenKeeps
<1>7. CASE Mysql!StreamEnds
  <2>1. Succeeds /\ reply = "ok" /\ at = "read" /\ call = "stream" /\ InCall
    BY <1>7, MysqlParts DEF Mysql!StreamEnds, Mysql!Answered, InCall
  <2> QED
    BY <2>1, SucceedsKeeps
<1>8. CASE Mysql!AbandonStream
  <2>1. call = "stream" /\ \E s \in {"gone", state}, l \in {"down", link} : Returns(FALSE, TRUE, s, l)
    BY <1>8, MysqlParts DEF Mysql!AbandonStream
  <2>2. at \notin {"commit", "ended"} /\ state \in {"ready", "uncommittable", "gone"} /\ link \in {"up", "down"}
    BY <2>1 DEF IInv, CallOK, TypeOK, InCall
  <2> QED
    BY <2>1, <2>2, ReturnsKeeps
<1> QED
  BY <1>1, <1>2, <1>3, <1>4, <1>5, <1>6, <1>7, <1>8

\* Savepoints.
LEMMA MysqlSavepointKeeps ==
    ASSUME IInv, adapter = "mysql",
           \/ Mysql!SavepointCall \/ Mysql!RollbackToSavepoint \/ Mysql!ControlAnswered
           \/ Mysql!RollbackToAnswered \/ Mysql!CallQuarantined
    PROVE  IInv'
<1>1. CASE Mysql!SavepointCall \/ Mysql!RollbackToSavepoint
  <2>1. PICK c, cmd : Start(c, cmd) /\ <<c, cmd>> \in {<<"save", "save">>, <<"release", "release">>,
                                                         <<"rollback_to", "rollback_to">>}
    BY <1>1, MysqlParts DEF Mysql!SavepointCall, Mysql!RollbackToSavepoint
  <2>2. <<c, cmd>> \in Begins /\ cmd \in Commands
    BY <2>1 DEF Begins, Commands, Command
  <2> QED
    BY <2>1, <2>2, StartKeeps
<1>2. CASE Mysql!ControlAnswered
  <2>1. at \in {"save", "save_own", "release", "release_own"} /\ InCall
    BY <1>2 DEF Mysql!ControlAnswered, Mysql!Control, InCall
  <2>2. CASE reply = "ok" /\ at = "save_own" /\ Mysql!Then("execute", "ok")
    <3>1. Then("execute", "ok") /\ Follows("execute", "ok")
      BY <2>2, MysqlParts DEF Follows, Did, IInv, CallOK
    <3> QED
      BY <3>1, ThenKeeps
  <2>3. CASE reply = "ok" /\ at # "save_own" /\ Mysql!Succeeds
    <3>1. call \in {"execute", "conditional"} => at = "release_own"
      BY <2>1, <2>3 DEF IInv, CallOK
    <3> QED
      BY <2>1, <2>3, <3>1, MysqlParts, SucceedsKeeps
  <2>4. CASE (reply = "error" \/ (reply = "ok" /\ at = "save_own")) /\ Mysql!Fails
    BY <2>1, <2>4, MysqlParts, FailsKeeps
  <2>5. CASE reply = "none" /\ Mysql!Returns(open, recovery, "gone", "down")
    <3>1. Returns(open, recovery, "gone", "down") /\ open \in BOOLEAN /\ recovery \in BOOLEAN
      BY <2>5, MysqlParts DEF IInv, TypeOK
    <3> QED
      BY <2>1, <3>1, ReturnsKeeps
  <2> QED
    BY <1>2, <2>2, <2>3, <2>4, <2>5 DEF Mysql!ControlAnswered
<1>3. CASE Mysql!RollbackToAnswered
  <2>1. at \in {"rollback_to", "rollback_own"} /\ InCall
    BY <1>3 DEF Mysql!RollbackToAnswered, InCall
  <2>2. CASE at = "rollback_to" /\ reply = "ok" /\ Mysql!Succeeds
    <3>1. call \notin {"execute", "conditional"}
      BY <2>2 DEF IInv, CallOK
    <3> QED
      BY <2>1, <2>2, <3>1, MysqlParts, SucceedsKeeps
  <2> QED
    BY <1>3, <2>1, <2>2, MysqlDiscardKeeps DEF Mysql!RollbackToAnswered, Mysql!Answered
<1>4. CASE Mysql!CallQuarantined
  BY <1>4, MysqlDiscardKeeps DEF Mysql!CallQuarantined
<1> QED
  BY <1>1, <1>2, <1>3, <1>4

\* The answers that commit and rollback may give.
LEMMA Answers ==
    /\ {OutcomeUnknown, Unconfirmed, Committed, NewError("commit"),
        AfterUnprovenSend(NewError("commit")), AfterCommitSent(Error("commit", "rolled_back", "safe"), TRUE),
        AfterCommitSent(NewError("commit"), TRUE), Error("commit", "rolled_back", "never")} \subseteq Answer
    /\ \A a \in {OutcomeUnknown, Unconfirmed, AfterUnprovenSend(NewError("commit"))} :
          a # Committed /\ a.effect = "unknown"
    /\ Committed.effect = "committed"
    /\ \A a \in {NewError("commit"), AfterCommitSent(Error("commit", "rolled_back", "safe"), TRUE),
                 AfterCommitSent(NewError("commit"), TRUE), Error("commit", "rolled_back", "never"),
                 RolledBack} : a # Committed
  BY DEF OutcomeUnknown, Unconfirmed, Committed, NewError, AfterUnprovenSend, AfterCommitSent, Error,
         AfterUnconfirmedRollback, RolledBack, Answer, Phase, Effect, Disposition, Severe

\* The answers of MySQL are those of ErrorAxes.
LEMMA MysqlAnswers ==
    /\ Mysql!OutcomeUnknown = OutcomeUnknown /\ Mysql!Unconfirmed = Unconfirmed /\ Mysql!Committed = Committed
    /\ Mysql!RolledBack = RolledBack /\ Mysql!NewError("commit") = NewError("commit")
    /\ Mysql!AfterUnprovenSend(Mysql!NewError("commit")) = AfterUnprovenSend(NewError("commit"))
    /\ Mysql!AfterCommitSent(Mysql!Error("commit", "rolled_back", "safe"), TRUE)
          = AfterCommitSent(Error("commit", "rolled_back", "safe"), TRUE)
  BY DEF Mysql!OutcomeUnknown, OutcomeUnknown, Mysql!Unconfirmed, Unconfirmed, Mysql!Committed, Committed,
         Mysql!RolledBack, RolledBack, Mysql!NewError, NewError, Mysql!AfterUnprovenSend, AfterUnprovenSend,
         Mysql!AfterCommitSent, AfterCommitSent, Mysql!Error, Error, Mysql!Severe, Severe,
         Mysql!AfterUnconfirmedRollback, AfterUnconfirmedRollback

\* commit or rollback answers, and the pool resets what it takes back.
LEMMA MysqlGivesKeeps ==
    ASSUME NEW a \in Answer \cup {RolledBack, NotTold}, NEW keep \in BOOLEAN, IInv, Mysql!Gives(a, keep), at # "ended", adapter = "mysql",
           keep => reply # "none",
           a = Committed => Did("commit"),
           a.effect \in {"none", "rolled_back"} =>
              ~committing \/ (at = "commit" /\ reply \in {"undone", "proven"})
    PROVE  IInv'
<1>1. Ends(a, keep) /\ wire' = IF keep /\ link = "up" THEN "reset" ELSE wire
  BY MysqlParts DEF Mysql!Gives
<1>2. a.effect \in {"none", "rolled_back"} => wire # "commit" /\ (applied = {} \/ unnoticed)
  BY DEF IInv, WireOK, CommitOK, NothingEscapes
<1>3. CASE keep /\ link = "up"
  <2>1. wire = "none" /\ wire' = "reset"
    BY <1>1, <1>3 DEF IInv, WireOK
  <2> QED
    BY <1>1, <1>2, <1>3, <2>1, EndsKeeps
<1>4. CASE ~(keep /\ link = "up")
  <2>1. Ends(a, FALSE) /\ wire' = wire
    BY <1>1, <1>4 DEF Ends
  <2> QED
    BY <1>2, <2>1, EndsKeeps
<1> QED
  BY <1>3, <1>4

\* commit and rollback.
LEMMA MysqlEndKeeps ==
    ASSUME IInv, adapter = "mysql",
           \/ Mysql!Commit \/ Mysql!CommitClosed \/ Mysql!CommitVerified \/ Mysql!CommitAnswered
           \/ Mysql!RollbackClosed \/ Mysql!Rollback \/ Mysql!RollbackAnswered
    PROVE  IInv'
<1> USE MysqlAnswers, Answers
<1>1. CASE Mysql!Commit \/ Mysql!Rollback
  <2>1. PICK c, cmd : Start(c, cmd) /\ <<c, cmd>> \in {<<"commit", "read">>, <<"rollback", "rollback">>}
    BY <1>1, MysqlParts DEF Mysql!Commit, Mysql!Rollback
  <2>2. <<c, cmd>> \in Begins /\ cmd \in Commands
    BY <2>1 DEF Begins, Commands, Command
  <2> QED
    BY <2>1, <2>2, StartKeeps
<1>2. CASE Mysql!CommitClosed \/ Mysql!RollbackClosed
  <2>1. at = "idle" /\ ~committing
    BY <1>2 DEF Mysql!CommitClosed, Mysql!RollbackClosed, IInv, CommitOK
  <2>2. \E a \in {AfterUnprovenSend(NewError("commit")), NewError("commit"), Unconfirmed, RolledBack} :
           Mysql!Gives(a, FALSE)
    BY <1>2 DEF Mysql!CommitClosed, Mysql!RollbackClosed
  <2> QED
    BY <2>1, <2>2, MysqlGivesKeeps
<1>3. CASE Mysql!CommitVerified
  <2>1. CASE reply = "ok" /\ Mysql!Then("commit", "ok")
    <3>1. Then("commit", "ok") /\ Follows("commit", "ok")
      BY <1>3, <2>1, MysqlParts DEF Mysql!CommitVerified, Follows, Did
    <3> QED
      BY <3>1, ThenKeeps
  <2>2. CASE Mysql!Gives(AfterUnprovenSend(NewError("commit")), FALSE)
    <3>1. at = "read"
      BY <1>3 DEF Mysql!CommitVerified
    <3> QED
      BY <2>2, <3>1, MysqlGivesKeeps
  <2> QED
    BY <1>3, <2>1, <2>2 DEF Mysql!CommitVerified
<1>4. CASE Mysql!CommitAnswered
  <2>1. at = "commit" /\ at # "ended"
    BY <1>4 DEF Mysql!CommitAnswered
  <2>2. CASE reply = "ok" /\ Mysql!Gives(Committed, TRUE)
    BY <2>1, <2>2, MysqlGivesKeeps DEF Did
  <2>3. CASE reply = "proven" /\ Mysql!Gives(AfterCommitSent(Error("commit", "rolled_back", "safe"), TRUE), TRUE)
    BY <2>1, <2>3, MysqlGivesKeeps
  <2>4. CASE reply = "error" /\ Mysql!Gives(OutcomeUnknown, TRUE)
    BY <2>1, <2>4, MysqlGivesKeeps
  <2>5. CASE Mysql!Gives(OutcomeUnknown, FALSE)
    BY <2>1, <2>5, MysqlGivesKeeps
  <2> QED
    BY <1>4, <2>2, <2>3, <2>4, <2>5 DEF Mysql!CommitAnswered
<1>5. CASE Mysql!RollbackAnswered
  <2>1. at = "rollback" /\ at # "ended" /\ ~committing
    BY <1>5 DEF Mysql!RollbackAnswered, IInv, CommitOK
  <2>2. CASE reply = "ok" /\ Mysql!Gives(RolledBack, TRUE)
    BY <2>1, <2>2, MysqlGivesKeeps
  <2>3. CASE reply = "error" /\ Mysql!Gives(Unconfirmed, TRUE)
    BY <2>1, <2>3, MysqlGivesKeeps
  <2>4. CASE Mysql!Gives(Unconfirmed, FALSE)
    BY <2>1, <2>4, MysqlGivesKeeps
  <2> QED
    BY <1>5, <2>2, <2>3, <2>4 DEF Mysql!RollbackAnswered
<1> QED
  BY <1>1, <1>2, <1>3, <1>4, <1>5

-----------------------------------------------------------------------------
(* SQL Server.                                                             *)

\* What a command comes to.
LEMMA SqlServerServes == ASSUME IInv, adapter = "sqlserver", Process(SqlServer!Serves(wire)) PROVE IInv'
<1>1. PICK o \in SqlServer!Serves(wire) : Process({o})
  BY DEF Process
<1>2. /\ \A ans : SqlServer!Unmoved(ans) = Unmoved(ans) /\ SqlServer!Aborted(ans) = Aborted(ans)
      /\ \A ans : SqlServer!Committing(ans) = Committing(ans)
      /\ \A p : SqlServer!Saved(p) = Saved(p) /\ SqlServer!Released(p) = Released(p) /\ SqlServer!UndoneTo(p) = UndoneTo(p)
  BY DEF SqlServer!Unmoved, Unmoved, SqlServer!Aborted, Aborted, SqlServer!Committing, Committing, SqlServer!Saved, Saved,
         SqlServer!Released, Released, SqlServer!UndoneTo, UndoneTo, SqlServer!Outcome, Outcome, SqlServer!NoTx, NoTx,
         SqlServer!Savepoint, Savepoint
<1>3. \A ans : SqlServer!Executed(FALSE, ans) = Executed(Implicit, ans)
  BY Zenon DEF SqlServer!Executed, Executed, SqlServer!Outcome, Outcome, Implicit
<1>4. wire \in Commands /\ adapter # "mysql"
  BY <1>1 DEF IInv, WireOK, Process
<1>5. "caller" \in Savepoint /\ Saving("caller") = "save" /\ Releasing("caller") = "release"
      /\ Undoing("caller") = "rollback_to"
  BY DEF Savepoint, Saving, Releasing, Undoing
<1>6. Ordinary(o)
  BY <1>1, <1>2, <1>3, <1>4, <1>5 DEF SqlServer!Serves, Ordinary, Commands
<1> QED
  BY <1>1, <1>6, OrdinaryKeeps

\* The parts of a call are those of CallerScope.
LEMMA SqlServerParts ==
    /\ \A c, cmd : SqlServer!Start(c, cmd) => Start(c, cmd)
    /\ \A cmd, r : SqlServer!Then(cmd, r) => Then(cmd, r)
    /\ \A o, rec, s, l : SqlServer!Returns(o, rec, s, l) => Returns(o, rec, s, l)
    /\ \A o, rec, s, l : SqlServer!ToldRolledBack(o, rec, s, l) => ToldRolledBack(o, rec, s, l)
    /\ SqlServer!Fails => Fails
    /\ SqlServer!Succeeds => Succeeds
    /\ \A a, keep : SqlServer!EndsWith(a, keep) => EndsWith(a, keep)
<1> USE DEF SqlServer!fields, fields, SqlServer!server, server, SqlServer!caller, caller, SqlServer!Send, Send, SqlServer!Back, Back
<1>1. \A c, cmd : SqlServer!Start(c, cmd) => Start(c, cmd)
  BY DEF SqlServer!Start, Start
<1>2. \A cmd, r : SqlServer!Then(cmd, r) => Then(cmd, r)
  BY DEF SqlServer!Then, Then
<1>3. /\ \A o, rec, s, l : SqlServer!Returns(o, rec, s, l) => Returns(o, rec, s, l)
      /\ \A o, rec, s, l : SqlServer!ToldRolledBack(o, rec, s, l) => ToldRolledBack(o, rec, s, l)
      /\ SqlServer!Fails => Fails
  BY DEF SqlServer!Returns, Returns, SqlServer!ToldRolledBack, ToldRolledBack, SqlServer!Fails, Fails
<1>4. SqlServer!Succeeds => Succeeds
  BY DEF SqlServer!Succeeds, Succeeds
<1>5. \A a, keep : SqlServer!EndsWith(a, keep) => EndsWith(a, keep)
  BY DEF SqlServer!EndsWith, EndsWith, SqlServer!Ends, Ends
<1> QED
  BY <1>1, <1>2, <1>3, <1>4, <1>5

\* The answers are those of ErrorAxes.
LEMMA SqlServerAnswers ==
    /\ SqlServer!OutcomeUnknown = OutcomeUnknown /\ SqlServer!Unconfirmed = Unconfirmed /\ SqlServer!Committed = Committed
    /\ SqlServer!RolledBack = RolledBack /\ SqlServer!NewError("commit") = NewError("commit")
    /\ SqlServer!Error("commit", "rolled_back", "never") = Error("commit", "rolled_back", "never")
    /\ SqlServer!AfterCommitSent(SqlServer!NewError("commit"), TRUE) = AfterCommitSent(NewError("commit"), TRUE)
    /\ SqlServer!AfterCommitSent(SqlServer!Error("commit", "rolled_back", "safe"), TRUE)
          = AfterCommitSent(Error("commit", "rolled_back", "safe"), TRUE)
  BY DEF SqlServer!OutcomeUnknown, OutcomeUnknown, SqlServer!Unconfirmed, Unconfirmed, SqlServer!Committed, Committed,
         SqlServer!RolledBack, RolledBack, SqlServer!NewError, NewError, SqlServer!AfterCommitSent, AfterCommitSent,
         SqlServer!Error, Error, SqlServer!Severe, Severe, SqlServer!AfterUnconfirmedRollback, AfterUnconfirmedRollback

\* The calls before the end of the scope.
LEMMA SqlServerSqlKeeps ==
    ASSUME IInv, adapter = "sqlserver",
           \/ SqlServer!Execute \/ SqlServer!Query \/ SqlServer!ConditionalUpdate \/ SqlServer!SavepointCall
           \/ SqlServer!RollbackToSavepoint \/ SqlServer!TrackedAnswered
           \/ SqlServer!ConditionalUpdateAnswered \/ SqlServer!QueryStream \/ SqlServer!StreamDone
    PROVE  IInv'
<1>t. /\ open \in BOOLEAN /\ recovery \in BOOLEAN /\ state \in {"ready", "uncommittable", "gone"}
      /\ link \in {"up", "down"}
  BY DEF IInv, TypeOK
<1>1. CASE \/ SqlServer!Execute \/ SqlServer!Query \/ SqlServer!ConditionalUpdate \/ SqlServer!SavepointCall
           \/ SqlServer!RollbackToSavepoint \/ SqlServer!QueryStream
  <2>1. PICK c, cmd : Start(c, cmd) /\ <<c, cmd>> \in
           {<<"execute", "execute">>, <<"query", "query">>, <<"conditional", "execute">>, <<"save", "save">>,
            <<"rollback_to", "rollback_to">>, <<"stream", "stream">>}
    BY <1>1, SqlServerParts DEF SqlServer!Execute, SqlServer!Query, SqlServer!ConditionalUpdate,
       SqlServer!SavepointCall, SqlServer!RollbackToSavepoint, SqlServer!QueryStream
  <2>2. <<c, cmd>> \in Begins /\ cmd \in Commands
    BY <2>1 DEF Begins, Commands
  <2> QED
    BY <2>1, <2>2, StartKeeps
<1>2. CASE SqlServer!TrackedAnswered
  <2>1. at \in {"execute", "query", "save", "rollback_to"} /\ InCall
    BY <1>2 DEF SqlServer!TrackedAnswered, SqlServer!Tracked, InCall
  <2>2. CASE reply = "ok" /\ call # "conditional" /\ SqlServer!Succeeds
    <3>1. call \in {"execute", "conditional"} => at = "execute"
      BY <2>1, <2>2 DEF IInv, CallOK
    <3> QED
      BY <2>1, <2>2, <3>1, SqlServerParts, SucceedsKeeps
  <2>3. CASE reply = "error" /\ SqlServer!StatementFailed
    <3>1. Returns(open, recovery, "uncommittable", link) /\ wire = "none"
      BY <2>3, SqlServerParts DEF SqlServer!StatementFailed, IInv, WireOK
    <3> QED
      BY <1>t, <2>1, <3>1, ReturnsKeeps
  <2>4. CASE reply = "undone" /\ SqlServer!ToldRolledBack(open, recovery, "uncommittable", link)
    <3>1. ToldRolledBack(open, recovery, "uncommittable", link)
      BY <2>4, SqlServerParts
    <3> QED
      BY <1>t, <2>1, <2>4, <3>1, ToldKeeps
  <2>5. CASE reply = "none" /\ SqlServer!Quarantine
    <3>1. Returns(open, recovery, "gone", "down")
      BY <2>5, SqlServerParts DEF SqlServer!Quarantine
    <3> QED
      BY <1>t, <2>1, <3>1, ReturnsKeeps
  <2> QED
    BY <1>2, <2>2, <2>3, <2>4, <2>5 DEF SqlServer!TrackedAnswered
<1>3. CASE SqlServer!ConditionalUpdateAnswered
  <2>1. call = "conditional" /\ reply = "ok" /\ InCall /\ at \notin {"commit", "rollback", "save", "rollback_to"}
    BY <1>3 DEF SqlServer!ConditionalUpdateAnswered, IInv, CallOK
  <2>2. CASE at = "execute" /\ SqlServer!Succeeds
    BY <2>1, <2>2, SqlServerParts, SucceedsKeeps
  <2>3. CASE at = "execute" /\ SqlServer!Then("query", "ok")
    <3>1. Then("query", "ok") /\ Follows("query", "ok")
      BY <2>1, <2>3, SqlServerParts DEF Follows, Did
    <3> QED
      BY <3>1, ThenKeeps
  <2>4. CASE SqlServer!Fails
    BY <2>1, <2>4, SqlServerParts, FailsKeeps
  <2> QED
    BY <1>3, <2>2, <2>3, <2>4 DEF SqlServer!ConditionalUpdateAnswered
<1>4. CASE SqlServer!StreamDone
  <2>1. Fails /\ at = "stream" /\ InCall
    BY <1>4, SqlServerParts DEF SqlServer!StreamDone, InCall
  <2> QED
    BY <2>1, FailsKeeps
<1> QED
  BY <1>1, <1>2, <1>3, <1>4

\* ROLLBACK is sent, of a transaction that may be uncommittable.
LEMMA RollbackKeeps ==
    ASSUME IInv, at = "idle", call' = "rollback", Send("rollback"), result' \in {"ok", "error"},
           UNCHANGED <<count, committing>>, adapter # "mysql"
    PROVE  IInv'
<1> USE ScopeAssumption DEF IInv, Send, fields, server, caller
<1>1. TypeOK' /\ Commands' = Commands /\ "none" \notin Commands /\ "rollback" \in Commands
  BY DEF TypeOK, Commands, Command, Call
<1>2. WireOK' /\ CallOK'
  BY <1>1 DEF WireOK, CallOK, InCall, ToldOK
<1>3. CountOK' /\ LiveOK'
  BY DEF CountOK, LiveOK, InCall, Implicit
<1>4. CommitOK' /\ ToldOK'
  BY Untold DEF CommitOK, ToldOK
<1>5. CommittedIsWhole' /\ NothingEscapes' /\ RolledBackIsUndone' /\ KeptIsClean'
  BY DEF CommittedIsWhole, NothingEscapes, RolledBackIsUndone, KeptIsClean, ToldOK
<1>6. (Stands => Held)'
  <2> SUFFICES ASSUME Stands' PROVE Held'
    OBVIOUS
  <2>1. Stands /\ Held
    BY DEF Stands, WireOK, InCall
  <2> QED
    BY <2>1 DEF Held, Did, Implicit
<1> QED
  BY <1>1, <1>2, <1>3, <1>4, <1>5, <1>6

\* commit and rollback.
LEMMA SqlServerEndKeeps ==
    ASSUME IInv, adapter = "sqlserver",
           \/ SqlServer!CommitRefused \/ SqlServer!Commit \/ SqlServer!CommitAnswered
           \/ SqlServer!RollbackRefused \/ SqlServer!Rollback \/ SqlServer!RollbackAnswered
    PROVE  IInv'
<1> USE SqlServerAnswers, Answers
<1>1. CASE SqlServer!Commit
  <2>1. Start("commit", "commit") /\ <<"commit", "commit">> \in Begins /\ "commit" \in Commands
    BY <1>1, SqlServerParts DEF SqlServer!Commit, Begins, Commands
  <2> QED
    BY <2>1, StartKeeps
<1>2. CASE SqlServer!CommitRefused \/ SqlServer!RollbackRefused
  <2>1. at = "idle" /\ ~committing /\ \E a \in {NewError("commit"), Unconfirmed} : EndsWith(a, FALSE)
    BY <1>2, SqlServerParts DEF SqlServer!CommitRefused, SqlServer!RollbackRefused, IInv, CommitOK
  <2> QED
    BY <2>1, EndsWithKeeps
<1>3. CASE SqlServer!CommitAnswered
  <2>1. at = "commit" /\ at # "ended"
    BY <1>3 DEF SqlServer!CommitAnswered
  <2>2. CASE reply = "ok" /\ SqlServer!EndsWith(Committed, TRUE)
    BY <2>1, <2>2, SqlServerParts, EndsWithKeeps DEF Did
  <2>3. CASE /\ reply = "undone"
             /\ SqlServer!EndsWith(AfterCommitSent(Error("commit", "rolled_back", "safe"), TRUE), FALSE)
    BY <2>1, <2>3, SqlServerParts, EndsWithKeeps
  <2>4. CASE SqlServer!EndsWith(OutcomeUnknown, FALSE)
    BY <2>1, <2>4, SqlServerParts, EndsWithKeeps
  <2> QED
    BY <1>3, <2>2, <2>3, <2>4 DEF SqlServer!CommitAnswered
<1>4. CASE SqlServer!Rollback
  <2>1. at = "idle" /\ call' = "rollback" /\ Send("rollback") /\ UNCHANGED <<count, committing>>
        /\ result' \in {"ok", "error"}
    BY <1>4 DEF SqlServer!Rollback, SqlServer!Send, Send, SqlServer!fields, fields, SqlServer!server, server,
       SqlServer!caller, caller, IInv, TypeOK
  <2> QED
    BY <2>1, RollbackKeeps
<1>5. CASE SqlServer!RollbackAnswered
  <2>1. at = "rollback" /\ at # "ended" /\ ~committing
    BY <1>5 DEF SqlServer!RollbackAnswered, IInv, CommitOK
  <2>2. CASE reply = "ok" /\ SqlServer!EndsWith(RolledBack, TRUE)
    BY <2>1, <2>2, SqlServerParts, EndsWithKeeps DEF Did
  <2>3. CASE SqlServer!EndsWith(Unconfirmed, FALSE)
    BY <2>1, <2>3, SqlServerParts, EndsWithKeeps
  <2> QED
    BY <1>5, <2>2, <2>3 DEF SqlServer!RollbackAnswered
<1> QED
  BY <1>1, <1>2, <1>3, <1>4, <1>5

-----------------------------------------------------------------------------
(* Oracle.                                                                 *)

\* What a command comes to.
LEMMA OracleServes == ASSUME IInv, adapter = "oracle", Process(Oracle!Serves(wire)) PROVE IInv'
<1>1. PICK o \in Oracle!Serves(wire) : Process({o})
  BY DEF Process
<1>2. /\ \A ans : Oracle!Unmoved(ans) = Unmoved(ans) /\ Oracle!Aborted(ans) = Aborted(ans)
      /\ \A ans : Oracle!Committing(ans) = Committing(ans)
      /\ \A p : Oracle!Saved(p) = Saved(p) /\ Oracle!Released(p) = Released(p) /\ Oracle!UndoneTo(p) = UndoneTo(p)
  BY DEF Oracle!Unmoved, Unmoved, Oracle!Aborted, Aborted, Oracle!Committing, Committing, Oracle!Saved, Saved,
         Oracle!Released, Released, Oracle!UndoneTo, UndoneTo, Oracle!Outcome, Outcome, Oracle!NoTx, NoTx,
         Oracle!Savepoint, Savepoint
<1>3. \A ans : Oracle!Executed(TRUE, ans) = Executed(Implicit, ans)
  BY Zenon DEF Oracle!Executed, Executed, Oracle!Outcome, Outcome, Implicit
<1>4. wire \in Commands /\ adapter # "mysql"
  BY <1>1 DEF IInv, WireOK, Process
<1>5. "caller" \in Savepoint /\ Saving("caller") = "save" /\ Releasing("caller") = "release"
      /\ Undoing("caller") = "rollback_to"
  BY DEF Savepoint, Saving, Releasing, Undoing
<1>6. Ordinary(o)
  BY <1>1, <1>2, <1>3, <1>4, <1>5 DEF Oracle!Serves, Ordinary, Commands
<1> QED
  BY <1>1, <1>6, OrdinaryKeeps

\* The parts of a call are those of CallerScope.
LEMMA OracleParts ==
    /\ \A c, cmd : Oracle!Start(c, cmd) => Start(c, cmd)
    /\ \A cmd, r : Oracle!Then(cmd, r) => Then(cmd, r)
    /\ \A o, rec, s, l : Oracle!Returns(o, rec, s, l) => Returns(o, rec, s, l)
    /\ \A o, rec, s, l : Oracle!ToldRolledBack(o, rec, s, l) => ToldRolledBack(o, rec, s, l)
    /\ Oracle!Fails => Fails
    /\ Oracle!Succeeds => Succeeds
    /\ \A a, keep : Oracle!EndsWith(a, keep) => EndsWith(a, keep)
<1> USE DEF Oracle!fields, fields, Oracle!server, server, Oracle!caller, caller, Oracle!Send, Send, Oracle!Back, Back
<1>1. \A c, cmd : Oracle!Start(c, cmd) => Start(c, cmd)
  BY DEF Oracle!Start, Start
<1>2. \A cmd, r : Oracle!Then(cmd, r) => Then(cmd, r)
  BY DEF Oracle!Then, Then
<1>3. /\ \A o, rec, s, l : Oracle!Returns(o, rec, s, l) => Returns(o, rec, s, l)
      /\ \A o, rec, s, l : Oracle!ToldRolledBack(o, rec, s, l) => ToldRolledBack(o, rec, s, l)
      /\ Oracle!Fails => Fails
  BY DEF Oracle!Returns, Returns, Oracle!ToldRolledBack, ToldRolledBack, Oracle!Fails, Fails
<1>4. Oracle!Succeeds => Succeeds
  BY DEF Oracle!Succeeds, Succeeds
<1>5. \A a, keep : Oracle!EndsWith(a, keep) => EndsWith(a, keep)
  BY DEF Oracle!EndsWith, EndsWith, Oracle!Ends, Ends
<1> QED
  BY <1>1, <1>2, <1>3, <1>4, <1>5

\* The answers are those of ErrorAxes.
LEMMA OracleAnswers ==
    /\ Oracle!OutcomeUnknown = OutcomeUnknown /\ Oracle!Unconfirmed = Unconfirmed /\ Oracle!Committed = Committed
    /\ Oracle!RolledBack = RolledBack /\ Oracle!NewError("commit") = NewError("commit")
    /\ Oracle!Error("commit", "rolled_back", "never") = Error("commit", "rolled_back", "never")
    /\ Oracle!AfterCommitSent(Oracle!NewError("commit"), TRUE) = AfterCommitSent(NewError("commit"), TRUE)
    /\ Oracle!AfterCommitSent(Oracle!Error("commit", "rolled_back", "safe"), TRUE)
          = AfterCommitSent(Error("commit", "rolled_back", "safe"), TRUE)
  BY DEF Oracle!OutcomeUnknown, OutcomeUnknown, Oracle!Unconfirmed, Unconfirmed, Oracle!Committed, Committed,
         Oracle!RolledBack, RolledBack, Oracle!NewError, NewError, Oracle!AfterCommitSent, AfterCommitSent,
         Oracle!Error, Error, Oracle!Severe, Severe, Oracle!AfterUnconfirmedRollback, AfterUnconfirmedRollback

\* The calls of a scope of Oracle.
LEMMA OracleKeeps == ASSUME IInv, adapter = "oracle", Oracle!Next PROVE IInv'
<1> USE OracleAnswers, Answers
<1>t. /\ open \in BOOLEAN /\ recovery \in BOOLEAN /\ state \in {"ready", "uncommittable", "gone"}
      /\ link \in {"up", "down"}
  BY DEF IInv, TypeOK
<1>1. CASE \/ Oracle!Execute \/ Oracle!Query \/ Oracle!ConditionalUpdate \/ Oracle!SavepointCall
           \/ Oracle!RollbackToSavepoint \/ Oracle!Commit \/ Oracle!Rollback
  <2>1. PICK c, cmd : Start(c, cmd) /\ <<c, cmd>> \in
           {<<"execute", "execute">>, <<"query", "query">>, <<"conditional", "execute">>, <<"save", "save">>,
            <<"rollback_to", "rollback_to">>, <<"commit", "commit">>, <<"rollback", "rollback">>}
    BY <1>1, OracleParts DEF Oracle!Execute, Oracle!Query, Oracle!ConditionalUpdate,
       Oracle!SavepointCall, Oracle!RollbackToSavepoint, Oracle!Commit, Oracle!Rollback
  <2>2. <<c, cmd>> \in Begins /\ cmd \in Commands
    BY <2>1 DEF Begins, Commands
  <2> QED
    BY <2>1, <2>2, StartKeeps
<1>2. CASE Oracle!TimedAnswered
  <2>1. at \in {"execute", "query", "save", "rollback_to"} /\ InCall
    BY <1>2 DEF Oracle!TimedAnswered, InCall
  <2>2. CASE reply = "ok" /\ call # "conditional" /\ Oracle!Succeeds
    <3>1. call \in {"execute", "conditional"} => at = "execute"
      BY <2>1, <2>2 DEF IInv, CallOK
    <3> QED
      BY <2>1, <2>2, <3>1, OracleParts, SucceedsKeeps
  <2>3. CASE reply = "error" /\ Oracle!Fails
    BY <2>1, <2>3, OracleParts, FailsKeeps
  <2>4. CASE reply = "none" /\ Oracle!Returns(open, recovery, "gone", "down")
    <3>1. Returns(open, recovery, "gone", "down")
      BY <2>4, OracleParts
    <3> QED
      BY <1>t, <2>1, <3>1, ReturnsKeeps
  <2> QED
    BY <1>2, <2>2, <2>3, <2>4 DEF Oracle!TimedAnswered
<1>3. CASE Oracle!ConditionalUpdateAnswered
  <2>1. call = "conditional" /\ reply = "ok" /\ InCall /\ at \notin {"commit", "rollback", "save", "rollback_to"}
    BY <1>3 DEF Oracle!ConditionalUpdateAnswered, IInv, CallOK
  <2>2. CASE at = "execute" /\ Oracle!Succeeds
    BY <2>1, <2>2, OracleParts, SucceedsKeeps
  <2>3. CASE at = "execute" /\ Oracle!Then("query", "ok")
    <3>1. Then("query", "ok") /\ Follows("query", "ok")
      BY <2>1, <2>3, OracleParts DEF Follows, Did
    <3> QED
      BY <3>1, ThenKeeps
  <2>4. CASE Oracle!Fails
    BY <2>1, <2>4, OracleParts, FailsKeeps
  <2> QED
    BY <1>3, <2>2, <2>3, <2>4 DEF Oracle!ConditionalUpdateAnswered
<1>4. CASE Oracle!EndOnClosed
  <2>1. at = "idle" /\ \E a \in {OutcomeUnknown, Unconfirmed} : EndsWith(a, FALSE)
    BY <1>4, OracleParts DEF Oracle!EndOnClosed
  <2> QED
    BY <2>1, EndsWithKeeps
<1>5. CASE Oracle!CommitAnswered
  <2>1. at = "commit" /\ at # "ended"
    BY <1>5 DEF Oracle!CommitAnswered
  <2>2. CASE reply = "ok" /\ Oracle!EndsWith(Committed, TRUE)
    BY <2>1, <2>2, OracleParts, EndsWithKeeps DEF Did
  <2>3. CASE reply = "proven" /\ Oracle!EndsWith(AfterCommitSent(NewError("commit"), TRUE), FALSE)
    BY <2>1, <2>3, OracleParts, EndsWithKeeps
  <2>4. CASE Oracle!EndsWith(OutcomeUnknown, FALSE)
    BY <2>1, <2>4, OracleParts, EndsWithKeeps
  <2> QED
    BY <1>5, <2>2, <2>3, <2>4 DEF Oracle!CommitAnswered
<1>6. CASE Oracle!RollbackAnswered
  <2>1. at = "rollback" /\ at # "ended" /\ ~committing
    BY <1>6 DEF Oracle!RollbackAnswered, IInv, CommitOK
  <2>2. CASE reply = "ok" /\ Oracle!EndsWith(RolledBack, TRUE)
    BY <2>1, <2>2, OracleParts, EndsWithKeeps DEF Did
  <2>3. CASE Oracle!EndsWith(Unconfirmed, FALSE)
    BY <2>1, <2>3, OracleParts, EndsWithKeeps
  <2> QED
    BY <1>6, <2>2, <2>3 DEF Oracle!RollbackAnswered
<1> QED
  BY <1>1, <1>2, <1>3, <1>4, <1>5, <1>6 DEF Oracle!Next

-----------------------------------------------------------------------------
(* Db2.                                                                    *)

\* What a command comes to.
LEMMA Db2Serves == ASSUME IInv, adapter = "db2", Process(Db2!Serves(wire)) PROVE IInv'
<1>1. PICK o \in Db2!Serves(wire) : Process({o})
  BY DEF Process
<1>2. /\ \A ans : Db2!Unmoved(ans) = Unmoved(ans) /\ Db2!Aborted(ans) = Aborted(ans)
      /\ \A ans : Db2!Committing(ans) = Committing(ans)
      /\ \A p : Db2!Saved(p) = Saved(p) /\ Db2!Released(p) = Released(p) /\ Db2!UndoneTo(p) = UndoneTo(p)
  BY DEF Db2!Unmoved, Unmoved, Db2!Aborted, Aborted, Db2!Committing, Committing, Db2!Saved, Saved,
         Db2!Released, Released, Db2!UndoneTo, UndoneTo, Db2!Outcome, Outcome, Db2!NoTx, NoTx,
         Db2!Savepoint, Savepoint
<1>3. \A ans : Db2!Executed(TRUE, ans) = Executed(Implicit, ans)
  BY Zenon DEF Db2!Executed, Executed, Db2!Outcome, Outcome, Implicit
<1>4. wire \in Commands /\ adapter # "mysql"
  BY <1>1 DEF IInv, WireOK, Process
<1>5. "caller" \in Savepoint /\ Saving("caller") = "save" /\ Releasing("caller") = "release"
      /\ Undoing("caller") = "rollback_to"
  BY DEF Savepoint, Saving, Releasing, Undoing
<1>6. Ordinary(o)
  BY <1>1, <1>2, <1>3, <1>4, <1>5 DEF Db2!Serves, Ordinary, Commands
<1> QED
  BY <1>1, <1>6, OrdinaryKeeps

\* The parts of a call are those of CallerScope.
LEMMA Db2Parts ==
    /\ \A c, cmd : Db2!Start(c, cmd) => Start(c, cmd)
    /\ \A cmd, r : Db2!Then(cmd, r) => Then(cmd, r)
    /\ \A o, rec, s, l : Db2!Returns(o, rec, s, l) => Returns(o, rec, s, l)
    /\ \A o, rec, s, l : Db2!ToldRolledBack(o, rec, s, l) => ToldRolledBack(o, rec, s, l)
    /\ Db2!Fails => Fails
    /\ Db2!Succeeds => Succeeds
    /\ \A a, keep : Db2!EndsWith(a, keep) => EndsWith(a, keep)
<1> USE DEF Db2!fields, fields, Db2!server, server, Db2!caller, caller, Db2!Send, Send, Db2!Back, Back
<1>1. \A c, cmd : Db2!Start(c, cmd) => Start(c, cmd)
  BY DEF Db2!Start, Start
<1>2. \A cmd, r : Db2!Then(cmd, r) => Then(cmd, r)
  BY DEF Db2!Then, Then
<1>3. /\ \A o, rec, s, l : Db2!Returns(o, rec, s, l) => Returns(o, rec, s, l)
      /\ \A o, rec, s, l : Db2!ToldRolledBack(o, rec, s, l) => ToldRolledBack(o, rec, s, l)
      /\ Db2!Fails => Fails
  BY DEF Db2!Returns, Returns, Db2!ToldRolledBack, ToldRolledBack, Db2!Fails, Fails
<1>4. Db2!Succeeds => Succeeds
  BY DEF Db2!Succeeds, Succeeds
<1>5. \A a, keep : Db2!EndsWith(a, keep) => EndsWith(a, keep)
  BY DEF Db2!EndsWith, EndsWith, Db2!Ends, Ends
<1> QED
  BY <1>1, <1>2, <1>3, <1>4, <1>5

\* The answers are those of ErrorAxes.
LEMMA Db2Answers ==
    /\ Db2!OutcomeUnknown = OutcomeUnknown /\ Db2!Unconfirmed = Unconfirmed /\ Db2!Committed = Committed
    /\ Db2!RolledBack = RolledBack /\ Db2!NewError("commit") = NewError("commit")
    /\ Db2!Error("commit", "rolled_back", "never") = Error("commit", "rolled_back", "never")
    /\ Db2!AfterCommitSent(Db2!NewError("commit"), TRUE) = AfterCommitSent(NewError("commit"), TRUE)
    /\ Db2!AfterCommitSent(Db2!Error("commit", "rolled_back", "safe"), TRUE)
          = AfterCommitSent(Error("commit", "rolled_back", "safe"), TRUE)
  BY DEF Db2!OutcomeUnknown, OutcomeUnknown, Db2!Unconfirmed, Unconfirmed, Db2!Committed, Committed,
         Db2!RolledBack, RolledBack, Db2!NewError, NewError, Db2!AfterCommitSent, AfterCommitSent,
         Db2!Error, Error, Db2!Severe, Severe, Db2!AfterUnconfirmedRollback, AfterUnconfirmedRollback

\* The calls of a scope of Db2.
LEMMA Db2Keeps == ASSUME IInv, adapter = "db2", Db2!Next PROVE IInv'
<1> USE Db2Answers, Answers
<1>t. /\ open \in BOOLEAN /\ recovery \in BOOLEAN /\ state \in {"ready", "uncommittable", "gone"}
      /\ link \in {"up", "down"} /\ Implicit
  BY DEF IInv, TypeOK, Implicit
<1>1. CASE \/ Db2!Execute \/ Db2!Query \/ Db2!ConditionalUpdate \/ Db2!SavepointCall
           \/ Db2!RollbackToSavepoint \/ Db2!Commit
  <2>1. PICK c, cmd : Start(c, cmd) /\ <<c, cmd>> \in
           {<<"execute", "execute">>, <<"query", "query">>, <<"conditional", "execute">>, <<"save", "save">>,
            <<"release", "release">>, <<"rollback_to", "rollback_to">>, <<"commit", "commit">>}
    BY <1>1, Db2Parts DEF Db2!Execute, Db2!Query, Db2!ConditionalUpdate, Db2!SavepointCall,
       Db2!RollbackToSavepoint, Db2!Commit
  <2>2. <<c, cmd>> \in Begins /\ cmd \in Commands
    BY <2>1 DEF Begins, Commands
  <2> QED
    BY <2>1, <2>2, StartKeeps
<1>2. CASE Db2!RunAnswered
  <2>1. at \in {"execute", "query", "save", "release", "rollback_to"} /\ InCall
    BY <1>2 DEF Db2!RunAnswered, Db2!Run, InCall
  <2>2. CASE reply = "ok" /\ call # "conditional" /\ Db2!Succeeds
    <3>1. call \in {"execute", "conditional"} => at = "execute"
      BY <2>1, <2>2 DEF IInv, CallOK
    <3> QED
      BY <2>1, <2>2, <3>1, Db2Parts, SucceedsKeeps
  <2>3. CASE reply = "undone" /\ Db2!ToldRolledBack(open, recovery, state, link)
    <3>1. ToldRolledBack(open, recovery, state, link)
      BY <2>3, Db2Parts
    <3> QED
      BY <1>t, <2>1, <2>3, <3>1, ToldKeeps
  <2>4. CASE (reply = "error" \/ link = "down") /\ Db2!Fails
    BY <2>1, <2>4, Db2Parts, FailsKeeps
  <2> QED
    BY <1>2, <2>2, <2>3, <2>4 DEF Db2!RunAnswered, Db2!Lost
<1>3. CASE Db2!WorkerLost
  <2>1. Returns(FALSE, recovery, "gone", "down") /\ at \notin {"commit", "ended"}
    BY <1>3, Db2Parts DEF Db2!WorkerLost, Db2!Run
  <2> QED
    BY <1>t, <2>1, ReturnsKeeps
<1>4. CASE Db2!ConditionalUpdateAnswered
  <2>1. call = "conditional" /\ reply = "ok" /\ InCall /\ at \notin {"commit", "rollback", "save", "rollback_to"}
    BY <1>4 DEF Db2!ConditionalUpdateAnswered, IInv, CallOK
  <2>2. CASE at = "execute" /\ Db2!Succeeds
    BY <2>1, <2>2, Db2Parts, SucceedsKeeps
  <2>3. CASE at = "execute" /\ Db2!Then("query", "ok")
    <3>1. Then("query", "ok") /\ Follows("query", "ok")
      BY <2>1, <2>3, Db2Parts DEF Follows, Did
    <3> QED
      BY <3>1, ThenKeeps
  <2>4. CASE Db2!Fails
    BY <2>1, <2>4, Db2Parts, FailsKeeps
  <2> QED
    BY <1>4, <2>2, <2>3, <2>4 DEF Db2!ConditionalUpdateAnswered
<1>5. CASE Db2!EndClosed
  <2>1. at = "idle" /\ ~committing /\ \E a \in {NewError("commit"), RolledBack} : EndsWith(a, FALSE)
    BY <1>5, Db2Parts DEF Db2!EndClosed, IInv, CommitOK
  <2> QED
    BY <2>1, EndsWithKeeps
<1>6. CASE Db2!CommitAnswered
  <2>1. at = "commit" /\ at # "ended"
    BY <1>6 DEF Db2!CommitAnswered
  <2>2. (reply = "ok" /\ EndsWith(Committed, FALSE)) \/ EndsWith(OutcomeUnknown, FALSE)
    BY <1>6, Db2Parts DEF Db2!CommitAnswered
  <2> QED
    BY <2>1, <2>2, EndsWithKeeps DEF Did
<1>7. CASE Db2!Rollback
  <2>1. at = "idle" /\ call' = "rollback" /\ Send("rollback") /\ UNCHANGED <<count, committing>>
        /\ result' \in {"ok", "error"}
    BY <1>7 DEF Db2!Rollback, Db2!Send, Send, Db2!fields, fields, Db2!server, server, Db2!caller, caller
  <2> QED
    BY <2>1, RollbackKeeps
<1>8. CASE Db2!RollbackAnswered
  <2>1. at = "rollback" /\ at # "ended" /\ ~committing /\ result \in {"ok", "error"}
    BY <1>8 DEF Db2!RollbackAnswered, IInv, CommitOK, TypeOK
  <2>2. \E a \in {Error("commit", "rolled_back", "never"), RolledBack, Unconfirmed} : EndsWith(a, FALSE)
    BY <1>8, <2>1, Db2Parts DEF Db2!RollbackAnswered, Db2!Abandoned
  <2> QED
    BY <2>1, <2>2, EndsWithKeeps
<1> QED
  BY <1>1, <1>2, <1>3, <1>4, <1>5, <1>6, <1>7, <1>8 DEF Db2!Next

-----------------------------------------------------------------------------
(* The theorems.                                                           *)

\* begin has answered: the transaction holds nothing, and nothing was told.
LEMMA InitHolds == Init => IInv
<1> SUFFICES ASSUME Init PROVE IInv
  OBVIOUS
<1> USE ScopeAssumption DEF Init, ScopeInit
<1>1. /\ tx.work = {} /\ tx.saved["own"] = -1 /\ tx.saved["caller"] = -1
      /\ tx.live <=> adapter \in {"mysql", "sqlserver"}
      /\ tx \in Transaction
  <2>1. PICK b \in BOOLEAN : b <=> adapter \in {"mysql", "sqlserver"}
    OBVIOUS
  <2>2. tx = [NoTx EXCEPT !.live = b]
    BY <2>1, Zenon
  <2>3. tx = [live |-> b, work |-> {}, saved |-> [p \in Savepoint |-> -1]]
    BY <2>2 DEF NoTx
  <2> QED
    <3>1. tx.live = b /\ tx.work = {} /\ tx.saved = [p \in Savepoint |-> -1]
      BY <2>3
    <3>2. [p \in Savepoint |-> -1] \in [Savepoint -> -1 .. MaxStatements]
      BY ScopeAssumption
    <3>3. tx \in Transaction
      <4>1. \A S : {} \in SUBSET S
        OBVIOUS
      <4> HIDE DEF Init, ScopeInit
      <4>2. [live |-> b, work |-> {}, saved |-> [p \in Savepoint |-> -1]] \in Transaction
        BY <2>1, <3>2, <4>1, Zenon DEF Transaction
      <4> QED
        BY <2>3, <4>2
    <3>4. tx.saved["own"] = -1 /\ tx.saved["caller"] = -1
      BY <3>1 DEF Savepoint
    <3> QED
      BY <2>1, <3>1, <3>3, <3>4
<1>2. TypeOK
  <2>1. told \in Answer \cup {RolledBack, NotTold}
    OBVIOUS
  <2>2. tx \in [live : BOOLEAN, work : SUBSET Statement, saved : [Savepoint -> -1 .. MaxStatements]]
    BY <1>1 DEF Transaction
  <2>3. open \in BOOLEAN /\ recovery \in BOOLEAN /\ committing \in BOOLEAN /\ unnoticed \in BOOLEAN /\ kept \in BOOLEAN
    OBVIOUS
  <2>4. count \in 0 .. MaxStatements /\ mark \in -1 .. MaxStatements /\ call \in Call /\ wire \in Command
    BY DEF Call, Command
  <2> QED
    BY <2>1, <2>2, <2>3, <2>4 DEF TypeOK
<1>3. WireOK /\ CallOK
  BY DEF WireOK, CallOK, InCall
<1>4. CountOK
  BY <1>1 DEF CountOK, InCall
<1>5. LiveOK /\ CommitOK /\ ToldOK
  BY Untold DEF LiveOK, CommitOK, ToldOK
<1>6. CommittedIsWhole /\ NothingEscapes /\ RolledBackIsUndone /\ KeptIsClean
  BY Untold DEF CommittedIsWhole, NothingEscapes, RolledBackIsUndone, KeptIsClean
<1>7. Held
  BY <1>1 DEF Held, Did, Implicit
<1> QED
  BY <1>2, <1>3, <1>4, <1>5, <1>6, <1>7 DEF IInv

\* The inductive invariant holds in every state of every adapter.
THEOREM ScopesInv == Spec => []IInv
<1>1. Init => IInv
  BY InitHolds
<1>2. ASSUME IInv, [Next]_vars PROVE IInv'
  <2>1. CASE adapter = "mysql" /\ Mysql!Next
    BY <1>2, <2>1, MysqlSqlKeeps, MysqlSavepointKeeps, MysqlEndKeeps DEF Mysql!Next
  <2>2. CASE adapter = "sqlserver" /\ SqlServer!Next
    BY <1>2, <2>2, SqlServerSqlKeeps, SqlServerEndKeeps DEF SqlServer!Next
  <2>3. CASE adapter = "oracle" /\ Oracle!Next
    BY <1>2, <2>3, OracleKeeps
  <2>4. CASE adapter = "db2" /\ Db2!Next
    BY <1>2, <2>4, Db2Keeps
  <2>5. CASE ServerAnswers
    BY <1>2, <2>5, MysqlServes, SqlServerServes, OracleServes, Db2Serves DEF ServerAnswers
  <2>6. CASE Break \/ Hangup \/ Drops
    BY <1>2, <2>6, DropsAreDrops, BreakKeeps, HangupKeeps, DropKeeps
  <2>7. CASE UNCHANGED vars
    <3>1. Commands' = Commands
      BY <2>7 DEF vars, Commands
    <3> QED
      BY <1>2, <2>7, <3>1 DEF vars, fields, server, caller, IInv, TypeOK, WireOK, CallOK, CountOK, LiveOK,
         CommitOK, ToldOK, CommittedIsWhole, NothingEscapes, RolledBackIsUndone, KeptIsClean, Stands, Held,
         InCall, Implicit, Did
  <2> QED
    BY <1>2, <2>1, <2>2, <2>3, <2>4, <2>5, <2>6, <2>7 DEF Next, Calls
<1> QED
  BY <1>1, <1>2, PTL DEF Spec

\* The fields of the scope, the call, the server and what the caller knows
\* keep their types.
THEOREM ScopeTypes == Spec => []TypeOK
<1>1. IInv => TypeOK
  BY DEF IInv
<1> QED
  BY <1>1, ScopesInv, PTL

\* A commit that an adapter answers Committed has made durable every statement
\* whose call succeeded, and none that a savepoint undid.
THEOREM CommittedStaysWhole == Spec => []CommittedIsWhole
<1>1. IInv => CommittedIsWhole
  BY DEF IInv
<1> QED
  BY <1>1, ScopesInv, PTL

\* No statement of the caller is durable before COMMIT is sent: the scope lets
\* none run in autocommit after the server has ended the transaction.
THEOREM NothingEverEscapes == Spec => []NothingEscapes
<1>1. IInv => NothingEscapes
  BY DEF IInv
<1> QED
  BY <1>1, ScopesInv, PTL

\* After a rollback that is answered, or an error whose effect is none or
\* rolled_back, nothing of the scope is durable, now or later.
THEOREM RolledBackStaysUndone == Spec => []RolledBackIsUndone
<1>1. IInv => RolledBackIsUndone
  BY DEF IInv
<1> QED
  BY <1>1, ScopesInv, PTL

\* A connection that goes back to the pool has no transaction and nothing on
\* its way, or the reset of mysql_async.
THEOREM KeptStaysClean == Spec => []KeptIsClean
<1>1. IInv => KeptIsClean
  BY DEF IInv
<1> QED
  BY <1>1, ScopesInv, PTL
=============================================================================
