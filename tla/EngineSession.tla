---------------------------- MODULE EngineSession ----------------------------
(***************************************************************************)
(* The lifecycle of the application engine (engine.rs): `Engine::session`, *)
(* `Session::close`, the two forms of a transaction and `Engine::dispose`, *)
(* with the cancellation tokens that tie them together.                    *)
(*                                                                         *)
(* A token is named by its role and its session, because every struct owns *)
(* at most one token of each role.  Parents hold children weakly: dropping *)
(* a token cuts whatever hangs from it off its ancestors.  `cancel` is one *)
(* step here; module Cancellation shows that its walk loses no live child  *)
(* and no child created meanwhile.                                         *)
(***************************************************************************)
EXTENDS Naturals, FiniteSets

CONSTANTS
    Session,      \* the sessions a run may open
    Caller,       \* the tokens applications pass in
    Form          \* the transaction forms in use

ASSUME EngineSessionAssumption ==
    /\ IsFiniteSet(Session)
    /\ Form \subseteq {"borrowed", "owned"}

VARIABLES
    disposed,     \* Lifecycle.disposed
    opened,       \* Lifecycle.sessions_opened
    active,       \* Lifecycle.active_sessions
    dispose,      \* where the call of Engine::dispose that changed it is
    live,         \* tokens with a strong handle
    cancelled,    \* tokens whose reason is set
    kids,         \* Inner.children: weak references
    st,           \* where each session is
    closed,       \* Session.closed
    form,         \* the form of its transaction
    caller,       \* the token its transaction was opened with
    using,        \* the token the provider call in flight looks at
    streamed      \* history: its transaction has opened a stream

lifecycle == <<disposed, opened, active, dispose>>
tokens == <<live, cancelled, kids>>
sessions == <<st, closed, form, caller, using, streamed>>
vars == <<lifecycle, tokens, sessions>>

Role == {"session", "linked", "inner", "stream", "op", "lent"}
Engine == <<"engine">>
Tok(r, s) == <<r, s>>
App(c) == <<"caller", c>>
Token == {Engine} \cup (Role \X Session) \cup {App(c) : c \in Caller}
NoToken == <<"none">>

\* States in which the provider has a call of the session in flight.
InFlight == {"beginning", "running", "opening", "fetching", "finishing"}
Status == InFlight \cup
    {"absent", "counted", "open", "linking", "txn", "stream", "closing", "leaving", "closed",
     "dropped"}

TypeOK ==
    /\ disposed \in BOOLEAN
    /\ opened \in Nat /\ active \in Nat
    /\ dispose \in {"no", "marked", "done"}
    /\ live \in SUBSET Token /\ cancelled \in SUBSET Token
    /\ kids \in [Token -> SUBSET Token]
    /\ st \in [Session -> Status]
    /\ closed \in [Session -> BOOLEAN]
    /\ form \in [Session -> {"borrowed", "owned", "none"}]
    /\ caller \in [Session -> Caller \cup {NoToken}]
    /\ using \in [Session -> Token \cup {NoToken}]
    /\ streamed \in [Session -> BOOLEAN]

-----------------------------------------------------------------------------
(* Token operations, composed by one step of a session.  g is a record     *)
(* [live, cancelled, kids].                                                *)

Graph == [live |-> live, cancelled |-> cancelled, kids |-> kids]

\* CancellationToken::child_token and linked: the new token is registered
\* with every parent and is cancelled from birth if one of them is.
Linked(g, t, ps) ==
    [live      |-> g.live \cup {t},
     cancelled |-> IF ps \cap g.cancelled # {} THEN g.cancelled \cup {t} ELSE g.cancelled \ {t},
     kids      |-> [p \in Token |-> IF p = t THEN {}
                                    ELSE IF p \in ps THEN g.kids[p] \cup {t}
                                    ELSE g.kids[p] \ {t}]]

\* The last handles of ts are dropped: their parents' weak references die
\* with them, and so do the references they held.
Dropped(g, ts) ==
    [live      |-> g.live \ ts,
     cancelled |-> g.cancelled \ ts,
     kids      |-> [p \in Token |-> IF p \in ts THEN {} ELSE g.kids[p] \ ts]]

\* The live descendants of t: no chain is longer than engine, session,
\* linked, inner, op.
Children(g, ts) == ts \cup UNION {g.kids[p] : p \in ts}
Below(g, t) == Children(g, Children(g, Children(g, Children(g, {t}))))

Cancelled(g, t) == [g EXCEPT !.cancelled = @ \cup Below(g, t)]

Becomes(g) ==
    /\ live' = g.live
    /\ cancelled' = g.cancelled
    /\ kids' = g.kids

-----------------------------------------------------------------------------
Init ==
    /\ disposed = FALSE /\ opened = 0 /\ active = 0 /\ dispose = "no"
    /\ live = {Engine} \cup {App(c) : c \in Caller}
    /\ cancelled = {}
    /\ kids = [t \in Token |-> {}]
    /\ st = [s \in Session |-> "absent"]
    /\ closed = [s \in Session |-> FALSE]
    /\ form = [s \in Session |-> "none"]
    /\ caller = [s \in Session |-> NoToken]
    /\ using = [s \in Session |-> NoToken]
    /\ streamed = [s \in Session |-> FALSE]

Goto(s, from, to) == st[s] = from /\ st' = [st EXCEPT ![s] = to]

(* Engine::dispose.                                                        *)

\* The mutex-protected block; a second call changes nothing.
DisposeMark ==
    /\ ~disposed
    /\ disposed' = TRUE /\ dispose' = "marked"
    /\ UNCHANGED <<opened, active, tokens, sessions>>

\* Fault: only sessions are refused, the engine's token is not cancelled.
DisposeWithoutCancel ==
    /\ dispose = "marked"
    /\ dispose' = "done"
    /\ UNCHANGED <<disposed, opened, active, tokens, sessions>>

DisposeCancel ==
    /\ dispose = "marked"
    /\ dispose' = "done"
    /\ Becomes(Cancelled(Graph, Engine))
    /\ UNCHANGED <<disposed, opened, active, sessions>>

(* Engine::session.                                                        *)

\* The mutex-protected block: refused once the engine is disposed.
Open(s) ==
    /\ ~disposed
    /\ Goto(s, "absent", "counted")
    /\ opened' = opened + 1 /\ active' = active + 1
    /\ UNCHANGED <<disposed, dispose, tokens, closed, form, caller, using, streamed>>

\* Fault: session() hands out a fresh token instead of a child of the engine's.
OpenTokenUnlinked(s) ==
    /\ Goto(s, "counted", "open")
    /\ Becomes(Linked(Graph, Tok("session", s), {}))
    /\ UNCHANGED <<lifecycle, closed, form, caller, using, streamed>>

\* The child of the engine's token is made after the lock is released.
OpenToken(s) ==
    /\ Goto(s, "counted", "open")
    /\ Becomes(Linked(Graph, Tok("session", s), {Engine}))
    /\ UNCHANGED <<lifecycle, closed, form, caller, using, streamed>>

\* Session::cancellation_token, given to an adapter.
Lend(s) ==
    /\ st[s] = "open" /\ Tok("lent", s) \notin live
    /\ Becomes(Linked(Graph, Tok("lent", s), {Tok("session", s)}))
    /\ UNCHANGED <<lifecycle, sessions>>

(* Session::begin_transaction and begin_owned_transaction.                 *)

\* ensure_open; the borrowed form borrows the session, the owned one takes it.
Begin(s, f, c) ==
    /\ ~closed[s] /\ ~disposed
    /\ Goto(s, "open", "linking")
    /\ form' = [form EXCEPT ![s] = f]
    /\ caller' = [caller EXCEPT ![s] = c]
    /\ streamed' = [streamed EXCEPT ![s] = FALSE]
    /\ UNCHANGED <<lifecycle, tokens, closed, using>>

\* Fault: the transaction listens to the caller's token only.
BeginUnlinked(s) ==
    /\ Goto(s, "linking", "beginning")
    /\ Becomes(Linked(Graph, Tok("linked", s), {App(caller[s])}))
    /\ using' = [using EXCEPT ![s] = Tok("linked", s)]
    /\ UNCHANGED <<lifecycle, closed, form, caller, streamed>>

\* The linked token, then the provider's begin with it.
BeginLink(s) ==
    /\ Goto(s, "linking", "beginning")
    /\ Becomes(Linked(Graph, Tok("linked", s), {Tok("session", s), App(caller[s])}))
    /\ using' = [using EXCEPT ![s] = Tok("linked", s)]
    /\ UNCHANGED <<lifecycle, closed, form, caller, streamed>>

\* The owned form hands its operations a child of the linked token and keeps
\* the linked one in stream_cancellation.
Begun(s) ==
    /\ Goto(s, "beginning", "txn")
    /\ Becomes(IF form[s] = "owned" THEN Linked(Graph, Tok("inner", s), {Tok("linked", s)})
                                    ELSE Graph)
    /\ using' = [using EXCEPT ![s] = NoToken]
    /\ UNCHANGED <<lifecycle, closed, form, caller, streamed>>

(* Operations of SessionTransaction and OwnedSessionTransaction.           *)

\* The token of a call other than query_stream: the transaction's own one,
\* or one linked to the owned form's child token and to the call's token.
Call(s, c, to) ==
    /\ Goto(s, "txn", to)
    /\ IF form[s] = "owned"
       THEN /\ Becomes(Linked(Graph, Tok("op", s), {Tok("inner", s), App(c)}))
            /\ using' = [using EXCEPT ![s] = Tok("op", s)]
       ELSE /\ UNCHANGED tokens
            /\ using' = [using EXCEPT ![s] = Tok("linked", s)]
    /\ UNCHANGED <<lifecycle, closed, form, caller, streamed>>

\* run, execute, query, savepoints, conditional update, catalogue reads.
Execute(s, c) == Call(s, c, "running")

\* commit and rollback consume the transaction.
Finish(s, c) == Call(s, c, "finishing")

\* query_stream of the owned form stores its token over stream_cancellation,
\* whose previous value is dropped.
OpenStream(s, c) ==
    /\ Goto(s, "txn", "opening")
    /\ streamed' = [streamed EXCEPT ![s] = TRUE]
    /\ IF form[s] = "owned"
       THEN /\ Becomes(Dropped(Linked(Graph, Tok("stream", s), {Tok("inner", s), App(c)}),
                               {Tok("linked", s)}))
            /\ using' = [using EXCEPT ![s] = Tok("stream", s)]
       ELSE /\ UNCHANGED tokens
            /\ using' = [using EXCEPT ![s] = Tok("linked", s)]
    /\ UNCHANGED <<lifecycle, closed, form, caller>>

StreamOpened(s) ==
    /\ Goto(s, "opening", "stream")
    /\ using' = [using EXCEPT ![s] = NoToken]
    /\ UNCHANGED <<lifecycle, tokens, closed, form, caller, streamed>>

\* next_batch: SessionRowStream passes the transaction's token; the stream
\* of the owned form is the provider's and looks at the token of the call.
Fetch(s, c) ==
    /\ Goto(s, "stream", "fetching")
    /\ using' = [using EXCEPT ![s] = IF form[s] = "owned" THEN App(c) ELSE Tok("linked", s)]
    /\ UNCHANGED <<lifecycle, tokens, closed, form, caller, streamed>>

Fetched(s) ==
    /\ Goto(s, "fetching", "stream")
    /\ using' = [using EXCEPT ![s] = NoToken]
    /\ UNCHANGED <<lifecycle, tokens, closed, form, caller, streamed>>

DropStream(s) ==
    /\ Goto(s, "stream", "txn")
    /\ UNCHANGED <<lifecycle, tokens, closed, form, caller, using, streamed>>

\* The call's own linked token is dropped when the provider answers.
Executed(s) ==
    /\ Goto(s, "running", "txn")
    /\ Becomes(Dropped(Graph, {Tok("op", s)}))
    /\ using' = [using EXCEPT ![s] = NoToken]
    /\ UNCHANGED <<lifecycle, closed, form, caller, streamed>>

\* SessionTransaction::cancel.
CancelTransaction(s) ==
    /\ st[s] = "txn" /\ form[s] = "borrowed"
    /\ Becomes(Cancelled(Graph, Tok("linked", s)))
    /\ UNCHANGED <<lifecycle, sessions>>

\* The transaction's value is gone: after commit, rollback, a failed begin,
\* or a drop.  The owned form takes its session with it.
Release(s) ==
    /\ st[s] \in {"beginning", "finishing", "txn"}
    /\ st' = [st EXCEPT ![s] = IF form[s] = "owned" THEN "closing" ELSE "open"]
    /\ closed' = [closed EXCEPT ![s] = form[s] = "owned"]
    /\ Becomes(Dropped(Graph, {Tok(r, s) : r \in {"linked", "inner", "stream", "op"}}))
    /\ using' = [using EXCEPT ![s] = NoToken]
    /\ UNCHANGED <<lifecycle, form, caller, streamed>>

(* Session::close, and its call by the drop of a session.                  *)

Close(s) ==
    /\ ~closed[s]
    /\ Goto(s, "open", "closing")
    /\ closed' = [closed EXCEPT ![s] = TRUE]
    /\ UNCHANGED <<lifecycle, tokens, form, caller, using, streamed>>

CloseCancel(s) ==
    /\ Goto(s, "closing", "leaving")
    /\ Becomes(Cancelled(Graph, Tok("session", s)))
    /\ UNCHANGED <<lifecycle, closed, form, caller, using, streamed>>

CloseCount(s) ==
    /\ Goto(s, "leaving", "closed")
    /\ active' = IF active = 0 THEN 0 ELSE active - 1
    /\ UNCHANGED <<disposed, opened, dispose, tokens, closed, form, caller, using, streamed>>

\* Faults: the drop of a session closed by hand counts it out again, with and
\* without the saturation.
DropSessionTwice(s) ==
    /\ Goto(s, "closed", "dropped")
    /\ Becomes(Dropped(Graph, {Tok("session", s)}))
    /\ active' = IF active = 0 THEN 0 ELSE active - 1
    /\ UNCHANGED <<disposed, opened, dispose, closed, form, caller, using, streamed>>

DropSessionUnsaturated(s) ==
    /\ Goto(s, "closed", "dropped")
    /\ Becomes(Dropped(Graph, {Tok("session", s)}))
    /\ active' = active - 1
    /\ UNCHANGED <<disposed, opened, dispose, closed, form, caller, using, streamed>>

\* The drop of a closed session: close() again, which `closed` makes a
\* no-op, then the token's handle.
DropSession(s) ==
    /\ closed[s]
    /\ Goto(s, "closed", "dropped")
    /\ Becomes(Dropped(Graph, {Tok("session", s)}))
    /\ UNCHANGED <<lifecycle, closed, form, caller, using, streamed>>

\* An application cancels the token it passes in.
CallerCancel(c) ==
    /\ App(c) \notin cancelled
    /\ Becomes(Cancelled(Graph, App(c)))
    /\ UNCHANGED <<lifecycle, sessions>>

Next ==
    \/ DisposeMark \/ DisposeCancel
    \/ \E s \in Session :
          \/ Open(s) \/ OpenToken(s) \/ Lend(s)
          \/ \E c \in Caller :
                \/ \E f \in Form : Begin(s, f, c)
                \/ Execute(s, c) \/ Finish(s, c) \/ OpenStream(s, c) \/ Fetch(s, c)
          \/ BeginLink(s) \/ Begun(s) \/ Executed(s) \/ Release(s)
          \/ StreamOpened(s) \/ Fetched(s) \/ DropStream(s)
          \/ CancelTransaction(s)
          \/ Close(s) \/ CloseCancel(s) \/ CloseCount(s) \/ DropSession(s)
    \/ \E c \in Caller : CallerCancel(c)

Spec == Init /\ [][Next]_vars

\* dispose() is synchronous: once it has marked the engine it runs on.  A
\* provider need not answer at all, cancelled or not: SQL Server and Db2 have
\* awaits that no token interrupts.
FairSpec == Spec /\ WF_vars(DisposeCancel)

-----------------------------------------------------------------------------
(* Properties.                                                             *)

Reaches(t, s) == t \in cancelled /\ st[s] \in InFlight => using[s] \in cancelled

\* Cancelling the engine, the session or the token a transaction was opened
\* with reaches the provider call in flight, whatever the interleaving of
\* dispose() with session(), with the two-step begin and with the calls; for
\* all but the owned transactions that have opened a stream.
LifecycleReachesUnstreamed ==
    \A s \in Session : form[s] = "borrowed" \/ ~streamed[s] =>
        /\ Reaches(Engine, s)
        /\ Reaches(Tok("session", s), s)
        /\ caller[s] \in Caller => Reaches(App(caller[s]), s)

\* A token lent by Session::cancellation_token is cancelled with the session
\* and with the engine, even when dispose() runs between the counting of the
\* session and the creation of its token.
LentFollowsSession ==
    \A s \in Session : Tok("lent", s) \in live =>
        /\ Engine \in cancelled => Tok("lent", s) \in cancelled
        /\ st[s] \in {"leaving", "closed", "dropped"} => Tok("lent", s) \in cancelled

\* active_sessions counts exactly the sessions opened and not closed, though
\* close() runs both by hand and at the drop, and the owned form closes the
\* session it swallowed.
ActiveSessionsExact ==
    /\ opened = Cardinality({s \in Session : st[s] # "absent"})
    /\ active = Cardinality({s \in Session : st[s] \notin {"absent", "closed", "dropped"}})

\* Disposal spreads and lasts, whatever the providers do: from some moment
\* after the mark on, every token a session holds or has lent is cancelled,
\* and so is the one a call in flight looks at, of a session counted before
\* the mark and given its token after, and of a begin that had passed
\* ensure_open; for all but the owned transactions that have opened a stream.
Disposed(s) ==
    form[s] = "borrowed" \/ ~streamed[s] =>
        /\ \A r \in Role : Tok(r, s) \in live => Tok(r, s) \in cancelled
        /\ st[s] \in InFlight => using[s] \in cancelled

DisposeReachesSessions == \A s \in Session : disposed ~> []Disposed(s)

=============================================================================
