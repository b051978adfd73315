---------------------------- MODULE Cancellation ----------------------------
(***************************************************************************)
(* The cooperative cancellation tokens of plenora-database-core            *)
(* (cancellation.rs): a graph of tokens whose parents hold their children  *)
(* weakly, `cancel_tree` run step by step by any thread, the `Cancelled`   *)
(* future with its waker registration, and the deadline scheduler with its *)
(* single lazily spawned worker thread.                                    *)
(*                                                                         *)
(* A token is alive while a strong reference exists: a handle kept by its  *)
(* owner, a call in progress, or a `Cancelled` future.  A mutex-protected  *)
(* block is one step, and so is every atomic access.                       *)
(***************************************************************************)
EXTENDS Naturals, FiniteSets

CONSTANTS
    Token,        \* the tokens a run may allocate
    NoToken,      \* absence of a token
    Thread,       \* the threads that call into the module
    Worker,       \* the scheduler's "plenora-deadline" thread
    Waiter,       \* the Cancelled futures a run may create
    Context,      \* the tasks that may poll a future, named by their wakers
    MaxTime,      \* bound on the clock
    MaxArm,       \* MAX_ARM_ATTEMPTS
    Threshold     \* COMPACTION_THRESHOLD

ASSUME CancellationAssumption ==
    /\ NoToken \notin Token
    /\ Worker \notin Thread
    /\ MaxTime \in Nat /\ MaxArm \in Nat /\ Threshold \in Nat
    /\ Context # {}

VARIABLES
    now,        \* Instant::now()
    born,       \* tokens allocated so far
    held,       \* tokens with a handle kept by their owner
    deadline,   \* Inner.deadline, Never when there is none
    reason,     \* Inner.reason
    children,   \* Inner.children: weak references
    parents,    \* history: the parents a token was created from
    pc,         \* where each thread is
    child,      \* the token a thread is creating
    todo,       \* the parents it has still to register with, or to look at
    pend,       \* the work list of its cancel_tree
    why,        \* the reason that work list propagates
    cur,        \* the token its cancel_tree has just closed
    wakes,      \* the wakers it took from `cur` and has still to call
    waiters,    \* Inner.waiters: <<future, waker>> entries
    wst,        \* state of each Cancelled future
    wtok,       \* the token it waits on
    wctx,       \* the context of its last poll
    woken,      \* its task has been told to poll again
    arms,       \* Cancelled.arm_attempts
    retry,      \* needs_cooperative_retry
    heap,       \* DeadlineScheduler.pending: tokens with an entry
    until       \* what the worker's wait_timeout waits for

treeVars == <<born, held, deadline, reason, children, parents>>
callVars == <<pc, child, todo, pend, why, cur, wakes>>
waitVars == <<waiters, wst, wtok, wctx, woken, arms, retry>>
heapVars == <<heap, until>>
vars == <<now, treeVars, callVars, waitVars, heapVars>>

Agent == Thread \cup {Worker}
Cause == {"Requested", "Deadline", "Parent"}
Never == MaxTime + 1
Deadline == 0 .. Never

Calling == {"arm", "register", "check", "pop", "take", "wake", "spread"}
Polling == {"register", "arm", "recheck"}

TypeOK ==
    /\ now \in 0 .. MaxTime
    /\ born \in SUBSET Token
    /\ held \in SUBSET born
    /\ deadline \in [Token -> Deadline]
    /\ reason \in [Token -> Cause \cup {"none"}]
    /\ children \in [Token -> SUBSET born]
    /\ parents \in [Token -> SUBSET born]
    /\ pc \in [Agent -> Calling \cup {"idle", "absent", "look", "wait", "timed"}]
    /\ child \in [Agent -> born \cup {NoToken}]
    /\ todo \in [Agent -> SUBSET born]
    /\ pend \in [Agent -> SUBSET born]
    /\ why \in [Agent -> Cause]
    /\ cur \in [Agent -> born \cup {NoToken}]
    /\ wakes \in [Agent -> SUBSET (Waiter \X Context)]
    /\ waiters \in [Token -> SUBSET (Waiter \X Context)]
    /\ wst \in [Waiter -> Polling \cup {"absent", "created", "parked", "ready", "dropped"}]
    /\ wtok \in [Waiter -> born \cup {NoToken}]
    /\ wctx \in [Waiter -> Context]
    /\ woken \in [Waiter -> BOOLEAN]
    /\ arms \in [Waiter -> 0 .. MaxArm]
    /\ retry \in [Waiter -> BOOLEAN]
    /\ heap \in SUBSET born
    /\ until \in Deadline

-----------------------------------------------------------------------------
(* What the steps are made of.                                             *)

\* A Cancelled future exists and borrows its token.
Waiting(w) == wst[w] \notin {"absent", "dropped"}

\* The tokens a call in progress has a strong reference to, or borrows.
CallRefs(p) ==
    pend[p] \cup {cur[p], child[p]}
        \cup (IF child[p] \in Token THEN parents[child[p]] ELSE {})

\* Arc::strong_count > 0, what Weak::upgrade tests.
Live(t) ==
    \/ t \in held
    \/ \E p \in Agent : t \in CallRefs(p)
    \/ \E w \in Waiter : Waiting(w) /\ wtok[w] = t

\* CancellationToken::reason: the recorded cause, else the clock's.
Reason(t) ==
    IF reason[t] # "none" THEN reason[t]
    ELSE IF now >= deadline[t] THEN "Deadline" ELSE "none"

\* Fault: every propagation is marked Parent.
InheritedAsParent(r) == "Parent"

\* A deadline propagates as a deadline, anything else as Parent.
Inherited(r) == IF r = "Deadline" THEN "Deadline" ELSE "Parent"

\* m is the nearest of d and the deadlines of the parents ps.
Nearest(m, d, ps) ==
    LET candidates == {d} \cup {deadline[q] : q \in ps}
    IN  m \in candidates /\ \A e \in candidates : m <= e

\* DeadlineScheduler::schedule compacts a long queue before it pushes.
Compacted ==
    IF Cardinality(heap) >= Threshold
    THEN {t \in heap : Live(t) /\ reason[t] = "none"}
    ELSE heap

\* Where an agent goes when its cancel_tree returns.
AfterCancel(p) ==
    IF p = Worker THEN "look" ELSE IF child[p] # NoToken THEN "check" ELSE "idle"

-----------------------------------------------------------------------------
Init ==
    /\ now = 0
    /\ born = {} /\ held = {} /\ heap = {} /\ until = Never
    /\ deadline = [t \in Token |-> Never]
    /\ reason = [t \in Token |-> "none"]
    /\ children = [t \in Token |-> {}]
    /\ parents = [t \in Token |-> {}]
    /\ pc = [p \in Agent |-> IF p = Worker THEN "absent" ELSE "idle"]
    /\ child = [p \in Agent |-> NoToken]
    /\ todo = [p \in Agent |-> {}]
    /\ pend = [p \in Agent |-> {}]
    /\ why = [p \in Agent |-> "Requested"]
    /\ cur = [p \in Agent |-> NoToken]
    /\ wakes = [p \in Agent |-> {}]
    /\ waiters = [t \in Token |-> {}]
    /\ wst = [w \in Waiter |-> "absent"]
    /\ wtok = [w \in Waiter |-> NoToken]
    /\ wctx = [w \in Waiter |-> CHOOSE c \in Context : TRUE]
    /\ woken = [w \in Waiter |-> FALSE]
    /\ arms = [w \in Waiter |-> 0]
    /\ retry = [w \in Waiter |-> FALSE]

\* Time passes.
Tick ==
    /\ now < MaxTime
    /\ now' = now + 1
    /\ UNCHANGED <<treeVars, callVars, waitVars, heapVars>>

-----------------------------------------------------------------------------
(* Creating a token: new_inner, then one critical section per parent, then *)
(* one look at every parent.                                               *)

\* new_inner: allocate, and queue the deadline unless it has passed already.
NewInner(p, ps, d) ==
    /\ pc[p] = "idle" /\ ps \subseteq held
    /\ \E t \in Token \ born :
        /\ born' = born \cup {t}
        /\ deadline' = [deadline EXCEPT ![t] = d]
        /\ parents' = [parents EXCEPT ![t] = ps]
        /\ child' = [child EXCEPT ![p] = t]
        /\ heap' = IF now < d /\ d # Never THEN Compacted \cup {t} ELSE heap
    /\ todo' = [todo EXCEPT ![p] = ps]
    /\ pc' = [pc EXCEPT ![p] =
                 IF now < d /\ d # Never THEN "arm"
                 ELSE IF ps = {} THEN "check" ELSE "register"]
    /\ UNCHANGED <<now, held, reason, children, pend, why, cur, wakes, waitVars, until>>

\* CancellationToken::new and with_deadline.
New(p, d) == NewInner(p, {}, d)

\* child_token (d is then Never) and child_token_with_deadline.
ChildToken(p, q, d) ==
    \E m \in Deadline : Nearest(m, d, {q}) /\ NewInner(p, {q}, m)

\* linked: a child of several parents.
Linked(p, ps) ==
    \E m \in Deadline : Nearest(m, Never, ps) /\ NewInner(p, ps, m)

\* ensure_worker: a no-op when the worker lives; spawning it may fail.
EnsureWorker(ok) == IF pc[Worker] = "absent" /\ ok THEN "look" ELSE pc[Worker]

\* The rest of schedule: ensure_worker, then notify_one.
Arm(p, ok) ==
    /\ pc[p] = "arm"
    /\ pc' = [pc EXCEPT ![p] = IF todo[p] = {} THEN "check" ELSE "register",
                        ![Worker] = IF @ \in {"wait", "timed"} THEN "look"
                                    ELSE EnsureWorker(ok)]
    /\ until' = Never
    /\ UNCHANGED <<now, treeVars, child, todo, pend, why, cur, wakes, waitVars, heap>>

\* Under q.children's lock: prune the dead, push the new child.
Register(p, q) ==
    /\ pc[p] = "register" /\ q \in todo[p]
    /\ children' = [children EXCEPT ![q] = {c \in @ : Live(c)} \cup {child[p]}]
    /\ todo' = [todo EXCEPT ![p] = IF @ = {q} THEN parents[child[p]] ELSE @ \ {q}]
    /\ pc' = [pc EXCEPT ![p] = IF todo[p] = {q} THEN "check" ELSE @]
    /\ UNCHANGED <<now, born, held, deadline, reason, parents, child, pend, why,
                   cur, wakes, waitVars, heapVars>>

\* Fault: the parents are not looked at again after the registration.
CheckNothing(p, q) ==
    /\ pc[p] = "check" /\ q \in todo[p]
    /\ todo' = [todo EXCEPT ![p] = @ \ {q}]
    /\ UNCHANGED <<now, treeVars, pc, child, pend, why, cur, wakes, waitVars, heapVars>>

\* A parent already cancelled closes the child at once.
Check(p, q) ==
    /\ pc[p] = "check" /\ q \in todo[p]
    /\ todo' = [todo EXCEPT ![p] = @ \ {q}]
    /\ IF Reason(q) # "none"
       THEN /\ pend' = [pend EXCEPT ![p] = {child[p]}]
            /\ why' = [why EXCEPT ![p] = Inherited(Reason(q))]
            /\ pc' = [pc EXCEPT ![p] = "pop"]
       ELSE UNCHANGED <<pend, why, pc>>
    /\ UNCHANGED <<now, treeVars, child, cur, wakes, waitVars, heapVars>>

\* The constructor returns: the caller owns the handle.
Return(p) ==
    /\ pc[p] = "check" /\ todo[p] = {}
    /\ held' = held \cup {child[p]}
    /\ child' = [child EXCEPT ![p] = NoToken]
    /\ pc' = [pc EXCEPT ![p] = "idle"]
    /\ UNCHANGED <<now, born, deadline, reason, children, parents, todo, pend,
                   why, cur, wakes, waitVars, heapVars>>

\* The owner drops the last handle it keeps.
DropHandle(t) ==
    /\ t \in held
    /\ held' = held \ {t}
    /\ UNCHANGED <<now, born, deadline, reason, children, parents, callVars,
                   waitVars, heapVars>>

-----------------------------------------------------------------------------
(* cancel_tree                                                             *)

\* cancel (r = Requested) and cancel_due_to_deadline (r = Deadline).
Cancel(p, t, r) ==
    /\ pc[p] = "idle" /\ t \in held
    /\ pend' = [pend EXCEPT ![p] = {t}]
    /\ why' = [why EXCEPT ![p] = r]
    /\ pc' = [pc EXCEPT ![p] = "pop"]
    /\ UNCHANGED <<now, treeVars, child, todo, cur, wakes, waitVars, heapVars>>

\* Fault: a plain store instead of the compare-exchange.
PopAndStore(p, t) ==
    /\ pc[p] = "pop" /\ t \in pend[p]
    /\ pend' = [pend EXCEPT ![p] = @ \ {t}]
    /\ reason' = [reason EXCEPT ![t] = why[p]]
    /\ cur' = [cur EXCEPT ![p] = t]
    /\ pc' = [pc EXCEPT ![p] = "take"]
    /\ UNCHANGED <<now, born, held, deadline, children, parents, child, todo, why,
                   wakes, waitVars, heapVars>>

\* pending.pop() and the compare-exchange: only the first cause goes on.
Pop(p, t) ==
    /\ pc[p] = "pop" /\ t \in pend[p]
    /\ pend' = [pend EXCEPT ![p] = @ \ {t}]
    /\ IF reason[t] = "none"
       THEN /\ reason' = [reason EXCEPT ![t] = why[p]]
            /\ cur' = [cur EXCEPT ![p] = t]
            /\ pc' = [pc EXCEPT ![p] = "take"]
       ELSE UNCHANGED <<reason, cur, pc>>
    /\ UNCHANGED <<now, born, held, deadline, children, parents, child, todo, why,
                   wakes, waitVars, heapVars>>

PopDone(p) ==
    /\ pc[p] = "pop" /\ pend[p] = {}
    /\ pc' = [pc EXCEPT ![p] = AfterCancel(p)]
    /\ why' = [why EXCEPT ![p] = "Requested"]
    /\ UNCHANGED <<now, treeVars, child, todo, pend, cur, wakes, waitVars, heapVars>>

\* mem::take of the waiters, under their lock.
TakeWaiters(p) ==
    /\ pc[p] = "take"
    /\ wakes' = [wakes EXCEPT ![p] = waiters[cur[p]]]
    /\ waiters' = [waiters EXCEPT ![cur[p]] = {}]
    /\ pc' = [pc EXCEPT ![p] = "wake"]
    /\ UNCHANGED <<now, treeVars, child, todo, pend, why, cur, wst, wtok, wctx,
                   woken, arms, retry, heapVars>>

\* One waker is called, unless its future is gone.  A waker reaches the future
\* only if it belongs to the context that polled it last.
Wake(p, e) ==
    /\ pc[p] = "wake" /\ e \in wakes[p]
    /\ wakes' = [wakes EXCEPT ![p] = @ \ {e}]
    /\ woken' = [woken EXCEPT ![e[1]] = @ \/ (Waiting(e[1]) /\ wctx[e[1]] = e[2])]
    /\ UNCHANGED <<now, treeVars, pc, child, todo, pend, why, cur, waiters, wst,
                   wtok, wctx, arms, retry, heapVars>>

WakeDone(p) ==
    /\ pc[p] = "wake" /\ wakes[p] = {}
    /\ pc' = [pc EXCEPT ![p] = "spread"]
    /\ UNCHANGED <<now, treeVars, child, todo, pend, why, cur, wakes, waitVars, heapVars>>

\* Under children's lock: collect the live ones, prune the rest.
Spread(p) ==
    /\ pc[p] = "spread"
    /\ LET live == {c \in children[cur[p]] : Live(c)} IN
        /\ children' = [children EXCEPT ![cur[p]] = live]
        /\ pend' = [pend EXCEPT ![p] = @ \cup live]
    /\ why' = [why EXCEPT ![p] = Inherited(@)]
    /\ cur' = [cur EXCEPT ![p] = NoToken]
    /\ pc' = [pc EXCEPT ![p] = "pop"]
    /\ UNCHANGED <<now, born, held, deadline, reason, parents, child, todo, wakes,
                   waitVars, heapVars>>

-----------------------------------------------------------------------------
(* The Cancelled future                                                    *)

\* CancellationToken::cancelled
CancelledFuture(w, t) ==
    /\ wst[w] = "absent" /\ t \in held
    /\ wst' = [wst EXCEPT ![w] = "created"]
    /\ wtok' = [wtok EXCEPT ![w] = t]
    /\ woken' = [woken EXCEPT ![w] = TRUE]
    /\ UNCHANGED <<now, treeVars, callVars, waiters, wctx, arms, retry, heapVars>>

\* poll, by the task c: the first look at the token.
PollEnter(w, c) ==
    /\ wst[w] \in {"created", "parked"}
    /\ wctx' = [wctx EXCEPT ![w] = c]
    /\ woken' = [woken EXCEPT ![w] = FALSE]
    /\ wst' = [wst EXCEPT ![w] =
                  IF Reason(wtok[w]) # "none" THEN "ready" ELSE "register"]
    /\ UNCHANGED <<now, treeVars, callVars, waiters, wtok, arms, retry, heapVars>>

\* The entries of live futures other than w.
OtherWaiters(w) ==
    {e \in waiters[wtok[w]] : Waiting(e[1]) /\ e[1] # w}

\* Fault: a future already registered keeps its old waker.
PollKeepWaker(w) ==
    /\ wst[w] = "register"
    /\ waiters' = [waiters EXCEPT ![wtok[w]] =
                      IF \E c \in Context : <<w, c>> \in @ THEN @
                      ELSE @ \cup {<<w, wctx[w]>>}]
    /\ wst' = [wst EXCEPT ![w] = "arm"]
    /\ UNCHANGED <<now, treeVars, callVars, wtok, wctx, woken, arms, retry, heapVars>>

\* Under the waiters' lock: refresh this future's waker, or push it.
PollRegister(w) ==
    /\ wst[w] = "register"
    /\ waiters' = [waiters EXCEPT ![wtok[w]] = OtherWaiters(w) \cup {<<w, wctx[w]>>}]
    /\ wst' = [wst EXCEPT ![w] = "arm"]
    /\ UNCHANGED <<now, treeVars, callVars, wtok, wctx, woken, arms, retry, heapVars>>

\* Fault: one attempt too many.
PollArmOnceMore(w, ok) ==
    /\ wst[w] = "arm"
    /\ arms' = [arms EXCEPT ![w] = IF @ <= MaxArm THEN @ + 1 ELSE @]
    /\ pc' = [pc EXCEPT ![Worker] = EnsureWorker(ok)]
    /\ retry' = [retry EXCEPT ![w] = EnsureWorker(ok) = "absent"]
    /\ wst' = [wst EXCEPT ![w] = "recheck"]
    /\ UNCHANGED <<now, treeVars, child, todo, pend, why, cur, wakes, waiters, wtok,
                   wctx, woken, heapVars>>

\* A future deadline needs the worker: try to start it, a few times only.
PollArm(w, ok) ==
    /\ wst[w] = "arm"
    /\ IF arms[w] < MaxArm /\ deadline[wtok[w]] # Never /\ now < deadline[wtok[w]]
       THEN /\ arms' = [arms EXCEPT ![w] = @ + 1]
            /\ pc' = [pc EXCEPT ![Worker] = EnsureWorker(ok)]
            /\ retry' = [retry EXCEPT ![w] = EnsureWorker(ok) = "absent"]
       ELSE /\ retry' = [retry EXCEPT ![w] = FALSE]
            /\ UNCHANGED <<arms, pc>>
    /\ wst' = [wst EXCEPT ![w] = "recheck"]
    /\ UNCHANGED <<now, treeVars, child, todo, pend, why, cur, wakes, waiters, wtok,
                   wctx, woken, heapVars>>

\* Fault: the future is suspended without a second look.
PollParkAtOnce(w) ==
    /\ wst[w] = "recheck"
    /\ wst' = [wst EXCEPT ![w] = "parked"]
    /\ woken' = [woken EXCEPT ![w] = @ \/ retry[w]]
    /\ UNCHANGED <<now, treeVars, callVars, waiters, wtok, wctx, arms, retry, heapVars>>

\* The second look: a cancellation that ran before the registration is seen
\* here; otherwise the future is suspended.
PollRecheck(w) ==
    /\ wst[w] = "recheck"
    /\ IF Reason(wtok[w]) # "none"
       THEN /\ waiters' = [waiters EXCEPT ![wtok[w]] = OtherWaiters(w)]
            /\ wst' = [wst EXCEPT ![w] = "ready"]
            /\ UNCHANGED woken
       ELSE /\ wst' = [wst EXCEPT ![w] = "parked"]
            /\ woken' = [woken EXCEPT ![w] = @ \/ retry[w]]
            /\ UNCHANGED waiters
    /\ UNCHANGED <<now, treeVars, callVars, wtok, wctx, arms, retry, heapVars>>

\* Drop for Cancelled, on a finished or an abandoned wait.
DropFuture(w) ==
    /\ wst[w] \in {"created", "parked", "ready"}
    /\ waiters' = [waiters EXCEPT ![wtok[w]] = OtherWaiters(w)]
    /\ wst' = [wst EXCEPT ![w] = "dropped"]
    /\ wtok' = [wtok EXCEPT ![w] = NoToken]
    /\ woken' = [woken EXCEPT ![w] = FALSE]
    /\ arms' = [arms EXCEPT ![w] = 0]
    /\ retry' = [retry EXCEPT ![w] = FALSE]
    /\ UNCHANGED <<now, treeVars, callVars, wctx, heapVars>>

-----------------------------------------------------------------------------
(* DeadlineScheduler::run                                                  *)

Nearer(t) == \A u \in heap : deadline[t] <= deadline[u]

\* Fault: pop() where the loop peeks, so a deadline not yet due is forgotten.
WorkerPopsFirst ==
    /\ pc[Worker] = "look"
    /\ \/ heap = {} /\ pc' = [pc EXCEPT ![Worker] = "wait"] /\ UNCHANGED <<pend, why, heap>>
       \/ \E t \in heap :
           /\ Nearer(t)
           /\ heap' = heap \ {t}
           /\ IF deadline[t] <= now /\ Live(t)
              THEN /\ pend' = [pend EXCEPT ![Worker] = {t}]
                   /\ why' = [why EXCEPT ![Worker] = "Deadline"]
                   /\ pc' = [pc EXCEPT ![Worker] = "pop"]
              ELSE UNCHANGED <<pend, why, pc>>
    /\ UNCHANGED <<now, treeVars, child, todo, cur, wakes, waitVars, until>>

\* One turn of the inner loop, under pending's lock.
WorkerLook ==
    /\ pc[Worker] = "look"
    /\ \/ /\ heap = {}
          /\ pc' = [pc EXCEPT ![Worker] = "wait"]
          /\ UNCHANGED <<pend, why, heap, until>>
       \/ \E t \in heap :
           /\ Nearer(t)
           /\ IF deadline[t] <= now
              THEN /\ heap' = heap \ {t}
                   /\ IF Live(t)
                      THEN /\ pend' = [pend EXCEPT ![Worker] = {t}]
                           /\ why' = [why EXCEPT ![Worker] = "Deadline"]
                           /\ pc' = [pc EXCEPT ![Worker] = "pop"]
                      ELSE UNCHANGED <<pend, why, pc>>
                   /\ UNCHANGED until
              ELSE /\ pc' = [pc EXCEPT ![Worker] = "timed"]
                   /\ until' = deadline[t]
                   /\ UNCHANGED <<pend, why, heap>>
    /\ UNCHANGED <<now, treeVars, child, todo, cur, wakes, waitVars>>

\* wait_timeout expires.
WorkerTimeout ==
    /\ pc[Worker] = "timed" /\ now >= until
    /\ pc' = [pc EXCEPT ![Worker] = "look"]
    /\ until' = Never
    /\ UNCHANGED <<now, treeVars, child, todo, pend, why, cur, wakes, waitVars, heap>>

-----------------------------------------------------------------------------
CallStep(p) ==
    \/ \E ok \in BOOLEAN : Arm(p, ok)
    \/ \E q \in Token : Register(p, q) \/ Check(p, q) \/ Pop(p, q)
    \/ Return(p) \/ PopDone(p) \/ TakeWaiters(p) \/ WakeDone(p) \/ Spread(p)
    \/ \E e \in Waiter \X Context : Wake(p, e)

CallStart(p) ==
    \/ \E d \in Deadline : New(p, d) \/ \E q \in Token : ChildToken(p, q, d)
    \/ \E ps \in SUBSET Token : Linked(p, ps)
    \/ \E t \in Token, r \in {"Requested", "Deadline"} : Cancel(p, t, r)

PollStep(w) ==
    \/ PollRegister(w) \/ PollRecheck(w)
    \/ \E ok \in BOOLEAN : PollArm(w, ok)

WorkerStep == WorkerLook \/ WorkerTimeout

Next ==
    \/ Tick \/ WorkerStep
    \/ \E p \in Agent : CallStep(p)
    \/ \E p \in Thread : CallStart(p)
    \/ \E t \in Token : DropHandle(t)
    \/ \E w \in Waiter :
        \/ PollStep(w) \/ DropFuture(w)
        \/ \E t \in Token : CancelledFuture(w, t)
        \/ \E c \in Context : PollEnter(w, c)

Spec == Init /\ [][Next]_vars

(* Fairness.  A started call or poll runs on (operating-system threads), the *)
(* executor polls a task again after its waker was called, and time passes.  *)
(* Nothing makes callers start calls, drop handles or poll spuriously.       *)
FairSpec ==
    /\ Spec
    /\ WF_vars(Tick)
    /\ WF_vars(WorkerStep)
    /\ \A p \in Agent : WF_vars(CallStep(p))
    /\ \A w \in Waiter : /\ WF_vars(PollStep(w))
                         /\ WF_vars(woken[w] /\ \E c \in Context : PollEnter(w, c))
-----------------------------------------------------------------------------
(* Properties                                                              *)

\* A call in progress still has to bring q's cancellation to c: it has closed
\* q and not yet walked its children, it has c on its work list, or it is
\* creating c and has not looked at q for the last time.
Owed(c, q) ==
    \E p \in Agent :
        \/ cur[p] = q /\ c \in children[q]
        \/ c \in pend[p]
        \/ child[p] = c /\ (pc[p] \in {"arm", "register"} \/ q \in todo[p])

\* No cancellation is lost between a `cancel()` of a parent and the creation
\* of a child (child_token, linked): a live token one of whose parents has a
\* recorded cause has one too, or a call still running is about to give it one.
NoLostCancellation ==
    \A c \in born : \A q \in parents[c] :
        Live(c) /\ reason[q] # "none" => reason[c] # "none" \/ Owed(c, q)

\* The call that cancelled w's token still has w's current waker to call.
WakeOwed(w) ==
    \E p \in Agent :
        \/ /\ pc[p] = "take" /\ cur[p] = wtok[w]
           /\ <<w, wctx[w]>> \in waiters[wtok[w]]
        \/ pc[p] = "wake" /\ <<w, wctx[w]>> \in wakes[p]

\* No wakeup is lost between `cancel_tree` and `Cancelled::poll`: a suspended
\* future of a cancelled token has been woken, or its current waker is still in
\* the hands of the call that cancelled the token.
NoLostWakeup ==
    \A w \in Waiter :
        wst[w] = "parked" /\ ~woken[w] /\ reason[wtok[w]] # "none" => WakeOwed(w)

\* "Un albero chiuso da una scadenza riporta Deadline ovunque": a token is
\* closed as Parent only if one of its parents was closed by a decision and
\* not by a deadline, whatever the order of propagation and creation.
ParentIsADecision ==
    \A t \in born :
        reason[t] = "Parent" => \E q \in parents[t] : reason[q] \in {"Requested", "Parent"}

CauseFinal ==
    \A t \in born :
        /\ reason[t] # "none" => reason'[t] = reason[t]
        /\ Reason(t) # "none" => Reason(t)' # "none"

\* `reason()` never goes back to None, and the recorded cause is the first one:
\* only a cause read off the clock may still be replaced by a recorded one.
CauseIsFinal == [][CauseFinal]_vars

\* Every suspended future of a token with a recorded cause is polled again.
CancelledIsObserved ==
    \A w \in Waiter :
        (wst[w] = "parked" /\ reason[wtok[w]] # "none") ~> wst[w] # "parked"

\* "Chi attende su cancelled viene svegliato puntualmente finche il worker
\* esiste": once the worker runs, a passed deadline ends the wait.
DeadlineIsObserved ==
    \A w \in Waiter :
        (wst[w] = "parked" /\ now >= deadline[wtok[w]] /\ pc[Worker] # "absent")
            ~> wst[w] # "parked"

\* A cancelled parent's live children end up cancelled (or are dropped).
CancellationReachesChildren ==
    \A c, q \in Token :
        (q \in parents[c] /\ reason[q] # "none") ~> (reason[c] # "none" \/ ~Live(c))
=============================================================================
