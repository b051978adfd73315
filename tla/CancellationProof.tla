------------------------- MODULE CancellationProof -------------------------
(***************************************************************************)
(* The inductive invariant behind the safety properties of Cancellation    *)
(* and its proof, for every set of tokens, threads, futures and contexts.  *)
(***************************************************************************)
EXTENDS Cancellation, TLAPS

InCancel == {"pop", "take", "wake", "spread"}

\* Where a call is determines which of its local variables are in use.
CallsOK ==
    \A p \in Agent :
        /\ pc[p] \in {"arm", "register", "check"} => child[p] \in born
        /\ pc[p] \in {"take", "wake", "spread"} <=> cur[p] # NoToken
        /\ cur[p] # NoToken => reason[cur[p]] = why[p]
        /\ pc[p] \notin InCancel => pend[p] = {}
        /\ pc[p] \notin InCancel \cup {"arm", "register", "check"} => child[p] = NoToken
        /\ child[p] # NoToken => todo[p] \subseteq parents[child[p]]
        /\ pc[p] = "arm" => todo[p] = parents[child[p]]
        /\ p = Worker => child[p] = NoToken

\* A child list only names children, and a live child is in the list of each
\* parent its creator has registered it with.
LinksOK ==
    /\ \A q \in Token : \A c \in children[q] : q \in parents[c]
    /\ \A c \in born : \A q \in parents[c] :
        Live(c) => \/ c \in children[q]
                   \/ \E p \in Agent : /\ child[p] = c /\ q \in todo[p]
                                       /\ pc[p] \in {"arm", "register"}

\* A work list that propagates Parent was started by a decision.
CausesOK ==
    /\ \A t \in Token \ born : reason[t] = "none"
    /\ \A p \in Agent :
        /\ why[p] = "Parent" =>
            \A c \in pend[p] : \E q \in parents[c] : reason[q] \in {"Requested", "Parent"}
        /\ why[p] = "Requested" => \A x, y \in pend[p] : x = y
        /\ why[p] = "Requested" /\ cur[p] # NoToken => pend[p] = {}

\* A future past its registration has its current waker in the token's list,
\* unless the token has been cancelled meanwhile.
WaitersOK ==
    \A w \in Waiter :
        /\ wst[w] \in Polling \cup {"created", "parked", "ready"} => wtok[w] \in born
        /\ wst[w] \in {"arm", "recheck", "parked"} =>
            \/ <<w, wctx[w]>> \in waiters[wtok[w]]
            \/ reason[wtok[w]] # "none"

IInv ==
    /\ TypeOK /\ CallsOK /\ LinksOK /\ CausesOK /\ WaitersOK
    /\ NoLostCancellation /\ ParentIsADecision /\ NoLostWakeup

-----------------------------------------------------------------------------
(* The disjuncts of Next, one per action. *)
LEMMA NextCases ==
    ASSUME [Next]_vars
    PROVE  \/ UNCHANGED vars
           \/ Tick
           \/ \E p \in Thread, ps \in SUBSET Token, d \in Deadline : NewInner(p, ps, d)
           \/ \E p \in Agent, ok \in BOOLEAN : Arm(p, ok)
           \/ \E p \in Agent, q \in Token : Register(p, q)
           \/ \E p \in Agent, q \in Token : Check(p, q)
           \/ \E p \in Agent : Return(p)
           \/ \E t \in Token : DropHandle(t)
           \/ \E p \in Thread, t \in Token, r \in {"Requested", "Deadline"} : Cancel(p, t, r)
           \/ \E p \in Agent, t \in Token : Pop(p, t)
           \/ \E p \in Agent : PopDone(p)
           \/ \E p \in Agent : TakeWaiters(p)
           \/ \E p \in Agent, e \in Waiter \X Context : Wake(p, e)
           \/ \E p \in Agent : WakeDone(p)
           \/ \E p \in Agent : Spread(p)
           \/ \E w \in Waiter, t \in Token : CancelledFuture(w, t)
           \/ \E w \in Waiter, c \in Context : PollEnter(w, c)
           \/ \E w \in Waiter : PollRegister(w)
           \/ \E w \in Waiter, ok \in BOOLEAN : PollArm(w, ok)
           \/ \E w \in Waiter : PollRecheck(w)
           \/ \E w \in Waiter : DropFuture(w)
           \/ WorkerLook
           \/ WorkerTimeout
    BY DEF Next, CallStep, CallStart, PollStep, WorkerStep, New, ChildToken, Linked

(* Type correctness *)

LEMMA TypeStep == TypeOK /\ CallsOK /\ WaitersOK /\ [Next]_vars => TypeOK'
<1> SUFFICES ASSUME TypeOK, CallsOK, WaitersOK, [Next]_vars PROVE TypeOK'
    OBVIOUS
<1> USE CancellationAssumption
    DEF TypeOK, CallsOK, WaitersOK, Agent, Cause, Calling, Polling, InCancel, Deadline, Never,
        treeVars, callVars, waitVars, heapVars
<1>1. ASSUME Tick PROVE TypeOK'
    BY <1>1 DEF Tick
<1>2. ASSUME NEW p \in Thread, NEW ps \in SUBSET Token, NEW d \in Deadline, NewInner(p, ps, d) PROVE TypeOK'
    BY <1>2 DEF NewInner, Compacted
<1>3. ASSUME NEW p \in Agent, NEW ok \in BOOLEAN, Arm(p, ok) PROVE TypeOK'
    BY <1>3 DEF Arm, EnsureWorker
<1>4. ASSUME NEW p \in Agent, NEW q \in Token, Register(p, q) PROVE TypeOK'
    BY <1>4 DEF Register
<1>5. ASSUME NEW p \in Agent, NEW q \in Token, Check(p, q) PROVE TypeOK'
  <2>1. Reason(q) # "none" => Inherited(Reason(q)) \in Cause
    BY DEF Inherited, Reason
  <2>2. why' \in [Agent -> Cause]
    BY <1>5, <2>1 DEF Check
  <2>3. pc' \in [Agent -> Calling \cup {"idle", "absent", "look", "wait", "timed"}]
    BY <1>5 DEF Check
  <2>4. todo' \in [Agent -> SUBSET Token] /\ pend' \in [Agent -> SUBSET Token]
    BY <1>5 DEF Check
  <2>5. QED
    BY <1>5, <2>2, <2>3, <2>4 DEF Check
<1>6. ASSUME NEW p \in Agent, Return(p) PROVE TypeOK'
    BY <1>6 DEF Return
<1>7. ASSUME NEW t \in Token, DropHandle(t) PROVE TypeOK'
    BY <1>7 DEF DropHandle
<1>8. ASSUME NEW p \in Thread, NEW t \in Token, NEW r \in {"Requested", "Deadline"}, Cancel(p, t, r) PROVE TypeOK'
    BY <1>8 DEF Cancel
<1>9. ASSUME NEW p \in Agent, NEW t \in Token, Pop(p, t) PROVE TypeOK'
    BY <1>9 DEF Pop
<1>10. ASSUME NEW p \in Agent, PopDone(p) PROVE TypeOK'
    BY <1>10 DEF PopDone, AfterCancel
<1>11. ASSUME NEW p \in Agent, TakeWaiters(p) PROVE TypeOK'
    BY <1>11 DEF TakeWaiters
<1>12. ASSUME NEW p \in Agent, NEW e \in Waiter \X Context, Wake(p, e) PROVE TypeOK'
    BY <1>12 DEF Wake
<1>13. ASSUME NEW p \in Agent, WakeDone(p) PROVE TypeOK'
    BY <1>13 DEF WakeDone
<1>14. ASSUME NEW p \in Agent, Spread(p) PROVE TypeOK'
    BY <1>14 DEF Spread, Inherited
<1>15. ASSUME NEW w \in Waiter, NEW t \in Token, CancelledFuture(w, t) PROVE TypeOK'
    BY <1>15 DEF CancelledFuture
<1>16. ASSUME NEW w \in Waiter, NEW c \in Context, PollEnter(w, c) PROVE TypeOK'
    BY <1>16 DEF PollEnter, Reason
<1>17. ASSUME NEW w \in Waiter, PollRegister(w) PROVE TypeOK'
  <2>1. OtherWaiters(w) \in SUBSET (Waiter \X Context)
    BY <1>17 DEF PollRegister, OtherWaiters
  <2>2. waiters' \in [Token -> SUBSET (Waiter \X Context)]
    <3>1. <<w, wctx[w]>> \in Waiter \X Context
      OBVIOUS
    <3>2. QED
      BY <1>17, <2>1, <3>1 DEF PollRegister
  <2>3. QED
    BY <1>17, <2>2 DEF PollRegister
<1>18. ASSUME NEW w \in Waiter, NEW ok \in BOOLEAN, PollArm(w, ok) PROVE TypeOK'
  <2>1. arms' \in [Waiter -> 0 .. MaxArm]
    BY <1>18 DEF PollArm
  <2>2. pc' \in [Agent -> Calling \cup {"idle", "absent", "look", "wait", "timed"}]
    BY <1>18 DEF PollArm, EnsureWorker
  <2>3. retry' \in [Waiter -> BOOLEAN]
    <3>1. PICK x \in BOOLEAN : retry' = [retry EXCEPT ![w] = x]
      BY <1>18, Zenon DEF PollArm
    <3>2. QED
      BY <3>1
  <2>4. wst' \in [Waiter -> Polling \cup {"absent", "created", "parked", "ready", "dropped"}]
    BY <1>18 DEF PollArm
  <2>5. QED
    BY <1>18, <2>1, <2>2, <2>3, <2>4 DEF PollArm
<1>19. ASSUME NEW w \in Waiter, PollRecheck(w) PROVE TypeOK'
  <2>1. OtherWaiters(w) \in SUBSET (Waiter \X Context)
    BY <1>19 DEF PollRecheck, OtherWaiters
  <2>2. waiters' \in [Token -> SUBSET (Waiter \X Context)]
    BY <1>19, <2>1 DEF PollRecheck
  <2>3. woken' \in [Waiter -> BOOLEAN]
    BY <1>19 DEF PollRecheck
  <2>4. wst' \in [Waiter -> Polling \cup {"absent", "created", "parked", "ready", "dropped"}]
    <3>1. PICK s \in {"ready", "parked"} : wst' = [wst EXCEPT ![w] = s]
      BY <1>19 DEF PollRecheck
    <3>2. QED
      BY <3>1
  <2>5. QED
    BY <1>19, <2>2, <2>3, <2>4 DEF PollRecheck
<1>20. ASSUME NEW w \in Waiter, DropFuture(w) PROVE TypeOK'
  <2>1. OtherWaiters(w) \in SUBSET (Waiter \X Context)
    BY <1>20 DEF DropFuture, OtherWaiters
  <2>2. waiters' \in [Token -> SUBSET (Waiter \X Context)]
    BY <1>20, <2>1 DEF DropFuture
  <2>3. QED
    BY <1>20, <2>2 DEF DropFuture
<1>21. ASSUME WorkerLook PROVE TypeOK'
    BY <1>21 DEF WorkerLook
<1>22. ASSUME WorkerTimeout PROVE TypeOK'
    BY <1>22 DEF WorkerTimeout
<1>23. CASE UNCHANGED vars
    BY <1>23 DEF vars
<1> HIDE DEF TypeOK, CallsOK, WaitersOK, Agent, Cause, Calling, Polling, InCancel, Deadline, Never,
        treeVars, callVars, waitVars, heapVars
<1>q. QED
    BY NextCases, <1>1, <1>2, <1>3, <1>4, <1>5, <1>6, <1>7, <1>8, <1>9, <1>10, <1>11, <1>12, <1>13, <1>14, <1>15, <1>16, <1>17, <1>18, <1>19, <1>20, <1>21, <1>22, <1>23

(* The local variables of the calls *)
LEMMA CallsStep ==
    ASSUME TypeOK, CallsOK, WaitersOK, [Next]_vars
    PROVE  CallsOK'
<1> USE CancellationAssumption DEF TypeOK, CallsOK, Agent, Cause, Calling, Polling, InCancel, treeVars, callVars, waitVars, heapVars
<1>1. ASSUME Tick PROVE CallsOK'
    BY <1>1 DEF Tick
<1>2. ASSUME NEW p \in Thread, NEW ps \in SUBSET Token, NEW d \in Deadline, NewInner(p, ps, d) PROVE CallsOK'
    BY <1>2 DEF NewInner
<1>3. ASSUME NEW p \in Agent, NEW ok \in BOOLEAN, Arm(p, ok) PROVE CallsOK'
    BY <1>3 DEF Arm, EnsureWorker
<1>4. ASSUME NEW p \in Agent, NEW q \in Token, Register(p, q) PROVE CallsOK'
    BY <1>4 DEF Register
<1>5. ASSUME NEW p \in Agent, NEW q \in Token, Check(p, q) PROVE CallsOK'
    BY <1>5 DEF Check, Reason, Inherited
<1>6. ASSUME NEW p \in Agent, Return(p) PROVE CallsOK'
    BY <1>6 DEF Return
<1>7. ASSUME NEW t \in Token, DropHandle(t) PROVE CallsOK'
    BY <1>7 DEF DropHandle
<1>8. ASSUME NEW p \in Thread, NEW t \in Token, NEW r \in {"Requested", "Deadline"}, Cancel(p, t, r) PROVE CallsOK'
    BY <1>8 DEF Cancel
<1>9. ASSUME NEW p \in Agent, NEW t \in Token, Pop(p, t) PROVE CallsOK'
    BY <1>9 DEF Pop
<1>10. ASSUME NEW p \in Agent, PopDone(p) PROVE CallsOK'
    BY <1>10 DEF PopDone, AfterCancel
<1>11. ASSUME NEW p \in Agent, TakeWaiters(p) PROVE CallsOK'
    BY <1>11 DEF TakeWaiters
<1>12. ASSUME NEW p \in Agent, NEW e \in Waiter \X Context, Wake(p, e) PROVE CallsOK'
    BY <1>12 DEF Wake
<1>13. ASSUME NEW p \in Agent, WakeDone(p) PROVE CallsOK'
    BY <1>13 DEF WakeDone
<1>14. ASSUME NEW p \in Agent, Spread(p) PROVE CallsOK'
    BY <1>14 DEF Spread, Inherited
<1>15. ASSUME NEW w \in Waiter, NEW t \in Token, CancelledFuture(w, t) PROVE CallsOK'
    BY <1>15 DEF CancelledFuture
<1>16. ASSUME NEW w \in Waiter, NEW c \in Context, PollEnter(w, c) PROVE CallsOK'
    BY <1>16 DEF PollEnter
<1>17. ASSUME NEW w \in Waiter, PollRegister(w) PROVE CallsOK'
    BY <1>17 DEF PollRegister
<1>18. ASSUME NEW w \in Waiter, NEW ok \in BOOLEAN, PollArm(w, ok) PROVE CallsOK'
    BY <1>18 DEF PollArm, EnsureWorker
<1>19. ASSUME NEW w \in Waiter, PollRecheck(w) PROVE CallsOK'
    BY <1>19 DEF PollRecheck
<1>20. ASSUME NEW w \in Waiter, DropFuture(w) PROVE CallsOK'
    BY <1>20 DEF DropFuture
<1>21. ASSUME WorkerLook PROVE CallsOK'
    BY <1>21 DEF WorkerLook
<1>22. ASSUME WorkerTimeout PROVE CallsOK'
    BY <1>22 DEF WorkerTimeout
<1>23. CASE UNCHANGED vars
    BY <1>23 DEF vars
<1> HIDE DEF TypeOK, CallsOK, Agent, Cause, Calling, Polling, InCancel, treeVars, callVars, waitVars, heapVars
<1>q. QED
    BY NextCases, <1>1, <1>2, <1>3, <1>4, <1>5, <1>6, <1>7, <1>8, <1>9, <1>10, <1>11, <1>12, <1>13, <1>14, <1>15, <1>16, <1>17, <1>18, <1>19, <1>20, <1>21, <1>22, <1>23

(* A token without strong references never gets one back. *)
LEMMA LiveStep ==
    ASSUME TypeOK, CallsOK, WaitersOK, NEW x \in born, Live(x)', [Next]_vars
    PROVE  Live(x)
<1> USE CancellationAssumption DEF TypeOK, CallsOK, WaitersOK, Live, CallRefs, Waiting, Agent, Cause, Calling, Polling, InCancel, treeVars, callVars, waitVars, heapVars
<1>1. ASSUME Tick PROVE Live(x)
    BY <1>1 DEF Tick
<1>2. ASSUME NEW p \in Thread, NEW ps \in SUBSET Token, NEW d \in Deadline, NewInner(p, ps, d) PROVE Live(x)
    BY <1>2 DEF NewInner
<1>3. ASSUME NEW p \in Agent, NEW ok \in BOOLEAN, Arm(p, ok) PROVE Live(x)
    BY <1>3 DEF Arm
<1>4. ASSUME NEW p \in Agent, NEW q \in Token, Register(p, q) PROVE Live(x)
    BY <1>4 DEF Register
<1>5. ASSUME NEW p \in Agent, NEW q \in Token, Check(p, q) PROVE Live(x)
    BY <1>5 DEF Check
<1>6. ASSUME NEW p \in Agent, Return(p) PROVE Live(x)
    BY <1>6 DEF Return
<1>7. ASSUME NEW t \in Token, DropHandle(t) PROVE Live(x)
    BY <1>7 DEF DropHandle
<1>8. ASSUME NEW p \in Thread, NEW t \in Token, NEW r \in {"Requested", "Deadline"}, Cancel(p, t, r) PROVE Live(x)
    BY <1>8 DEF Cancel
<1>9. ASSUME NEW p \in Agent, NEW t \in Token, Pop(p, t) PROVE Live(x)
    BY <1>9 DEF Pop
<1>10. ASSUME NEW p \in Agent, PopDone(p) PROVE Live(x)
    BY <1>10 DEF PopDone
<1>11. ASSUME NEW p \in Agent, TakeWaiters(p) PROVE Live(x)
    BY <1>11 DEF TakeWaiters
<1>12. ASSUME NEW p \in Agent, NEW e \in Waiter \X Context, Wake(p, e) PROVE Live(x)
    BY <1>12 DEF Wake
<1>13. ASSUME NEW p \in Agent, WakeDone(p) PROVE Live(x)
    BY <1>13 DEF WakeDone
<1>14. ASSUME NEW p \in Agent, Spread(p) PROVE Live(x)
    BY <1>14 DEF Spread
<1>15. ASSUME NEW w \in Waiter, NEW t \in Token, CancelledFuture(w, t) PROVE Live(x)
    BY <1>15 DEF CancelledFuture
<1>16. ASSUME NEW w \in Waiter, NEW c \in Context, PollEnter(w, c) PROVE Live(x)
    BY <1>16 DEF PollEnter
<1>17. ASSUME NEW w \in Waiter, PollRegister(w) PROVE Live(x)
    BY <1>17 DEF PollRegister
<1>18. ASSUME NEW w \in Waiter, NEW ok \in BOOLEAN, PollArm(w, ok) PROVE Live(x)
    BY <1>18 DEF PollArm
<1>19. ASSUME NEW w \in Waiter, PollRecheck(w) PROVE Live(x)
    BY <1>19 DEF PollRecheck
<1>20. ASSUME NEW w \in Waiter, DropFuture(w) PROVE Live(x)
    BY <1>20 DEF DropFuture
<1>21. ASSUME WorkerLook PROVE Live(x)
    BY <1>21 DEF WorkerLook
<1>22. ASSUME WorkerTimeout PROVE Live(x)
    BY <1>22 DEF WorkerTimeout
<1>23. CASE UNCHANGED vars
    BY <1>23 DEF vars
<1> HIDE DEF TypeOK, CallsOK, WaitersOK, Live, CallRefs, Waiting, Agent, Cause, Calling, Polling, InCancel, treeVars, callVars, waitVars, heapVars
<1>q. QED
    BY NextCases, <1>1, <1>2, <1>3, <1>4, <1>5, <1>6, <1>7, <1>8, <1>9, <1>10, <1>11, <1>12, <1>13, <1>14, <1>15, <1>16, <1>17, <1>18, <1>19, <1>20, <1>21, <1>22, <1>23

(* Parents and children *)
LEMMA LinksStep ==
    ASSUME TypeOK, CallsOK, WaitersOK, LinksOK, [Next]_vars
    PROVE  LinksOK'
<1>a. \A x \in born : Live(x)' => Live(x)
    BY LiveStep
<1> USE CancellationAssumption DEF TypeOK, CallsOK, LinksOK, Agent, Cause, Calling, Polling, InCancel, treeVars, callVars, waitVars, heapVars
<1>1. ASSUME Tick PROVE LinksOK'
    BY <1>1, <1>a DEF Tick
<1>2. ASSUME NEW p \in Thread, NEW ps \in SUBSET Token, NEW d \in Deadline, NewInner(p, ps, d) PROVE LinksOK'
    BY <1>2, <1>a DEF NewInner
<1>3. ASSUME NEW p \in Agent, NEW ok \in BOOLEAN, Arm(p, ok) PROVE LinksOK'
  <2>1. p # Worker
    BY <1>3 DEF Arm
  <2>2. \A r \in Agent : pc[r] \in {"arm", "register"} /\ todo[r] # {} => pc'[r] \in {"arm", "register"}
    BY <1>3, <2>1 DEF Arm, EnsureWorker
  <2>3. /\ \A q \in Token : \A c \in children'[q] : q \in parents'[c]
        /\ child' = child /\ todo' = todo /\ parents' = parents /\ children' = children /\ born' = born
    BY <1>3 DEF Arm
  <2>4. ASSUME NEW x \in born, NEW y \in parents[x], Live(x)', x \notin children[y]
        PROVE  \E r \in Agent : child[r] = x /\ y \in todo[r] /\ pc'[r] \in {"arm", "register"}
    BY <1>a, <2>2, <2>4
  <2>5. QED
    BY <2>3, <2>4
<1>4. ASSUME NEW p \in Agent, NEW q \in Token, Register(p, q) PROVE LinksOK'
    BY <1>4, <1>a DEF Register
<1>5. ASSUME NEW p \in Agent, NEW q \in Token, Check(p, q) PROVE LinksOK'
    BY <1>5, <1>a, SMTT(30) DEF Check
<1>6. ASSUME NEW p \in Agent, Return(p) PROVE LinksOK'
    BY <1>6, <1>a DEF Return
<1>7. ASSUME NEW t \in Token, DropHandle(t) PROVE LinksOK'
    BY <1>7, <1>a DEF DropHandle
<1>8. ASSUME NEW p \in Thread, NEW t \in Token, NEW r \in {"Requested", "Deadline"}, Cancel(p, t, r) PROVE LinksOK'
    BY <1>8, <1>a DEF Cancel
<1>9. ASSUME NEW p \in Agent, NEW t \in Token, Pop(p, t) PROVE LinksOK'
    BY <1>9, <1>a DEF Pop
<1>10. ASSUME NEW p \in Agent, PopDone(p) PROVE LinksOK'
    BY <1>10, <1>a DEF PopDone, AfterCancel
<1>11. ASSUME NEW p \in Agent, TakeWaiters(p) PROVE LinksOK'
    BY <1>11, <1>a DEF TakeWaiters
<1>12. ASSUME NEW p \in Agent, NEW e \in Waiter \X Context, Wake(p, e) PROVE LinksOK'
    BY <1>12, <1>a DEF Wake
<1>13. ASSUME NEW p \in Agent, WakeDone(p) PROVE LinksOK'
    BY <1>13, <1>a DEF WakeDone
<1>14. ASSUME NEW p \in Agent, Spread(p) PROVE LinksOK'
    BY <1>14, <1>a DEF Spread
<1>15. ASSUME NEW w \in Waiter, NEW t \in Token, CancelledFuture(w, t) PROVE LinksOK'
    BY <1>15, <1>a DEF CancelledFuture
<1>16. ASSUME NEW w \in Waiter, NEW c \in Context, PollEnter(w, c) PROVE LinksOK'
    BY <1>16, <1>a DEF PollEnter
<1>17. ASSUME NEW w \in Waiter, PollRegister(w) PROVE LinksOK'
    BY <1>17, <1>a DEF PollRegister
<1>18. ASSUME NEW w \in Waiter, NEW ok \in BOOLEAN, PollArm(w, ok) PROVE LinksOK'
    BY <1>18, <1>a DEF PollArm, EnsureWorker
<1>19. ASSUME NEW w \in Waiter, PollRecheck(w) PROVE LinksOK'
    BY <1>19, <1>a DEF PollRecheck
<1>20. ASSUME NEW w \in Waiter, DropFuture(w) PROVE LinksOK'
    BY <1>20, <1>a DEF DropFuture
<1>21. ASSUME WorkerLook PROVE LinksOK'
    BY <1>21, <1>a DEF WorkerLook
<1>22. ASSUME WorkerTimeout PROVE LinksOK'
    BY <1>22, <1>a DEF WorkerTimeout
<1>23. CASE UNCHANGED vars
    BY <1>23, <1>a DEF vars
<1> HIDE DEF TypeOK, CallsOK, LinksOK, Agent, Cause, Calling, Polling, InCancel, treeVars, callVars, waitVars, heapVars
<1>q. QED
    BY NextCases, <1>1, <1>2, <1>3, <1>4, <1>5, <1>6, <1>7, <1>8, <1>9, <1>10, <1>11, <1>12, <1>13, <1>14, <1>15, <1>16, <1>17, <1>18, <1>19, <1>20, <1>21, <1>22, <1>23

(* What the work lists propagate *)
LEMMA CausesStep ==
    ASSUME TypeOK, CallsOK, LinksOK, CausesOK, [Next]_vars
    PROVE  CausesOK'
<1> USE CancellationAssumption DEF TypeOK, CallsOK, LinksOK, CausesOK, Agent, Cause, Calling, Polling, InCancel, treeVars, callVars, waitVars, heapVars
<1>1. ASSUME Tick PROVE CausesOK'
    BY <1>1 DEF Tick
<1>2. ASSUME NEW p \in Thread, NEW ps \in SUBSET Token, NEW d \in Deadline, NewInner(p, ps, d) PROVE CausesOK'
    BY <1>2 DEF NewInner
<1>3. ASSUME NEW p \in Agent, NEW ok \in BOOLEAN, Arm(p, ok) PROVE CausesOK'
    BY <1>3 DEF Arm
<1>4. ASSUME NEW p \in Agent, NEW q \in Token, Register(p, q) PROVE CausesOK'
    BY <1>4 DEF Register
<1>5. ASSUME NEW p \in Agent, NEW q \in Token, Check(p, q) PROVE CausesOK'
    BY <1>5 DEF Check, Reason, Inherited
<1>6. ASSUME NEW p \in Agent, Return(p) PROVE CausesOK'
    BY <1>6 DEF Return
<1>7. ASSUME NEW t \in Token, DropHandle(t) PROVE CausesOK'
    BY <1>7 DEF DropHandle
<1>8. ASSUME NEW p \in Thread, NEW t \in Token, NEW r \in {"Requested", "Deadline"}, Cancel(p, t, r) PROVE CausesOK'
    BY <1>8 DEF Cancel
<1>9. ASSUME NEW p \in Agent, NEW t \in Token, Pop(p, t) PROVE CausesOK'
    BY <1>9 DEF Pop
<1>10. ASSUME NEW p \in Agent, PopDone(p) PROVE CausesOK'
    BY <1>10 DEF PopDone
<1>11. ASSUME NEW p \in Agent, TakeWaiters(p) PROVE CausesOK'
    BY <1>11 DEF TakeWaiters
<1>12. ASSUME NEW p \in Agent, NEW e \in Waiter \X Context, Wake(p, e) PROVE CausesOK'
    BY <1>12 DEF Wake
<1>13. ASSUME NEW p \in Agent, WakeDone(p) PROVE CausesOK'
    BY <1>13 DEF WakeDone
<1>14. ASSUME NEW p \in Agent, Spread(p) PROVE CausesOK'
    BY <1>14 DEF Spread, Inherited
<1>15. ASSUME NEW w \in Waiter, NEW t \in Token, CancelledFuture(w, t) PROVE CausesOK'
    BY <1>15 DEF CancelledFuture
<1>16. ASSUME NEW w \in Waiter, NEW c \in Context, PollEnter(w, c) PROVE CausesOK'
    BY <1>16 DEF PollEnter
<1>17. ASSUME NEW w \in Waiter, PollRegister(w) PROVE CausesOK'
    BY <1>17 DEF PollRegister
<1>18. ASSUME NEW w \in Waiter, NEW ok \in BOOLEAN, PollArm(w, ok) PROVE CausesOK'
    BY <1>18 DEF PollArm
<1>19. ASSUME NEW w \in Waiter, PollRecheck(w) PROVE CausesOK'
    BY <1>19 DEF PollRecheck
<1>20. ASSUME NEW w \in Waiter, DropFuture(w) PROVE CausesOK'
    BY <1>20 DEF DropFuture
<1>21. ASSUME WorkerLook PROVE CausesOK'
    BY <1>21 DEF WorkerLook
<1>22. ASSUME WorkerTimeout PROVE CausesOK'
    BY <1>22 DEF WorkerTimeout
<1>23. CASE UNCHANGED vars
    BY <1>23 DEF vars
<1> HIDE DEF TypeOK, CallsOK, LinksOK, CausesOK, Agent, Cause, Calling, Polling, InCancel, treeVars, callVars, waitVars, heapVars
<1>q. QED
    BY NextCases, <1>1, <1>2, <1>3, <1>4, <1>5, <1>6, <1>7, <1>8, <1>9, <1>10, <1>11, <1>12, <1>13, <1>14, <1>15, <1>16, <1>17, <1>18, <1>19, <1>20, <1>21, <1>22, <1>23

(* The registered wakers *)
LEMMA WaitersStep ==
    ASSUME TypeOK, CallsOK, WaitersOK, [Next]_vars
    PROVE  WaitersOK'
<1> USE CancellationAssumption DEF TypeOK, CallsOK, WaitersOK, Agent, Cause, Calling, Polling, InCancel, treeVars, callVars, waitVars, heapVars
<1>1. ASSUME Tick PROVE WaitersOK'
    BY <1>1 DEF Tick
<1>2. ASSUME NEW p \in Thread, NEW ps \in SUBSET Token, NEW d \in Deadline, NewInner(p, ps, d) PROVE WaitersOK'
    BY <1>2 DEF NewInner
<1>3. ASSUME NEW p \in Agent, NEW ok \in BOOLEAN, Arm(p, ok) PROVE WaitersOK'
    BY <1>3 DEF Arm
<1>4. ASSUME NEW p \in Agent, NEW q \in Token, Register(p, q) PROVE WaitersOK'
    BY <1>4 DEF Register
<1>5. ASSUME NEW p \in Agent, NEW q \in Token, Check(p, q) PROVE WaitersOK'
    BY <1>5 DEF Check
<1>6. ASSUME NEW p \in Agent, Return(p) PROVE WaitersOK'
    BY <1>6 DEF Return
<1>7. ASSUME NEW t \in Token, DropHandle(t) PROVE WaitersOK'
    BY <1>7 DEF DropHandle
<1>8. ASSUME NEW p \in Thread, NEW t \in Token, NEW r \in {"Requested", "Deadline"}, Cancel(p, t, r) PROVE WaitersOK'
    BY <1>8 DEF Cancel
<1>9. ASSUME NEW p \in Agent, NEW t \in Token, Pop(p, t) PROVE WaitersOK'
    BY <1>9 DEF Pop
<1>10. ASSUME NEW p \in Agent, PopDone(p) PROVE WaitersOK'
    BY <1>10 DEF PopDone
<1>11. ASSUME NEW p \in Agent, TakeWaiters(p) PROVE WaitersOK'
    BY <1>11, SMTT(30) DEF TakeWaiters
<1>12. ASSUME NEW p \in Agent, NEW e \in Waiter \X Context, Wake(p, e) PROVE WaitersOK'
    BY <1>12 DEF Wake
<1>13. ASSUME NEW p \in Agent, WakeDone(p) PROVE WaitersOK'
    BY <1>13 DEF WakeDone
<1>14. ASSUME NEW p \in Agent, Spread(p) PROVE WaitersOK'
    BY <1>14 DEF Spread
<1>15. ASSUME NEW w \in Waiter, NEW t \in Token, CancelledFuture(w, t) PROVE WaitersOK'
    BY <1>15 DEF CancelledFuture
<1>16. ASSUME NEW w \in Waiter, NEW c \in Context, PollEnter(w, c) PROVE WaitersOK'
    BY <1>16 DEF PollEnter
<1>17. ASSUME NEW w \in Waiter, PollRegister(w) PROVE WaitersOK'
    BY <1>17 DEF PollRegister, OtherWaiters, Waiting
<1>18. ASSUME NEW w \in Waiter, NEW ok \in BOOLEAN, PollArm(w, ok) PROVE WaitersOK'
    BY <1>18 DEF PollArm
<1>19. ASSUME NEW w \in Waiter, PollRecheck(w) PROVE WaitersOK'
    BY <1>19 DEF PollRecheck, OtherWaiters, Waiting, Reason
<1>20. ASSUME NEW w \in Waiter, DropFuture(w) PROVE WaitersOK'
    BY <1>20, SMTT(30) DEF DropFuture, OtherWaiters, Waiting
<1>21. ASSUME WorkerLook PROVE WaitersOK'
    BY <1>21 DEF WorkerLook
<1>22. ASSUME WorkerTimeout PROVE WaitersOK'
    BY <1>22 DEF WorkerTimeout
<1>23. CASE UNCHANGED vars
    BY <1>23 DEF vars
<1> HIDE DEF TypeOK, CallsOK, WaitersOK, Agent, Cause, Calling, Polling, InCancel, treeVars, callVars, waitVars, heapVars
<1>q. QED
    BY NextCases, <1>1, <1>2, <1>3, <1>4, <1>5, <1>6, <1>7, <1>8, <1>9, <1>10, <1>11, <1>12, <1>13, <1>14, <1>15, <1>16, <1>17, <1>18, <1>19, <1>20, <1>21, <1>22, <1>23

(* NoLostCancellation is preserved. *)
LEMMA CancellationStep ==
    ASSUME TypeOK, CallsOK, WaitersOK, LinksOK, NoLostCancellation, [Next]_vars
    PROVE  NoLostCancellation'
<1> SUFFICES ASSUME NEW x \in born', NEW y \in parents'[x], Live(x)',
                    reason'[y] # "none", reason'[x] = "none"
             PROVE  Owed(x, y)'
    BY DEF NoLostCancellation
<1>a. x \in born /\ y \in parents[x] /\ reason[y] # "none" /\ reason[x] = "none" => Owed(x, y)
    BY LiveStep DEF NoLostCancellation
<1>c. x \in born => Live(x)
    BY LiveStep
<1>b. x \in born /\ y \in parents[x] =>
        \/ x \in children[y]
        \/ \E r \in Agent : child[r] = x /\ y \in todo[r] /\ pc[r] \in {"arm", "register"}
    BY LiveStep DEF LinksOK
<1> USE CancellationAssumption DEF TypeOK, CallsOK, Owed, Agent, Cause, Calling, Polling, InCancel, treeVars, callVars, waitVars, heapVars
<1>1. ASSUME Tick PROVE Owed(x, y)'
    BY <1>1, <1>a DEF Tick
<1>2. ASSUME NEW p \in Thread, NEW ps \in SUBSET Token, NEW d \in Deadline, NewInner(p, ps, d) PROVE Owed(x, y)'
  <2>1. PICK t \in Token \ born : child' = [child EXCEPT ![p] = t] /\ parents' = [parents EXCEPT ![t] = ps] /\ born' = born \cup {t}
    BY <1>2 DEF NewInner
  <2>2. CASE x = t
    <3>1. child'[p] = x /\ y \in todo'[p]
      BY <1>2, <2>1, <2>2 DEF NewInner
    <3>2. QED
      BY <3>1
  <2>3. CASE x # t
    <3>1. x \in born /\ y \in parents[x]
      BY <2>1, <2>3
    <3>2. Owed(x, y)
      BY <1>2, <1>a, <3>1 DEF NewInner
    <3>3. child[p] = NoToken /\ x # NoToken
      BY <1>2, <3>1 DEF NewInner
    <3>4. QED
      BY <1>2, <3>2, <3>3 DEF NewInner
  <2>4. QED
    BY <2>2, <2>3
<1>3. ASSUME NEW p \in Agent, NEW ok \in BOOLEAN, Arm(p, ok) PROVE Owed(x, y)'
  <2>1. p # Worker
    BY <1>3 DEF Arm
  <2>2. \A r \in Agent : pc[r] \in {"arm", "register"} /\ (r # p \/ todo[r] # {}) => pc'[r] \in {"arm", "register"}
    BY <1>3, <2>1 DEF Arm, EnsureWorker
  <2>3. Owed(x, y)
    BY <1>3, <1>a DEF Arm
  <2>4. y \in parents[x] /\ children' = children /\ cur' = cur /\ pend' = pend /\ child' = child /\ todo' = todo
    BY <1>3 DEF Arm
  <2>5. todo[p] = parents[child[p]]
    BY <1>3 DEF Arm
  <2>6. QED
    BY <2>2, <2>3, <2>4, <2>5
<1>4. ASSUME NEW p \in Agent, NEW q \in Token, Register(p, q) PROVE Owed(x, y)'
    BY <1>4, <1>a, <1>c DEF Register
<1>5. ASSUME NEW p \in Agent, NEW q \in Token, Check(p, q) PROVE Owed(x, y)'
    BY <1>5, <1>a DEF Check, Reason
<1>6. ASSUME NEW p \in Agent, Return(p) PROVE Owed(x, y)'
    BY <1>6, <1>a DEF Return
<1>7. ASSUME NEW t \in Token, DropHandle(t) PROVE Owed(x, y)'
    BY <1>7, <1>a DEF DropHandle
<1>8. ASSUME NEW p \in Thread, NEW t \in Token, NEW r \in {"Requested", "Deadline"}, Cancel(p, t, r) PROVE Owed(x, y)'
    BY <1>8, <1>a DEF Cancel
<1>9. ASSUME NEW p \in Agent, NEW t \in Token, Pop(p, t) PROVE Owed(x, y)'
    BY <1>9, <1>a, <1>b DEF Pop
<1>10. ASSUME NEW p \in Agent, PopDone(p) PROVE Owed(x, y)'
    BY <1>10, <1>a DEF PopDone, AfterCancel
<1>11. ASSUME NEW p \in Agent, TakeWaiters(p) PROVE Owed(x, y)'
    BY <1>11, <1>a DEF TakeWaiters
<1>12. ASSUME NEW p \in Agent, NEW e \in Waiter \X Context, Wake(p, e) PROVE Owed(x, y)'
    BY <1>12, <1>a DEF Wake
<1>13. ASSUME NEW p \in Agent, WakeDone(p) PROVE Owed(x, y)'
    BY <1>13, <1>a DEF WakeDone
<1>14. ASSUME NEW p \in Agent, Spread(p) PROVE Owed(x, y)'
    BY <1>14, <1>a, <1>c DEF Spread
<1>15. ASSUME NEW w \in Waiter, NEW t \in Token, CancelledFuture(w, t) PROVE Owed(x, y)'
    BY <1>15, <1>a DEF CancelledFuture
<1>16. ASSUME NEW w \in Waiter, NEW c \in Context, PollEnter(w, c) PROVE Owed(x, y)'
    BY <1>16, <1>a DEF PollEnter
<1>17. ASSUME NEW w \in Waiter, PollRegister(w) PROVE Owed(x, y)'
    BY <1>17, <1>a DEF PollRegister
<1>18. ASSUME NEW w \in Waiter, NEW ok \in BOOLEAN, PollArm(w, ok) PROVE Owed(x, y)'
    BY <1>18, <1>a DEF PollArm, EnsureWorker
<1>19. ASSUME NEW w \in Waiter, PollRecheck(w) PROVE Owed(x, y)'
    BY <1>19, <1>a DEF PollRecheck
<1>20. ASSUME NEW w \in Waiter, DropFuture(w) PROVE Owed(x, y)'
    BY <1>20, <1>a DEF DropFuture
<1>21. ASSUME WorkerLook PROVE Owed(x, y)'
    BY <1>21, <1>a DEF WorkerLook
<1>22. ASSUME WorkerTimeout PROVE Owed(x, y)'
    BY <1>22, <1>a DEF WorkerTimeout
<1>23. CASE UNCHANGED vars
    BY <1>23, <1>a DEF vars
<1> HIDE DEF TypeOK, CallsOK, Owed, Agent, Cause, Calling, Polling, InCancel, treeVars, callVars, waitVars, heapVars
<1>q. QED
    BY NextCases, <1>1, <1>2, <1>3, <1>4, <1>5, <1>6, <1>7, <1>8, <1>9, <1>10, <1>11, <1>12, <1>13, <1>14, <1>15, <1>16, <1>17, <1>18, <1>19, <1>20, <1>21, <1>22, <1>23

(* ParentIsADecision is preserved. *)
LEMMA DecisionStep ==
    ASSUME TypeOK, CallsOK, CausesOK, ParentIsADecision, [Next]_vars
    PROVE  ParentIsADecision'
<1> USE CancellationAssumption DEF TypeOK, CausesOK, ParentIsADecision, Agent, Cause, Calling, Polling, InCancel, treeVars, callVars, waitVars, heapVars
<1>1. ASSUME Tick PROVE ParentIsADecision'
    BY <1>1 DEF Tick
<1>2. ASSUME NEW p \in Thread, NEW ps \in SUBSET Token, NEW d \in Deadline, NewInner(p, ps, d) PROVE ParentIsADecision'
    BY <1>2 DEF NewInner
<1>3. ASSUME NEW p \in Agent, NEW ok \in BOOLEAN, Arm(p, ok) PROVE ParentIsADecision'
    BY <1>3 DEF Arm
<1>4. ASSUME NEW p \in Agent, NEW q \in Token, Register(p, q) PROVE ParentIsADecision'
    BY <1>4 DEF Register
<1>5. ASSUME NEW p \in Agent, NEW q \in Token, Check(p, q) PROVE ParentIsADecision'
    BY <1>5 DEF Check
<1>6. ASSUME NEW p \in Agent, Return(p) PROVE ParentIsADecision'
    BY <1>6 DEF Return
<1>7. ASSUME NEW t \in Token, DropHandle(t) PROVE ParentIsADecision'
    BY <1>7 DEF DropHandle
<1>8. ASSUME NEW p \in Thread, NEW t \in Token, NEW r \in {"Requested", "Deadline"}, Cancel(p, t, r) PROVE ParentIsADecision'
    BY <1>8 DEF Cancel
<1>9. ASSUME NEW p \in Agent, NEW t \in Token, Pop(p, t) PROVE ParentIsADecision'
    BY <1>9 DEF Pop
<1>10. ASSUME NEW p \in Agent, PopDone(p) PROVE ParentIsADecision'
    BY <1>10 DEF PopDone
<1>11. ASSUME NEW p \in Agent, TakeWaiters(p) PROVE ParentIsADecision'
    BY <1>11 DEF TakeWaiters
<1>12. ASSUME NEW p \in Agent, NEW e \in Waiter \X Context, Wake(p, e) PROVE ParentIsADecision'
    BY <1>12 DEF Wake
<1>13. ASSUME NEW p \in Agent, WakeDone(p) PROVE ParentIsADecision'
    BY <1>13 DEF WakeDone
<1>14. ASSUME NEW p \in Agent, Spread(p) PROVE ParentIsADecision'
    BY <1>14 DEF Spread
<1>15. ASSUME NEW w \in Waiter, NEW t \in Token, CancelledFuture(w, t) PROVE ParentIsADecision'
    BY <1>15 DEF CancelledFuture
<1>16. ASSUME NEW w \in Waiter, NEW c \in Context, PollEnter(w, c) PROVE ParentIsADecision'
    BY <1>16 DEF PollEnter
<1>17. ASSUME NEW w \in Waiter, PollRegister(w) PROVE ParentIsADecision'
    BY <1>17 DEF PollRegister
<1>18. ASSUME NEW w \in Waiter, NEW ok \in BOOLEAN, PollArm(w, ok) PROVE ParentIsADecision'
    BY <1>18 DEF PollArm
<1>19. ASSUME NEW w \in Waiter, PollRecheck(w) PROVE ParentIsADecision'
    BY <1>19 DEF PollRecheck
<1>20. ASSUME NEW w \in Waiter, DropFuture(w) PROVE ParentIsADecision'
    BY <1>20 DEF DropFuture
<1>21. ASSUME WorkerLook PROVE ParentIsADecision'
    BY <1>21 DEF WorkerLook
<1>22. ASSUME WorkerTimeout PROVE ParentIsADecision'
    BY <1>22 DEF WorkerTimeout
<1>23. CASE UNCHANGED vars
    BY <1>23 DEF vars
<1> HIDE DEF TypeOK, CausesOK, ParentIsADecision, Agent, Cause, Calling, Polling, InCancel, treeVars, callVars, waitVars, heapVars
<1>q. QED
    BY NextCases, <1>1, <1>2, <1>3, <1>4, <1>5, <1>6, <1>7, <1>8, <1>9, <1>10, <1>11, <1>12, <1>13, <1>14, <1>15, <1>16, <1>17, <1>18, <1>19, <1>20, <1>21, <1>22, <1>23

(* NoLostWakeup is preserved. *)
LEMMA WakeupStep ==
    ASSUME TypeOK, CallsOK, WaitersOK, NoLostWakeup, [Next]_vars
    PROVE  NoLostWakeup'
<1> USE CancellationAssumption DEF TypeOK, CallsOK, WaitersOK, NoLostWakeup, WakeOwed, Agent, Cause, Calling, Polling, InCancel, treeVars, callVars, waitVars, heapVars
<1>1. ASSUME Tick PROVE NoLostWakeup'
    BY <1>1 DEF Tick
<1>2. ASSUME NEW p \in Thread, NEW ps \in SUBSET Token, NEW d \in Deadline, NewInner(p, ps, d) PROVE NoLostWakeup'
    BY <1>2 DEF NewInner
<1>3. ASSUME NEW p \in Agent, NEW ok \in BOOLEAN, Arm(p, ok) PROVE NoLostWakeup'
  <2>1. \A r \in Agent : pc[r] \in {"take", "wake"} => pc'[r] = pc[r]
    BY <1>3 DEF Arm, EnsureWorker
  <2>2. UNCHANGED <<cur, wakes, waiters, wst, wtok, wctx, woken, reason>>
    BY <1>3 DEF Arm
  <2>3. QED
    BY <2>1, <2>2, SMTT(30)
<1>4. ASSUME NEW p \in Agent, NEW q \in Token, Register(p, q) PROVE NoLostWakeup'
    BY <1>4 DEF Register
<1>5. ASSUME NEW p \in Agent, NEW q \in Token, Check(p, q) PROVE NoLostWakeup'
    BY <1>5 DEF Check
<1>6. ASSUME NEW p \in Agent, Return(p) PROVE NoLostWakeup'
    BY <1>6 DEF Return
<1>7. ASSUME NEW t \in Token, DropHandle(t) PROVE NoLostWakeup'
    BY <1>7 DEF DropHandle
<1>8. ASSUME NEW p \in Thread, NEW t \in Token, NEW r \in {"Requested", "Deadline"}, Cancel(p, t, r) PROVE NoLostWakeup'
    BY <1>8 DEF Cancel
<1>9. ASSUME NEW p \in Agent, NEW t \in Token, Pop(p, t) PROVE NoLostWakeup'
  <2>1. ASSUME NEW v \in Waiter, wst[v] = "parked", reason[wtok[v]] = "none", reason'[wtok[v]] # "none"
        PROVE  WakeOwed(v)'
    <3>1. wtok[v] = t /\ cur'[p] = t /\ pc'[p] = "take"
      <4>1. wtok[v] \in Token
        BY <2>1
      <4>2. reason' # reason
        BY <2>1
      <4>3. reason' = [reason EXCEPT ![t] = why[p]] /\ cur' = [cur EXCEPT ![p] = t]
            /\ pc' = [pc EXCEPT ![p] = "take"]
        BY <1>9, <4>2 DEF Pop
      <4>4. QED
        BY <2>1, <4>1, <4>3
    <3>2. <<v, wctx[v]>> \in waiters[wtok[v]] /\ UNCHANGED <<waiters, wtok, wctx>>
      BY <1>9, <2>1 DEF Pop
    <3>3. QED
      BY <3>1, <3>2
  <2>2. ASSUME NEW v \in Waiter, WakeOwed(v)
        PROVE  WakeOwed(v)'
    BY <1>9, <2>2 DEF Pop
  <2>3. UNCHANGED <<wst, wtok, woken>>
    BY <1>9 DEF Pop
  <2>4. QED
    BY <2>1, <2>2, <2>3
<1>10. ASSUME NEW p \in Agent, PopDone(p) PROVE NoLostWakeup'
    BY <1>10 DEF PopDone, AfterCancel
<1>11. ASSUME NEW p \in Agent, TakeWaiters(p) PROVE NoLostWakeup'
    BY <1>11 DEF TakeWaiters
<1>12. ASSUME NEW p \in Agent, NEW e \in Waiter \X Context, Wake(p, e) PROVE NoLostWakeup'
  <2>1. ASSUME NEW v \in Waiter, wst[v] = "parked", WakeOwed(v), e # <<v, wctx[v]>>
        PROVE  WakeOwed(v)'
    BY <1>12, <2>1 DEF Wake
  <2>2. ASSUME NEW v \in Waiter, wst[v] = "parked", e = <<v, wctx[v]>>
        PROVE  woken'[v]
    BY <1>12, <2>2 DEF Wake, Waiting
  <2>3. ASSUME NEW v \in Waiter, woken[v]
        PROVE  woken'[v]
    BY <1>12, <2>3 DEF Wake
  <2>4. UNCHANGED <<wst, wtok, wctx, reason>>
    BY <1>12 DEF Wake
  <2>5. QED
    BY <2>1, <2>2, <2>3, <2>4
<1>13. ASSUME NEW p \in Agent, WakeDone(p) PROVE NoLostWakeup'
    BY <1>13 DEF WakeDone
<1>14. ASSUME NEW p \in Agent, Spread(p) PROVE NoLostWakeup'
    BY <1>14 DEF Spread
<1>15. ASSUME NEW w \in Waiter, NEW t \in Token, CancelledFuture(w, t) PROVE NoLostWakeup'
    BY <1>15 DEF CancelledFuture
<1>16. ASSUME NEW w \in Waiter, NEW c \in Context, PollEnter(w, c) PROVE NoLostWakeup'
    BY <1>16 DEF PollEnter
<1>17. ASSUME NEW w \in Waiter, PollRegister(w) PROVE NoLostWakeup'
    BY <1>17 DEF PollRegister, OtherWaiters, Waiting
<1>18. ASSUME NEW w \in Waiter, NEW ok \in BOOLEAN, PollArm(w, ok) PROVE NoLostWakeup'
    BY <1>18 DEF PollArm, EnsureWorker
<1>19. ASSUME NEW w \in Waiter, PollRecheck(w) PROVE NoLostWakeup'
    BY <1>19, SMTT(30) DEF PollRecheck, OtherWaiters, Waiting, Reason
<1>20. ASSUME NEW w \in Waiter, DropFuture(w) PROVE NoLostWakeup'
    BY <1>20 DEF DropFuture, OtherWaiters, Waiting
<1>21. ASSUME WorkerLook PROVE NoLostWakeup'
    BY <1>21 DEF WorkerLook
<1>22. ASSUME WorkerTimeout PROVE NoLostWakeup'
    BY <1>22 DEF WorkerTimeout
<1>23. CASE UNCHANGED vars
    BY <1>23 DEF vars
<1> HIDE DEF TypeOK, CallsOK, WaitersOK, NoLostWakeup, WakeOwed, Agent, Cause, Calling, Polling, InCancel, treeVars, callVars, waitVars, heapVars
<1>q. QED
    BY NextCases, <1>1, <1>2, <1>3, <1>4, <1>5, <1>6, <1>7, <1>8, <1>9, <1>10, <1>11, <1>12, <1>13, <1>14, <1>15, <1>16, <1>17, <1>18, <1>19, <1>20, <1>21, <1>22, <1>23

(* CauseIsFinal holds of every step. *)
LEMMA CauseStep ==
    ASSUME TypeOK, [Next]_vars
    PROVE  CauseFinal
<1> USE CancellationAssumption DEF TypeOK, CauseFinal, Reason, Agent, Cause, Calling, Polling, InCancel, treeVars, callVars, waitVars, heapVars, Deadline, Never
<1>1. ASSUME Tick PROVE CauseFinal
    BY <1>1 DEF Tick
<1>2. ASSUME NEW p \in Thread, NEW ps \in SUBSET Token, NEW d \in Deadline, NewInner(p, ps, d) PROVE CauseFinal
    BY <1>2 DEF NewInner
<1>3. ASSUME NEW p \in Agent, NEW ok \in BOOLEAN, Arm(p, ok) PROVE CauseFinal
    BY <1>3 DEF Arm
<1>4. ASSUME NEW p \in Agent, NEW q \in Token, Register(p, q) PROVE CauseFinal
    BY <1>4 DEF Register
<1>5. ASSUME NEW p \in Agent, NEW q \in Token, Check(p, q) PROVE CauseFinal
    BY <1>5 DEF Check
<1>6. ASSUME NEW p \in Agent, Return(p) PROVE CauseFinal
    BY <1>6 DEF Return
<1>7. ASSUME NEW t \in Token, DropHandle(t) PROVE CauseFinal
    BY <1>7 DEF DropHandle
<1>8. ASSUME NEW p \in Thread, NEW t \in Token, NEW r \in {"Requested", "Deadline"}, Cancel(p, t, r) PROVE CauseFinal
    BY <1>8 DEF Cancel
<1>9. ASSUME NEW p \in Agent, NEW t \in Token, Pop(p, t) PROVE CauseFinal
    BY <1>9 DEF Pop
<1>10. ASSUME NEW p \in Agent, PopDone(p) PROVE CauseFinal
    BY <1>10 DEF PopDone
<1>11. ASSUME NEW p \in Agent, TakeWaiters(p) PROVE CauseFinal
    BY <1>11 DEF TakeWaiters
<1>12. ASSUME NEW p \in Agent, NEW e \in Waiter \X Context, Wake(p, e) PROVE CauseFinal
    BY <1>12 DEF Wake
<1>13. ASSUME NEW p \in Agent, WakeDone(p) PROVE CauseFinal
    BY <1>13 DEF WakeDone
<1>14. ASSUME NEW p \in Agent, Spread(p) PROVE CauseFinal
    BY <1>14 DEF Spread
<1>15. ASSUME NEW w \in Waiter, NEW t \in Token, CancelledFuture(w, t) PROVE CauseFinal
    BY <1>15 DEF CancelledFuture
<1>16. ASSUME NEW w \in Waiter, NEW c \in Context, PollEnter(w, c) PROVE CauseFinal
    BY <1>16 DEF PollEnter
<1>17. ASSUME NEW w \in Waiter, PollRegister(w) PROVE CauseFinal
    BY <1>17 DEF PollRegister
<1>18. ASSUME NEW w \in Waiter, NEW ok \in BOOLEAN, PollArm(w, ok) PROVE CauseFinal
    BY <1>18 DEF PollArm
<1>19. ASSUME NEW w \in Waiter, PollRecheck(w) PROVE CauseFinal
    BY <1>19 DEF PollRecheck
<1>20. ASSUME NEW w \in Waiter, DropFuture(w) PROVE CauseFinal
    BY <1>20 DEF DropFuture
<1>21. ASSUME WorkerLook PROVE CauseFinal
    BY <1>21 DEF WorkerLook
<1>22. ASSUME WorkerTimeout PROVE CauseFinal
    BY <1>22 DEF WorkerTimeout
<1>23. CASE UNCHANGED vars
    BY <1>23 DEF vars
<1> HIDE DEF TypeOK, CauseFinal, Reason, Agent, Cause, Calling, Polling, InCancel, treeVars, callVars, waitVars, heapVars, Deadline, Never
<1>q. QED
    BY NextCases, <1>1, <1>2, <1>3, <1>4, <1>5, <1>6, <1>7, <1>8, <1>9, <1>10, <1>11, <1>12, <1>13, <1>14, <1>15, <1>16, <1>17, <1>18, <1>19, <1>20, <1>21, <1>22, <1>23

-----------------------------------------------------------------------------
(* Spec => []IInv and its consequences                                     *)

LEMMA InitIInv == Init => IInv
<1> SUFFICES ASSUME Init PROVE IInv
    OBVIOUS
<1> USE CancellationAssumption DEF Init
<1>1. TypeOK
    <2>1. (CHOOSE c \in Context : TRUE) \in Context
        OBVIOUS
    <2>2. QED
        BY <2>1 DEF TypeOK, Agent, Cause, Calling, Polling, Deadline, Never
<1>2. CallsOK /\ CausesOK /\ WaitersOK
    BY DEF CallsOK, CausesOK, WaitersOK, Agent, InCancel, Polling
<1>3. LinksOK /\ NoLostCancellation /\ ParentIsADecision /\ NoLostWakeup
    BY DEF LinksOK, NoLostCancellation, ParentIsADecision, NoLostWakeup
<1>4. QED
    BY <1>1, <1>2, <1>3 DEF IInv

\* The conjunction of all the parts is an inductive invariant of the tokens,
\* the calls, the futures and the scheduler.
THEOREM Invariance == Spec => []IInv
<1>1. IInv /\ [Next]_vars => IInv'
    BY TypeStep, CallsStep, LinksStep, CausesStep, WaitersStep,
       CancellationStep, DecisionStep, WakeupStep DEF IInv
<1>2. QED
    BY InitIInv, <1>1, PTL DEF Spec

\* Every reachable state is well typed.
THEOREM TypeCorrect == Spec => []TypeOK
    BY Invariance, PTL DEF IInv

\* cancel_tree against child_token and linked: no cancellation is lost.
THEOREM CancellationNotLost == Spec => []NoLostCancellation
    BY Invariance, PTL DEF IInv

\* cancel_tree against Cancelled::poll: no wakeup is lost.
THEOREM WakeupNotLost == Spec => []NoLostWakeup
    BY Invariance, PTL DEF IInv

\* A tree closed by a deadline alone never reports Parent.
THEOREM DeadlineStaysDeadline == Spec => []ParentIsADecision
    BY Invariance, PTL DEF IInv

\* Recorded causes are final and a cancelled token stays cancelled.
THEOREM FirstCauseWins == Spec => CauseIsFinal
<1>1. IInv /\ [Next]_vars => [CauseFinal]_vars
    BY CauseStep DEF IInv
<1>2. QED
    BY Invariance, <1>1, PTL DEF Spec, CauseIsFinal
=============================================================================
