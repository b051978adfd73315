----------------------------- MODULE LimitsProof -----------------------------
(***************************************************************************)
(* The two bounds of the system that hold because things are counted: the  *)
(* pool's connections, and the quotas of the shared budget.                *)
(*                                                                         *)
(* The pool, for every number of tasks, keys and connections.  Its bound   *)
(* is not inductive alone: a task that finds no idle client connects       *)
(* because it has one of the Max permits, so the invariant also counts     *)
(* permits, and says that a client in use is one.                          *)
(*                                                                         *)
(* The budget, for every number of operations, every limit and every       *)
(* amount.  That nothing is lost is a fact about all operations at once;   *)
(* that it stays so is a fact about each step of one operation: the step   *)
(* is Even, it leaves the others alone (Frame), and what that operation    *)
(* has still to do stays fit for what it holds (Local).  The sets of units *)
(* on loan are counted once, in UnitsChange.                               *)
(***************************************************************************)
EXTENDS PgPool, ResourceBudget, FiniteSetTheorems, TLAPS

-----------------------------------------------------------------------------
(* PgPool: the invariant.                                                  *)

\* Tasks with a permit.
Permitted == {t \in Task : pc[t] \in {"permitted", "connecting", "out", "leaving"}}

PermitsExact == permits + Cardinality(Permitted) = Max

HoldsOne == \A t \in Task : pc[t] = "out" => client[t] \in Client

IInv == TypeOK /\ PermitsExact /\ HoldsOne /\ PoolBounded /\ OwnedOnce

-----------------------------------------------------------------------------
\* The sets the invariant counts are finite.
LEMMA Finite ==
    ASSUME TypeOK
    PROVE  /\ IsFiniteSet(Permitted) /\ Cardinality(Permitted) \in Nat
           /\ \A k \in Key : /\ IsFiniteSet(Live(k)) /\ Cardinality(Live(k)) \in Nat
                             /\ IsFiniteSet(idle[k]) /\ Cardinality(idle[k]) \in Nat
                             /\ Live(k) \subseteq Permitted
<1>1. Permitted \subseteq Task
  BY DEF Permitted
<1>2. \A k \in Key : Live(k) \subseteq Task /\ Live(k) \subseteq Permitted
  BY DEF Live, Permitted
<1>3. \A k \in Key : idle[k] \subseteq Client
  BY DEF TypeOK
<1>4. IsFiniteSet(Task) /\ IsFiniteSet(Client)
  BY PgPoolAssumption
<1>5. IsFiniteSet(Permitted)
  BY <1>1, <1>4, FS_Subset
<1>6. \A k \in Key : IsFiniteSet(Live(k)) /\ IsFiniteSet(idle[k])
  BY <1>2, <1>3, <1>4, FS_Subset
<1> QED
  BY <1>2, <1>5, <1>6, FS_CardinalityType

\* What a step does to a set it adds one element to, or takes one from.
LEMMA Counts ==
    ASSUME NEW S, IsFiniteSet(S), NEW x
    PROVE  /\ x \notin S => Cardinality(S \cup {x}) = Cardinality(S) + 1
           /\ x \in S => Cardinality(S \ {x}) = Cardinality(S) - 1
           /\ Cardinality(S \cup {x}) <= Cardinality(S) + 1
           /\ Cardinality(S) \in Nat
<1>1. Cardinality(S) \in Nat
  BY FS_CardinalityType
<1>2. Cardinality(S \cup {x}) = IF x \in S THEN Cardinality(S) ELSE Cardinality(S) + 1
  BY FS_AddElement
<1>3. Cardinality(S \ {x}) = IF x \in S THEN Cardinality(S) - 1 ELSE Cardinality(S)
  BY FS_RemoveElement
<1> QED
  BY <1>1, <1>2, <1>3

-----------------------------------------------------------------------------
LEMMA InitInv == Init => IInv
<1> SUFFICES ASSUME Init PROVE IInv
  OBVIOUS
<1> USE PgPoolAssumption DEF Init
<1>1. TypeOK
  BY DEF TypeOK
<1>2. Permitted = {} /\ \A k \in Key : Live(k) = {} /\ idle[k] = {}
  BY DEF Permitted, Live
<1>3. Cardinality({}) = 0
  BY FS_EmptySet
<1>4. PermitsExact /\ PoolBounded
  <2>1. Max \in Nat /\ permits = Max
    BY DEF Init
  <2>2. PermitsExact
    BY ONLY <1>2, <1>3, <2>1 DEF PermitsExact
  <2>3. PoolBounded
    BY ONLY <1>2, <1>3, <2>1 DEF PoolBounded
  <2> QED
    BY ONLY <2>2, <2>3
<1>5. HoldsOne /\ OwnedOnce
  BY DEF HoldsOne, OwnedOnce
<1> QED
  BY <1>1, <1>4, <1>5 DEF IInv

-----------------------------------------------------------------------------
\* Every step keeps the types.
LEMMA TypeStep == TypeOK /\ PermitsExact /\ HoldsOne /\ [Next]_vars => TypeOK'
<1> SUFFICES ASSUME TypeOK, PermitsExact, HoldsOne, [Next]_vars PROVE TypeOK'
  OBVIOUS
<1> USE DEF TypeOK, Goto, Take
<1>1. Cardinality(Permitted) \in Nat /\ IsFiniteSet(Permitted) /\ Max \in Nat
  BY Finite, PgPoolAssumption
<1>2. \A t \in Permitted : permits + 1 \in 0 .. Max
  <2> SUFFICES ASSUME NEW t \in Permitted PROVE permits + 1 \in 0 .. Max
    OBVIOUS
  <2>1. Cardinality(Permitted \ {t}) = Cardinality(Permitted) - 1
    BY <1>1, Counts
  <2>2. Cardinality(Permitted \ {t}) \in Nat
    BY <1>1, FS_RemoveElement, FS_CardinalityType
  <2> QED
    BY <1>1, <2>1, <2>2 DEF PermitsExact
<1>3. ASSUME NEW t \in Task, NEW k \in Key, Request(t, k) PROVE TypeOK'
  BY <1>3 DEF Request
<1>4. ASSUME NEW t \in Task, Acquire(t) PROVE TypeOK'
  BY <1>4, <1>1 DEF Acquire
<1>5. ASSUME NEW t \in Task, GiveUp(t) \/ Invalidate(t) \/ MarkReusable(t) PROVE TypeOK'
  BY <1>5 DEF GiveUp, Invalidate, MarkReusable
<1>6. ASSUME NEW t \in Task, Refuse(t) \/ ConnectFails(t) \/ Leave(t) PROVE TypeOK'
  <2>1. t \in Permitted
    BY <1>6 DEF Refuse, ConnectFails, Leave, Permitted
  <2> QED
    BY <1>6, <1>2, <2>1 DEF Refuse, ConnectFails, Leave
<1>7. ASSUME NEW t \in Task, Pop(t) PROVE TypeOK'
  <2>1. key[t] \in Key /\ idle[key[t]] \subseteq Client
    OBVIOUS
  <2>2. pc' \in [Task -> {"idle", "waiting", "permitted", "connecting", "out", "leaving"}]
    BY <1>7 DEF Pop
  <2>3. idle' \in [Key -> SUBSET Client]
    BY <1>7, <2>1 DEF Pop
  <2>4. client' \in [Task -> Client \cup {NoClient}]
    BY <1>7, <2>1 DEF Pop
  <2>5. reusable' \in [Task -> BOOLEAN]
    BY <1>7 DEF Pop
  <2> QED
    BY <1>7, <2>2, <2>3, <2>4, <2>5 DEF Pop
<1>8. ASSUME NEW t \in Task, NEW c \in Client, Connect(t, c) PROVE TypeOK'
  BY <1>8 DEF Connect
<1>9. ASSUME NEW t \in Task, Return(t) PROVE TypeOK'
  <2>1. client[t] \in Client
    BY <1>9 DEF Return, HoldsOne
  <2> QED
    BY <1>9, <2>1 DEF Return
<1>10. ASSUME NEW c \in Client, Close(c) PROVE TypeOK'
  BY <1>10 DEF Close
<1>11. CASE UNCHANGED vars
  BY <1>11 DEF vars
<1> HIDE DEF TypeOK
<1> QED
  BY <1>3, <1>4, <1>5, <1>6, <1>7, <1>8, <1>9, <1>10, <1>11 DEF Next, Step
-----------------------------------------------------------------------------
\* Permits and the tasks that have one add up, whatever way a task leaves.
LEMMA PermitsStep == TypeOK /\ PermitsExact /\ [Next]_vars => PermitsExact'
<1> SUFFICES ASSUME TypeOK, PermitsExact, [Next]_vars PROVE PermitsExact'
  OBVIOUS
<1>1. Cardinality(Permitted) \in Nat /\ IsFiniteSet(Permitted) /\ Max \in Nat /\ permits \in Nat
  BY Finite, PgPoolAssumption DEF TypeOK
<1>2. ASSUME Permitted' = Permitted, permits' = permits PROVE PermitsExact'
  BY <1>2 DEF PermitsExact
<1>3. ASSUME NEW t \in Task, t \notin Permitted, Permitted' = Permitted \cup {t},
             permits' = permits - 1
      PROVE  PermitsExact'
  BY <1>1, <1>3, Counts DEF PermitsExact
<1>4. ASSUME NEW t \in Permitted, Permitted' = Permitted \ {t}, permits' = permits + 1
      PROVE  PermitsExact'
  BY <1>1, <1>4, Counts DEF PermitsExact
<1> USE DEF TypeOK, Goto
<1>5. ASSUME NEW t \in Task, NEW k \in Key, Request(t, k) PROVE PermitsExact'
  BY <1>5, <1>2 DEF Request, Permitted
<1>6. ASSUME NEW t \in Task, Acquire(t) PROVE PermitsExact'
  BY <1>6, <1>3 DEF Acquire, Permitted
<1>7. ASSUME NEW t \in Task, GiveUp(t) \/ Invalidate(t) \/ MarkReusable(t) PROVE PermitsExact'
  BY <1>7, <1>2 DEF GiveUp, Invalidate, MarkReusable, Permitted
<1>8. ASSUME NEW t \in Task, Refuse(t) \/ ConnectFails(t) \/ Leave(t) PROVE PermitsExact'
  BY <1>8, <1>4 DEF Refuse, ConnectFails, Leave, Permitted
<1>9. ASSUME NEW t \in Task, Pop(t) PROVE PermitsExact'
  BY <1>9, <1>2 DEF Pop, Permitted
<1>10. ASSUME NEW t \in Task, NEW c \in Client, Connect(t, c) PROVE PermitsExact'
  BY <1>10, <1>2 DEF Connect, Permitted
<1>11. ASSUME NEW t \in Task, Return(t) PROVE PermitsExact'
  BY <1>11, <1>2 DEF Return, Permitted
<1>12. ASSUME NEW c \in Client, Close(c) PROVE PermitsExact'
  BY <1>12, <1>2 DEF Close, Permitted
<1>13. CASE UNCHANGED vars
  BY <1>13, <1>2 DEF vars, Permitted
<1> QED
  BY <1>5, <1>6, <1>7, <1>8, <1>9, <1>10, <1>11, <1>12, <1>13 DEF Next, Step

\* Every step keeps one owner for each client.
LEMMA OwnersStep ==
    TypeOK /\ HoldsOne /\ OwnedOnce /\ [Next]_vars => HoldsOne' /\ OwnedOnce'
<1> SUFFICES ASSUME TypeOK, HoldsOne, OwnedOnce, [Next]_vars PROVE HoldsOne' /\ OwnedOnce'
  OBVIOUS
<1> USE DEF TypeOK, HoldsOne, Goto, Take
<1>1. ASSUME NEW t \in Task, NEW k \in Key, Request(t, k) PROVE HoldsOne' /\ OwnedOnce'
  BY <1>1 DEF Request, OwnedOnce
<1>2. ASSUME NEW t \in Task, Acquire(t) \/ GiveUp(t) \/ Refuse(t) \/ ConnectFails(t) \/ Leave(t)
      PROVE  HoldsOne' /\ OwnedOnce'
  BY <1>2 DEF Acquire, GiveUp, Refuse, ConnectFails, Leave, OwnedOnce
<1>3. ASSUME NEW t \in Task, Invalidate(t) \/ MarkReusable(t) PROVE HoldsOne' /\ OwnedOnce'
  BY <1>3 DEF Invalidate, MarkReusable, OwnedOnce
<1>4. ASSUME NEW t \in Task, Pop(t) PROVE HoldsOne' /\ OwnedOnce'
  <2>1. CASE pc' = [pc EXCEPT ![t] = "connecting"] /\ UNCHANGED <<client, reusable, made, key>>
             /\ \A k \in Key : idle'[k] \subseteq idle[k]
    BY <2>1 DEF OwnedOnce
  <2>2. ASSUME NEW c \in idle[key[t]], idle' = [idle EXCEPT ![key[t]] = @ \ {c}],
               pc' = [pc EXCEPT ![t] = "out"], Take(t, c), UNCHANGED <<key, made>>
        PROVE  HoldsOne' /\ OwnedOnce'
    <3>1. c \in Client /\ made[c] = {key[t]}
      BY <2>2 DEF OwnedOnce
    <3>2. \A k \in Key : c \notin idle'[k]
      <4> SUFFICES ASSUME NEW k \in Key, c \in idle'[k] PROVE FALSE
        OBVIOUS
      <4>1. k # key[t] /\ c \in idle[k]
        BY <2>2
      <4>2. made[c] = {k}
        BY <4>1 DEF OwnedOnce
      <4> QED
        BY <3>1, <4>1, <4>2
    <3>3. \A u \in Task \ {t} : pc[u] = "out" => client[u] # c
      BY <2>2 DEF OwnedOnce
    <3> QED
      BY <2>2, <3>1, <3>2, <3>3 DEF OwnedOnce
  <2> QED
    BY <1>4, <2>1, <2>2 DEF Pop
<1>5. ASSUME NEW t \in Task, NEW c \in Client, Connect(t, c) PROVE HoldsOne' /\ OwnedOnce'
  <2>1. \A k \in Key : c \notin idle[k]
    <3> SUFFICES ASSUME NEW k \in Key, c \in idle[k] PROVE FALSE
      OBVIOUS
    <3>1. made[c] = {k} /\ made[c] = {}
      BY <1>5 DEF Connect, OwnedOnce
    <3> QED
      BY <3>1
  <2>2. \A u \in Task : pc[u] = "out" => client[u] # c
    BY <1>5 DEF Connect, OwnedOnce
  <2> QED
    BY <1>5, <2>1, <2>2 DEF Connect, OwnedOnce
<1>6. ASSUME NEW t \in Task, Return(t) PROVE HoldsOne' /\ OwnedOnce'
  <2>1. \A k \in Key : idle'[k] \subseteq idle[k] \cup (IF k = key[t] THEN {client[t]} ELSE {})
    BY <1>6 DEF Return
  <2> QED
    BY <1>6, <2>1 DEF Return, OwnedOnce
<1>7. ASSUME NEW c \in Client, Close(c) PROVE HoldsOne' /\ OwnedOnce'
  BY <1>7 DEF Close, OwnedOnce
<1>8. CASE UNCHANGED vars
  BY <1>8 DEF vars, OwnedOnce
<1> QED
  BY <1>1, <1>2, <1>3, <1>4, <1>5, <1>6, <1>7, <1>8 DEF Next, Step
-----------------------------------------------------------------------------
\* A step that moves at most one client of one key between its stack and a
\* task, and adds none, keeps the bound.
LEMMA BoundKept ==
    ASSUME TypeOK, TypeOK', PoolBounded,
           \A k \in Key : Cardinality(idle'[k]) + Cardinality(Live(k)')
                              <= Cardinality(idle[k]) + Cardinality(Live(k))
    PROVE  PoolBounded'
<1>1. \A k \in Key : Cardinality(Live(k)) \in Nat /\ Cardinality(idle[k]) \in Nat
  BY Finite
<1>2. \A k \in Key : Cardinality(Live(k)') \in Nat /\ Cardinality(idle'[k]) \in Nat
  <2>1. \A k \in Key : Live(k)' \subseteq Task /\ idle'[k] \subseteq Client
    BY DEF Live, TypeOK
  <2> QED
    BY <2>1, PgPoolAssumption, FS_Subset, FS_CardinalityType
<1>3. Max \in Nat
  BY PgPoolAssumption
<1> QED
  BY <1>1, <1>2, <1>3 DEF PoolBounded

\* Every step keeps the bound; the task that connects relies on its permit.
LEMMA BoundStep == IInv /\ TypeOK' /\ [Next]_vars => PoolBounded'
<1> SUFFICES ASSUME IInv, TypeOK', [Next]_vars PROVE PoolBounded'
  OBVIOUS
<1>0. TypeOK /\ PermitsExact /\ HoldsOne /\ PoolBounded /\ OwnedOnce
  BY DEF IInv
<1>a. \A k \in Key : /\ IsFiniteSet(Live(k)) /\ Cardinality(Live(k)) \in Nat
                     /\ IsFiniteSet(idle[k]) /\ Cardinality(idle[k]) \in Nat
                     /\ Live(k) \subseteq Permitted
  BY <1>0, Finite
<1>b. IsFiniteSet(Permitted) /\ Cardinality(Permitted) \in Nat
  BY <1>0, Finite
<1>c. /\ key \in [Task -> Key] /\ idle \in [Key -> SUBSET Client]
      /\ pc \in [Task -> {"idle", "waiting", "permitted", "connecting", "out", "leaving"}]
  BY <1>0 DEF TypeOK
<1>1. ASSUME idle' = idle, \A k \in Key : Live(k)' = Live(k) PROVE PoolBounded'
  BY <1>0, <1>1, <1>a, BoundKept
<1>2. ASSUME NEW t \in Task, NEW k \in Key, Request(t, k) PROVE PoolBounded'
  <2>1. idle' = idle /\ \A j \in Key : Live(j)' = Live(j)
    BY <1>2, <1>c DEF Request, Goto, Live
  <2> QED
    BY <1>1, <2>1
<1>3. ASSUME NEW t \in Task,
             Acquire(t) \/ GiveUp(t) \/ Refuse(t) \/ Leave(t) \/ Invalidate(t) \/ MarkReusable(t)
      PROVE  PoolBounded'
  <2>1. idle' = idle /\ \A j \in Key : Live(j)' = Live(j)
    BY <1>3, <1>c DEF Acquire, GiveUp, Refuse, Leave, Invalidate, MarkReusable, Goto, Live
  <2> QED
    BY <1>1, <2>1
<1>4. ASSUME NEW t \in Task, NEW c \in Client, Connect(t, c) PROVE PoolBounded'
  <2>1. idle' = idle /\ \A j \in Key : Live(j)' = Live(j)
    BY <1>4, <1>c DEF Connect, Goto, Take, Live
  <2> QED
    BY <1>1, <2>1
<1>5. ASSUME NEW t \in Task, ConnectFails(t) PROVE PoolBounded'
  <2>1. idle' = idle /\ t \in Live(key[t]) /\ key[t] \in Key
    BY <1>5, <1>c DEF ConnectFails, Goto, Live
  <2>2. \A j \in Key : Live(j)' = IF j = key[t] THEN Live(j) \ {t} ELSE Live(j)
    BY <1>5, <1>c DEF ConnectFails, Goto, Live
  <2>3. Cardinality(Live(key[t]) \ {t}) = Cardinality(Live(key[t])) - 1
    BY <2>1, <1>a, Counts
  <2> QED
    BY <1>0, <1>a, <2>1, <2>2, <2>3, BoundKept
<1>6. ASSUME NEW t \in Task, Return(t) PROVE PoolBounded'
  <2>1. t \in Live(key[t]) /\ key[t] \in Key
    BY <1>6, <1>c DEF Return, Goto, Live
  <2>2. \A j \in Key : Live(j)' = IF j = key[t] THEN Live(j) \ {t} ELSE Live(j)
    BY <1>6, <1>c DEF Return, Goto, Live
  <2>3. Cardinality(Live(key[t]) \ {t}) = Cardinality(Live(key[t])) - 1
    BY <2>1, <1>a, Counts
  <2>4. \A j \in Key : idle'[j] = idle[j] \/ (j = key[t] /\ idle'[j] = idle[j] \cup {client[t]})
    BY <1>6, <1>c DEF Return
  <2>5. Cardinality(idle[key[t]] \cup {client[t]}) <= Cardinality(idle[key[t]]) + 1
    BY <2>1, <1>a, Counts
  <2>6. Cardinality(idle[key[t]] \cup {client[t]}) \in Nat
    BY <2>1, <1>a, FS_AddElement, FS_CardinalityType
  <2>7. ASSUME NEW j \in Key
        PROVE  Cardinality(idle'[j]) + Cardinality(Live(j)')
                   <= Cardinality(idle[j]) + Cardinality(Live(j))
    <3>1. CASE j = key[t]
      <4>1. Cardinality(Live(j)') = Cardinality(Live(j)) - 1
        BY <3>1, <2>2, <2>3
      <4>2. Cardinality(idle'[j]) <= Cardinality(idle[j]) + 1 /\ Cardinality(idle'[j]) \in Nat
        <5>1. CASE idle'[j] = idle[j]
          BY <5>1, <1>a
        <5>2. CASE idle'[j] = idle[key[t]] \cup {client[t]}
          BY <5>2, <3>1, <2>5, <2>6
        <5> QED
          BY <5>1, <5>2, <3>1, <2>4
      <4> QED
        BY <4>1, <4>2, <1>a
    <3>2. CASE j # key[t]
      <4>1. idle'[j] = idle[j] /\ Live(j)' = Live(j)
        BY <3>2, <2>2, <2>4
      <4> QED
        BY <4>1, <1>a
    <3> QED
      BY <3>1, <3>2
  <2> QED
    BY <1>0, <2>7, BoundKept
<1>7. ASSUME NEW t \in Task, Pop(t) PROVE PoolBounded'
  <2>1. pc[t] = "permitted" /\ key[t] \in Key /\ t \notin Live(key[t]) /\ t \in Permitted
    BY <1>7, <1>c DEF Pop, Live, Permitted
  <2>2. \A j \in Key : Live(j)' = IF j = key[t] THEN Live(j) \cup {t} ELSE Live(j)
    BY <1>7, <1>c DEF Pop, Live
  <2>3. CASE idle[key[t]] = {} /\ UNCHANGED idle
    <3>1. Live(key[t]) \cup {t} \subseteq Permitted
      BY <2>1, <1>a
    <3>2. Cardinality(Live(key[t]) \cup {t}) <= Cardinality(Permitted)
      BY <3>1, <1>b, FS_Subset
    <3>3. Cardinality(Permitted) <= Max
      BY <1>0, <1>b, PgPoolAssumption DEF PermitsExact, TypeOK
    <3>4. Cardinality(idle'[key[t]]) = 0
      BY <2>3, FS_EmptySet
    <3>5. Cardinality(Live(key[t]) \cup {t}) \in Nat
      BY <2>1, <1>a, FS_AddElement, FS_CardinalityType
    <3>6. ASSUME NEW j \in Key PROVE Cardinality(idle'[j]) + Cardinality(Live(j)') <= Max
      <4>1. CASE j = key[t]
        <5>1. Cardinality(Live(j)') <= Cardinality(Permitted) /\ Cardinality(Live(j)') \in Nat
          BY <4>1, <2>2, <3>2, <3>5
        <5>2. Cardinality(idle'[j]) = 0
          BY <4>1, <3>4
        <5> QED
          BY <5>1, <5>2, <3>3, <1>b, PgPoolAssumption
      <4>2. CASE j # key[t]
        <5>1. idle'[j] = idle[j] /\ Live(j)' = Live(j)
          BY <4>2, <2>2, <2>3
        <5> QED
          BY <5>1, <1>0 DEF PoolBounded
      <4> QED
        BY <4>1, <4>2
    <3> QED
      BY <3>6 DEF PoolBounded
  <2>4. ASSUME NEW c \in idle[key[t]], idle' = [idle EXCEPT ![key[t]] = @ \ {c}]
        PROVE  PoolBounded'
    <3>1. Cardinality(Live(key[t]) \cup {t}) = Cardinality(Live(key[t])) + 1
      BY <2>1, <1>a, Counts
    <3>2. Cardinality(idle[key[t]] \ {c}) = Cardinality(idle[key[t]]) - 1
      BY <2>1, <2>4, <1>a, Counts
    <3>3. \A j \in Key : idle'[j] = IF j = key[t] THEN idle[j] \ {c} ELSE idle[j]
      BY <2>4, <1>c
    <3>4. ASSUME NEW j \in Key
          PROVE  Cardinality(idle'[j]) + Cardinality(Live(j)')
                     <= Cardinality(idle[j]) + Cardinality(Live(j))
      <4>1. CASE j = key[t]
        <5>1. Cardinality(Live(j)') = Cardinality(Live(j)) + 1
          BY <4>1, <2>2, <3>1
        <5>2. Cardinality(idle'[j]) = Cardinality(idle[j]) - 1
          BY <4>1, <3>2, <3>3
        <5> QED
          BY <5>1, <5>2, <1>a
      <4>2. CASE j # key[t]
        <5>1. idle'[j] = idle[j] /\ Live(j)' = Live(j)
          BY <4>2, <2>2, <3>3
        <5> QED
          BY <5>1, <1>a
      <4> QED
        BY <4>1, <4>2
    <3> QED
      BY <1>0, <3>4, BoundKept
  <2> QED
    BY <1>7, <2>3, <2>4 DEF Pop
<1>8. ASSUME NEW c \in Client, Close(c) PROVE PoolBounded'
  <2>1. idle' = idle /\ \A j \in Key : Live(j)' = Live(j)
    BY <1>8 DEF Close, Live
  <2> QED
    BY <1>1, <2>1
<1>9. CASE UNCHANGED vars
  <2>1. idle' = idle /\ \A j \in Key : Live(j)' = Live(j)
    BY <1>9 DEF vars, Live
  <2> QED
    BY <1>1, <2>1
<1> QED
  BY <1>2, <1>3, <1>4, <1>5, <1>6, <1>7, <1>8, <1>9 DEF Next, Step

-----------------------------------------------------------------------------
\* The inductive invariant holds always.
THEOREM PoolInvariance == Spec => []IInv
<1>1. Init => IInv
  BY InitInv
<1>2. IInv /\ [Next]_vars => IInv'
  BY TypeStep, PermitsStep, OwnersStep, BoundStep DEF IInv
<1> QED
  BY <1>1, <1>2, PTL DEF Spec

\* The types hold; in particular no path returns a permit twice, which would
\* let the semaphore exceed max_connections.
THEOREM PoolTypes == Spec => []TypeOK
<1>1. IInv => TypeOK
  BY DEF IInv
<1> QED
  BY <1>1, PoolInvariance, PTL

\* For any number of tasks and fingerprints, PostgresPool::checkout and the
\* Drop of its clients keep at most max_connections clients of one key open.
THEOREM PoolStaysBounded == Spec => []PoolBounded
<1>1. IInv => PoolBounded
  BY DEF IInv
<1> QED
  BY <1>1, PoolInvariance, PTL

\* A pooled client is never shared, and never crosses to another fingerprint.
THEOREM ClientsOwnedOnce == Spec => []OwnedOnce
<1>1. IInv => OwnedOnce
  BY DEF IInv
<1> QED
  BY <1>1, PoolInvariance, PTL

-----------------------------------------------------------------------------
(* ResourceBudget: counting units.                                         *)

\* n units of one operation.
LEMMA OwnUnits ==
    ASSUME NEW a, NEW n \in Nat
    PROVE  IsFiniteSet({a} \X (1 .. n)) /\ Cardinality({a} \X (1 .. n)) = n
<1>. DEFINE f == [i \in 1 .. n |-> <<a, i>>]
<1>1. IsFiniteSet(1 .. n) /\ Cardinality(1 .. n) = n
  BY FS_Interval
<1>2. f \in Bijection(1 .. n, {a} \X (1 .. n))
  <2>1. f \in [1 .. n -> {a} \X (1 .. n)]
    OBVIOUS
  <2>2. \A i, j \in 1 .. n : f[i] = f[j] => i = j
    OBVIOUS
  <2>3. \A u \in {a} \X (1 .. n) : \E i \in 1 .. n : f[i] = u
    OBVIOUS
  <2>. QED
    BY <2>1, <2>2, <2>3 DEF Bijection, Injection, Surjection, IsInjective
<1>3. ExistsBijection(1 .. n, {a} \X (1 .. n))
  BY <1>2 DEF ExistsBijection
<1>. QED
  BY <1>1, <1>3, FS_Bijection

\* One operation comes to have n units of its own.
LEMMA UnitsChange ==
    ASSUME NEW f \in [Agent -> Nat], NEW g \in [Agent -> Nat], NEW a \in Agent,
           \A b \in Agent \ {a} : g[b] = f[b], IsFiniteSet(Units(f))
    PROVE  /\ IsFiniteSet(Units(g)) /\ Cardinality(Units(g)) \in Nat
           /\ Cardinality(Units(f)) \in Nat /\ f[a] <= Cardinality(Units(f))
           /\ Cardinality(Units(g)) = Cardinality(Units(f)) - f[a] + g[a]
<1>. DEFINE others == Units(f) \ ({a} \X (1 .. f[a]))
<1>1. Units(f) \cap ({a} \X (1 .. f[a])) = {a} \X (1 .. f[a])
  BY DEF Units
<1>2. IsFiniteSet(others) /\ Cardinality(others) = Cardinality(Units(f)) - f[a]
  <2>1. f[a] \in Nat /\ Cardinality({a} \X (1 .. f[a])) = f[a]
    BY OwnUnits
  <2>2. /\ IsFiniteSet(others)
        /\ Cardinality(others) = Cardinality(Units(f)) - Cardinality(Units(f) \cap ({a} \X (1 .. f[a])))
    BY FS_Difference
  <2>. QED
    BY <1>1, <2>1, <2>2
<1>3. Units(g) = others \cup ({a} \X (1 .. g[a]))
  <2>1. ASSUME NEW b \in Agent, NEW i, i \in 1 .. g[b]
        PROVE  <<b, i>> \in others \cup ({a} \X (1 .. g[a]))
    BY <2>1 DEF Units
  <2>2. ASSUME NEW b \in Agent, NEW i, i \in 1 .. f[b], <<b, i>> \in others
        PROVE  <<b, i>> \in Units(g)
    BY <2>2 DEF Units
  <2>3. \A u \in Units(g) : \E b \in Agent : \E i \in 1 .. g[b] : u = <<b, i>>
    BY DEF Units
  <2>4. \A u \in others : \E b \in Agent : \E i \in 1 .. f[b] : u = <<b, i>>
    BY DEF Units
  <2>5. {a} \X (1 .. g[a]) \subseteq Units(g)
    BY DEF Units
  <2>. QED
    BY <2>1, <2>2, <2>3, <2>4, <2>5
<1>4. others \cap ({a} \X (1 .. g[a])) = {}
  BY DEF Units
<1>5. IsFiniteSet(Units(g)) /\ Cardinality(Units(g)) = Cardinality(others) + g[a]
  <2>1. g[a] \in Nat /\ IsFiniteSet({a} \X (1 .. g[a])) /\ Cardinality({a} \X (1 .. g[a])) = g[a]
    BY OwnUnits
  <2>2. /\ IsFiniteSet(others \cup ({a} \X (1 .. g[a])))
        /\ Cardinality(others \cup ({a} \X (1 .. g[a])))
             = Cardinality(others) + g[a] - Cardinality(others \cap ({a} \X (1 .. g[a])))
    BY <1>2, <2>1, FS_Union
  <2>3. Cardinality(others \cap ({a} \X (1 .. g[a]))) = 0
    BY <1>4, FS_EmptySet
  <2>4. Cardinality(others) \in Nat
    BY <1>2, FS_CardinalityType
  <2>. HIDE DEF others
  <2>. QED
    BY <1>3, <2>1, <2>2, <2>3, <2>4
<1>6. /\ Cardinality(Units(f)) \in Nat /\ Cardinality(Units(g)) \in Nat
      /\ Cardinality(others) \in Nat
  BY <1>2, <1>5, FS_CardinalityType
<1>. QED
  BY <1>2, <1>5, <1>6

-----------------------------------------------------------------------------
(* Queues of accesses.                                                     *)

Looks == {"peek", "probe"}

\* What the accesses of a queue are about, mere looks apart.
Kinds(q) == {q[i].kind : i \in {j \in DOMAIN q : q[j].op \notin Looks}}

\* They are about different kinds, and no look comes after them.
Once(q) == \A i, j \in DOMAIN q : i < j /\ q[i].op \notin Looks => q[j].kind # q[i].kind

Queue(q, S) == q \in Seq(S) /\ Once(q)

LEMMA EmptyQueue == ASSUME NEW S PROVE Queue(<<>>, S) /\ Kinds(<<>>) = {}
BY DEF Queue, Once, Kinds

LEMMA Joins ==
    ASSUME NEW S \in SUBSET Accesses, NEW q, Queue(q, S), NEW x \in S,
           x.op \notin Looks, x.kind \notin Kinds(q)
    PROVE  Queue(q \o <<x>>, S) /\ Kinds(q \o <<x>>) = Kinds(q) \cup {x.kind}
<1>. DEFINE r == q \o <<x>>
<1>1. q \in Seq(S) /\ x \in S /\ r \in Seq(S)
  BY DEF Queue
<1>2. /\ Len(q) \in Nat /\ Len(r) = Len(q) + 1 /\ DOMAIN r = 1 .. Len(q) + 1 /\ DOMAIN q = 1 .. Len(q)
      /\ \A i \in DOMAIN q : r[i] = q[i]
      /\ r[Len(q) + 1] = x
  BY <1>1
<1>. HIDE DEF r
<1>3. \A i \in DOMAIN r : i \in DOMAIN q \/ i = Len(q) + 1
  BY <1>2
<1>4. Once(r)
  BY <1>2, <1>3 DEF Once, Kinds, Queue
<1>5. Kinds(r) = Kinds(q) \cup {x.kind}
  BY <1>2, <1>3 DEF Kinds
<1>. QED
  BY <1>1, <1>4, <1>5 DEF Queue, r

\* A queue of one.
LEMMA Alone ==
    ASSUME NEW S \in SUBSET Accesses, NEW x \in S, x.op \notin Looks
    PROVE  Queue(<<x>>, S) /\ Kinds(<<x>>) = {x.kind}
BY DEF Queue, Once, Kinds

\* The head of a queue is done.
LEMMA Rest ==
    ASSUME NEW S \in SUBSET Accesses, NEW q, Queue(q, S), q # <<>>
    PROVE  /\ Head(q) \in S
           /\ Queue(Tail(q), S)
           /\ Head(q).op \in Looks => Kinds(Tail(q)) = Kinds(q)
           /\ Head(q).op \notin Looks =>
                 /\ Kinds(Tail(q)) = Kinds(q) \ {Head(q).kind} /\ Head(q).kind \in Kinds(q)
                 /\ Queue(Tail(q), {x \in S : x.kind # Head(q).kind})
<1>. DEFINE r == Tail(q)
<1>1. /\ q \in Seq(S) /\ Len(q) \in Nat \ {0} /\ Head(q) = q[1] /\ r \in Seq(S)
      /\ DOMAIN q = 1 .. Len(q) /\ DOMAIN r = 1 .. Len(q) - 1
      /\ \A i \in DOMAIN r : r[i] = q[i + 1] /\ i + 1 \in DOMAIN q /\ 1 < i + 1
      /\ 1 \in DOMAIN q
  BY DEF Queue
<1>2. \A j \in DOMAIN q : j = 1 \/ \E i \in DOMAIN r : j = i + 1
  <2> SUFFICES ASSUME NEW j \in DOMAIN q, j # 1 PROVE \E i \in DOMAIN r : j = i + 1
    OBVIOUS
  <2>1. j - 1 \in DOMAIN r /\ j = (j - 1) + 1
    BY <1>1
  <2>. QED
    BY <2>1
<1>3. Head(q) \in S
  BY <1>1
<1>. HIDE DEF r
<1>4. Once(r)
  <2> SUFFICES ASSUME NEW i \in DOMAIN r, NEW j \in DOMAIN r, i < j, r[i].op \notin Looks
               PROVE  r[j].kind # r[i].kind
    BY DEF Once
  <2>1. i + 1 < j + 1 /\ i + 1 \in DOMAIN q /\ j + 1 \in DOMAIN q
    BY <1>1
  <2>. QED
    BY <1>1, <2>1 DEF Once, Queue
<1>5. ASSUME Head(q).op \in Looks PROVE Kinds(r) = Kinds(q)
  BY <1>1, <1>2, <1>5 DEF Kinds
<1>6. ASSUME Head(q).op \notin Looks
      PROVE  /\ Head(q).kind \in Kinds(q)
             /\ \A i \in DOMAIN r : r[i].kind # Head(q).kind
  BY <1>1, <1>6 DEF Kinds, Once, Queue
<1>7. ASSUME Head(q).op \notin Looks PROVE Kinds(r) = Kinds(q) \ {Head(q).kind}
  <2>1. Kinds(r) \subseteq Kinds(q) \ {Head(q).kind}
    BY <1>1, <1>6, <1>7 DEF Kinds
  <2>2. Kinds(q) \ {Head(q).kind} \subseteq Kinds(r)
    BY <1>1, <1>2, <1>7 DEF Kinds
  <2>. QED
    BY <2>1, <2>2
<1>8. ASSUME Head(q).op \notin Looks PROVE r \in Seq({x \in S : x.kind # Head(q).kind})
  BY <1>1, <1>6, <1>8
<1>. QED
  BY <1>1, <1>3, <1>4, <1>5, <1>6, <1>7, <1>8 DEF Queue, r

LEMMA Wider ==
    ASSUME NEW S, NEW T, S \subseteq T, NEW q, Queue(q, S)
    PROVE  Queue(q, T)
BY DEF Queue

-----------------------------------------------------------------------------
(* The invariant.                                                          *)

Contract == {"operations", "columns"}

\* What a reservation leases of k.
Due(a, k) == IF k = "geometry" /\ a \notin Writer \cup Spatial THEN 0 ELSE want[a][k]

\* The accesses that an operation can have to make at its stage.
Leasing(a) == {x \in Accesses : x.op = "lease" /\ x.kind \in Contract /\ held[a][x.kind] = 0}
Peeking == {x \in Accesses : x.op = "peek" /\ x.kind \in Quota}
Reserving(a) ==
    {x \in Accesses : /\ x.kind \in Quota
                      /\ \/ x.op = "probe"
                         \/ /\ x.op = "lease" /\ x.n = Due(a, x.kind) /\ x.n > 0
                            /\ held[a][x.kind] = 0}
Settling(a) ==
    {x \in Accesses : /\ x.kind \in Quota /\ x.n = batch[a][x.kind] /\ held[a][x.kind] > 0
                      /\ \/ x.op = "keep" /\ x.n > 0 /\ x.n <= held[a][x.kind]
                         \/ x.op = "give" /\ x.n = 0}
Giving(a) == {x \in Accesses : x.op = "give" /\ x.n = 0 /\ held[a][x.kind] > 0}

Proper(a) ==
    CASE stage[a] = "contract" -> Leasing(a)
      [] stage[a] = "peek" -> Peeking
      [] stage[a] = "lease" -> Reserving(a)
      [] stage[a] = "settle" -> Settling(a)
      [] stage[a] \in {"unwind", "close"} -> Giving(a)
      [] OTHER -> {}

\* Leases an operation can have at its stage: what is not yet leased is still
\* in its queue, and so is what it must give back.
Holds(a) ==
    /\ stage[a] = "idle" => \A k \in Kind : held[a][k] = 0
    /\ stage[a] \in {"open", "contract", "peek"} => \A k \in Quota : held[a][k] = 0
    /\ stage[a] = "lease" =>
          \A k \in Quota : held[a][k] = IF k \in Kinds(todo[a]) THEN 0 ELSE Due(a, k)
    /\ stage[a] = "filling" => \A k \in Quota : held[a][k] = Due(a, k)
    /\ stage[a] \in {"settle", "unwind"} =>
          \A k \in Quota : held[a][k] > 0 => k \in Kinds(todo[a])
    /\ stage[a] = "close" => \A k \in Kind : held[a][k] > 0 => k \in Kinds(todo[a])

\* A read asks for the same amount of memory and output, and leases nothing
\* when it can have nothing.
Wants(a) ==
    /\ \A k \in Contract : want[a][k] = 0
    /\ a \notin Writer => want[a]["memory"] = want[a]["output"]
    /\ stage[a] = "peek" => a \notin Writer
    /\ a \notin Writer /\ stage[a] \in {"lease", "filling"} =>
          /\ want[a]["rows"] > 0 /\ want[a]["memory"] > 0
          /\ a \in Spatial => want[a]["geometry"] > 0

\* What a loop has read leaves room for what it returns.
Reads(a) ==
    seen[a] # Unread =>
        /\ todo[a] # <<>> /\ Head(todo[a]).op \notin Looks
        /\ Head(todo[a]).op = "lease" => Head(todo[a]).n > 0
        /\ Head(todo[a]).op # "lease" =>
              seen[a] + held[a][Head(todo[a]).kind] <= Limit[Head(todo[a]).kind]

Local(a) == Queue(todo[a], Proper(a)) /\ Holds(a) /\ Wants(a) /\ Reads(a)

\* What of a batch that is being settled has been consumed.
PaidBy(a, k) == IF stage[a] = "settle" /\ k \notin Kinds(todo[a]) THEN batch[a][k] ELSE 0
Paid(k) == Units([a \in Agent |-> PaidBy(a, k)])

Balanced(k) ==
    /\ IsFiniteSet(OnLoan(k)) /\ counter[k] + Cardinality(OnLoan(k)) + spent[k] = Limit[k]
    /\ IsFiniteSet(Paid(k)) /\ spent[k] = shown[k] + Cardinality(Paid(k))

BudgetInv ==
    /\ BudgetTypeOK
    /\ \A k \in Kind : Balanced(k)
    /\ \A a \in Agent : Local(a)

-----------------------------------------------------------------------------
(* One step of one operation.                                              *)

\* The other operations are where they were.
Frame(a) ==
    \A b \in Agent \ {a} :
        /\ held'[b] = held[b] /\ stage'[b] = stage[b] /\ todo'[b] = todo[b]
        /\ seen'[b] = seen[b] /\ want'[b] = want[b] /\ batch'[b] = batch[b]

\* Nothing is created or lost, and what is shown is paid.
Even(a) ==
    \A k \in Kind :
        /\ counter'[k] + held'[a][k] + spent'[k] = counter[k] + held[a][k] + spent[k]
        /\ spent'[k] + shown[k] + PaidBy(a, k) = spent[k] + shown'[k] + PaidBy(a, k)'

Good(a) == BudgetTypeOK' /\ Frame(a) /\ Even(a) /\ Local(a)'

LEMMA ProperAccesses == \A a : Proper(a) \in SUBSET Accesses
BY DEF Proper, Leasing, Peeking, Reserving, Settling, Giving

LEMMA PaidType ==
    ASSUME BudgetTypeOK
    PROVE  \A k \in Kind, a \in Agent : PaidBy(a, k) \in Nat /\ held[a][k] \in Nat
BY DEF BudgetTypeOK, PaidBy

LEMMA LocalKept ==
    ASSUME NEW a \in Agent, Frame(a), NEW b \in Agent \ {a}, Local(b)
    PROVE  Local(b)' /\ \A k \in Kind : PaidBy(b, k)' = PaidBy(b, k)
<1>1. /\ held'[b] = held[b] /\ stage'[b] = stage[b] /\ todo'[b] = todo[b]
      /\ seen'[b] = seen[b] /\ want'[b] = want[b] /\ batch'[b] = batch[b]
  BY DEF Frame
<1>2. Proper(b)' = Proper(b)
  BY <1>1 DEF Proper, Leasing, Peeking, Reserving, Settling, Giving, Due
<1>3. Queue(todo[b], Proper(b))'
  BY <1>1, <1>2 DEF Local, Queue, Once
<1>4. Kinds(todo[b])' = Kinds(todo[b])
  BY <1>1 DEF Kinds
<1>5. Holds(b)' /\ Wants(b)' /\ Reads(b)'
  BY <1>1, <1>4 DEF Local, Holds, Wants, Reads, Due
<1>. QED
  BY <1>1, <1>3, <1>4, <1>5 DEF Local, PaidBy

LEMMA BalancedKept ==
    ASSUME BudgetTypeOK, BudgetTypeOK', NEW a \in Agent, Frame(a), Even(a),
           \A b \in Agent : Local(b), NEW k \in Kind, Balanced(k)
    PROVE  Balanced(k)'
<1>. DEFINE f == [b \in Agent |-> held[b][k]]
            g == [b \in Agent |-> held'[b][k]]
            p == [b \in Agent |-> PaidBy(b, k)]
            q == [b \in Agent |-> PaidBy(b, k)']
<1>1. f \in [Agent -> Nat] /\ g \in [Agent -> Nat]
  BY DEF BudgetTypeOK
<1>2. p \in [Agent -> Nat] /\ q \in [Agent -> Nat]
  <2>1. \A b \in Agent : PaidBy(b, k) \in Nat
    BY PaidType
  <2>2. \A b \in Agent : PaidBy(b, k)' \in Nat
    BY DEF BudgetTypeOK, PaidBy
  <2>. QED
    BY <2>1, <2>2
<1>3. \A b \in Agent \ {a} : f[b] = g[b] /\ p[b] = q[b]
  BY LocalKept DEF Frame
<1>4. /\ OnLoan(k) = Units(f) /\ OnLoan(k)' = Units(g)
      /\ Paid(k) = Units(p) /\ Paid(k)' = Units(q)
  BY DEF OnLoan, Paid, Units
<1>5. /\ f[a] = held[a][k] /\ g[a] = held'[a][k]
      /\ p[a] = PaidBy(a, k) /\ q[a] = PaidBy(a, k)'
  OBVIOUS
<1>. HIDE DEF f, g, p, q
<1>6. /\ IsFiniteSet(Units(g)) /\ Cardinality(Units(g)) \in Nat /\ Cardinality(Units(f)) \in Nat
      /\ Cardinality(Units(g)) = Cardinality(Units(f)) - f[a] + g[a]
  BY <1>1, <1>3, <1>4, UnitsChange DEF Balanced
<1>7. /\ IsFiniteSet(Units(q)) /\ Cardinality(Units(q)) \in Nat /\ Cardinality(Units(p)) \in Nat
      /\ Cardinality(Units(q)) = Cardinality(Units(p)) - p[a] + q[a]
  BY <1>2, <1>3, <1>4, UnitsChange DEF Balanced
<1>8. /\ counter[k] \in Nat /\ counter'[k] \in Nat /\ spent[k] \in Nat /\ spent'[k] \in Nat
      /\ shown[k] \in Nat /\ shown'[k] \in Nat
      /\ f[a] \in Nat /\ g[a] \in Nat /\ p[a] \in Nat /\ q[a] \in Nat
  BY <1>1, <1>2 DEF BudgetTypeOK
<1>9. Limit[k] \in Nat
  BY ResourceBudgetAssumption
<1>10. counter'[k] + Cardinality(Units(g)) + spent'[k] = Limit[k]
  BY <1>4, <1>5, <1>6, <1>8, <1>9 DEF Balanced, Even
<1>11. spent'[k] = shown'[k] + Cardinality(Units(q))
  <2>1. spent'[k] + shown[k] + p[a] = spent[k] + shown'[k] + q[a]
    BY <1>5 DEF Even
  <2>2. spent[k] = shown[k] + Cardinality(Units(p))
    BY <1>4 DEF Balanced
  <2>3. Cardinality(Units(q)) \in Nat /\ Cardinality(Units(p)) \in Nat
    BY <1>7
  <2>4. Cardinality(Units(q)) = Cardinality(Units(p)) - p[a] + q[a]
    BY <1>7
  <2>5. spent[k] \in Nat /\ spent'[k] \in Nat /\ shown[k] \in Nat /\ shown'[k] \in Nat
    BY <1>8
  <2>6. p[a] \in Nat /\ q[a] \in Nat
    BY <1>8
  <2>. QED
    BY ONLY <2>1, <2>2, <2>3, <2>4, <2>5, <2>6
<1>. QED
  BY <1>4, <1>6, <1>7, <1>10, <1>11 DEF Balanced

LEMMA GoodKeeps ==
    ASSUME BudgetInv, NEW a \in Agent, Good(a)
    PROVE  BudgetInv'
<1>1. \A b \in Agent : Local(b)'
  BY LocalKept DEF BudgetInv, Good
<1>2. \A k \in Kind : Balanced(k)'
  BY BalancedKept DEF BudgetInv, Good
<1>. QED
  BY <1>1, <1>2 DEF BudgetInv, Good

-----------------------------------------------------------------------------
(* Steps that change no counter: the operation goes on.                    *)

\* The types of one operation's state.
LEMMA Slots ==
    ASSUME BudgetTypeOK, NEW a \in Agent
    PROVE  /\ held[a] \in [Kind -> Nat] /\ want[a] \in [Kind -> Nat] /\ batch[a] \in [Kind -> Nat]
           /\ seen[a] \in Nat \cup {Unread} /\ todo[a] \in Seq(Accesses)
           /\ counter \in [Kind -> Nat] /\ spent \in [Kind -> Nat] /\ shown \in [Kind -> Nat]
           /\ Kind = Contract \cup Quota /\ Contract \cap Quota = {}
BY DEF BudgetTypeOK, Kind, Contract, Quota

\* No more to do at a stage without accesses.
LEMMA NothingToDo ==
    ASSUME NEW a \in Agent, Local(a)
    PROVE  /\ stage[a] \in {"idle", "open", "filling"} => todo[a] = <<>>
           /\ todo[a] = <<>> => seen[a] = Unread /\ Kinds(todo[a]) = {}
<1>1. todo[a] \in Seq(Proper(a))
  BY DEF Local, Queue
<1>2. ASSUME stage[a] \in {"idle", "open", "filling"} PROVE todo[a] = <<>>
  BY <1>1, <1>2 DEF Proper
<1>. QED
  BY <1>2, EmptyQueue DEF Local, Reads

-----------------------------------------------------------------------------
(* The queues that are built.                                              *)

LEMMA AccessType ==
    \A op \in {"peek", "probe", "lease", "keep", "give"}, k \in Kind, n \in Nat :
        /\ Access(op, k, n) \in Accesses
        /\ Access(op, k, n).op = op /\ Access(op, k, n).kind = k /\ Access(op, k, n).n = n
BY DEF Access, Accesses

\* A queue that gives back what is held of K.
Gives(a, kept, K, q) ==
    Queue(q, Giving(a)) /\ Kinds(q) = {k \in K \ kept : held[a][k] > 0}

LEMMA GiveJoins ==
    ASSUME BudgetTypeOK, NEW a \in Agent, NEW kept, NEW K \in SUBSET Kind, NEW k \in Kind \ K,
           NEW q, Gives(a, kept, K, q)
    PROVE  Gives(a, kept, K \cup {k},
                 q \o When(held[a][k] > 0 /\ k \notin kept, Access("give", k, 0)))
<1>. DEFINE x == Access("give", k, 0)
<1>1. CASE held[a][k] > 0 /\ k \notin kept
  <2>1. x \in Giving(a) /\ x.op \notin Looks /\ x.kind = k
    BY <1>1, AccessType DEF Giving, Looks
  <2>2. Giving(a) \in SUBSET Accesses
    BY DEF Giving
  <2>. HIDE DEF x
  <2>3. Queue(q \o <<x>>, Giving(a)) /\ Kinds(q \o <<x>>) = Kinds(q) \cup {k}
    BY <2>1, <2>2, Joins DEF Gives
  <2>. QED
    BY <1>1, <2>3 DEF When, Gives, x
<1>2. CASE ~(held[a][k] > 0 /\ k \notin kept)
  <2>1. q \o <<>> = q
    BY DEF Queue, Gives
  <2>. QED
    BY <1>2, <2>1 DEF When, Gives
<1>. QED
  BY <1>1, <1>2

\* Dropping leases gives back each that is held, once.
LEMMA DropsQueue ==
    ASSUME BudgetTypeOK, NEW a \in Agent, NEW kept
    PROVE  Gives(a, kept, Kind, Drops(a, kept))
<1>. DEFINE G(k) == When(held[a][k] > 0 /\ k \notin kept, Access("give", k, 0))
            q1 == <<>> \o G("operations")
            q2 == q1 \o G("columns")
            q3 == q2 \o G("rows")
            q4 == q3 \o G("memory")
            q5 == q4 \o G("output")
            q6 == q5 \o G("geometry")
            K1 == {"operations"}
            K2 == K1 \cup {"columns"}
            K3 == K2 \cup {"rows"}
            K4 == K3 \cup {"memory"}
            K5 == K4 \cup {"output"}
            K6 == K5 \cup {"geometry"}
<1>1. Kind = {"operations", "columns", "rows", "memory", "output", "geometry"}
  BY DEF Kind
<1>2. Drops(a, kept) = q6
  <2>1. <<>> \o G("operations") = G("operations")
    BY DEF When
  <2>. QED
    BY <2>1 DEF Drops
<1>3. Gives(a, kept, {}, <<>>)
  BY EmptyQueue DEF Gives
<1>4. Gives(a, kept, K1, q1)
  <2>1. Gives(a, kept, {} \cup {"operations"}, q1)
    BY <1>1, <1>3, GiveJoins
  <2>. QED
    BY <2>1
<1>5. Gives(a, kept, K2, q2)
  BY <1>1, <1>4, GiveJoins
<1>6. Gives(a, kept, K3, q3)
  BY <1>1, <1>5, GiveJoins
<1>7. Gives(a, kept, K4, q4)
  BY <1>1, <1>6, GiveJoins
<1>8. Gives(a, kept, K5, q5)
  BY <1>1, <1>7, GiveJoins
<1>9. Gives(a, kept, K6, q6)
  BY <1>1, <1>8, GiveJoins
<1>10. K6 = Kind
  BY <1>1
<1>. QED
  BY <1>2, <1>9, <1>10

Lists(q, S, K) == Queue(q, S) /\ Kinds(q) = K

LEMMA ListJoins ==
    ASSUME NEW S \in SUBSET Accesses, NEW q, NEW K, Lists(q, S, K),
           NEW op \in {"lease", "keep", "give"}, NEW k \in Kind \ K, NEW n \in Nat,
           Access(op, k, n) \in S
    PROVE  Lists(q \o <<Access(op, k, n)>>, S, K \cup {k})
<1>. DEFINE x == Access(op, k, n)
<1>1. x \in S /\ x.op \notin Looks /\ x.kind = k
  BY AccessType DEF Looks
<1>. HIDE DEF x
<1>2. Queue(q \o <<x>>, S) /\ Kinds(q \o <<x>>) = Kinds(q) \cup {k}
  BY <1>1, Joins DEF Lists
<1>. QED
  BY <1>2 DEF Lists, x

\* An access is queued for an amount that is not zero.
LEMMA AmountJoins ==
    ASSUME NEW S \in SUBSET Accesses, NEW q, NEW K, Lists(q, S, K), NEW m \in Nat,
           NEW op \in {"lease", "keep", "give"}, NEW k \in Kind \ K, NEW n \in Nat,
           m > 0 => Access(op, k, n) \in S
    PROVE  Lists(q \o When(m > 0, Access(op, k, n)), S, IF m > 0 THEN K \cup {k} ELSE K)
<1>1. CASE m > 0
  BY <1>1, ListJoins DEF When
<1>2. CASE ~(m > 0)
  <2>1. q \o <<>> = q
    BY DEF Lists, Queue
  <2>. QED
    BY <1>2, <2>1 DEF When
<1>. QED
  BY <1>1, <1>2

LEMMA WriteLeasesQueue ==
    ASSUME NEW S \in SUBSET Accesses, NEW n \in Nat \ {0}, NEW bytes \in Nat, NEW parts \in Nat,
           \A k \in Quota, m \in Nat : Access("probe", k, m) \in S,
           Access("lease", "rows", n) \in S,
           bytes > 0 => Access("lease", "output", bytes) \in S /\ Access("lease", "memory", bytes) \in S,
           parts > 0 => Access("lease", "geometry", parts) \in S
    PROVE  /\ Queue(WriteLeases(n, bytes, parts), S)
           /\ \A k \in Quota : k \in Kinds(WriteLeases(n, bytes, parts)) <=>
                 CASE k = "rows" -> TRUE [] k = "geometry" -> parts > 0 [] OTHER -> bytes > 0
<1>. DEFINE q1 == <<Access("probe", "output", bytes), Access("probe", "memory", bytes),
                    Access("probe", "geometry", parts), Access("lease", "rows", n)>>
            q2 == q1 \o When(bytes > 0, Access("lease", "output", bytes))
            q3 == q2 \o When(bytes > 0, Access("lease", "memory", bytes))
            q4 == q3 \o When(parts > 0, Access("lease", "geometry", parts))
            K1 == {"rows"}
            K2 == IF bytes > 0 THEN K1 \cup {"output"} ELSE K1
            K3 == IF bytes > 0 THEN K2 \cup {"memory"} ELSE K2
            K4 == IF parts > 0 THEN K3 \cup {"geometry"} ELSE K3
<1>1. Lists(q1, S, K1)
  <2>1. /\ Access("probe", "output", bytes) \in S /\ Access("probe", "memory", bytes) \in S
        /\ Access("probe", "geometry", parts) \in S /\ Access("lease", "rows", n) \in S
    BY DEF Quota
  <2>2. q1 \in Seq(S) /\ DOMAIN q1 = 1 .. 4
    BY <2>1
  <2>3. /\ q1[1].op = "probe" /\ q1[2].op = "probe" /\ q1[3].op = "probe"
        /\ q1[4].op = "lease" /\ q1[4].kind = "rows"
    BY DEF Access
  <2>. HIDE DEF q1
  <2>4. Kinds(q1) = {"rows"}
    BY <2>2, <2>3 DEF Kinds, Looks
  <2>5. Once(q1)
    BY <2>2, <2>3 DEF Once, Looks
  <2>. QED
    BY <2>2, <2>4, <2>5 DEF Lists, Queue
<1>2. {"rows", "memory", "output", "geometry"} \subseteq Kind
  BY DEF Kind
<1>3. Lists(q2, S, K2)
  BY <1>1, <1>2, AmountJoins
<1>4. Lists(q3, S, K3)
  BY <1>2, <1>3, AmountJoins
<1>5. Lists(q4, S, K4)
  BY <1>2, <1>4, AmountJoins
<1>6. WriteLeases(n, bytes, parts) = q4
  BY DEF WriteLeases
<1>. QED
  BY <1>5, <1>6 DEF Lists, Quota

\* The first three accesses of a read that has limits.
LEMMA ThreeQueue ==
    ASSUME NEW S \in SUBSET Accesses, NEW op \in {"lease", "keep"}, NEW n \in Nat, NEW bytes \in Nat,
           Access(op, "rows", n) \in S, Access(op, "memory", bytes) \in S, Access(op, "output", bytes) \in S
    PROVE  Lists(<<Access(op, "rows", n), Access(op, "memory", bytes), Access(op, "output", bytes)>>,
                 S, {"rows", "memory", "output"})
<1>. DEFINE q == <<Access(op, "rows", n), Access(op, "memory", bytes), Access(op, "output", bytes)>>
<1>1. q \in Seq(S) /\ DOMAIN q = 1 .. 3
  OBVIOUS
<1>2. /\ q[1].op \notin Looks /\ q[2].op \notin Looks /\ q[3].op \notin Looks
      /\ q[1].kind = "rows" /\ q[2].kind = "memory" /\ q[3].kind = "output"
  BY DEF Access, Looks
<1>. HIDE DEF q
<1>3. Kinds(q) = {"rows", "memory", "output"}
  BY <1>1, <1>2 DEF Kinds
<1>4. Once(q)
  <2> SUFFICES ASSUME NEW i \in 1 .. 3, NEW j \in 1 .. 3, i < j PROVE q[j].kind # q[i].kind
    BY <1>1 DEF Once
  <2>1. (i = 1 /\ j = 2) \/ (i = 1 /\ j = 3) \/ (i = 2 /\ j = 3)
    OBVIOUS
  <2>. QED
    BY <1>2, <2>1
<1>. QED
  BY <1>1, <1>3, <1>4 DEF Lists, Queue, q

LEMMA PeeksQueue ==
    ASSUME NEW a
    PROVE  Lists(<<Access("peek", "rows", 0), Access("peek", "memory", 0), Access("peek", "output", 0)>>
                 \o When(a \in Spatial, Access("peek", "geometry", 0)), Peeking, {})
<1>. DEFINE q == <<Access("peek", "rows", 0), Access("peek", "memory", 0), Access("peek", "output", 0)>>
                 \o When(a \in Spatial, Access("peek", "geometry", 0))
<1>1. \A k \in Quota : Access("peek", k, 0) \in Peeking
  BY DEF Access, Accesses, Peeking, Quota, Kind
<1>2. q \in Seq(Peeking)
  BY <1>1 DEF When, Quota
<1>. HIDE DEF q
<1>3. \A i \in DOMAIN q : q[i].op \in Looks
  BY <1>2 DEF Peeking, Looks
<1>. QED
  BY <1>2, <1>3 DEF Lists, Queue, Once, Kinds, q

LEMMA ReadLeasesQueue ==
    ASSUME BudgetTypeOK, NEW a \in Agent, NEW S \in SUBSET Accesses,
           want[a]["memory"] = want[a]["output"],
           \A k \in Quota : Access("lease", k, want[a][k]) \in S \/ (k = "geometry" /\ a \notin Spatial)
    PROVE  /\ Queue(ReadLeases(a), S)
           /\ \A k \in Quota : k \in Kinds(ReadLeases(a)) <=> k # "geometry" \/ a \in Spatial
<1>. DEFINE q == <<Access("lease", "rows", want[a]["rows"]), Access("lease", "memory", want[a]["memory"]),
                   Access("lease", "output", want[a]["output"])>>
<1>1. \A k \in Quota : want[a][k] \in Nat
  BY Slots
<1>2. Lists(q, S, {"rows", "memory", "output"})
  <2>1. /\ Access("lease", "rows", want[a]["rows"]) \in S
        /\ Access("lease", "memory", want[a]["memory"]) \in S
        /\ Access("lease", "output", want[a]["memory"]) \in S
    BY DEF Quota
  <2>. QED
    BY <1>1, <2>1, ThreeQueue DEF Quota
<1>. HIDE DEF q
<1>3. CASE a \in Spatial
  <2>1. Lists(q \o <<Access("lease", "geometry", want[a]["geometry"])>>, S,
              {"rows", "memory", "output"} \cup {"geometry"})
    BY <1>1, <1>2, <1>3, ListJoins DEF Quota, Kind
  <2>. QED
    BY <1>3, <2>1 DEF ReadLeases, When, Lists, Quota, q
<1>4. CASE a \notin Spatial
  <2>1. q \o <<>> = q
    BY <1>2 DEF Lists, Queue
  <2>. QED
    BY <1>2, <1>4, <2>1 DEF ReadLeases, When, Lists, Quota, q
<1>. QED
  BY <1>3, <1>4

LEMMA ReadSettlesQueue ==
    ASSUME NEW a, NEW S \in SUBSET Accesses, NEW n \in Nat, NEW bytes \in Nat, NEW parts \in Nat,
           Access("keep", "rows", n) \in S,
           Access("keep", "memory", bytes) \in S, Access("keep", "output", bytes) \in S,
           a \in Spatial /\ parts = 0 => Access("give", "geometry", 0) \in S,
           a \in Spatial /\ parts > 0 => Access("keep", "geometry", parts) \in S
    PROVE  /\ Queue(ReadSettles(a, n, bytes, parts), S)
           /\ \A k \in Quota : k \in Kinds(ReadSettles(a, n, bytes, parts))
                                  <=> k # "geometry" \/ a \in Spatial
<1>. DEFINE q == <<Access("keep", "rows", n), Access("keep", "memory", bytes),
                   Access("keep", "output", bytes)>>
            K == {"rows", "memory", "output"}
            give == Access("give", "geometry", 0)
            keep == Access("keep", "geometry", parts)
<1>1. Lists(q, S, K)
  BY ThreeQueue
<1>2. "geometry" \in Kind \ K
  BY DEF Kind
<1>3. ReadSettles(a, n, bytes, parts)
        = q \o When(a \in Spatial /\ parts = 0, give) \o When(a \in Spatial /\ parts > 0, keep)
  BY DEF ReadSettles
<1>4. q \in Seq(S) /\ q \o <<>> = q
  BY <1>1 DEF Lists, Queue
<1>5. CASE a \notin Spatial
  BY <1>1, <1>3, <1>4, <1>5 DEF When, Lists, Quota
<1>6. CASE a \in Spatial /\ parts = 0
  <2>1. Lists(q \o <<give>>, S, K \cup {"geometry"})
    BY <1>1, <1>2, <1>6, ListJoins
  <2>2. (q \o <<give>>) \o <<>> = q \o <<give>>
    BY <2>1 DEF Lists, Queue
  <2>. QED
    BY <1>3, <1>6, <2>1, <2>2 DEF When, Lists, Quota
<1>7. CASE a \in Spatial /\ parts > 0
  <2>1. Lists(q \o <<keep>>, S, K \cup {"geometry"})
    BY <1>1, <1>2, <1>7, ListJoins
  <2>2. ReadSettles(a, n, bytes, parts) = (q \o <<>>) \o <<keep>>
    BY <1>3, <1>7 DEF When
  <2>3. ReadSettles(a, n, bytes, parts) = q \o <<keep>>
    BY <1>4, <2>2
  <2>. QED
    BY <1>7, <2>1, <2>3 DEF Lists, Quota
<1>. QED
  BY <1>5, <1>6, <1>7

LEMMA WriteSettlesQueue ==
    ASSUME BudgetTypeOK, NEW a \in Agent, NEW S \in SUBSET Accesses,
           \A k \in {"rows", "output", "geometry"} : held[a][k] > 0 => Access("keep", k, held[a][k]) \in S,
           held[a]["memory"] > 0 => Access("give", "memory", 0) \in S
    PROVE  /\ Queue(WriteSettles(a), S)
           /\ \A k \in Quota : k \in Kinds(WriteSettles(a)) <=> held[a][k] > 0
<1>. DEFINE h(k) == held[a][k]
            q0 == <<>>
            q1 == q0 \o When(h("rows") > 0, Access("keep", "rows", h("rows")))
            q2 == q1 \o When(h("output") > 0, Access("keep", "output", h("output")))
            q3 == q2 \o When(h("memory") > 0, Access("give", "memory", 0))
            q4 == q3 \o When(h("geometry") > 0, Access("keep", "geometry", h("geometry")))
            K1 == IF h("rows") > 0 THEN {} \cup {"rows"} ELSE {}
            K2 == IF h("output") > 0 THEN K1 \cup {"output"} ELSE K1
            K3 == IF h("memory") > 0 THEN K2 \cup {"memory"} ELSE K2
            K4 == IF h("geometry") > 0 THEN K3 \cup {"geometry"} ELSE K3
<1>1. {"rows", "memory", "output", "geometry"} \subseteq Kind /\ \A k \in Kind : h(k) \in Nat
  BY Slots DEF Kind
<1>2. Lists(q0, S, {})
  BY EmptyQueue DEF Lists
<1>3. Lists(q1, S, K1)
  BY <1>1, <1>2, AmountJoins
<1>4. Lists(q2, S, K2)
  BY <1>1, <1>3, AmountJoins
<1>5. Lists(q3, S, K3)
  BY <1>1, <1>4, AmountJoins
<1>6. Lists(q4, S, K4)
  <2>1. "geometry" \in Kind \ K3 /\ h("geometry") \in Nat
    BY <1>1
  <2>2. h("geometry") > 0 => Access("keep", "geometry", h("geometry")) \in S
    OBVIOUS
  <2>. HIDE DEF K3, q3, h
  <2>. QED
    BY <1>5, <2>1, <2>2, AmountJoins
<1>7. WriteSettles(a) = q4
  <2>1. q1 = When(h("rows") > 0, Access("keep", "rows", h("rows")))
    BY DEF When
  <2>. QED
    BY <2>1 DEF WriteSettles
<1>. QED
  BY <1>6, <1>7 DEF Lists, Quota

-----------------------------------------------------------------------------
(* Steps of control.                                                       *)

Stage == {"idle", "contract", "open", "peek", "lease", "filling", "settle", "unwind", "close"}

\* The operation enters a stage with a queue of accesses.
Enters(a, to, q) ==
    /\ stage' = [stage EXCEPT ![a] = to]
    /\ todo' = [todo EXCEPT ![a] = q]
    /\ seen' = seen \/ seen' = [seen EXCEPT ![a] = Unread]
    /\ UNCHANGED <<counter, held, spent>>

\* What it asks for, and the batch it settles, are its own.
Own(a) ==
    /\ want' \in [Agent -> [Kind -> Nat]] /\ batch' \in [Agent -> [Kind -> Nat]]
    /\ \A b \in Agent \ {a} : want'[b] = want[b] /\ batch'[b] = batch[b]

LEMMA EntersGood ==
    ASSUME BudgetInv, NEW a \in Agent, NEW to \in Stage, NEW q, Enters(a, to, q),
           seen[a] = Unread \/ seen' = [seen EXCEPT ![a] = Unread],
           Own(a), shown' \in [Kind -> Nat],
           Queue(q, Proper(a)'), Holds(a)', Wants(a)',
           \A k \in Kind : shown[k] + PaidBy(a, k) = shown'[k] + PaidBy(a, k)'
    PROVE  Good(a)
<1>1. BudgetTypeOK
  BY DEF BudgetInv
<1>2. /\ \A b \in Agent \ {a} : stage'[b] = stage[b] /\ todo'[b] = todo[b]
      /\ \A b \in Agent \ {a} : seen'[b] = seen[b]
      /\ stage'[a] = to /\ todo'[a] = q /\ seen'[a] = Unread
  BY <1>1 DEF BudgetTypeOK, Enters
<1>3. q \in Seq(Accesses)
  <2>1. Proper(a)' \in SUBSET Accesses
    BY DEF Proper, Leasing, Peeking, Reserving, Settling, Giving
  <2>2. Queue(q, Accesses)
    BY <2>1, Wider
  <2>. QED
    BY <2>2 DEF Queue
<1>4. BudgetTypeOK'
  BY <1>1, <1>3 DEF BudgetTypeOK, Enters, Own, Stage
<1>5. Frame(a)
  BY <1>2 DEF Frame, Own, Enters
<1>6. Even(a)
  <2> SUFFICES ASSUME NEW k \in Kind
               PROVE  /\ counter'[k] + held'[a][k] + spent'[k] = counter[k] + held[a][k] + spent[k]
                      /\ spent'[k] + shown[k] + PaidBy(a, k) = spent[k] + shown'[k] + PaidBy(a, k)'
    BY DEF Even
  <2>1. /\ spent[k] \in Nat /\ shown[k] \in Nat /\ shown'[k] \in Nat /\ PaidBy(a, k) \in Nat
        /\ PaidBy(a, k)' \in Nat
    BY <1>1, <1>4 DEF BudgetTypeOK, PaidBy
  <2>2. shown[k] + PaidBy(a, k) = shown'[k] + PaidBy(a, k)' /\ spent'[k] = spent[k]
    BY DEF Enters
  <2>. QED
    BY <2>1, <2>2 DEF Enters
<1>7. Local(a)'
  BY <1>2 DEF Local, Reads, Enters, Queue, Once
<1>. QED
  BY <1>4, <1>5, <1>6, <1>7 DEF Good

\* A step of control that shows nothing and leaves a batch alone.
LEMMA Unpaid ==
    ASSUME NEW a \in Agent, stage[a] # "settle", stage'[a] # "settle", shown' = shown, NEW k
    PROVE  shown[k] + PaidBy(a, k) = shown'[k] + PaidBy(a, k)'
BY DEF PaidBy

LEMMA OpenGood ==
    ASSUME BudgetInv, NEW a \in Agent, NEW c \in 0 .. MaxColumns, Open(a, c)
    PROVE  Good(a)
<1>. DEFINE q == <<Access("lease", "operations", 1), Access("lease", "columns", c)>>
<1>1. BudgetTypeOK /\ Local(a)
  BY DEF BudgetInv
<1>2. stage[a] = "idle" /\ Enters(a, "contract", q) /\ shown' = shown /\ Own(a)
  BY <1>1 DEF Open, Start, Enters, Own, BudgetTypeOK
<1>3. stage'[a] = "contract"
  BY <1>1, <1>2 DEF BudgetTypeOK, Enters
<1>4. \A k \in Kind : held'[a][k] = 0
  BY <1>1, <1>2 DEF Local, Holds, Enters
<1>5. Queue(q, Leasing(a)') /\ Kinds(q) = Contract
  <2>1. c \in Nat
    BY ResourceBudgetAssumption
  <2>2. Access("lease", "operations", 1) \in Leasing(a)' /\ Access("lease", "columns", c) \in Leasing(a)'
    BY <1>4, <2>1 DEF Leasing, Access, Accesses, Kind, Contract
  <2>3. q \in Seq(Leasing(a)') /\ DOMAIN q = 1 .. 2
    BY <2>2
  <2>4. q[1].op = "lease" /\ q[2].op = "lease" /\ q[1].kind = "operations" /\ q[2].kind = "columns"
    BY DEF Access
  <2>. HIDE DEF q
  <2>5. Once(q)
    BY <2>3, <2>4 DEF Once
  <2>6. Kinds(q) = {"operations", "columns"}
    BY <2>3, <2>4 DEF Kinds, Looks
  <2>. QED
    BY <2>3, <2>5, <2>6 DEF Queue, Contract
<1>6. Queue(q, Proper(a)')
  BY <1>3, <1>5 DEF Proper
<1>. HIDE DEF q
<1>7. Holds(a)' /\ Wants(a)'
  BY <1>1, <1>2, <1>3, <1>4 DEF Holds, Wants, Local, Open, Kind, Quota
<1>8. seen[a] = Unread
  BY <1>1, <1>2, NothingToDo
<1>. QED
  BY <1>1, <1>2, <1>3, <1>6, <1>7, <1>8, Unpaid, EntersGood DEF Stage, BudgetTypeOK

\* The steps that need no queue: the stage before is over.
LEMMA OpenedGood ==
    ASSUME BudgetInv, NEW a \in Agent, Opened(a) \/ Reserved(a) \/ Closed(a)
    PROVE  Good(a)
<1>. DEFINE to == IF stage[a] = "contract" THEN "open" ELSE IF stage[a] = "lease" THEN "filling" ELSE "idle"
<1>1. BudgetTypeOK /\ Local(a)
  BY DEF BudgetInv
<1>2. /\ Enters(a, to, <<>>) /\ shown' = shown /\ want' = want /\ batch' = batch /\ todo[a] = <<>>
      /\ stage[a] \in {"contract", "lease", "close"}
  BY DEF Opened, Reserved, Closed, Start, Enters
<1>3. stage'[a] = to /\ Own(a) /\ to \in {"open", "filling", "idle"}
  BY <1>1, <1>2 DEF BudgetTypeOK, Enters, Own
<1>4. seen[a] = Unread /\ Kinds(todo[a]) = {}
  BY <1>1, <1>2, NothingToDo
<1>5. Holds(a)'
  <2>1. held'[a] = held[a] /\ held[a] \in [Kind -> Nat] /\ \A k : Due(a, k)' = Due(a, k)
    BY <1>1, <1>2, Slots DEF Enters, Due
  <2>2. CASE stage[a] = "contract"
    BY <1>1, <1>3, <2>1, <2>2 DEF Local, Holds
  <2>3. CASE stage[a] = "lease"
    BY <1>1, <1>3, <1>4, <2>1, <2>3 DEF Local, Holds
  <2>4. CASE stage[a] = "close"
    BY <1>1, <1>3, <1>4, <2>1, <2>4 DEF Local, Holds
  <2>. QED
    BY <1>2, <2>2, <2>3, <2>4
<1>6. Wants(a)'
  BY <1>1, <1>2, <1>3 DEF Local, Wants
<1>7. Queue(<<>>, Proper(a)')
  BY EmptyQueue
<1>8. stage'[a] # "settle" /\ stage[a] # "settle"
  BY <1>2, <1>3
<1>. HIDE DEF to
<1>. QED
  BY <1>1, <1>2, <1>3, <1>4, <1>5, <1>6, <1>7, <1>8, Unpaid, EntersGood DEF Stage, BudgetTypeOK

LEMMA ReserveReadGood ==
    ASSUME BudgetInv, NEW a \in Agent, ReserveRead(a)
    PROVE  Good(a)
<1>. DEFINE q == <<Access("peek", "rows", 0), Access("peek", "memory", 0), Access("peek", "output", 0)>>
                 \o When(a \in Spatial, Access("peek", "geometry", 0))
            w == [Nothing EXCEPT !["rows"] = BatchRows, !["memory"] = MaxBytes,
                                 !["output"] = MaxBytes, !["geometry"] = Limit["geometry"]]
<1>1. BudgetTypeOK /\ Local(a)
  BY DEF BudgetInv
<1>2. /\ stage[a] = "open" /\ Enters(a, "peek", q) /\ shown' = shown /\ batch' = batch
      /\ want' = [want EXCEPT ![a] = w] /\ a \notin Writer
  BY DEF ReserveRead, Start, Enters
<1>3. w \in [Kind -> Nat] /\ w["memory"] = w["output"] /\ \A k \in Contract : w[k] = 0
  BY ResourceBudgetAssumption DEF Nothing, Kind, Contract
<1>. HIDE DEF w, q
<1>4. stage'[a] = "peek" /\ Own(a) /\ want'[a] = w
  BY <1>1, <1>2, <1>3 DEF BudgetTypeOK, Enters, Own
<1>5. seen[a] = Unread
  BY <1>1, <1>2, NothingToDo
<1>6. Holds(a)'
  BY <1>1, <1>2, <1>4 DEF Local, Holds, Enters
<1>7. Wants(a)'
  BY <1>2, <1>3, <1>4 DEF Wants
<1>8. Queue(q, Proper(a)')
  BY <1>4, PeeksQueue DEF Proper, Lists, q
<1>. QED
  BY <1>1, <1>2, <1>4, <1>5, <1>6, <1>7, <1>8, Unpaid, EntersGood DEF Stage, BudgetTypeOK

LEMMA PeekedGood ==
    ASSUME BudgetInv, NEW a \in Agent, Peeked(a)
    PROVE  Good(a)
<1>1. BudgetTypeOK /\ Local(a)
  BY DEF BudgetInv
<1>2. /\ stage[a] = "peek" /\ todo[a] = <<>> /\ shown' = shown /\ batch' = batch /\ want' = want
      /\ Own(a)
  BY <1>1 DEF Peeked, BudgetTypeOK, Own
<1>3. seen[a] = Unread
  BY <1>1, <1>2, NothingToDo
<1>4. \A k \in Quota : held[a][k] = 0
  BY <1>1, <1>2 DEF Local, Holds
<1>5. CASE Enters(a, "unwind", <<>>)
  <2>1. stage'[a] = "unwind"
    BY <1>1, <1>5 DEF BudgetTypeOK, Enters
  <2>2. Holds(a)' /\ Wants(a)' /\ Queue(<<>>, Proper(a)')
    BY <1>1, <1>2, <1>4, <1>5, <2>1, EmptyQueue DEF Local, Holds, Wants, Enters
  <2>. QED
    BY <1>1, <1>2, <1>3, <1>5, <2>1, <2>2, Unpaid, EntersGood DEF Stage, BudgetTypeOK
<1>6. ASSUME Enters(a, "lease", ReadLeases(a)), a \notin Writer,
             \A k \in Quota : want[a][k] # 0 \/ (k = "geometry" /\ a \notin Spatial)
      PROVE  Good(a)
  <2>1. stage'[a] = "lease" /\ held' = held
    BY <1>1, <1>6 DEF BudgetTypeOK, Enters
  <2>2. want[a]["memory"] = want[a]["output"] /\ \A k \in Quota : want[a][k] \in Nat
    BY <1>1, <1>6, Slots DEF Local, Wants
  <2>3. \A k \in Quota : Access("lease", k, want[a][k]) \in Reserving(a)'
                            \/ (k = "geometry" /\ a \notin Spatial)
    BY <1>2, <1>4, <1>6, <2>1, <2>2 DEF Reserving, Access, Accesses, Due, Kind, Quota
  <2>4. Reserving(a)' \in SUBSET Accesses
    BY DEF Reserving
  <2>5. /\ Queue(ReadLeases(a), Reserving(a)')
        /\ \A k \in Quota : k \in Kinds(ReadLeases(a)) <=> k # "geometry" \/ a \in Spatial
    BY <1>1, <2>2, <2>3, <2>4, ReadLeasesQueue
  <2>6. todo'[a] = ReadLeases(a)
    BY <1>1, <1>6 DEF BudgetTypeOK, Enters
  <2>7. Holds(a)'
    BY <1>2, <1>4, <1>6, <2>1, <2>5, <2>6 DEF Holds, Due
  <2>8. Wants(a)'
    BY <1>1, <1>2, <1>6, <2>2 DEF Local, Wants, Quota
  <2>9. Queue(ReadLeases(a), Proper(a)')
    BY <2>1, <2>5 DEF Proper
  <2>. QED
    BY <1>1, <1>2, <1>3, <1>6, <2>1, <2>7, <2>8, <2>9, Unpaid, EntersGood DEF Stage, BudgetTypeOK
<1>7. a \notin Writer
  BY <1>1, <1>2 DEF Local, Wants
<1>. QED
  BY <1>2, <1>5, <1>6, <1>7 DEF Peeked, Start, Enters, Quota

LEMMA ReserveWriteGood ==
    ASSUME BudgetInv, NEW a \in Agent, NEW n \in 0 .. BatchRows, NEW bytes \in 0 .. MaxBytes,
           NEW parts \in 0 .. MaxParts, ReserveWrite(a, n, bytes, parts)
    PROVE  Good(a)
<1>. DEFINE q == IF n = 0 THEN <<>> ELSE WriteLeases(n, bytes, parts)
            w == IF n = 0 THEN Nothing
                 ELSE [Nothing EXCEPT !["rows"] = n, !["memory"] = bytes,
                                      !["output"] = bytes, !["geometry"] = parts]
<1>1. BudgetTypeOK /\ Local(a) /\ n \in Nat /\ bytes \in Nat /\ parts \in Nat
  BY ResourceBudgetAssumption DEF BudgetInv
<1>2. /\ stage[a] = "open" /\ Enters(a, "lease", q) /\ shown' = shown /\ batch' = batch
      /\ want' = [want EXCEPT ![a] = w] /\ a \in Writer
  BY DEF ReserveWrite, Start, Enters
<1>3. w \in [Kind -> Nat] /\ \A k \in Contract : w[k] = 0
  BY <1>1 DEF Nothing, Kind, Contract
<1>4. stage'[a] = "lease" /\ todo'[a] = q /\ Own(a) /\ want'[a] = w /\ held' = held
  BY <1>1, <1>2, <1>3 DEF BudgetTypeOK, Enters, Own
<1>5. seen[a] = Unread /\ \A k \in Quota : held[a][k] = 0
  BY <1>1, <1>2, NothingToDo DEF Local, Holds
<1>6. \A k : Due(a, k)' = w[k]
  BY <1>2, <1>4 DEF Due
<1>7. Queue(q, Reserving(a)') /\ \A k \in Quota : k \in Kinds(q) <=> w[k] > 0
  <2>1. CASE n = 0
    BY <2>1, EmptyQueue DEF Nothing, Quota, Kind
  <2>2. CASE n # 0
    <3>1. \A k \in Quota, m \in Nat : Access("probe", k, m) \in Reserving(a)'
      BY DEF Reserving, Access, Accesses, Kind, Quota
    <3>2. \A k \in Quota : w[k] > 0 => Access("lease", k, w[k]) \in Reserving(a)'
      BY <1>3, <1>4, <1>5, <1>6 DEF Reserving, Access, Accesses, Kind, Quota
    <3>3. w["rows"] = n /\ w["memory"] = bytes /\ w["output"] = bytes /\ w["geometry"] = parts
      BY <2>2 DEF Nothing, Kind
    <3>4. Reserving(a)' \in SUBSET Accesses
      BY DEF Reserving
    <3>. HIDE DEF w
    <3>5. /\ Access("lease", "rows", n) \in Reserving(a)'
          /\ bytes > 0 => /\ Access("lease", "output", bytes) \in Reserving(a)'
                          /\ Access("lease", "memory", bytes) \in Reserving(a)'
          /\ parts > 0 => Access("lease", "geometry", parts) \in Reserving(a)'
      BY <1>1, <2>2, <3>2, <3>3 DEF Quota
    <3>6. /\ Queue(WriteLeases(n, bytes, parts), Reserving(a)')
          /\ \A k \in Quota : k \in Kinds(WriteLeases(n, bytes, parts)) <=>
                CASE k = "rows" -> TRUE [] k = "geometry" -> parts > 0 [] OTHER -> bytes > 0
      BY <1>1, <2>2, <3>1, <3>4, <3>5, WriteLeasesQueue
    <3>. QED
      BY <1>1, <2>2, <3>3, <3>6 DEF Quota
  <2>. QED
    BY <2>1, <2>2
<1>. HIDE DEF w, q
<1>8. Holds(a)'
  BY <1>3, <1>4, <1>5, <1>6, <1>7 DEF Holds, Kind, Quota
<1>9. Wants(a)'
  BY <1>2, <1>3, <1>4 DEF Wants
<1>10. Queue(q, Proper(a)')
  BY <1>4, <1>7 DEF Proper
<1>. QED
  BY <1>1, <1>2, <1>4, <1>5, <1>8, <1>9, <1>10, Unpaid, EntersGood DEF Stage, BudgetTypeOK

\* A batch begins to be settled: whatever is leased is in the queue, and what
\* is not leased is not in the batch.
LEMMA SettleGood ==
    ASSUME BudgetInv, NEW a \in Agent, NEW q, NEW amounts \in [Kind -> Nat],
           stage[a] = "filling", Enters(a, "settle", q), shown' = shown, want' = want,
           batch' = [batch EXCEPT ![a] = amounts],
           Queue(q, Settling(a)'), \A k \in Quota : held[a][k] > 0 => k \in Kinds(q),
           \A k \in Kind : k \notin Kinds(q) => amounts[k] = 0
    PROVE  Good(a)
<1>1. BudgetTypeOK /\ Local(a)
  BY DEF BudgetInv
<1>2. stage'[a] = "settle" /\ todo'[a] = q /\ Own(a) /\ batch'[a] = amounts /\ held' = held
  BY <1>1 DEF BudgetTypeOK, Enters, Own
<1>3. seen[a] = Unread
  BY <1>1, NothingToDo
<1>4. Holds(a)' /\ Wants(a)'
  BY <1>1, <1>2 DEF Local, Holds, Wants
<1>5. Queue(q, Proper(a)')
  BY <1>2 DEF Proper
<1>6. \A k \in Kind : shown[k] + PaidBy(a, k) = shown'[k] + PaidBy(a, k)'
  BY <1>2 DEF PaidBy
<1>. QED
  BY <1>1, <1>2, <1>3, <1>4, <1>5, <1>6, EntersGood DEF Stage, BudgetTypeOK

LEMMA CommitReadGood ==
    ASSUME BudgetInv, NEW a \in Agent, NEW n \in 1 .. want[a]["rows"],
           NEW bytes \in 0 .. want[a]["memory"],
           NEW parts \in IF a \in Spatial THEN 0 .. want[a]["geometry"] ELSE {0},
           CommitRead(a, n, bytes, parts)
    PROVE  Good(a)
<1>. DEFINE q == ReadSettles(a, n, bytes, parts)
            amounts == [Nothing EXCEPT !["rows"] = n, !["memory"] = bytes,
                                       !["output"] = bytes, !["geometry"] = parts]
<1>1. BudgetTypeOK /\ Local(a) /\ \A k \in Kind : want[a][k] \in Nat
  BY Slots DEF BudgetInv
<1>2. n \in Nat /\ bytes \in Nat /\ parts \in Nat /\ n > 0 /\ bytes > 0 /\ a \notin Writer
  BY <1>1 DEF CommitRead, Kind
<1>3. /\ stage[a] = "filling" /\ Enters(a, "settle", q) /\ shown' = shown /\ want' = want
      /\ batch' = [batch EXCEPT ![a] = amounts]
  BY DEF CommitRead, Start, Enters
<1>4. /\ amounts \in [Kind -> Nat] /\ amounts["rows"] = n /\ amounts["memory"] = bytes
      /\ amounts["output"] = bytes /\ amounts["geometry"] = parts
      /\ \A k \in Contract : amounts[k] = 0
  BY <1>2 DEF Nothing, Kind, Contract
<1>. HIDE DEF amounts
<1>5. batch'[a] = amounts /\ held' = held
  BY <1>1, <1>3 DEF BudgetTypeOK, Enters
<1>6. /\ held[a]["rows"] = want[a]["rows"]
      /\ held[a]["memory"] = want[a]["memory"] /\ held[a]["output"] = want[a]["memory"]
      /\ held[a]["geometry"] = IF a \in Spatial THEN want[a]["geometry"] ELSE 0
      /\ a \in Spatial => want[a]["geometry"] > 0
  BY <1>1, <1>2, <1>3 DEF Local, Holds, Wants, Due, Quota
<1>7. /\ Access("keep", "rows", n) \in Settling(a)'
      /\ Access("keep", "memory", bytes) \in Settling(a)'
      /\ Access("keep", "output", bytes) \in Settling(a)'
      /\ a \in Spatial /\ parts = 0 => Access("give", "geometry", 0) \in Settling(a)'
      /\ a \in Spatial /\ parts > 0 => Access("keep", "geometry", parts) \in Settling(a)'
  <2>1. \A k \in Quota : amounts[k] > 0 /\ amounts[k] <= held[a][k]
                            => Access("keep", k, amounts[k]) \in Settling(a)'
    <3> SUFFICES ASSUME NEW k \in Quota, amounts[k] > 0, amounts[k] <= held[a][k]
                 PROVE  Access("keep", k, amounts[k]) \in Settling(a)'
      OBVIOUS
    <3>1. k \in Kind /\ amounts[k] \in Nat /\ held[a][k] \in Nat
      BY <1>1, <1>4, Slots DEF Kind, Quota
    <3>. QED
      BY <1>5, <3>1, AccessType DEF Settling
  <2>2. amounts["geometry"] = 0 /\ held[a]["geometry"] > 0 => Access("give", "geometry", 0) \in Settling(a)'
    BY <1>4, <1>5 DEF Settling, Access, Accesses, Kind, Quota
  <2>3. /\ amounts["rows"] <= held[a]["rows"] /\ amounts["memory"] <= held[a]["memory"]
        /\ amounts["output"] <= held[a]["output"]
        /\ a \in Spatial => amounts["geometry"] <= held[a]["geometry"]
    BY <1>1, <1>4, <1>6 DEF Kind
  <2>. QED
    BY <1>2, <1>4, <1>6, <2>1, <2>2, <2>3 DEF Quota
<1>8. Settling(a)' \in SUBSET Accesses
  BY DEF Settling
<1>9. Queue(q, Settling(a)') /\ \A k \in Quota : k \in Kinds(q) <=> k # "geometry" \/ a \in Spatial
  BY <1>2, <1>7, <1>8, ReadSettlesQueue
<1>. HIDE DEF q
<1>10. \A k \in Quota : held[a][k] > 0 => k \in Kinds(q)
  BY <1>6, <1>9
<1>11. \A k \in Kind : k \notin Kinds(q) => amounts[k] = 0
  BY <1>4, <1>9 DEF Kind, Quota, Contract
<1>. QED
  BY <1>3, <1>4, <1>9, <1>10, <1>11, SettleGood

LEMMA CommitWriteGood ==
    ASSUME BudgetInv, NEW a \in Agent, CommitWrite(a)
    PROVE  Good(a)
<1>. DEFINE q == WriteSettles(a)
            amounts == [want[a] EXCEPT !["memory"] = 0]
<1>1. BudgetTypeOK /\ Local(a) /\ want[a] \in [Kind -> Nat]
  BY Slots DEF BudgetInv
<1>2. /\ stage[a] = "filling" /\ Enters(a, "settle", q) /\ shown' = shown /\ want' = want
      /\ batch' = [batch EXCEPT ![a] = amounts] /\ a \in Writer
  BY DEF CommitWrite, Start, Enters
<1>3. /\ amounts \in [Kind -> Nat] /\ amounts["memory"] = 0
      /\ \A k \in Kind \ {"memory"} : amounts[k] = want[a][k]
  BY <1>1 DEF Kind
<1>. HIDE DEF amounts
<1>4. batch'[a] = amounts /\ held' = held
  BY <1>1, <1>2 DEF BudgetTypeOK, Enters
<1>5. \A k \in Quota : held[a][k] = want[a][k]
  BY <1>1, <1>2 DEF Local, Holds, Due
<1>6. \A k \in {"rows", "output", "geometry"} :
          held[a][k] > 0 => Access("keep", k, held[a][k]) \in Settling(a)'
  BY <1>1, <1>3, <1>4, <1>5 DEF Settling, Access, Accesses, Kind, Quota
<1>7. held[a]["memory"] > 0 => Access("give", "memory", 0) \in Settling(a)'
  BY <1>3, <1>4 DEF Settling, Access, Accesses, Kind, Quota
<1>8. Settling(a)' \in SUBSET Accesses
  BY DEF Settling
<1>9. Queue(q, Settling(a)') /\ \A k \in Quota : k \in Kinds(q) <=> held[a][k] > 0
  BY <1>1, <1>6, <1>7, <1>8, WriteSettlesQueue
<1>. HIDE DEF q
<1>10. \A k \in Kind : k \notin Kinds(q) => amounts[k] = 0
  <2>1. \A k \in Contract : want[a][k] = 0
    BY <1>1 DEF Local, Wants
  <2>2. \A k \in Quota : k \notin Kinds(q) => want[a][k] = 0
    BY <1>1, <1>5, <1>9 DEF Kind, Quota
  <2>. QED
    BY <1>3, <2>1, <2>2 DEF Kind, Quota, Contract
<1>. QED
  BY <1>2, <1>3, <1>9, <1>10, SettleGood

LEMMA DeliverGood ==
    ASSUME BudgetInv, NEW a \in Agent, Deliver(a)
    PROVE  Good(a)
<1>1. BudgetTypeOK /\ Local(a)
  BY DEF BudgetInv
<1>2. /\ stage[a] = "settle" /\ todo[a] = <<>> /\ Enters(a, "open", <<>>)
      /\ shown' = [k \in Kind |-> shown[k] + batch[a][k]]
      /\ want' = [want EXCEPT ![a] = Nothing] /\ batch' = [batch EXCEPT ![a] = Nothing]
  BY DEF Deliver, Start, Enters
<1>3. Nothing \in [Kind -> Nat] /\ \A k \in Kind : Nothing[k] = 0
  BY DEF Nothing
<1>4. stage'[a] = "open" /\ held' = held /\ want'[a] = Nothing /\ Own(a)
  BY <1>1, <1>2, <1>3 DEF BudgetTypeOK, Enters, Own
<1>5. seen[a] = Unread /\ Kinds(todo[a]) = {}
  BY <1>1, <1>2, NothingToDo
<1>6. \A k \in Kind : shown[k] + PaidBy(a, k) = shown'[k] + PaidBy(a, k)'
  <2>1. \A k \in Kind : shown[k] \in Nat /\ batch[a][k] \in Nat
    BY <1>1, Slots
  <2>. QED
    BY <1>2, <1>4, <1>5, <2>1 DEF PaidBy
<1>7. Holds(a)' /\ Wants(a)'
  <2>1. \A k \in Quota : held[a][k] = 0
    <3>1. \A k \in Quota : held[a][k] \in Nat
      BY <1>1, Slots
    <3>2. \A k \in Quota : ~(held[a][k] > 0)
      BY <1>1, <1>2, <1>5 DEF Local, Holds
    <3>. QED
      BY <3>1, <3>2
  <2>. QED
    BY <1>3, <1>4, <2>1 DEF Holds, Wants, Kind, Contract
<1>8. shown' \in [Kind -> Nat]
  BY <1>1, <1>2, Slots
<1>. QED
  BY <1>2, <1>4, <1>5, <1>6, <1>7, <1>8, EmptyQueue, EntersGood DEF Stage

LEMMA UnwoundGood ==
    ASSUME BudgetInv, NEW a \in Agent, Unwound(a)
    PROVE  Good(a)
<1>1. BudgetTypeOK /\ Local(a)
  BY DEF BudgetInv
<1>2. /\ stage[a] = "unwind" /\ todo[a] = <<>> /\ Enters(a, "open", <<>>) /\ shown' = shown
      /\ want' = [want EXCEPT ![a] = Nothing] /\ batch' = [batch EXCEPT ![a] = Nothing]
  BY DEF Unwound, Start, Enters
<1>3. Nothing \in [Kind -> Nat] /\ \A k \in Kind : Nothing[k] = 0
  BY DEF Nothing
<1>4. stage'[a] = "open" /\ held' = held /\ want'[a] = Nothing /\ Own(a)
  BY <1>1, <1>2, <1>3 DEF BudgetTypeOK, Enters, Own
<1>5. seen[a] = Unread /\ Kinds(todo[a]) = {}
  BY <1>1, <1>2, NothingToDo
<1>6. Holds(a)' /\ Wants(a)'
  <2>1. \A k \in Quota : held[a][k] = 0
    <3>1. \A k \in Quota : held[a][k] \in Nat
      BY <1>1, Slots
    <3>2. \A k \in Quota : ~(held[a][k] > 0)
      BY <1>1, <1>2, <1>5 DEF Local, Holds
    <3>. QED
      BY <3>1, <3>2
  <2>. QED
    BY <1>3, <1>4, <2>1 DEF Holds, Wants, Kind, Contract
<1>. QED
  BY <1>1, <1>2, <1>4, <1>5, <1>6, EmptyQueue, Unpaid, EntersGood DEF Stage, BudgetTypeOK

\* What is held is dropped, at the end of a reservation or of the operation.
LEMMA DropGood ==
    ASSUME BudgetInv, NEW a \in Agent, Abandon(a) \/ CloseStream(a)
    PROVE  Good(a)
<1>1. BudgetTypeOK /\ Local(a)
  BY DEF BudgetInv
<1>2. /\ stage[a] \in {"filling", "open"} /\ shown' = shown /\ want' = want /\ batch' = batch
      /\ \/ Enters(a, "unwind", Drops(a, Contract))
         \/ Enters(a, "close", Drops(a, {}))
      /\ Own(a)
  BY <1>1 DEF Abandon, CloseStream, Start, Enters, Contract, Own, BudgetTypeOK
<1>3. seen[a] = Unread
  BY <1>1, <1>2, NothingToDo
<1>4. ASSUME NEW to \in {"unwind", "close"}, NEW q, Enters(a, to, q), Queue(q, Giving(a)),
             \A k \in Quota : held[a][k] > 0 => k \in Kinds(q),
             to = "close" => \A k \in Kind : held[a][k] > 0 => k \in Kinds(q)
      PROVE  Good(a)
  <2>1. stage'[a] = to /\ todo'[a] = q /\ held' = held
    BY <1>1, <1>4 DEF BudgetTypeOK, Enters
  <2>2. Holds(a)' /\ Wants(a)'
    BY <1>1, <1>2, <1>4, <2>1 DEF Local, Holds, Wants
  <2>3. Queue(q, Proper(a)')
    BY <1>4, <2>1 DEF Proper, Giving
  <2>. QED
    BY <1>1, <1>2, <1>3, <1>4, <2>1, <2>2, <2>3, Unpaid, EntersGood DEF Stage, BudgetTypeOK
<1>5. Gives(a, Contract, Kind, Drops(a, Contract)) /\ Gives(a, {}, Kind, Drops(a, {}))
  BY <1>1, DropsQueue
<1>6. CASE Enters(a, "unwind", Drops(a, Contract))
  BY <1>4, <1>5, <1>6 DEF Gives, Kind, Quota, Contract
<1>7. CASE Enters(a, "close", Drops(a, {}))
  BY <1>4, <1>5, <1>7 DEF Gives, Kind, Quota
<1>. QED
  BY <1>2, <1>6, <1>7

-----------------------------------------------------------------------------
(* Accesses to the budget.                                                 *)

\* What the access that an operation makes next can be, and what is left of
\* its queue then.
LEMMA NextAccess ==
    ASSUME BudgetInv, NEW a \in Agent, todo[a] # <<>>
    PROVE  LET x == Head(todo[a])  rest == Tail(todo[a]) IN
           /\ x \in Proper(a) /\ x \in Accesses
           /\ x.kind \in Kind /\ x.n \in Nat
           /\ Queue(rest, Proper(a))
           /\ x.op \in Looks => Kinds(rest) = Kinds(todo[a])
           /\ x.op \notin Looks => /\ Kinds(rest) = Kinds(todo[a]) \ {x.kind}
                                   /\ x.kind \in Kinds(todo[a])
                                   /\ Queue(rest, {y \in Proper(a) : y.kind # x.kind})
           /\ x.op = "peek" => stage[a] = "peek"
           /\ x.op = "probe" => stage[a] = "lease"
           /\ x.op = "lease" => stage[a] \in {"contract", "lease"}
           /\ x.op = "keep" => stage[a] = "settle"
           /\ x.op = "give" => stage[a] \in {"settle", "unwind", "close"}
<1>1. Queue(todo[a], Proper(a)) /\ Proper(a) \in SUBSET Accesses
  BY ProperAccesses DEF BudgetInv, Local
<1>2. Head(todo[a]) \in Proper(a) /\ Head(todo[a]) \in Accesses
  BY <1>1, Rest
<1>3. \A x \in Proper(a) :
        /\ x.op = "peek" => stage[a] = "peek"
        /\ x.op = "probe" => stage[a] = "lease"
        /\ x.op = "lease" => stage[a] \in {"contract", "lease"}
        /\ x.op = "keep" => stage[a] = "settle"
        /\ x.op = "give" => stage[a] \in {"settle", "unwind", "close"}
  BY DEF Proper, Leasing, Peeking, Reserving, Settling, Giving
<1>4. Head(todo[a]).kind \in Kind /\ Head(todo[a]).n \in Nat
  BY <1>2 DEF Accesses
<1>. QED
  BY <1>1, <1>2, <1>3, <1>4, Rest

\* An operation has no more on loan than is missing from the counter.
LEMMA RoomToReturn ==
    ASSUME BudgetInv, NEW a \in Agent, NEW k \in Kind
    PROVE  counter[k] + held[a][k] <= Limit[k]
<1>. DEFINE f == [b \in Agent |-> held[b][k]]
<1>1. BudgetTypeOK /\ Balanced(k)
  BY DEF BudgetInv
<1>2. f \in [Agent -> Nat] /\ OnLoan(k) = Units(f) /\ f[a] = held[a][k]
  BY <1>1 DEF BudgetTypeOK, OnLoan
<1>. HIDE DEF f
<1>3. f[a] <= Cardinality(Units(f)) /\ Cardinality(Units(f)) \in Nat
  BY <1>1, <1>2, UnitsChange DEF Balanced
<1>4. counter[k] + Cardinality(Units(f)) + spent[k] = Limit[k]
  BY <1>1, <1>2 DEF Balanced
<1>5. counter[k] \in Nat /\ spent[k] \in Nat /\ f[a] \in Nat
  BY <1>1, <1>2, Slots
<1>6. Limit[k] \in Nat
  BY ResourceBudgetAssumption
<1>. QED
  BY <1>2, <1>3, <1>4, <1>5, <1>6

\* A loop reads the counter.
LEMMA LoadGood ==
    ASSUME BudgetInv, NEW a \in Agent, Load(a) \/ CasFails(a)
    PROVE  Good(a)
<1>. DEFINE x == Head(todo[a])
<1>1. BudgetTypeOK /\ Local(a)
  BY DEF BudgetInv
<1>2. /\ todo[a] # <<>> /\ seen' = [seen EXCEPT ![a] = counter[x.kind]]
      /\ UNCHANGED <<counter, held, stage, todo, want, spent, shown, batch>>
  BY DEF Load, CasFails
<1>3. x.op \notin Looks /\ (x.op = "lease" => x.n > 0)
  BY <1>1 DEF Load, CasFails, Local, Reads, Looks
<1>4. x.kind \in Kind
  BY <1>2, NextAccess
<1>. HIDE DEF x
<1>5. counter[x.kind] \in Nat /\ counter[x.kind] + held[a][x.kind] <= Limit[x.kind]
  BY <1>1, <1>4, RoomToReturn, Slots
<1>6. seen'[a] = counter[x.kind] /\ seen' \in [Agent -> Nat \cup {Unread}]
  BY <1>1, <1>2, <1>5 DEF BudgetTypeOK
<1>7. Reads(a)'
  BY <1>2, <1>3, <1>5, <1>6 DEF Reads, x
<1>8. Queue(todo[a], Proper(a))' /\ Holds(a)' /\ Wants(a)'
  <2>1. Proper(a)' = Proper(a) /\ Kinds(todo[a])' = Kinds(todo[a])
    BY <1>2 DEF Proper, Leasing, Peeking, Reserving, Settling, Giving, Due, Kinds
  <2>2. Queue(todo[a], Proper(a))'
    BY <1>1, <1>2, <2>1 DEF Local, Queue, Once
  <2>. QED
    BY <1>1, <1>2, <2>1, <2>2 DEF Local, Holds, Wants, Due
<1>9. Even(a)
  BY <1>2 DEF Even, PaidBy, Kinds
<1>10. BudgetTypeOK' /\ Frame(a)
  BY <1>1, <1>2, <1>6 DEF BudgetTypeOK, Frame
<1>. QED
  BY <1>7, <1>8, <1>9, <1>10 DEF Good, Local

\* An access fails, and what was reserved before it is dropped.
LEMMA FailGood ==
    ASSUME BudgetInv, NEW a \in Agent, stage[a] \in {"contract", "lease"}, Fail(a),
           UNCHANGED <<counter, held, want, spent, shown, batch>>
    PROVE  Good(a)
<1>1. BudgetTypeOK /\ Local(a)
  BY DEF BudgetInv
<1>2. Own(a)
  BY <1>1 DEF Own, BudgetTypeOK
<1>3. ASSUME NEW to \in {"unwind", "close"}, NEW q, Enters(a, to, q), Queue(q, Giving(a)),
             \A k \in Quota : held[a][k] > 0 => k \in Kinds(q),
             to = "close" => \A k \in Kind : held[a][k] > 0 => k \in Kinds(q)
      PROVE  Good(a)
  <2>1. stage'[a] = to /\ todo'[a] = q /\ held' = held /\ want' = want
    BY <1>1, <1>3 DEF BudgetTypeOK, Enters
  <2>2. Holds(a)' /\ Wants(a)'
    BY <1>1, <1>3, <2>1 DEF Local, Holds, Wants
  <2>3. Queue(q, Proper(a)')
    BY <1>3, <2>1 DEF Proper, Giving
  <2>4. seen' = [seen EXCEPT ![a] = Unread]
    BY DEF Fail
  <2>. QED
    BY <1>1, <1>2, <1>3, <2>1, <2>2, <2>3, <2>4, Unpaid, EntersGood DEF Stage, BudgetTypeOK
<1>4. Gives(a, Contract, Kind, Drops(a, Contract)) /\ Gives(a, {}, Kind, Drops(a, {}))
  BY <1>1, DropsQueue
<1>5. CASE stage[a] = "contract"
  <2>1. Enters(a, "close", Drops(a, {}))
    BY <1>5 DEF Fail, Enters
  <2>. QED
    BY <1>3, <1>4, <2>1 DEF Gives, Kind, Quota
<1>6. CASE stage[a] = "lease"
  <2>1. Enters(a, "unwind", Drops(a, Contract))
    BY <1>6 DEF Fail, Enters, Contract
  <2>. QED
    BY <1>3, <1>4, <2>1 DEF Gives, Kind, Quota, Contract
<1>. QED
  BY <1>5, <1>6

\* The access succeeded; what it changes besides is the operation's own.
LEMMA DoneFacts ==
    ASSUME BudgetInv, NEW a \in Agent, todo[a] # <<>>, Done(a)
    PROVE  /\ todo'[a] = Tail(todo[a]) /\ seen'[a] = Unread /\ stage' = stage
           /\ todo' \in [Agent -> Seq(Accesses)] /\ seen' \in [Agent -> Nat \cup {Unread}]
           /\ \A b \in Agent \ {a} : todo'[b] = todo[b] /\ seen'[b] = seen[b]
           /\ Reads(a)'
<1>1. BudgetTypeOK /\ todo[a] \in Seq(Accesses)
  BY Slots DEF BudgetInv
<1>2. todo'[a] = Tail(todo[a]) /\ seen'[a] = Unread /\ stage' = stage
  BY <1>1 DEF Done, BudgetTypeOK
<1>3. Tail(todo[a]) \in Seq(Accesses)
  BY <1>1
<1>. QED
  BY <1>1, <1>2, <1>3 DEF Done, BudgetTypeOK, Reads

LEMMA PeekGood ==
    ASSUME BudgetInv, NEW a \in Agent, Peek(a)
    PROVE  Good(a)
<1>. DEFINE x == Head(todo[a])
            m == Least(want[a][x.kind], counter[x.kind])
            w == IF x.kind \in {"memory", "output"}
                 THEN [want[a] EXCEPT !["memory"] = m, !["output"] = m]
                 ELSE [want[a] EXCEPT ![x.kind] = m]
<1>1. BudgetTypeOK /\ Local(a)
  BY DEF BudgetInv
<1>2. /\ todo[a] # <<>> /\ Done(a) /\ x.op = "peek" /\ want' = [want EXCEPT ![a] = w]
      /\ UNCHANGED <<counter, held, spent, shown, batch>>
  BY DEF Peek, Doing
<1>3. x \in Peeking /\ stage[a] = "peek" /\ a \notin Writer
  <2>1. x \in Proper(a) /\ stage[a] = "peek"
    BY <1>2, NextAccess
  <2>. QED
    BY <1>1, <2>1 DEF Proper, Local, Wants
<1>4. m \in Nat
  BY <1>1, <1>3, Slots DEF Least, Peeking, Accesses
<1>5. w \in [Kind -> Nat] /\ w["memory"] = w["output"] /\ \A k \in Contract : w[k] = 0
  <2>1. want[a] \in [Kind -> Nat] /\ want[a]["memory"] = want[a]["output"]
        /\ \A k \in Contract : want[a][k] = 0
    BY <1>1, <1>3, Slots DEF Local, Wants
  <2>2. x.kind \in Quota
    BY <1>3 DEF Peeking
  <2>. HIDE DEF m, x
  <2>. QED
    BY <1>4, <2>1, <2>2 DEF Quota, Contract, Kind
<1>. HIDE DEF w
<1>6. /\ todo'[a] = Tail(todo[a]) /\ stage' = stage /\ want'[a] = w /\ want' \in [Agent -> [Kind -> Nat]]
      /\ \A b \in Agent \ {a} : want'[b] = want[b]
  BY <1>1, <1>2, <1>5, DoneFacts DEF BudgetTypeOK
<1>7. Queue(todo[a], Proper(a))'
  <2>1. Queue(Tail(todo[a]), Peeking)
    BY <1>2, <1>3, NextAccess DEF Proper
  <2>2. Proper(a)' = Peeking
    BY <1>3, <1>6 DEF Proper
  <2>. QED
    BY <1>6, <2>1, <2>2 DEF Queue, Once
<1>8. Holds(a)' /\ Wants(a)'
  BY <1>1, <1>2, <1>3, <1>5, <1>6 DEF Local, Holds, Wants
<1>9. Even(a)
  BY <1>2, <1>3, <1>6 DEF Even, PaidBy
<1>10. BudgetTypeOK' /\ Frame(a) /\ Reads(a)'
  BY <1>1, <1>2, <1>6, DoneFacts DEF BudgetTypeOK, Frame
<1>. QED
  BY <1>7, <1>8, <1>9, <1>10 DEF Good, Local

LEMMA ProbeGood ==
    ASSUME BudgetInv, NEW a \in Agent, Probe(a)
    PROVE  Good(a)
<1>1. BudgetTypeOK /\ Local(a)
  BY DEF BudgetInv
<1>2. /\ todo[a] # <<>> /\ Head(todo[a]).op = "probe" /\ (Fail(a) \/ Done(a))
      /\ UNCHANGED <<counter, held, want, spent, shown, batch>>
  BY DEF Probe, Doing
<1>3. stage[a] = "lease" /\ Queue(Tail(todo[a]), Proper(a)) /\ Kinds(Tail(todo[a])) = Kinds(todo[a])
  BY <1>2, NextAccess DEF Looks
<1>4. CASE Fail(a)
  BY <1>2, <1>3, <1>4, FailGood
<1>5. CASE Done(a)
  <2>1. todo'[a] = Tail(todo[a]) /\ stage' = stage
    BY <1>2, <1>5, DoneFacts
  <2>2. Proper(a)' = Proper(a)
    BY <1>2, <1>3, <2>1 DEF Proper, Reserving, Due
  <2>3. Queue(todo[a], Proper(a))' /\ Kinds(todo[a])' = Kinds(todo[a])
    BY <1>3, <2>1, <2>2 DEF Queue, Once, Kinds
  <2>4. Holds(a)' /\ Wants(a)'
    BY <1>1, <1>2, <1>3, <2>1, <2>3 DEF Local, Holds, Wants, Due
  <2>5. Even(a)
    BY <1>2, <1>3, <2>1 DEF Even, PaidBy
  <2>6. BudgetTypeOK' /\ Frame(a) /\ Reads(a)'
    BY <1>1, <1>2, <1>5, DoneFacts DEF BudgetTypeOK, Frame
  <2>. QED
    BY <2>3, <2>4, <2>5, <2>6 DEF Good, Local
<1>. QED
  BY <1>2, <1>4, <1>5

LEMMA RefusedGood ==
    ASSUME BudgetInv, NEW a \in Agent, LeaseNothing(a) \/ LeaseRefused(a)
    PROVE  Good(a)
<1>1. todo[a] # <<>> /\ Head(todo[a]).op = "lease"
  BY DEF LeaseNothing, LeaseRefused, Doing
<1>2. stage[a] \in {"contract", "lease"}
  BY <1>1, NextAccess
<1>. QED
  BY <1>2, FailGood DEF LeaseNothing, LeaseRefused

LEMMA TryLeaseGood ==
    ASSUME BudgetInv, NEW a \in Agent, TryLease(a)
    PROVE  Good(a)
<1>. DEFINE x == Head(todo[a])
<1>1. BudgetTypeOK /\ Local(a)
  BY DEF BudgetInv
<1>2. /\ todo[a] # <<>> /\ Done(a) /\ x.op = "lease" /\ counter[x.kind] >= x.n
      /\ counter' = [counter EXCEPT ![x.kind] = counter[x.kind] - x.n]
      /\ held' = [held EXCEPT ![a][x.kind] = x.n]
      /\ UNCHANGED <<want, spent, shown, batch>>
  BY DEF TryLease, Doing
<1>3. /\ x \in Proper(a) /\ x.kind \in Kind /\ x.n \in Nat /\ stage[a] \in {"contract", "lease"}
      /\ x.kind \in Kinds(todo[a]) /\ Kinds(Tail(todo[a])) = Kinds(todo[a]) \ {x.kind}
      /\ Queue(Tail(todo[a]), {y \in Proper(a) : y.kind # x.kind})
  BY <1>2, NextAccess DEF Looks
<1>4. held[a][x.kind] = 0 /\ (stage[a] = "lease" => x.kind \in Quota /\ x.n = Due(a, x.kind))
      /\ (stage[a] = "contract" => x.kind \in Contract)
  BY <1>2, <1>3 DEF Proper, Leasing, Reserving
<1>. HIDE DEF x
<1>5. /\ todo'[a] = Tail(todo[a]) /\ stage' = stage /\ Reads(a)'
  BY <1>2, DoneFacts
<1>6. /\ counter' \in [Kind -> Nat] /\ held' \in [Agent -> [Kind -> Nat]]
      /\ held'[a] = [held[a] EXCEPT ![x.kind] = x.n]
      /\ \A b \in Agent \ {a} : held'[b] = held[b]
  <2>1. counter[x.kind] - x.n \in Nat /\ held[a] \in [Kind -> Nat]
    BY <1>1, <1>2, <1>3, Slots
  <2>. QED
    BY <1>1, <1>2, <1>3, <2>1 DEF BudgetTypeOK
<1>7. BudgetTypeOK' /\ Frame(a)
  BY <1>1, <1>2, <1>5, <1>6, DoneFacts DEF BudgetTypeOK, Frame
<1>8. Queue(todo[a], Proper(a))'
  <2>1. \A y \in Proper(a) : y.kind # x.kind => y \in Proper(a)'
    <3>1. \A y \in Accesses : y.kind # x.kind => held'[a][y.kind] = held[a][y.kind]
      BY <1>3, <1>6, <1>1, Slots DEF Accesses
    <3>. QED
      BY <1>2, <1>3, <1>5, <3>1 DEF Proper, Leasing, Reserving, Due
  <2>2. Queue(Tail(todo[a]), Proper(a)')
    BY <1>3, <2>1, Wider
  <2>. QED
    BY <1>5, <2>2 DEF Queue, Once
<1>9. Holds(a)'
  <2>1. Kinds(todo[a])' = Kinds(todo[a]) \ {x.kind}
    BY <1>3, <1>5 DEF Kinds
  <2>2. \A k : Due(a, k)' = Due(a, k)
    BY <1>2 DEF Due
  <2>3. CASE stage[a] = "contract"
    BY <1>1, <1>4, <1>5, <1>6, <2>3, Slots DEF Local, Holds
  <2>4. CASE stage[a] = "lease"
    BY <1>1, <1>3, <1>4, <1>5, <1>6, <2>1, <2>2, <2>4, Slots DEF Local, Holds
  <2>. QED
    BY <1>3, <2>3, <2>4
<1>10. Wants(a)'
  BY <1>1, <1>2, <1>5 DEF Local, Wants
<1>11. Even(a)
  <2> SUFFICES ASSUME NEW k \in Kind
               PROVE  counter'[k] + held'[a][k] + spent'[k] = counter[k] + held[a][k] + spent[k]
    BY <1>2, <1>3, <1>5 DEF Even, PaidBy
  <2>1. counter[k] \in Nat /\ held[a][k] \in Nat /\ spent[k] \in Nat
    BY <1>1, Slots
  <2>2. CASE k = x.kind
    BY <1>1, <1>2, <1>3, <1>4, <1>6, <2>1, <2>2, Slots
  <2>3. CASE k # x.kind
    BY <1>1, <1>2, <1>3, <1>6, <2>1, <2>3, Slots
  <2>. QED
    BY <2>2, <2>3
<1>. QED
  BY <1>5, <1>7, <1>8, <1>9, <1>10, <1>11 DEF Good, Local

\* A lease ends: what it was kept for is consumed, the rest is given back.
LEMMA SettlesGood ==
    ASSUME BudgetInv, NEW a \in Agent, todo[a] # <<>>, Done(a),
           Head(todo[a]).op \in {"keep", "give"},
           counter' = [counter EXCEPT ![Head(todo[a]).kind] =
                          @ + (held[a][Head(todo[a]).kind] - Head(todo[a]).n)],
           held' = [held EXCEPT ![a][Head(todo[a]).kind] = 0],
           spent' = [spent EXCEPT ![Head(todo[a]).kind] = @ + Head(todo[a]).n],
           UNCHANGED <<want, shown, batch>>
    PROVE  Good(a)
<1>. DEFINE x == Head(todo[a])
<1>1. BudgetTypeOK /\ Local(a)
  BY DEF BudgetInv
<1>2. /\ x.op \in {"keep", "give"}
      /\ counter' = [counter EXCEPT ![x.kind] = @ + (held[a][x.kind] - x.n)]
      /\ held' = [held EXCEPT ![a][x.kind] = 0]
      /\ spent' = [spent EXCEPT ![x.kind] = @ + x.n]
  OBVIOUS
<1>3. /\ x \in Proper(a) /\ x.kind \in Kind /\ x.n \in Nat /\ stage[a] \in {"settle", "unwind", "close"}
      /\ x.kind \in Kinds(todo[a]) /\ Kinds(Tail(todo[a])) = Kinds(todo[a]) \ {x.kind}
      /\ Queue(Tail(todo[a]), {y \in Proper(a) : y.kind # x.kind})
  BY <1>2, NextAccess DEF Looks
<1>4. /\ x.n <= held[a][x.kind]
      /\ stage[a] = "settle" => x.n = batch[a][x.kind] /\ x.kind \in Quota
      /\ stage[a] # "settle" => x.n = 0
  <2>1. held[a][x.kind] \in Nat
    BY <1>1, <1>3, Slots
  <2>. QED
    BY <1>3, <2>1 DEF Proper, Settling, Giving
<1>. HIDE DEF x
<1>5. /\ todo'[a] = Tail(todo[a]) /\ stage' = stage /\ Reads(a)'
  BY DoneFacts
<1>6. /\ counter' \in [Kind -> Nat] /\ held' \in [Agent -> [Kind -> Nat]] /\ spent' \in [Kind -> Nat]
      /\ held'[a] = [held[a] EXCEPT ![x.kind] = 0]
      /\ \A b \in Agent \ {a} : held'[b] = held[b]
  <2>1. held[a][x.kind] \in Nat /\ counter[x.kind] \in Nat /\ spent[x.kind] \in Nat
    BY <1>1, <1>3, Slots
  <2>2. x.n \in Nat
    BY <1>3
  <2>3. x.n <= held[a][x.kind]
    BY <1>4
  <2>4. counter[x.kind] + (held[a][x.kind] - x.n) \in Nat /\ spent[x.kind] + x.n \in Nat
    BY ONLY <2>1, <2>2, <2>3
  <2>5. /\ counter \in [Kind -> Nat] /\ spent \in [Kind -> Nat]
        /\ held \in [Agent -> [Kind -> Nat]]
    BY <1>1 DEF BudgetTypeOK
  <2>6. x.kind \in Kind
    BY <1>3
  <2>7. counter' \in [Kind -> Nat] /\ spent' \in [Kind -> Nat]
    <3>1. counter' = [counter EXCEPT ![x.kind] = @ + (held[a][x.kind] - x.n)]
      BY <1>2
    <3>2. spent' = [spent EXCEPT ![x.kind] = @ + x.n]
      BY <1>2
    <3>3. counter' \in [Kind -> Nat]
      BY ONLY <2>4, <2>5, <3>1
    <3>4. spent' \in [Kind -> Nat]
      BY ONLY <2>4, <2>5, <3>2
    <3>. QED
      BY <3>3, <3>4
  <2>8. /\ held' \in [Agent -> [Kind -> Nat]]
        /\ held'[a] = [held[a] EXCEPT ![x.kind] = 0]
        /\ \A b \in Agent \ {a} : held'[b] = held[b]
    <3>1. held' = [held EXCEPT ![a][x.kind] = 0]
      BY <1>2
    <3>. QED
      BY ONLY <2>5, <3>1, a \in Agent
  <2>. QED
    BY <2>7, <2>8
<1>7. BudgetTypeOK' /\ Frame(a)
  BY <1>1, <1>5, <1>6, DoneFacts DEF BudgetTypeOK, Frame
<1>8. \A k \in Kind : held'[a][k] = IF k = x.kind THEN 0 ELSE held[a][k]
  <2>1. held[a] \in [Kind -> Nat]
    BY <1>1, Slots
  <2>2. held'[a] = [held[a] EXCEPT ![x.kind] = 0]
    BY <1>6
  <2>. QED
    BY ONLY <2>1, <2>2
<1>9. Queue(todo[a], Proper(a))'
  <2>1. \A y \in Proper(a) : y.kind # x.kind => y \in Proper(a)'
    <3>1. \A y \in Accesses : y.kind # x.kind => held'[a][y.kind] = held[a][y.kind]
      BY <1>8 DEF Accesses
    <3>. QED
      BY <1>3, <1>5, <3>1 DEF Proper, Settling, Giving
  <2>2. Queue(Tail(todo[a]), Proper(a)')
    BY <1>3, <2>1, Wider
  <2>. QED
    BY <1>5, <2>2 DEF Queue, Once
<1>10. Kinds(todo[a])' = Kinds(todo[a]) \ {x.kind}
  BY <1>3, <1>5 DEF Kinds
<1>11. Holds(a)' /\ Wants(a)'
  <2>1. Holds(a)'
    BY <1>1, <1>3, <1>5, <1>8, <1>10 DEF Local, Holds, Quota, Kind
  <2>2. Wants(a)'
    BY <1>1, <1>5 DEF Local, Wants
  <2>. QED
    BY <2>1, <2>2
<1>12. Even(a)
  <2> SUFFICES ASSUME NEW k \in Kind
               PROVE  /\ counter'[k] + held'[a][k] + spent'[k] = counter[k] + held[a][k] + spent[k]
                      /\ spent'[k] + shown[k] + PaidBy(a, k) = spent[k] + shown'[k] + PaidBy(a, k)'
    BY DEF Even
  <2>1. counter[k] \in Nat /\ held[a][k] \in Nat /\ spent[k] \in Nat /\ shown[k] \in Nat /\ batch[a][k] \in Nat
    BY <1>1, Slots
  <2>2. CASE k = x.kind
    <3>1. /\ counter'[k] = counter[k] + (held[a][k] - x.n) /\ held'[a][k] = 0
          /\ spent'[k] = spent[k] + x.n
      BY <1>1, <1>2, <1>8, <2>2, Slots
    <3>2. PaidBy(a, k) = 0 /\ PaidBy(a, k)' = x.n
      BY <1>3, <1>4, <1>5, <1>10, <2>2 DEF PaidBy
    <3>3. x.n \in Nat
      BY <1>3
    <3>4. x.n <= held[a][k]
      BY <1>4, <2>2
    <3>5. counter'[k] + held'[a][k] + spent'[k] = counter[k] + held[a][k] + spent[k]
      BY ONLY <2>1, <3>1, <3>3, <3>4
    <3>6. shown'[k] = shown[k]
      OBVIOUS
    <3>7. spent'[k] = spent[k] + x.n
      BY <3>1
    <3>8. spent'[k] + shown[k] + PaidBy(a, k) = spent[k] + shown'[k] + PaidBy(a, k)'
      BY <2>1, <3>2, <3>3, <3>6, <3>7
    <3>. QED
      BY <3>5, <3>8
  <2>3. CASE k # x.kind
    <3>1. counter'[k] = counter[k] /\ held'[a][k] = held[a][k] /\ spent'[k] = spent[k]
      BY <1>1, <1>2, <1>3, <1>8, <2>3, Slots
    <3>2. PaidBy(a, k)' = PaidBy(a, k)
      BY <1>5, <1>10, <2>3 DEF PaidBy
    <3>. QED
      BY <3>1, <3>2
  <2>. QED
    BY <2>2, <2>3
<1>. QED
  BY <1>5, <1>7, <1>9, <1>11, <1>12 DEF Good, Local

\* Release and the commit of a whole lease: the part that was not used goes back.
LEMMA Returned ==
    ASSUME BudgetInv, NEW a \in Agent, Release(a) \/ CommitAll(a)
    PROVE  counter' = [counter EXCEPT ![Head(todo[a]).kind] =
                          @ + (held[a][Head(todo[a]).kind] - Head(todo[a]).n)]
<1>. DEFINE x == Head(todo[a])
<1>1. BudgetTypeOK
  BY DEF BudgetInv
<1>2. /\ todo[a] # <<>> /\ Done(a) /\ x.op \in {"keep", "give"} /\ UNCHANGED <<want, shown, batch>>
      /\ held' = [held EXCEPT ![a][x.kind] = 0]
      /\ spent' = [spent EXCEPT ![x.kind] = @ + x.n]
  BY DEF Release, CommitAll, Doing
<1>3. x \in Proper(a) /\ x.kind \in Kind /\ x.n \in Nat
  BY <1>2, NextAccess
<1>4. x.op = "give" => x.n = 0
  BY <1>3 DEF Proper, Leasing, Peeking, Reserving, Settling, Giving
<1>5. counter[x.kind] \in Nat /\ held[a][x.kind] \in Nat /\ counter \in [Kind -> Nat]
  BY <1>1, <1>3, Slots
<1>6. CASE Release(a)
  <2>1. counter[x.kind] = seen[a] /\ counter' = [counter EXCEPT ![x.kind] = seen[a] + Unused(a)]
    BY <1>6 DEF Release
  <2>2. x.op = "keep" => Unused(a) = held[a][x.kind] - x.n
    BY DEF Unused
  <2>3. x.op = "give" => Unused(a) = held[a][x.kind] /\ x.n = 0
    BY <1>4 DEF Unused
  <2>4. Unused(a) = held[a][x.kind] - x.n
    <3>1. CASE x.op = "keep"
      BY <2>2, <3>1
    <3>2. CASE x.op = "give"
      BY <1>5, <2>3, <3>2
    <3>. QED
      BY <1>2, <3>1, <3>2
  <2>. QED
    BY <1>5, <2>1, <2>4
<1>7. CASE CommitAll(a)
  BY <1>3, <1>5, <1>7 DEF CommitAll
<1>. QED
  BY <1>6, <1>7

LEMMA ReleaseGood ==
    ASSUME BudgetInv, NEW a \in Agent, Release(a) \/ CommitAll(a)
    PROVE  Good(a)
<1>1. /\ todo[a] # <<>> /\ Done(a) /\ Head(todo[a]).op \in {"keep", "give"}
      /\ UNCHANGED <<want, shown, batch>>
      /\ held' = [held EXCEPT ![a][Head(todo[a]).kind] = 0]
      /\ spent' = [spent EXCEPT ![Head(todo[a]).kind] = @ + Head(todo[a]).n]
  BY DEF Release, CommitAll, Doing
<1>. QED
  BY <1>1, Returned, SettlesGood

-----------------------------------------------------------------------------
(* The theorems.                                                           *)

LEMMA BudgetInitInv == BudgetInit => BudgetInv
<1> SUFFICES ASSUME BudgetInit PROVE BudgetInv
  OBVIOUS
<1>1. Nothing \in [Kind -> Nat] /\ \A k \in Kind : Nothing[k] = 0
  BY DEF Nothing
<1>2. BudgetTypeOK
  <2>1. Limit \in [Kind -> Nat] /\ <<>> \in Seq(Accesses)
    BY ResourceBudgetAssumption
  <2>. QED
    BY <1>1, <2>1 DEF BudgetInit, BudgetTypeOK
<1>3. ASSUME NEW k \in Kind PROVE Balanced(k)
  <2>1. /\ \A a \in Agent : held[a][k] = 0 /\ PaidBy(a, k) = 0
        /\ counter[k] = Limit[k] /\ spent[k] = 0 /\ shown[k] = 0 /\ Limit[k] \in Nat
    BY <1>1, ResourceBudgetAssumption DEF BudgetInit, PaidBy
  <2>2. OnLoan(k) = {} /\ Paid(k) = {}
    BY <2>1 DEF OnLoan, Paid, Units
  <2>3. IsFiniteSet({}) /\ Cardinality({}) = 0
    BY FS_EmptySet
  <2>. QED
    BY <2>1, <2>2, <2>3 DEF Balanced
<1>4. ASSUME NEW a \in Agent PROVE Local(a)
  <2>1. /\ todo[a] = <<>> /\ stage[a] = "idle" /\ seen[a] = Unread /\ held[a] = Nothing
        /\ want[a] = Nothing
    BY DEF BudgetInit
  <2>2. \A k \in Contract : k \in Kind
    BY DEF Contract, Kind
  <2>3. "memory" \in Kind /\ "output" \in Kind
    BY DEF Kind
  <2>4. Holds(a)
    BY <1>1, <2>1 DEF Holds
  <2>5. Wants(a)
    BY <1>1, <2>1, <2>2, <2>3 DEF Wants
  <2>. QED
    BY <2>1, <2>4, <2>5, EmptyQueue DEF Local, Reads
<1>. QED
  BY <1>2, <1>3, <1>4 DEF BudgetInv

\* Every step keeps the invariant: one lemma per action.
LEMMA StepKeeps ==
    ASSUME BudgetInv, [BudgetNext]_budgetVars
    PROVE  BudgetInv'
<1>1. CASE BudgetNext
  <2>1. PICK a \in Agent :
            \/ Budget(a)
            \/ \E c \in 0 .. MaxColumns : Open(a, c)
            \/ Opened(a) \/ ReserveRead(a) \/ Peeked(a) \/ Reserved(a)
            \/ \E n \in 0 .. BatchRows, bytes \in 0 .. MaxBytes, parts \in 0 .. MaxParts :
                   ReserveWrite(a, n, bytes, parts)
            \/ \E n \in 1 .. want[a]["rows"], bytes \in 0 .. want[a]["memory"] :
                   \E parts \in IF a \in Spatial THEN 0 .. want[a]["geometry"] ELSE {0} :
                       CommitRead(a, n, bytes, parts)
            \/ CommitWrite(a) \/ Deliver(a) \/ Abandon(a) \/ Unwound(a) \/ CloseStream(a) \/ Closed(a)
    BY <1>1 DEF BudgetNext
  <2>2. CASE Budget(a)
    BY <2>2, LoadGood, RefusedGood, TryLeaseGood, ReleaseGood, PeekGood, ProbeGood, GoodKeeps DEF Budget
  <2>3. CASE \E c \in 0 .. MaxColumns : Open(a, c)
    BY <2>3, OpenGood, GoodKeeps
  <2>4. CASE Opened(a) \/ Reserved(a) \/ Closed(a)
    BY <2>4, OpenedGood, GoodKeeps
  <2>5. CASE ReserveRead(a) \/ Peeked(a)
    BY <2>5, ReserveReadGood, PeekedGood, GoodKeeps
  <2>6. CASE \E n \in 0 .. BatchRows, bytes \in 0 .. MaxBytes, parts \in 0 .. MaxParts :
                 ReserveWrite(a, n, bytes, parts)
    BY <2>6, ReserveWriteGood, GoodKeeps
  <2>7. CASE \E n \in 1 .. want[a]["rows"], bytes \in 0 .. want[a]["memory"] :
                 \E parts \in IF a \in Spatial THEN 0 .. want[a]["geometry"] ELSE {0} :
                     CommitRead(a, n, bytes, parts)
    <3>1. PICK n \in 1 .. want[a]["rows"], bytes \in 0 .. want[a]["memory"] :
              \E parts \in IF a \in Spatial THEN 0 .. want[a]["geometry"] ELSE {0} :
                  CommitRead(a, n, bytes, parts)
      BY <2>7
    <3>2. PICK parts \in IF a \in Spatial THEN 0 .. want[a]["geometry"] ELSE {0} :
              CommitRead(a, n, bytes, parts)
      BY <3>1
    <3>. QED
      BY <3>2, CommitReadGood, GoodKeeps
  <2>8. CASE CommitWrite(a) \/ Deliver(a) \/ Unwound(a)
    BY <2>8, CommitWriteGood, DeliverGood, UnwoundGood, GoodKeeps
  <2>9. CASE Abandon(a) \/ CloseStream(a)
    BY <2>9, DropGood, GoodKeeps
  <2>. QED
    BY <2>1, <2>2, <2>3, <2>4, <2>5, <2>6, <2>7, <2>8, <2>9
<1>2. CASE UNCHANGED budgetVars
  <2>1. /\ counter' = counter /\ held' = held /\ stage' = stage /\ todo' = todo /\ seen' = seen
        /\ want' = want /\ spent' = spent /\ shown' = shown /\ batch' = batch
    BY <1>2 DEF budgetVars
  <2>2. BudgetTypeOK'
    BY <2>1 DEF BudgetInv, BudgetTypeOK
  <2>3. \A k \in Kind : Balanced(k)'
    <3>1. \A k : OnLoan(k)' = OnLoan(k)
      BY <2>1 DEF OnLoan
    <3>2. \A a : Kinds(todo[a])' = Kinds(todo[a])
      BY <2>1 DEF Kinds
    <3>3. \A a, k : PaidBy(a, k)' = PaidBy(a, k)
      BY <2>1, <3>2 DEF PaidBy
    <3>4. \A k : Paid(k)' = Paid(k)
      BY <3>3 DEF Paid
    <3>. QED
      BY <2>1, <3>1, <3>4 DEF BudgetInv, Balanced
  <2>4. ASSUME NEW a \in Agent PROVE Local(a)'
    <3>1. Proper(a)' = Proper(a)
      BY <2>1 DEF Proper, Leasing, Peeking, Reserving, Settling, Giving, Due
    <3>2. Queue(todo[a], Proper(a))'
      BY <2>1, <3>1 DEF BudgetInv, Local, Queue, Once
    <3>3. Kinds(todo[a])' = Kinds(todo[a])
      BY <2>1 DEF Kinds
    <3>4. Holds(a)' /\ Wants(a)' /\ Reads(a)'
      BY <2>1, <3>3 DEF BudgetInv, Local, Holds, Wants, Reads, Due
    <3>. QED
      BY <3>2, <3>4 DEF Local
  <2>. QED
    BY <2>2, <2>3, <2>4 DEF BudgetInv
<1>. QED
  BY <1>1, <1>2

LEMMA BudgetInvariance == BudgetSpec => []BudgetInv
<1>1. BudgetInv /\ [BudgetNext]_budgetVars => BudgetInv'
  BY StepKeeps
<1>. QED
  BY BudgetInitInv, <1>1, PTL DEF BudgetSpec

\* Every variable has the type BudgetTypeOK gives it: above all no counter, no
\* lease and no consumed amount is ever negative.
THEOREM BudgetTypes == BudgetSpec => []BudgetTypeOK
<1>1. BudgetInv => BudgetTypeOK
  BY DEF BudgetInv
<1>. QED
  BY <1>1, BudgetInvariance, PTL

\* For any number of operations: what is left of a quota, what is lent and what
\* was consumed add up to its limit, however the compare-and-swap loops of
\* try_lease and release interleave.
THEOREM NothingLost == BudgetSpec => []Conservation
<1>1. BudgetInv => Conservation
  BY DEF BudgetInv, Balanced, Conservation
<1>. QED
  BY <1>1, BudgetInvariance, PTL

\* No commit asks for more than its lease or for nothing, and release() never
\* meets either of its error branches, whatever was stored since it read.
THEOREM ReturnsNeverRefused == BudgetSpec => []ReturnsFit
<1>1. ASSUME BudgetInv PROVE ReturnsFit
  <2> SUFFICES ASSUME NEW a \in Agent, todo[a] # <<>>, Head(todo[a]).op \in {"keep", "give"}
               PROVE  /\ Head(todo[a]).op = "keep" =>
                            Head(todo[a]).n \in 1 .. held[a][Head(todo[a]).kind]
                      /\ seen[a] # Unread =>
                            seen[a] + Unused(a) <= Limit[Head(todo[a]).kind]
    BY DEF ReturnsFit
  <2>. DEFINE x == Head(todo[a])
  <2>1. BudgetTypeOK /\ Local(a)
    BY <1>1 DEF BudgetInv
  <2>2. x \in Proper(a) /\ x.kind \in Kind /\ x.n \in Nat
    BY <1>1, NextAccess
  <2>3. held[a][x.kind] \in Nat /\ seen[a] \in Nat \cup {Unread} /\ Limit[x.kind] \in Nat
    BY <2>1, <2>2, Slots, ResourceBudgetAssumption
  <2>4. x.op \in {"keep", "give"}
    OBVIOUS
  <2>5. seen[a] # Unread => seen[a] + held[a][x.kind] <= Limit[x.kind]
    BY <2>1 DEF Local, Reads
  <2>6. Unused(a) = IF x.op = "keep" THEN held[a][x.kind] - x.n ELSE held[a][x.kind]
    BY DEF Unused
  <2>. HIDE DEF x
  <2>7. x.op = "keep" => x.n > 0 /\ x.n <= held[a][x.kind]
    BY <2>2 DEF Proper, Leasing, Peeking, Reserving, Settling, Giving
  <2>8. x.op = "keep" => x.n \in 1 .. held[a][x.kind]
    BY <2>2, <2>3, <2>7
  <2>9. ASSUME seen[a] # Unread PROVE seen[a] + Unused(a) <= Limit[x.kind]
    <3>1. seen[a] \in Nat /\ x.n \in Nat /\ seen[a] + held[a][x.kind] <= Limit[x.kind]
      BY <2>2, <2>3, <2>5, <2>9
    <3>. QED
      BY <2>3, <2>6, <3>1
  <2>. QED
    BY <2>8, <2>9 DEF x
<1>. QED
  BY <1>1, BudgetInvariance, PTL

\* An operation that is over holds no lease, and one between two batches only
\* those of its contract, whichever error path of acquire or of commit, or
\* dropped future, it left the last batch by.
THEOREM LeasesAreReturned == BudgetSpec => []NothingLeaks
<1>1. ASSUME BudgetInv PROVE NothingLeaks
  <2> SUFFICES ASSUME NEW a \in Agent
               PROVE  /\ stage[a] = "idle" => held[a] = Nothing
                      /\ stage[a] = "open" => \A k \in Quota : held[a][k] = 0
    BY DEF NothingLeaks
  <2>1. held[a] \in [Kind -> Nat] /\ Holds(a)
    BY <1>1 DEF BudgetInv, BudgetTypeOK, Local
  <2>2. ASSUME stage[a] = "idle" PROVE held[a] = Nothing
    <3>1. \A k \in Kind : held[a][k] = 0
      BY <2>1, <2>2 DEF Holds
    <3>. QED
      BY <2>1, <3>1 DEF Nothing
  <2>3. stage[a] = "open" => \A k \in Quota : held[a][k] = 0
    BY <2>1 DEF Holds
  <2>. QED
    BY <2>2, <2>3
<1>. QED
  BY <1>1, BudgetInvariance, PTL

\* What delivered batches hold was consumed first, by the commits of their
\* reservations, and all of them together stay within the limits.
THEOREM DeliveredWithinLimits == BudgetSpec => []DeliveredIsPaid
<1>1. ASSUME BudgetInv PROVE DeliveredIsPaid
  <2> SUFFICES ASSUME NEW k \in Kind
               PROVE  shown[k] <= spent[k] /\ shown[k] + counter[k] <= Limit[k]
    BY DEF DeliveredIsPaid
  <2>1. IsFiniteSet(OnLoan(k)) /\ IsFiniteSet(Paid(k))
    BY <1>1 DEF BudgetInv, Balanced
  <2>2. Cardinality(OnLoan(k)) \in Nat /\ Cardinality(Paid(k)) \in Nat
    BY <2>1, FS_CardinalityType
  <2>3. counter[k] + Cardinality(OnLoan(k)) + spent[k] = Limit[k]
    BY <1>1 DEF BudgetInv, Balanced
  <2>4. spent[k] = shown[k] + Cardinality(Paid(k))
    BY <1>1 DEF BudgetInv, Balanced
  <2>5. counter[k] \in Nat /\ spent[k] \in Nat /\ shown[k] \in Nat
    BY <1>1 DEF BudgetInv, BudgetTypeOK
  <2>6. Limit[k] \in Nat
    BY ResourceBudgetAssumption
  <2>. QED
    BY ONLY <2>2, <2>3, <2>4, <2>5, <2>6
<1>. QED
  BY <1>1, BudgetInvariance, PTL

\* A step that leaves the counters and the leases alone is none of the ledger's.
LEMMA Unseen ==
    ASSUME UNCHANGED <<counter, held, spent>>
    PROVE  [Ledger!LedgerNext]_(Ledger!ledger)
BY DEF Ledger!ledger

\* A compare-and-swap that succeeds lends at once what the loop asked for: the
\* counter is what it was when the loop compared it with the amount.
LEMMA TryLeaseLends ==
    ASSUME BudgetInv, NEW a \in Agent, TryLease(a)
    PROVE  Ledger!LedgerNext
<1>. DEFINE x == Head(todo[a])
<1>1. BudgetTypeOK /\ Local(a)
  BY DEF BudgetInv
<1>2. /\ todo[a] # <<>> /\ x.op = "lease" /\ seen[a] # Unread
      /\ counter[x.kind] = seen[a] /\ seen[a] >= x.n
      /\ counter' = [counter EXCEPT ![x.kind] = seen[a] - x.n]
      /\ held' = [held EXCEPT ![a][x.kind] = x.n] /\ spent' = spent
  BY DEF TryLease, Doing
<1>3. x \in Proper(a) /\ x.kind \in Kind /\ x.n \in Nat /\ stage[a] \in {"contract", "lease"}
  BY <1>2, NextAccess
<1>4. x.n > 0
  BY <1>1, <1>2 DEF Local, Reads
<1>5. counter[x.kind] \in Nat /\ held[a][x.kind] \in Nat /\ Limit[x.kind] \in Nat
  BY <1>1, <1>3, Slots, ResourceBudgetAssumption
<1>6. counter[x.kind] + held[a][x.kind] <= Limit[x.kind]
  BY <1>3, RoomToReturn
<1>. HIDE DEF x
<1>7. held[a][x.kind] = 0
  BY <1>2, <1>3 DEF Proper, Leasing, Reserving
<1>8. x.n <= counter[x.kind] /\ x.n \in 0 .. Limit[x.kind]
  BY <1>2, <1>3, <1>5, <1>6
<1>9. Ledger!Lend(a, x.kind, x.n)
  BY <1>2, <1>4, <1>7, <1>8 DEF Ledger!Lend
<1>. QED
  BY <1>3, <1>8, <1>9 DEF Ledger!LedgerNext

\* A lease that ends is settled at once, whether a part of it goes back or not.
LEMMA ReleaseSettles ==
    ASSUME BudgetInv, NEW a \in Agent, Release(a) \/ CommitAll(a)
    PROVE  Ledger!LedgerNext
<1>. DEFINE x == Head(todo[a])
<1>1. BudgetTypeOK
  BY DEF BudgetInv
<1>2. /\ todo[a] # <<>> /\ x.op \in {"keep", "give"}
      /\ held' = [held EXCEPT ![a][x.kind] = 0]
      /\ spent' = [spent EXCEPT ![x.kind] = @ + x.n]
  BY DEF Release, CommitAll, Doing
<1>3. x \in Proper(a) /\ x.kind \in Kind /\ x.n \in Nat /\ stage[a] \in {"settle", "unwind", "close"}
  BY <1>2, NextAccess
<1>4. counter' = [counter EXCEPT ![x.kind] = @ + (held[a][x.kind] - x.n)]
  BY Returned
<1>. HIDE DEF x
<1>5. /\ held[a][x.kind] > 0
      /\ x.op = "keep" => x.n <= held[a][x.kind]
      /\ x.op = "give" => x.n = 0
  BY <1>2, <1>3 DEF Proper, Settling, Giving
<1>6. held[a][x.kind] \in Nat /\ counter[x.kind] \in Nat /\ Limit[x.kind] \in Nat
  BY <1>1, <1>3, Slots, ResourceBudgetAssumption
<1>7. counter[x.kind] + held[a][x.kind] <= Limit[x.kind]
  BY <1>3, RoomToReturn
<1>8. x.n <= held[a][x.kind]
  BY <1>2, <1>5, <1>6
<1>9. x.n \in 0 .. Limit[x.kind]
  <2>1. x.n \in Nat
    BY <1>3
  <2>. QED
    BY ONLY <2>1, <1>6, <1>7, <1>8
<1>10. Ledger!Settle(a, x.kind, x.n)
  BY <1>2, <1>4, <1>5, <1>8 DEF Ledger!Settle
<1>. QED
  BY <1>3, <1>9, <1>10 DEF Ledger!LedgerNext

\* Every other step of an operation leaves the ledger alone.
LEMMA OthersAreUnseen ==
    ASSUME [BudgetNext]_budgetVars
    PROVE  \/ \E a \in Agent : TryLease(a) \/ Release(a) \/ CommitAll(a)
           \/ UNCHANGED <<counter, held, spent>>
<1>1. ASSUME NEW a \in Agent, Budget(a)
      PROVE  TryLease(a) \/ Release(a) \/ CommitAll(a) \/ UNCHANGED <<counter, held, spent>>
  BY <1>1 DEF Budget, Load, LeaseNothing, LeaseRefused, CasFails, Peek, Probe
<1>2. ASSUME NEW a \in Agent,
             \/ \E c \in 0 .. MaxColumns : Open(a, c)
             \/ Opened(a) \/ ReserveRead(a) \/ Peeked(a) \/ Reserved(a)
             \/ CommitWrite(a) \/ Deliver(a) \/ Abandon(a) \/ Unwound(a) \/ CloseStream(a) \/ Closed(a)
      PROVE  UNCHANGED <<counter, held, spent>>
  BY <1>2 DEF Open, Opened, ReserveRead, Peeked, Reserved, CommitWrite, Deliver, Abandon, Unwound,
     CloseStream, Closed
<1>3. ASSUME NEW a, NEW n, NEW bytes, NEW parts,
             ReserveWrite(a, n, bytes, parts) \/ CommitRead(a, n, bytes, parts)
      PROVE  UNCHANGED <<counter, held, spent>>
  BY <1>3 DEF ReserveWrite, CommitRead
<1>4. CASE BudgetNext
  BY <1>1, <1>2, <1>3, <1>4, Zenon DEF BudgetNext
<1>5. CASE UNCHANGED budgetVars
  BY <1>5 DEF budgetVars
<1>. QED
  BY <1>4, <1>5

\* The counters and their compare-and-swap loops implement the indivisible
\* ledger: every lease is lent, and every settlement made, in one step of it.
THEOREM BudgetImplementsLedger == BudgetSpec => ImplementsLedger
<1>1. BudgetInit => Ledger!LedgerInit
  BY DEF BudgetInit, Ledger!LedgerInit, Nothing
<1>2. ASSUME BudgetInv, [BudgetNext]_budgetVars
      PROVE  [Ledger!LedgerNext]_(Ledger!ledger)
  BY <1>2, TryLeaseLends, ReleaseSettles, OthersAreUnseen, Unseen
<1>. QED
  BY <1>1, <1>2, BudgetInvariance, PTL DEF BudgetSpec, ImplementsLedger, Ledger!LedgerSpec
===============================================================================
