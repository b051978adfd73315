------------------------------- MODULE PgPool -------------------------------
(***************************************************************************)
(* PostgresPool (postgres/src/pool.rs): a semaphore of max_connections     *)
(* permits, and for each connection fingerprint a stack of idle clients.   *)
(* The SQL Server pool (sqlserver/src/pool.rs) is the case of one key.     *)
(*                                                                         *)
(* Each lock of `idle`, each access to the semaphore and each await is a   *)
(* step of its own.  In particular the Drop of a client pushes it first    *)
(* and its permit, a field, is dropped after.  What happens on a session   *)
(* while a task has it is the business of PgTransaction.                   *)
(***************************************************************************)
EXTENDS Integers, FiniteSets

CONSTANTS
    Task,   \* tasks that check a client out
    Key,    \* connection fingerprints: secret, TLS, network, timeouts
    Client, \* connections the pool may open in a run
    NoClient,
    Max     \* max_connections, and max_idle_per_key

ASSUME PgPoolAssumption ==
    /\ IsFiniteSet(Task) /\ IsFiniteSet(Client)
    /\ NoClient \notin Client
    /\ Max \in Nat \ {0}

VARIABLES
    permits,  \* permits the semaphore has left
    idle,     \* PostgresPool.idle
    pc,       \* where each task is
    key,      \* the fingerprint it asks for
    client,   \* PooledClient.client
    reusable, \* PooledClient.reusable
    closed,   \* clients whose connection has ended (Client::is_closed)
    made      \* history: the fingerprint each opened client was opened with

vars == <<permits, idle, pc, key, client, reusable, closed, made>>

TypeOK ==
    /\ permits \in 0 .. Max
    /\ idle \in [Key -> SUBSET Client]
    /\ pc \in [Task -> {"idle", "waiting", "permitted", "connecting", "out", "leaving"}]
    /\ key \in [Task -> Key]
    /\ client \in [Task -> Client \cup {NoClient}]
    /\ reusable \in [Task -> BOOLEAN]
    /\ closed \in SUBSET Client
    /\ made \in [Client -> SUBSET Key]

Init ==
    /\ permits = Max
    /\ idle = [k \in Key |-> {}]
    /\ pc = [t \in Task |-> "idle"]
    /\ key \in [Task -> Key]
    /\ client = [t \in Task |-> NoClient]
    /\ reusable = [t \in Task |-> TRUE]
    /\ closed = {}
    /\ made = [c \in Client |-> {}]

Goto(t, from, to) == pc[t] = from /\ pc' = [pc EXCEPT ![t] = to]

-----------------------------------------------------------------------------
(* PostgresPool::checkout                                                  *)

Request(t, k) ==
    /\ Goto(t, "idle", "waiting")
    /\ key' = [key EXCEPT ![t] = k]
    /\ UNCHANGED <<permits, idle, client, reusable, closed, made>>

\* acquire_owned answers.
Acquire(t) ==
    /\ Goto(t, "waiting", "permitted")
    /\ permits > 0
    /\ permits' = permits - 1
    /\ UNCHANGED <<idle, key, client, reusable, closed, made>>

\* Fault: a permit is given back that was never acquired.
GiveUpReturnsPermit(t) ==
    /\ Goto(t, "waiting", "idle")
    /\ permits' = permits + 1
    /\ UNCHANGED <<idle, key, client, reusable, closed, made>>

\* The timeout of the acquisition, or the caller drops the future.
GiveUp(t) ==
    /\ Goto(t, "waiting", "idle")
    /\ UNCHANGED <<permits, idle, key, client, reusable, closed, made>>

\* validate_session_timeouts refuses: the permit drops.
Refuse(t) ==
    /\ Goto(t, "permitted", "idle")
    /\ permits' = permits + 1
    /\ UNCHANGED <<idle, key, client, reusable, closed, made>>

Take(t, c) ==
    /\ client' = [client EXCEPT ![t] = c]
    /\ reusable' = [reusable EXCEPT ![t] = TRUE]

\* Fault: any idle client will do.
PopAny(t) ==
    /\ pc[t] = "permitted"
    /\ \/ /\ \A k \in Key : idle[k] = {}
          /\ pc' = [pc EXCEPT ![t] = "connecting"]
          /\ UNCHANGED <<idle, client, reusable>>
       \/ \E k \in Key : \E c \in idle[k] :
             /\ idle' = [idle EXCEPT ![k] = @ \ {c}]
             /\ pc' = [pc EXCEPT ![t] = "out"]
             /\ Take(t, c)
    /\ UNCHANGED <<permits, key, closed, made>>

\* Fault: a closed client is found closed, and left where it is.
PopLeavesClosed(t) ==
    /\ pc[t] = "permitted"
    /\ \/ /\ idle[key[t]] \subseteq closed
          /\ pc' = [pc EXCEPT ![t] = "connecting"]
          /\ UNCHANGED <<idle, client, reusable>>
       \/ \E c \in idle[key[t]] \ closed :
             /\ idle' = [idle EXCEPT ![key[t]] = @ \ {c}]
             /\ pc' = [pc EXCEPT ![t] = "out"]
             /\ Take(t, c)
    /\ UNCHANGED <<permits, key, closed, made>>

\* A client of the key is popped and served unless it is closed; one that is
\* closed is discarded, and no second one is tried.
Pop(t) ==
    /\ pc[t] = "permitted"
    /\ \/ /\ idle[key[t]] = {}
          /\ pc' = [pc EXCEPT ![t] = "connecting"]
          /\ UNCHANGED <<idle, client, reusable>>
       \/ \E c \in idle[key[t]] :
             /\ idle' = [idle EXCEPT ![key[t]] = @ \ {c}]
             /\ IF c \in closed
                THEN /\ pc' = [pc EXCEPT ![t] = "connecting"]
                     /\ UNCHANGED <<client, reusable>>
                ELSE /\ pc' = [pc EXCEPT ![t] = "out"]
                     /\ Take(t, c)
    /\ UNCHANGED <<permits, key, closed, made>>

\* connect_with_tls answers with a new client ...
Connect(t, c) ==
    /\ Goto(t, "connecting", "out")
    /\ made[c] = {}
    /\ made' = [made EXCEPT ![c] = {key[t]}]
    /\ Take(t, c)
    /\ UNCHANGED <<permits, idle, key, closed>>

\* Fault: the error leaves the permit behind.
ConnectFailsForgets(t) ==
    /\ Goto(t, "connecting", "idle")
    /\ UNCHANGED <<permits, idle, key, client, reusable, closed, made>>

\* ... or fails, or the caller drops the future: the permit drops.
ConnectFails(t) ==
    /\ Goto(t, "connecting", "idle")
    /\ permits' = permits + 1
    /\ UNCHANGED <<idle, key, client, reusable, closed, made>>

-----------------------------------------------------------------------------
(* PooledClient                                                            *)

Invalidate(t) ==
    /\ pc[t] = "out"
    /\ reusable' = [reusable EXCEPT ![t] = FALSE]
    /\ UNCHANGED <<permits, idle, pc, key, client, closed, made>>

MarkReusable(t) ==
    /\ pc[t] = "out"
    /\ reusable' = [reusable EXCEPT ![t] = TRUE]
    /\ UNCHANGED <<permits, idle, pc, key, client, closed, made>>

\* Drop: the client goes back to its stack if it may be used again and there
\* is room.
Return(t) ==
    /\ Goto(t, "out", "leaving")
    /\ IF reusable[t] /\ client[t] \notin closed /\ Cardinality(idle[key[t]]) < Max
       THEN idle' = [idle EXCEPT ![key[t]] = @ \cup {client[t]}]
       ELSE UNCHANGED idle
    /\ client' = [client EXCEPT ![t] = NoClient]
    /\ UNCHANGED <<permits, key, reusable, closed, made>>

\* The permit, a field of the client, drops after it.
Leave(t) ==
    /\ Goto(t, "leaving", "idle")
    /\ permits' = permits + 1
    /\ UNCHANGED <<idle, key, client, reusable, closed, made>>

\* The server or the network ends an open connection (external).
Close(c) ==
    /\ made[c] # {} /\ c \notin closed
    /\ closed' = closed \cup {c}
    /\ UNCHANGED <<permits, idle, pc, key, client, reusable, made>>

-----------------------------------------------------------------------------
Step(t) ==
    \/ Acquire(t) \/ Pop(t) \/ ConnectFails(t) \/ Return(t) \/ Leave(t)
    \/ \E c \in Client : Connect(t, c)

Next ==
    \/ \E t \in Task :
           \/ \E k \in Key : Request(t, k)
           \/ Step(t) \/ GiveUp(t) \/ Refuse(t) \/ Invalidate(t) \/ MarkReusable(t)
    \/ \E c \in Client : Close(c)

Spec == Init /\ [][Next]_vars

\* Callers give back what they checked out, connecting ends one way or the
\* other, and the semaphore is fair; nobody has to give up waiting.
FairSpec ==
    /\ Spec
    /\ \A t \in Task :
           /\ SF_vars(Acquire(t))
           /\ WF_vars(Pop(t)) /\ WF_vars(ConnectFails(t) \/ \E c \in Client : Connect(t, c))
           /\ WF_vars(Return(t)) /\ WF_vars(Leave(t))

-----------------------------------------------------------------------------
\* Clients of a key that are open, or that a task is opening.
Live(k) == {t \in Task : key[t] = k /\ pc[t] \in {"connecting", "out"}}

\* The pool never has more than max_connections clients of one key, in use,
\* idle and being opened together: a task with a permit that finds no idle
\* client may connect, because whoever gave its permit back had pushed its
\* client before (Drop for PooledClient).
PoolBounded ==
    \A k \in Key : Cardinality(idle[k]) + Cardinality(Live(k)) <= Max

\* A client has one owner, a task or the stack of a key, and serves only the
\* fingerprint it was opened with: credentials, TLS and timeouts of one
\* caller never reach another.
OwnedOnce ==
    /\ \A t \in Task : pc[t] = "out" =>
           /\ made[client[t]] = {key[t]}
           /\ \A k \in Key : client[t] \notin idle[k]
           /\ \A u \in Task \ {t} : pc[u] = "out" => client[u] # client[t]
    /\ \A k \in Key : \A c \in idle[k] : made[c] = {k}

\* Whoever waits for a permit, and does not give up, gets one: no error path
\* of checkout and no Drop loses a permit.
WaitersServed == \A t \in Task : pc[t] = "waiting" ~> pc[t] # "waiting"
=============================================================================
