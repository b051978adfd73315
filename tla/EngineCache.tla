----------------------------- MODULE EngineCache -----------------------------
(***************************************************************************)
(* The caches an Engine keeps beside its secret (engine.rs): capabilities  *)
(* and reflected tables, filled by calls that leave the lock while the     *)
(* provider answers, and emptied by `rotate_secret`, `invalidate_metadata` *)
(* and `dispose`.                                                          *)
(*                                                                         *)
(* Every block under the `credentials` RwLock or the `lifecycle` Mutex is  *)
(* one step.  A secret is named by the generation that installed it: the   *)
(* code replaces both in one write block and reads both in one read block. *)
(* What a provider answers is the version of the object it saw; other      *)
(* clients of the database change it at any time (external).               *)
(***************************************************************************)
EXTENDS Naturals

CONSTANTS
    Task,         \* tasks calling the engine
    Key,          \* cached objects: metadata keys and Capabilities
    Capabilities, \* the key that stands for Credentials.capabilities
    MaxGen,       \* bound on rotations
    MaxVersion,   \* bound on changes of one object
    MaxTime,      \* bound on the clock
    Ttl,          \* EngineOptions.metadata_cache_ttl
    MaxAttempts   \* MAX_ATTEMPTS

ASSUME EngineCacheAssumption ==
    /\ Capabilities \in Key
    /\ MaxGen \in Nat /\ MaxVersion \in Nat /\ MaxTime \in Nat /\ Ttl \in Nat
    /\ MaxAttempts \in Nat \ {0}

VARIABLES
    isDisposed,   \* Lifecycle.disposed
    clearing,     \* dispose() has still to empty the caches
    gen,          \* Credentials.generation, and the secret it names
    cache,        \* Credentials.capabilities and .metadata; `at` is observed_at
    version,      \* the object's version in the database
    now,          \* Instant::now()
    pc,           \* where each task's call is
    key,          \* what it asks for
    refresh,      \* its refresh argument
    attempt,      \* its turn of the loop
    mine,         \* the generation it took with the secret
    answer,       \* what the provider answered
    result,       \* what the call returned
    since         \* history: the object's version when the call began

shared == <<isDisposed, clearing, gen, cache, version, now>>
call == <<key, refresh, attempt, mine, answer, result, since>>
cacheVars == <<shared, pc, call>>

None == [gen |-> 0, seen |-> 0, at |-> 0, kind |-> "none"]
Failed == [None EXCEPT !.kind = "failed"]
Entry == [gen : 0 .. MaxGen, seen : 0 .. MaxVersion, at : 0 .. MaxTime, kind : {"ok"}]
Slot == Entry \cup {None}
Result == Entry \cup {None, Failed}

CacheTypeOK ==
    /\ isDisposed \in BOOLEAN /\ clearing \in BOOLEAN
    /\ gen \in 0 .. MaxGen
    /\ cache \in [Key -> Slot]
    /\ version \in [Key -> 0 .. MaxVersion]
    /\ now \in 0 .. MaxTime
    /\ pc \in [Task -> {"idle", "enter", "snapshot", "ask", "leave", "compare", "store", "done",
                    "rotate"}]
    /\ key \in [Task -> Key]
    /\ refresh \in [Task -> BOOLEAN]
    /\ attempt \in [Task -> 1 .. MaxAttempts]
    /\ mine \in [Task -> 0 .. MaxGen]
    /\ answer \in [Task -> Result]
    /\ result \in [Task -> Result]
    /\ since \in [Task -> 0 .. MaxVersion]

-----------------------------------------------------------------------------
CacheInit ==
    /\ isDisposed = FALSE /\ clearing = FALSE
    /\ gen = 0
    /\ cache = [k \in Key |-> None]
    /\ version = [k \in Key |-> 0]
    /\ now = 0
    /\ pc = [t \in Task |-> "idle"]
    /\ key = [t \in Task |-> Capabilities]
    /\ refresh = [t \in Task |-> FALSE]
    /\ attempt = [t \in Task |-> 1]
    /\ mine = [t \in Task |-> 0]
    /\ answer = [t \in Task |-> None]
    /\ result = [t \in Task |-> None]
    /\ since = [t \in Task |-> 0]

Advance(t, from, to) == pc[t] = from /\ pc' = [pc EXCEPT ![t] = to]

\* The locals of one turn of the loop are dropped.
Forget(t) ==
    /\ mine' = [mine EXCEPT ![t] = 0]
    /\ answer' = [answer EXCEPT ![t] = None]

\* The call returns r.
Return(t, r) ==
    /\ pc' = [pc EXCEPT ![t] = "done"]
    /\ result' = [result EXCEPT ![t] = r]
    /\ attempt' = [attempt EXCEPT ![t] = 1]
    /\ Forget(t)

\* A cached entry that may be served: capabilities have no expiry, and
\* metadata are younger than the time to live.
Usable(k) ==
    /\ cache[k].kind = "ok"
    /\ k = Capabilities \/ now - cache[k].at < Ttl

\* What is cached: metadata with the time of the insertion, capabilities
\* without one.
Stamped(k, r) == IF k = Capabilities THEN r ELSE [r EXCEPT !.at = now]

(* Engine::capabilities and Engine::reflect_table.                         *)

Request(t, k, r) ==
    /\ Advance(t, "idle", "enter")
    /\ key' = [key EXCEPT ![t] = k]
    /\ refresh' = [refresh EXCEPT ![t] = r]
    /\ since' = [since EXCEPT ![t] = IF r THEN version[k] ELSE 0]
    /\ UNCHANGED <<shared, attempt, mine, answer, result>>

\* ensure_open at the head of each attempt.
Enter(t) ==
    /\ pc[t] = "enter"
    /\ IF isDisposed THEN Return(t, Failed)
                   ELSE /\ pc' = [pc EXCEPT ![t] = "snapshot"]
                        /\ UNCHANGED <<attempt, mine, answer, result>>
    /\ UNCHANGED <<shared, key, refresh, since>>

\* Fault: a cached value is served whatever `refresh` says.
SnapshotCachedFirst(t) ==
    /\ pc[t] = "snapshot"
    /\ IF Usable(key[t])
       THEN Return(t, cache[key[t]])
       ELSE /\ mine' = [mine EXCEPT ![t] = gen]
            /\ pc' = [pc EXCEPT ![t] = "ask"]
            /\ UNCHANGED <<attempt, answer, result>>
    /\ UNCHANGED <<shared, key, refresh, since>>

\* Secret, generation and cached value are read under one read lock.
Snapshot(t) ==
    /\ pc[t] = "snapshot"
    /\ IF ~refresh[t] /\ Usable(key[t])
       THEN Return(t, cache[key[t]])
       ELSE /\ mine' = [mine EXCEPT ![t] = gen]
            /\ pc' = [pc EXCEPT ![t] = "ask"]
            /\ UNCHANGED <<attempt, answer, result>>
    /\ UNCHANGED <<shared, key, refresh, since>>

\* The provider reads the catalogue with the secret of the snapshot, or
\* fails, cancellation included.
Ask(t) ==
    /\ Advance(t, "ask", "leave")
    /\ \/ answer' = [answer EXCEPT ![t] = [gen |-> mine[t], seen |-> version[key[t]], at |-> 0,
                                           kind |-> "ok"]]
       \/ answer' = [answer EXCEPT ![t] = Failed]
    /\ UNCHANGED <<shared, key, refresh, attempt, mine, result, since>>

\* ensure_open after the await; only reflect_table looks at the generation
\* once more before it converts the answer.
Leave(t) ==
    /\ pc[t] = "leave"
    /\ IF isDisposed THEN Return(t, Failed)
       ELSE /\ pc' = [pc EXCEPT ![t] = IF key[t] = Capabilities THEN "store" ELSE "compare"]
            /\ UNCHANGED <<attempt, mine, answer, result>>
    /\ UNCHANGED <<shared, key, refresh, since>>

\* Fault: one attempt more than MAX_ATTEMPTS.
AgainOnceMore(t) ==
    IF attempt[t] > MaxAttempts
    THEN Return(t, Failed)
    ELSE /\ pc' = [pc EXCEPT ![t] = "enter"]
         /\ attempt' = [attempt EXCEPT ![t] = @ + 1]
         /\ Forget(t)
         /\ UNCHANGED result

\* `continue` after a rotation: another turn, or the Transient error.
Again(t) ==
    IF attempt[t] = MaxAttempts
    THEN Return(t, Failed)
    ELSE /\ pc' = [pc EXCEPT ![t] = "enter"]
         /\ attempt' = [attempt EXCEPT ![t] = @ + 1]
         /\ Forget(t)
         /\ UNCHANGED result

\* The conversion of an inspection may be refused as well.
Compare(t) ==
    /\ pc[t] = "compare"
    /\ IF mine[t] # gen THEN Again(t)
       ELSE \/ Return(t, Failed)
            \/ /\ answer[t].kind = "ok"
               /\ pc' = [pc EXCEPT ![t] = "store"]
               /\ UNCHANGED <<attempt, mine, answer, result>>
    /\ UNCHANGED <<shared, key, refresh, since>>

\* Fault: an answer of another generation is not cached, but still given.
StoreReturnsOld(t) ==
    /\ pc[t] = "store"
    /\ Return(t, answer[t])
    /\ cache' = IF mine[t] = gen /\ answer[t].kind = "ok"
                THEN [cache EXCEPT ![key[t]] = Stamped(key[t], answer[t])]
                ELSE cache
    /\ UNCHANGED <<isDisposed, clearing, gen, version, now, key, refresh, since>>

\* Under the write lock: an answer of another generation is discarded, a
\* failure is returned, a success is cached from this moment and returned.
Store(t) ==
    /\ pc[t] = "store"
    /\ IF mine[t] # gen THEN Again(t) /\ UNCHANGED cache
       ELSE /\ Return(t, answer[t])
            /\ cache' = IF answer[t].kind = "ok"
                        THEN [cache EXCEPT ![key[t]] = Stamped(key[t], answer[t])]
                        ELSE cache
    /\ UNCHANGED <<isDisposed, clearing, gen, version, now, key, refresh, since>>

\* The call's frame is gone.
Done(t) ==
    /\ Advance(t, "done", "idle")
    /\ key' = [key EXCEPT ![t] = Capabilities]
    /\ refresh' = [refresh EXCEPT ![t] = FALSE]
    /\ result' = [result EXCEPT ![t] = None]
    /\ since' = [since EXCEPT ![t] = 0]
    /\ UNCHANGED <<shared, attempt, mine, answer>>

(* The calls that change the shared state.                                 *)

\* rotate_secret: ensure_open, then one write block, which dispose() may
\* precede.
RotateEnter(t) ==
    /\ pc[t] = "idle" /\ ~isDisposed
    /\ pc' = [pc EXCEPT ![t] = "rotate"]
    /\ UNCHANGED <<shared, call>>

\* Fault: the caches survive a rotation.
RotateSecretOnly(t) ==
    /\ Advance(t, "rotate", "idle")
    /\ gen' = IF gen = MaxGen THEN gen ELSE gen + 1
    /\ UNCHANGED <<isDisposed, clearing, cache, version, now, call>>

\* Fails on the last generation, MaxGen standing for u64::MAX.
RotateSecret(t) ==
    /\ Advance(t, "rotate", "idle")
    /\ IF gen = MaxGen THEN UNCHANGED <<gen, cache>>
       ELSE gen' = gen + 1 /\ cache' = [k \in Key |-> None]
    /\ UNCHANGED <<isDisposed, clearing, version, now, call>>

InvalidateMetadata(ks) ==
    /\ ks \subseteq Key \ {Capabilities}
    /\ cache' = [k \in Key |-> IF k \in ks THEN None ELSE cache[k]]
    /\ UNCHANGED <<isDisposed, clearing, gen, version, now, pc, call>>

Dispose ==
    /\ ~isDisposed
    /\ isDisposed' = TRUE /\ clearing' = TRUE
    /\ UNCHANGED <<gen, cache, version, now, pc, call>>

DisposeClear ==
    /\ clearing
    /\ clearing' = FALSE
    /\ cache' = [k \in Key |-> None]
    /\ UNCHANGED <<isDisposed, gen, version, now, pc, call>>

Alter(k) ==
    /\ version[k] < MaxVersion
    /\ version' = [version EXCEPT ![k] = @ + 1]
    /\ UNCHANGED <<isDisposed, clearing, gen, cache, now, pc, call>>

Tick ==
    /\ now < MaxTime
    /\ now' = now + 1
    /\ UNCHANGED <<isDisposed, clearing, gen, cache, version, pc, call>>

CacheNext ==
    \/ \E t \in Task :
          \/ \E k \in Key, r \in BOOLEAN : Request(t, k, r)
          \/ Enter(t) \/ Snapshot(t) \/ Ask(t) \/ Leave(t) \/ Compare(t) \/ Store(t) \/ Done(t)
          \/ RotateEnter(t) \/ RotateSecret(t)
    \/ \E ks \in SUBSET (Key \ {Capabilities}) : InvalidateMetadata(ks)
    \/ Dispose \/ DisposeClear \/ Tick
    \/ \E k \in Key : Alter(k)

CacheSpec == CacheInit /\ [][CacheNext]_cacheVars

-----------------------------------------------------------------------------
(* Properties.                                                             *)

\* "Una rotazione del secret invalida la cache": whatever was in flight when
\* rotate_secret ran, no cached entry was obtained with an older secret.
CacheIsCurrent == \A k \in Key : cache[k].kind = "ok" => cache[k].gen = gen

\* t's call ends in this step, if at all, with an answer of the current secret.
AnswerCurrent ==
    \A t \in Task : pc[t] # "done" /\ pc'[t] = "done" /\ result'[t].kind = "ok"
                        => result'[t].gen = gen

\* "... e scarta ogni risposta iniziata con il secret vecchio": a call only
\* succeeds with an answer obtained with the secret that is installed at the
\* moment it is given.
AnswersAreCurrent == [][AnswerCurrent]_cacheVars

\* "`refresh` forza una nuova osservazione": the answer of a refreshing call
\* was observed after the call began, retries included.
RefreshIsNew ==
    \A t \in Task : pc[t] = "done" /\ refresh[t] /\ result[t].kind = "ok"
                        => result[t].seen >= since[t]
=============================================================================
