-------------------------- MODULE UnitOfWorkProof ---------------------------
(***************************************************************************)
(* Proofs about UnitOfWork for any number of sessions, keys, values and    *)
(* operations.  A version tells a value because the row that a transaction *)
(* holds under a lock is newer than the committed one, so that an instance *)
(* loaded before can only be older; a savepoint gives back instances and   *)
(* rows together.  Nothing is forgotten because every wish is, at each     *)
(* moment, either still to be flushed or already in the transaction, and   *)
(* COMMIT is sent when nothing is left to flush.                           *)
(***************************************************************************)
EXTENDS UnitOfWork, TLAPS

InMap == {"persistent", "deleted"}
Away == {"none", "erased"}

\* A committed row has a version and is remembered.
Committed == \A k \in Key : db[k] = Absent \/ (k \in ever /\ db[k].ver >= 1)

\* A row is locked by one transaction, and the one savepoint is part of its
\* own.
Locked ==
    /\ \A r, s \in Session : r # s => tx[r].wrote \cap tx[s].wrote = {}
    /\ \A s \in Session : \A m \in mark[s] : m.tx.wrote \subseteq tx[s].wrote /\ mark[s] = {m}

\* What transaction t wrote is newer than what is committed.
Ahead(t) ==
    \A k \in t.wrote :
        /\ t.rows[k] = Absent \/ t.rows[k].ver >= 1
        /\ k \in ever \ mixed /\ t.rows[k] # Absent
              => db[k] # Absent /\ t.rows[k].ver > db[k].ver

\* What the instances o know of the rows under transaction t.
Known(t, o) ==
    \A k \in Key \ mixed :
        o[k].st \in InMap =>
            /\ o[k].ver >= 1
            /\ k \in t.wrote => t.rows[k].ver = o[k].ver /\ t.rows[k].val = o[k].oval
            /\ k \notin t.wrote =>
                  /\ k \in ever
                  /\ \/ db[k] = Absent
                     \/ o[k].ver < db[k].ver
                     \/ o[k].ver = db[k].ver /\ o[k].oval = db[k].val

\* The wish w for k is in t, or the instance i has it still to be flushed;
\* put: refresh has put the dirty flag aside.
Keeps(t, k, i, w, put) ==
    /\ w = "gone" =>
          \/ i.st = "deleted"
          \/ i.st \in Away /\ k \in t.wrote /\ t.rows[k] = Absent
    /\ w \in Value =>
          \/ i.st = "pending" /\ i.val = w
          \/ i.st = "persistent" /\ (i.dirty \/ put) /\ i.val = w
          \/ i.st = "persistent" /\ ~i.dirty /\ ~put /\ k \in t.wrote /\ t.rows[k].val = w
          \/ i.st \in Away /\ k \in t.wrote /\ t.rows[k].val = w

PutAside(s, k) == held[s] /\ call[s].key = k

\* The parts of the invariant, of one session.
VersionsOf(s) ==
    /\ Ahead(tx[s]) /\ Known(tx[s], obj[s])
    /\ \A m \in mark[s] : Ahead(m.tx) /\ Known(m.tx, m.obj)

WishesOf(s) ==
    /\ \A k \in Key : Keeps(tx[s], k, obj[s][k], want[s][k], PutAside(s, k))
    /\ \A m \in mark[s] : \A k \in Key : Keeps(m.tx, k, m.obj[k], m.want[k], FALSE)

PlaceOf(s) ==
    /\ held[s] => call[s].op = "refresh" /\ call[s].key \in Key /\ pc[s] \notin {"idle", "ended"}
    /\ pc[s] = "delete" => \A k \in todo[s] : obj[s][k].st = "deleted"
    /\ pc[s] = "run" /\ call[s].op \in {"commit", "savepoint"} => ~HasFlushWork(s)
    /\ call[s].op \in {"get", "refresh", "update", "delete"} => call[s].key \in Key

SessionsOK == \A s \in Session : VersionsOf(s) /\ WishesOf(s) /\ PlaceOf(s)

IInv == TypeOK /\ Committed /\ Locked /\ SessionsOK

-----------------------------------------------------------------------------
(* What an assignment to one element of a nested function does.            *)

\* One instance is replaced.
LEMMA PutInstance ==
  ASSUME NEW f \in [Session -> [Key -> Instance]], NEW s \in Session, NEW k \in Key,
         NEW i \in Instance, NEW g, g = [f EXCEPT ![s] = [f[s] EXCEPT ![k] = i]]
  PROVE  /\ g \in [Session -> [Key -> Instance]]
         /\ g[s][k] = i
         /\ \A j \in Key : j # k => g[s][j] = f[s][j]
         /\ \A r \in Session : r # s => g[r] = f[r]
  OBVIOUS

\* One wish is replaced.
LEMMA PutWish ==
  ASSUME NEW f \in [Session -> [Key -> Wish]], NEW s \in Session, NEW k \in Key,
         NEW w \in Wish, NEW g, g = [f EXCEPT ![s][k] = w]
  PROVE  /\ g \in [Session -> [Key -> Wish]]
         /\ g[s][k] = w
         /\ \A j \in Key : j # k => g[s][j] = f[s][j]
         /\ \A r \in Session : r # s => g[r] = f[r]
  OBVIOUS

\* Values of the types.
LEMMA Constants ==
  /\ Absent \in Row /\ NoTx \in Transaction /\ None \in Instance /\ NoWants \in [Key -> Wish]
  /\ NoTx.wrote = {} /\ None.st = "none" /\ None.dirty = FALSE /\ Absent.ver = 0
  /\ \A v \in Value : v # "nothing" /\ v # "gone" /\ v # NoValue
  BY UnitOfWorkAssumption DEF Absent, Row, NoTx, Transaction, None, Instance, NoWants, Wish

\* The initial states satisfy the invariant.
LEMMA InitOK == Init => IInv
  <1> SUFFICES ASSUME Init PROVE IInv
    OBVIOUS
  <1>1. db \in [Key -> Row] /\ Committed
    BY Constants DEF Init, Row, Committed
  <1>2. TypeOK
    BY <1>1, Constants, UnitOfWorkAssumption DEF Init, TypeOK, NoCall, Flushing
  <1>3. Locked
    BY Constants DEF Init, Locked
  <1>4. ASSUME NEW s \in Session PROVE VersionsOf(s) /\ WishesOf(s) /\ PlaceOf(s)
    <2>1. VersionsOf(s)
      BY Constants DEF Init, VersionsOf, Ahead, Known, InMap
    <2>2. WishesOf(s)
      BY Constants DEF Init, WishesOf, Keeps, NoWants
    <2>3. PlaceOf(s)
      BY Constants DEF Init, PlaceOf, NoCall
    <2> QED
      BY <2>1, <2>2, <2>3
  <1> QED
    BY <1>1, <1>2, <1>3, <1>4 DEF IInv, SessionsOK

-----------------------------------------------------------------------------
(* A step of one session.                                                  *)

\* Nothing of another session changes.
Own(s) ==
    \A r \in Session : r # s =>
        /\ tx'[r] = tx[r] /\ obj'[r] = obj[r] /\ mark'[r] = mark[r] /\ want'[r] = want[r]
        /\ pc'[r] = pc[r] /\ call'[r] = call[r] /\ todo'[r] = todo[r] /\ held'[r] = held[r]

\* Such a step, short of COMMIT, keeps the invariant when it keeps the
\* session's own part and locks what it writes.
LEMMA Frame ==
  ASSUME IInv, NEW s \in Session, TypeOK', Own(s), db' = db, ever' = ever, mixed \subseteq mixed',
         \A k \in tx'[s].wrote : k \in tx[s].wrote \/ Free(s, k),
         \A m \in mark'[s] : m.tx.wrote \subseteq tx'[s].wrote /\ mark'[s] = {m},
         VersionsOf(s)', WishesOf(s)', PlaceOf(s)'
  PROVE  IInv'
  <1> USE DEF IInv, Own
  <1>1. Committed'
    BY DEF Committed
  <1>2. Locked'
    BY DEF Locked, Free
  <1>3. ASSUME NEW r \in Session, r # s PROVE VersionsOf(r)' /\ WishesOf(r)' /\ PlaceOf(r)'
    <2> USE <1>3
    <2>1. VersionsOf(r) /\ WishesOf(r) /\ PlaceOf(r)
      BY DEF SessionsOK
    <2>2. VersionsOf(r)'
      BY <2>1 DEF VersionsOf, Ahead, Known
    <2>3. WishesOf(r)'
      BY <2>1 DEF WishesOf, PutAside
    <2>4. PlaceOf(r)'
      BY <2>1 DEF PlaceOf, HasFlushWork, DirtyInstances, Mapped
    <2> QED
      BY <2>2, <2>3, <2>4
  <1>4. SessionsOK'
    BY <1>3 DEF SessionsOK
  <1> QED
    BY <1>1, <1>2, <1>4

\* The versions of a session stay true when its rows stay as they are and no
\* instance comes to know another version.
LEMMA QuietVersions ==
  ASSUME NEW s \in Session, VersionsOf(s), db' = db, ever' = ever, mixed \subseteq mixed',
         tx'[s] = tx[s], mark'[s] \subseteq mark[s],
         \A j \in Key : obj'[s][j].st \in InMap =>
             obj[s][j].st \in InMap /\ obj'[s][j].ver = obj[s][j].ver /\ obj'[s][j].oval = obj[s][j].oval
  PROVE  VersionsOf(s)'
  BY DEF VersionsOf, Ahead, Known

\* The wishes of a session are kept when all that changes is about k, and
\* the wish for k is kept.
LEMMA OneWish ==
  ASSUME NEW s \in Session, NEW k \in Key, WishesOf(s), mark'[s] \subseteq mark[s],
         \A j \in Key : j # k =>
             /\ obj'[s][j] = obj[s][j] /\ want'[s][j] = want[s][j]
             /\ j \in tx[s].wrote => j \in tx'[s].wrote /\ tx'[s].rows[j] = tx[s].rows[j]
             /\ PutAside(s, j)' <=> PutAside(s, j),
         Keeps(tx[s], k, obj[s][k], want[s][k], PutAside(s, k))'
  PROVE  WishesOf(s)'
  BY DEF WishesOf, Keeps

-----------------------------------------------------------------------------
(* The application.                                                        *)

\* One instance and the wish for its key are replaced, between calls or in a
\* hook: no version is learnt, the wish is kept, and what the flush is about
\* to delete stays deleted.
LEMMA PutStep ==
  ASSUME IInv, NEW s \in Session, NEW k \in Key, NEW i \in Instance, NEW w \in Wish,
         obj' = [obj EXCEPT ![s] = [obj[s] EXCEPT ![k] = i]], want' = [want EXCEPT ![s][k] = w],
         UNCHANGED <<db, tx, mark, place, mixed, ever>>, Acts(s, {"idle"} \cup Flushing),
         i.st \in InMap => obj[s][k].st \in InMap /\ i.ver = obj[s][k].ver /\ i.oval = obj[s][k].oval,
         Keeps(tx[s], k, i, w, PutAside(s, k)),
         obj[s][k].st # "deleted" \/ pc[s] = "idle"
  PROVE  IInv'
  <1> USE DEF IInv
  <1>1. /\ obj' \in [Session -> [Key -> Instance]] /\ obj'[s][k] = i
        /\ \A j \in Key : j # k => obj'[s][j] = obj[s][j]
        /\ \A r \in Session : r # s => obj'[r] = obj[r]
    BY PutInstance DEF TypeOK
  <1>2. /\ want' \in [Session -> [Key -> Wish]] /\ want'[s][k] = w
        /\ \A j \in Key : j # k => want'[s][j] = want[s][j]
        /\ \A r \in Session : r # s => want'[r] = want[r]
    BY PutWish DEF TypeOK
  <1>3. UNCHANGED <<db, tx, mark, pc, call, todo, dirty, held, mixed, ever>> /\ ops' \in 0 .. MaxOps
    BY UnitOfWorkAssumption DEF Acts, place, TypeOK
  <1>4. TypeOK'
    BY <1>1, <1>2, <1>3 DEF TypeOK
  <1>5. Own(s)
    BY <1>1, <1>2, <1>3 DEF Own
  <1>6. VersionsOf(s)'
    <2>1. \A j \in Key : obj'[s][j].st \in InMap =>
             obj[s][j].st \in InMap /\ obj'[s][j].ver = obj[s][j].ver /\ obj'[s][j].oval = obj[s][j].oval
      BY <1>1
    <2> QED
      BY <1>3, <2>1, QuietVersions DEF SessionsOK
  <1>7. WishesOf(s)'
    <2>1. \A j \in Key : PutAside(s, j)' <=> PutAside(s, j)
      BY <1>3 DEF PutAside
    <2>2. Keeps(tx[s], k, obj[s][k], want[s][k], PutAside(s, k))'
      BY <1>1, <1>2, <1>3, <2>1 DEF Keeps
    <2>3. WishesOf(s)
      BY DEF SessionsOK
    <2> QED
      BY <1>1, <1>2, <1>3, <2>1, <2>2, <2>3, OneWish
  <1>8. PlaceOf(s)'
    <2>1. pc[s] # "run" /\ todo[s] \subseteq Key /\ PlaceOf(s)
      BY DEF Acts, Flushing, TypeOK, SessionsOK
    <2>2. (pc[s] = "delete" => \A j \in todo[s] : obj[s][j].st = "deleted")'
      BY <1>1, <1>3, <2>1 DEF PlaceOf
    <2> QED
      BY <1>3, <2>1, <2>2 DEF PlaceOf
  <1> QED
    BY <1>3, <1>4, <1>5, <1>6, <1>7, <1>8, Frame DEF Locked

\* MappedColumn.__set__ keeps the invariant.
LEMMA AssignStep ==
  ASSUME IInv, NEW s \in Session, NEW k \in Key, NEW v \in Value, Assign(s, k, v)
  PROVE  IInv'
  <1> DEFINE o == obj[s][k]
             changes == o.st = "persistent" /\ o.val # v
             flag == IF changes THEN v # o.oval ELSE o.dirty
             i == [o EXCEPT !.val = v, !.dirty = flag]
             w == CASE o.st = "pending" \/ (changes /\ v # o.oval) -> v
                    [] changes /\ v = o.oval -> "nothing"
                    [] OTHER -> want[s][k]
  <1> USE DEF IInv
  <1>1. /\ o \in Instance /\ o.dirty \in BOOLEAN /\ want[s][k] \in Wish
        /\ Keeps(tx[s], k, o, want[s][k], PutAside(s, k)) /\ o.st \in {"pending", "persistent"}
    <2>1. o \in Instance /\ o.dirty \in BOOLEAN /\ want[s][k] \in Wish
      BY DEF TypeOK, Instance
    <2>2. Keeps(tx[s], k, o, want[s][k], PutAside(s, k))
      BY DEF SessionsOK, WishesOf
    <2> QED
      BY <2>1, <2>2 DEF Assign
  <1>2. flag \in BOOLEAN
    BY <1>1
  <1>3. i \in Instance /\ i.st = o.st /\ i.val = v /\ i.oval = o.oval /\ i.ver = o.ver /\ i.dirty = flag
    <2> HIDE DEF flag
    <2> QED
      BY <1>1, <1>2 DEF Instance
  <1>4. obj' = [obj EXCEPT ![s] = [obj[s] EXCEPT ![k] = i]]
    BY DEF Assign, TypeOK, Instance
  <1>5. w \in Wish /\ want' = [want EXCEPT ![s][k] = w]
    BY <1>1 DEF Assign, Wants, Wish
  <1> HIDE DEF i, w
  <1>6. Keeps(tx[s], k, i, w, PutAside(s, k))
    <2>1. CASE o.st = "pending"
      <3>1. w = v
        BY <2>1 DEF w
      <3> QED
        BY <1>3, <2>1, <3>1, Constants DEF Keeps
    <2>2. CASE o.st = "persistent" /\ o.val = v
      <3>1. w = want[s][k]
        BY <2>2 DEF w
      <3>2. flag = o.dirty
        BY <2>2
      <3> QED
        BY <1>1, <1>3, <2>2, <3>1, <3>2 DEF Keeps
    <2>3. CASE o.st = "persistent" /\ o.val # v /\ v = o.oval
      <3>1. w = "nothing"
        BY <2>3 DEF w
      <3> QED
        BY <3>1, Constants DEF Keeps
    <2>4. CASE o.st = "persistent" /\ o.val # v /\ v # o.oval
      <3>1. w = v /\ flag
        BY <2>4 DEF w
      <3> QED
        BY <1>3, <2>4, <3>1, Constants DEF Keeps
    <2> QED
      BY <1>1, <2>1, <2>2, <2>3, <2>4
  <1>7. UNCHANGED <<db, tx, mark, place, mixed, ever>> /\ Acts(s, {"idle"} \cup Flushing)
    BY DEF Assign
  <1> QED
    BY <1>1, <1>3, <1>4, <1>5, <1>6, <1>7, PutStep

\* add keeps the invariant.
LEMMA AddStep ==
  ASSUME IInv, NEW s \in Session, NEW k \in Key, NEW v \in Value, Add(s, k, v)
  PROVE  IInv'
  <1> DEFINE i == [None EXCEPT !.st = "pending", !.val = v]
  <1>1. i \in Instance /\ i.st = "pending" /\ i.val = v
    BY Constants DEF Instance
  <1>2. v \in Wish /\ want' = [want EXCEPT ![s][k] = v]
    BY DEF Add, Wants, Wish
  <1>3. obj' = [obj EXCEPT ![s] = [obj[s] EXCEPT ![k] = i]]
    BY DEF Add, TypeOK, IInv
  <1> HIDE DEF i
  <1>4. Keeps(tx[s], k, i, v, PutAside(s, k))
    BY <1>1, Constants DEF Keeps
  <1>5. UNCHANGED <<db, tx, mark, place, mixed, ever>> /\ Acts(s, {"idle"} \cup Flushing) /\ obj[s][k].st # "deleted"
    BY DEF Add
  <1> QED
    BY <1>1, <1>2, <1>3, <1>4, <1>5, PutStep DEF InMap

\* delete keeps the invariant.
LEMMA DeleteStep ==
  ASSUME IInv, NEW s \in Session, NEW k \in Key, Delete(s, k)
  PROVE  IInv'
  <1> USE DEF IInv
  <1>1. UNCHANGED <<db, tx, mark, place, mixed, ever>> /\ Acts(s, {"idle"} \cup Flushing)
    BY DEF Delete
  <1>2. obj[s][k] \in Instance /\ obj \in [Session -> [Key -> Instance]]
    BY DEF TypeOK
  <1>3. CASE /\ obj[s][k].st = "pending" /\ obj' = [obj EXCEPT ![s][k] = None]
             /\ Wants(s, k, "nothing")
    <2>1. obj' = [obj EXCEPT ![s] = [obj[s] EXCEPT ![k] = None]] /\ want' = [want EXCEPT ![s][k] = "nothing"]
      BY <1>2, <1>3 DEF Wants
    <2>2. "nothing" \in Wish /\ Keeps(tx[s], k, None, "nothing", PutAside(s, k))
      BY Constants DEF Wish, Keeps
    <2> QED
      BY <1>1, <1>3, <2>1, <2>2, Constants, PutStep DEF InMap
  <1>4. CASE /\ obj[s][k].st = "persistent" /\ obj' = [obj EXCEPT ![s][k].st = "deleted"]
             /\ Wants(s, k, "gone")
    <2> DEFINE i == [obj[s][k] EXCEPT !.st = "deleted"]
    <2>1. obj' = [obj EXCEPT ![s] = [obj[s] EXCEPT ![k] = i]] /\ want' = [want EXCEPT ![s][k] = "gone"]
      BY <1>2, <1>4 DEF Wants
    <2>2. i \in Instance /\ i.st = "deleted" /\ i.ver = obj[s][k].ver /\ i.oval = obj[s][k].oval
      BY <1>2 DEF Instance
    <2> HIDE DEF i
    <2>3. "gone" \in Wish /\ Keeps(tx[s], k, i, "gone", PutAside(s, k))
      BY <2>2, Constants DEF Wish, Keeps
    <2> QED
      BY <1>1, <1>4, <2>1, <2>2, <2>3, PutStep DEF InMap
  <1> QED
    BY <1>3, <1>4 DEF Delete

\* expunge and expire keep the invariant.
LEMMA ExpungeStep ==
  ASSUME IInv, NEW s \in Session, NEW k \in Key, Expunge(s, k) \/ Expire(s, k)
  PROVE  IInv'
  <1> USE DEF IInv
  <1>1. /\ UNCHANGED <<db, tx, mark, place, mixed, ever>> /\ Acts(s, {"idle"} \cup Flushing) /\ pc[s] = "idle"
        /\ want' = [want EXCEPT ![s][k] = "nothing"]
    BY DEF Expunge, Expire, Acts, Wants
  <1>2. obj[s][k] \in Instance /\ obj \in [Session -> [Key -> Instance]]
    BY DEF TypeOK
  <1>3. "nothing" \in Wish /\ \A i : Keeps(tx[s], k, i, "nothing", PutAside(s, k))
    BY Constants DEF Wish, Keeps
  <1>4. CASE Expunge(s, k)
    <2>1. obj' = [obj EXCEPT ![s] = [obj[s] EXCEPT ![k] = None]]
      BY <1>2, <1>4 DEF Expunge
    <2> QED
      BY <1>1, <1>3, <2>1, Constants, PutStep DEF InMap
  <1>5. CASE Expire(s, k)
    <2> DEFINE i == Expired(obj[s][k])
    <2>1. obj' = [obj EXCEPT ![s] = [obj[s] EXCEPT ![k] = i]] /\ obj[s][k].st = "persistent"
      BY <1>2, <1>5 DEF Expire
    <2>2. i \in Instance /\ i.ver = obj[s][k].ver /\ i.oval = obj[s][k].oval
      BY <1>2 DEF Instance, Expired
    <2> HIDE DEF i
    <2> QED
      BY <1>1, <1>3, <2>1, <2>2, PutStep DEF InMap
  <1> QED
    BY <1>4, <1>5

-----------------------------------------------------------------------------
(* A call and its flush.                                                   *)

\* A call that begins keeps the invariant: the flag that refresh puts aside
\* is remembered.
LEMMA BeginStep ==
  ASSUME IInv, NEW s \in Session, NEW op, NEW k, NEW flushes \in BOOLEAN, Begin(s, op, k, flushes),
         \/ k = NoKey /\ flushes /\ op \in {"flush", "commit", "savepoint"}
         \/ k \in Key /\ op \in {"get", "refresh", "update", "delete"}
  PROVE  IInv'
  <1> DEFINE aside == op = "refresh" /\ flushes /\ HasFlushWork(s)
             h == aside /\ obj[s][k].dirty
             to == IF flushes /\ (k = NoKey \/ HasFlushWork(s)') THEN "round" ELSE "run"
  <1> USE DEF IInv
  <1>1. /\ UNCHANGED <<db, tx, mark, todo, dirty, want, mixed, ever>> /\ ops' \in 0 .. MaxOps
        /\ pc[s] = "idle"
    BY UnitOfWorkAssumption DEF Begin, Acts, TypeOK
  <1>2. /\ call' = [call EXCEPT ![s] = [op |-> op, key |-> k]]
        /\ held' = [held EXCEPT ![s] = h]
        /\ pc' = [pc EXCEPT ![s] = to]
    BY DEF Begin
  <1>3. h \in BOOLEAN /\ to \in {"round", "run"} /\ (to = "run" => k # NoKey \/ ~flushes)
    OBVIOUS
  <1>4. NoKey \notin Key
    BY UnitOfWorkAssumption
  <1>5. h => k \in Key /\ op = "refresh" /\ obj[s][k].dirty
    BY <1>4
  <1> HIDE DEF h, to
  <1>6. /\ obj' \in [Session -> [Key -> Instance]]
        /\ \A r \in Session : r # s => obj'[r] = obj[r]
        /\ \A j \in Key : j # k => obj'[s][j] = obj[s][j]
        /\ k \in Key => /\ obj'[s][k].st = obj[s][k].st /\ obj'[s][k].val = obj[s][k].val
                        /\ obj'[s][k].oval = obj[s][k].oval /\ obj'[s][k].ver = obj[s][k].ver
                        /\ obj'[s][k].dirty # obj[s][k].dirty => h
    <2>1. CASE aside
      <3>1. k \in Key /\ obj[s][k] \in Instance /\ obj \in [Session -> [Key -> Instance]]
        BY <2>1, UnitOfWorkAssumption DEF TypeOK
      <3> DEFINE i == [obj[s][k] EXCEPT !.dirty = FALSE]
      <3>2. obj' = [obj EXCEPT ![s] = [obj[s] EXCEPT ![k] = i]]
        BY <2>1, <3>1 DEF Begin
      <3>3. /\ i \in Instance /\ i.st = obj[s][k].st /\ i.val = obj[s][k].val
            /\ i.oval = obj[s][k].oval /\ i.ver = obj[s][k].ver /\ i.dirty = FALSE
        BY <3>1 DEF Instance
      <3> HIDE DEF i
      <3>4. /\ obj' \in [Session -> [Key -> Instance]] /\ obj'[s][k] = i
            /\ \A j \in Key : j # k => obj'[s][j] = obj[s][j]
            /\ \A r \in Session : r # s => obj'[r] = obj[r]
        BY <3>1, <3>2, <3>3, PutInstance
      <3>5. obj[s][k].dirty # FALSE => h
        BY <2>1, <3>1 DEF h, Instance
      <3> QED
        BY <3>3, <3>4, <3>5
    <2>2. CASE ~aside
      <3>1. obj' = obj
        BY <2>2 DEF Begin
      <3> QED
        BY <3>1 DEF TypeOK
    <2> QED
      BY <2>1, <2>2
  <1>7. TypeOK'
    <2>1. call' \in [Session -> [op : {"none", "flush", "commit", "savepoint", "get", "refresh", "update", "delete"},
                                 key : Key \cup {NoKey}]]
      BY <1>2 DEF TypeOK
    <2>2. held' \in [Session -> BOOLEAN] /\ pc' \in [Session -> {"idle", "run", "ended"} \cup Flushing]
      BY <1>2, <1>3 DEF TypeOK, Flushing
    <2> QED
      BY <1>1, <1>6, <2>1, <2>2 DEF TypeOK
  <1>8. /\ call'[s] = [op |-> op, key |-> k] /\ held'[s] = h /\ pc'[s] = to
        /\ \A r \in Session : r # s => call'[r] = call[r] /\ held'[r] = held[r] /\ pc'[r] = pc[r]
    BY <1>2 DEF TypeOK
  <1>9. Own(s)
    BY <1>1, <1>6, <1>8 DEF Own
  <1>10. VersionsOf(s)'
    <2>1. \A j \in Key : obj'[s][j].st \in InMap =>
             obj[s][j].st \in InMap /\ obj'[s][j].ver = obj[s][j].ver /\ obj'[s][j].oval = obj[s][j].oval
      BY <1>6
    <2> QED
      BY <1>1, <2>1, QuietVersions DEF SessionsOK
  <1>11. ~held[s]
    BY <1>1 DEF SessionsOK, PlaceOf
  <1>12. WishesOf(s)'
    <2>1. \A j \in Key : PutAside(s, j)' <=> (h /\ j = k)
      BY <1>8 DEF PutAside
    <2>2. WishesOf(s) /\ \A j \in Key : ~PutAside(s, j)
      BY <1>11 DEF PutAside, SessionsOK
    <2>3. CASE k \in Key
      <3>1. Keeps(tx[s], k, obj[s][k], want[s][k], FALSE)
        BY <2>2, <2>3 DEF WishesOf, Keeps
      <3>2. CASE h
        <4>1. Keeps(tx[s], k, obj[s][k], want[s][k], PutAside(s, k))'
          BY <1>1, <1>5, <1>6, <2>1, <2>3, <3>1, <3>2 DEF Keeps
        <4> QED
          BY <1>1, <1>6, <2>1, <2>2, <2>3, <4>1, OneWish
      <3>3. CASE ~h
        <4>1. obj'[s][k].dirty = obj[s][k].dirty
          BY <1>6, <2>3, <3>3
        <4>2. Keeps(tx[s], k, obj[s][k], want[s][k], PutAside(s, k))'
          BY <1>1, <1>6, <2>1, <2>3, <3>1, <3>3, <4>1 DEF Keeps
        <4> QED
          BY <1>1, <1>6, <2>1, <2>2, <2>3, <4>2, OneWish
      <3> QED
        BY <3>2, <3>3
    <2>4. CASE k \notin Key
      BY <1>1, <1>6, <2>1, <2>2, <2>4 DEF WishesOf, Keeps
    <2> QED
      BY <2>3, <2>4
  <1>13. PlaceOf(s)'
    BY <1>3, <1>5, <1>8, UnitOfWorkAssumption DEF PlaceOf
  <1> QED
    BY <1>1, <1>7, <1>9, <1>10, <1>12, <1>13, Frame DEF Locked

\* A step that only moves the flush on, to a place that is right, keeps the
\* invariant.
LEMMA WalkStep ==
  ASSUME IInv, NEW s \in Session, UNCHANGED <<db, tx, obj, mark, call, held, want, mixed, ever, ops>>,
         pc' = [pc EXCEPT ![s] = pc'[s]], todo' = [todo EXCEPT ![s] = todo'[s]],
         dirty' = [dirty EXCEPT ![s] = dirty'[s]],
         pc[s] \in Flushing, pc'[s] \in {"run"} \cup Flushing,
         todo'[s] \in SUBSET Key, dirty'[s] \in SUBSET Key,
         pc'[s] = "delete" => \A k \in todo'[s] : obj[s][k].st = "deleted",
         pc'[s] = "run" => ~HasFlushWork(s)
  PROVE  IInv'
  <1> USE DEF IInv
  <1>1. TypeOK'
    BY DEF TypeOK
  <1>2. \A r \in Session : r # s => pc'[r] = pc[r] /\ todo'[r] = todo[r]
    BY DEF TypeOK
  <1>3. Own(s)
    BY <1>2 DEF Own
  <1>4. VersionsOf(s)'
    BY QuietVersions DEF SessionsOK
  <1>5. WishesOf(s)'
    BY DEF SessionsOK, WishesOf, PutAside
  <1>6. HasFlushWork(s)' <=> HasFlushWork(s)
    BY DEF HasFlushWork, DirtyInstances, Mapped
  <1>7. PlaceOf(s)'
    BY <1>6 DEF PlaceOf, SessionsOK, Flushing
  <1> QED
    BY <1>1, <1>3, <1>4, <1>5, <1>7, Frame DEF Locked

\* The start of a round, and the end of each of its parts, keep the invariant.
LEMMA RoundStep ==
  ASSUME IInv, NEW s \in Session, Round(s) \/ PartDone(s)
  PROVE  IInv'
  <1> USE DEF IInv
  <1>1. /\ UNCHANGED <<db, tx, obj, mark, call, held, want, mixed, ever, ops>>
        /\ todo[s] \in SUBSET Key /\ dirty[s] \in SUBSET Key /\ pc[s] \in Flushing
    BY DEF Round, PartDone, Flushing, TypeOK
  <1>2. CASE Round(s)
    <2>1. /\ pc' = [pc EXCEPT ![s] = pc'[s]] /\ todo' = [todo EXCEPT ![s] = todo'[s]]
          /\ dirty' = [dirty EXCEPT ![s] = dirty'[s]] /\ pc'[s] = "insert"
          /\ todo'[s] \in SUBSET Key /\ dirty'[s] \in SUBSET Key
      BY <1>2 DEF Round, Goes, TypeOK, DirtyInstances, Mapped
    <2> QED
      BY <1>1, <2>1, WalkStep DEF Flushing
  <1>3. CASE PartDone(s)
    <2>1. /\ pc' = [pc EXCEPT ![s] = pc'[s]] /\ dirty' = [dirty EXCEPT ![s] = dirty'[s]]
          /\ dirty'[s] \in SUBSET Key
      BY <1>3 DEF PartDone, Goes, TypeOK
    <2>2. /\ todo' = [todo EXCEPT ![s] = todo'[s]] /\ todo'[s] \in SUBSET Key
          /\ pc'[s] \in {"run"} \cup Flushing
          /\ pc'[s] = "delete" => \A k \in todo'[s] : obj[s][k].st = "deleted"
          /\ pc'[s] = "run" => ~HasFlushWork(s)
      <3>1. CASE pc[s] = "insert" /\ Goes(s, "update") /\ todo' = [todo EXCEPT ![s] = dirty[s]]
        BY <1>1, <3>1 DEF Goes, TypeOK, Flushing
      <3>2. CASE /\ pc[s] = "update" /\ Goes(s, "delete")
                 /\ todo' = [todo EXCEPT ![s] = {k \in Key : obj[s][k].st = "deleted"}]
        BY <1>1, <3>2 DEF Goes, TypeOK, Flushing
      <3>3. CASE /\ pc[s] = "delete" /\ UNCHANGED todo
                 /\ Goes(s, IF HasFlushWork(s) THEN "round" ELSE "run")
        BY <1>1, <3>3 DEF Goes, TypeOK, Flushing
      <3> QED
        BY <1>3, <3>1, <3>2, <3>3 DEF PartDone
    <2> QED
      BY <1>1, <2>1, <2>2, WalkStep
  <1> QED
    BY <1>2, <1>3

\* An update that finds nothing to do keeps the invariant.
LEMMA UpdateNothingStep ==
  ASSUME IInv, NEW s \in Session, NEW k \in Key, UpdateNothing(s, k)
  PROVE  IInv'
  <1> USE DEF IInv
  <1>1. /\ UNCHANGED <<db, tx, obj, mark, call, held, want, mixed, ever, ops>>
        /\ pc[s] = "update" /\ pc'[s] = "update" /\ todo'[s] \in SUBSET Key /\ dirty'[s] \in SUBSET Key
        /\ pc' = [pc EXCEPT ![s] = pc'[s]] /\ todo' = [todo EXCEPT ![s] = todo'[s]]
        /\ dirty' = [dirty EXCEPT ![s] = dirty'[s]]
    BY DEF UpdateNothing, Visits, TypeOK
  <1> QED
    BY <1>1, WalkStep DEF Flushing

\* The row is newer than the committed one, and the instance knows it.
Learnt(k, row, i) ==
    /\ row = Absent \/ row.ver >= 1
    /\ k \in ever \ mixed' /\ row # Absent => db[k] # Absent /\ row.ver > db[k].ver
    /\ k \notin mixed' /\ i.st \in InMap => i.ver >= 1 /\ row.ver = i.ver /\ row.val = i.oval

\* A statement of the flush that writes row under k and makes i the instance
\* keeps the invariant when the wish for k is kept.
LEMMA StatementStep ==
  ASSUME IInv, NEW s \in Session, NEW k \in Key, NEW i \in Instance, NEW row \in Row,
         Writes(s, k, row), obj' = [obj EXCEPT ![s] = [obj[s] EXCEPT ![k] = i]],
         mixed \subseteq mixed', mixed' \subseteq Key,
         UNCHANGED <<db, mark, pc, call, dirty, held, want, ever, ops>>,
         todo' = [todo EXCEPT ![s] = todo[s] \ {k}], pc[s] \in Flushing, Free(s, k),
         Learnt(k, row, i),
         \A t \in Transaction : k \in t.wrote /\ t.rows[k] = row =>
             Keeps(t, k, i, want[s][k], PutAside(s, k))
  PROVE  IInv'
  <1> USE DEF IInv
  <1>1. /\ obj' \in [Session -> [Key -> Instance]] /\ obj'[s][k] = i
        /\ \A j \in Key : j # k => obj'[s][j] = obj[s][j]
        /\ \A r \in Session : r # s => obj'[r] = obj[r]
    BY PutInstance DEF TypeOK
  <1>2. /\ tx' \in [Session -> Transaction]
        /\ tx'[s].wrote = tx[s].wrote \cup {k}
        /\ tx'[s].rows[k] = row
        /\ \A j \in Key : j # k => tx'[s].rows[j] = tx[s].rows[j]
        /\ \A r \in Session : r # s => tx'[r] = tx[r]
    <2>1. tx \in [Session -> Transaction] /\ tx' = [tx EXCEPT ![s].wrote = @ \cup {k}, ![s].rows[k] = row]
      BY DEF TypeOK, Writes
    <2> QED
      BY <2>1 DEF Transaction
  <1>3. todo'[s] = todo[s] \ {k} /\ todo' \in [Session -> SUBSET Key] /\ \A r \in Session : r # s => todo'[r] = todo[r]
    BY DEF TypeOK
  <1>4. TypeOK'
    BY <1>1, <1>2, <1>3 DEF TypeOK
  <1>5. Own(s)
    BY <1>1, <1>2, <1>3 DEF Own
  <1>6. VersionsOf(s)'
    <2>0. VersionsOf(s) /\ tx[s].wrote \subseteq Key
      BY DEF SessionsOK, TypeOK, Transaction
    <2>1. Ahead(tx[s])'
      BY <1>2, <2>0 DEF VersionsOf, Ahead, Learnt
    <2>2. Known(tx[s], obj[s])'
      BY <1>1, <1>2, <2>0 DEF VersionsOf, Known, Learnt
    <2>3. (\A m \in mark[s] : Ahead(m.tx) /\ Known(m.tx, m.obj))'
      BY <2>0 DEF VersionsOf, Ahead, Known
    <2> QED
      BY <2>1, <2>2, <2>3 DEF VersionsOf
  <1>7. WishesOf(s)'
    <2>1. \A j \in Key : PutAside(s, j)' <=> PutAside(s, j)
      BY DEF PutAside
    <2>2. Keeps(tx'[s], k, i, want[s][k], PutAside(s, k))
      BY <1>2
    <2>3. Keeps(tx[s], k, obj[s][k], want[s][k], PutAside(s, k))'
      BY <1>1, <2>1, <2>2 DEF Keeps
    <2>4. WishesOf(s)
      BY DEF SessionsOK
    <2> QED
      BY <1>1, <1>2, <2>1, <2>3, <2>4, OneWish
  <1>8. PlaceOf(s)'
    <2>1. PlaceOf(s) /\ pc[s] # "run" /\ todo[s] \subseteq Key
      BY DEF SessionsOK, Flushing, TypeOK
    <2>2. (pc[s] = "delete" => \A j \in todo[s] : obj[s][j].st = "deleted")'
      BY <1>1, <1>3, <2>1 DEF PlaceOf
    <2> QED
      BY <2>1, <2>2 DEF PlaceOf
  <1>9. \A m \in mark'[s] : m.tx.wrote \subseteq tx'[s].wrote /\ mark'[s] = {m}
    BY <1>2 DEF Locked
  <1> QED
    BY <1>2, <1>4, <1>5, <1>6, <1>7, <1>8, <1>9, Frame

\* INSERT keeps the invariant: a key that never had a row has its first one.
LEMMA InsertStep ==
  ASSUME IInv, NEW s \in Session, NEW k \in Key, Insert(s, k)
  PROVE  IInv'
  <1> DEFINE o == obj[s][k]
             row == [val |-> o.val, ver |-> 1]
             i == [st |-> "persistent", val |-> o.val, oval |-> o.val, ver |-> 1, dirty |-> FALSE]
  <1> USE DEF IInv
  <1>1. /\ UNCHANGED <<db, mark, pc, call, dirty, held, want, ever, ops>>
        /\ todo' = [todo EXCEPT ![s] = todo[s] \ {k}] /\ pc[s] \in Flushing /\ Free(s, k)
        /\ Writes(s, k, row) /\ o.st = "pending" /\ mixed' = mixed \cup ({k} \cap ever)
    BY DEF Insert, Visits, Flushing
  <1>2. o \in Instance /\ obj \in [Session -> [Key -> Instance]] /\ mixed' \subseteq Key
    BY <1>1 DEF TypeOK
  <1>3. row \in Row /\ row.val = o.val /\ row.ver = 1
    BY <1>2 DEF Instance, Row
  <1>4. i \in Instance /\ i.st = "persistent" /\ i.val = o.val /\ i.oval = o.val /\ i.ver = 1 /\ i.dirty = FALSE
    BY <1>2 DEF Instance
  <1>5. obj' = [obj EXCEPT ![s] = [obj[s] EXCEPT ![k] = i]]
    BY <1>2 DEF Insert
  <1>6. Keeps(tx[s], k, o, want[s][k], PutAside(s, k))
    BY DEF SessionsOK, WishesOf
  <1> HIDE DEF i, row
  <1>7. ASSUME NEW t \in Transaction, k \in t.wrote, t.rows[k] = row
        PROVE  Keeps(t, k, i, want[s][k], PutAside(s, k))
    BY <1>1, <1>3, <1>4, <1>6, <1>7 DEF Keeps, Away
  <1>8. Learnt(k, row, i) /\ mixed \subseteq mixed'
    BY <1>1, <1>3, <1>4 DEF Learnt
  <1> QED
    BY <1>1, <1>2, <1>3, <1>4, <1>5, <1>7, <1>8, StatementStep

\* UPDATE keeps the invariant: the row had the version of the instance, which
\* is the committed one or newer.
LEMMA UpdateStep ==
  ASSUME IInv, NEW s \in Session, NEW k \in Key, Update(s, k)
  PROVE  IInv'
  <1> DEFINE o == obj[s][k]
             row == [val |-> o.val, ver |-> o.ver + 1]
             i == [o EXCEPT !.ver = o.ver + 1, !.oval = o.val, !.dirty = FALSE]
  <1> USE DEF IInv
  <1>1. /\ UNCHANGED <<db, mark, pc, call, dirty, held, want, ever, ops, mixed>>
        /\ todo' = [todo EXCEPT ![s] = todo[s] \ {k}] /\ pc[s] \in Flushing /\ Free(s, k)
        /\ Writes(s, k, row) /\ o.st \in {"persistent", "deleted"} /\ o.dirty /\ Matches(s, k)
    BY DEF Update, Visits, Flushing
  <1>2. o \in Instance /\ o.ver \in Nat /\ obj \in [Session -> [Key -> Instance]] /\ mixed' \subseteq Key
    BY <1>1 DEF TypeOK, Instance
  <1>3. row \in Row /\ row.val = o.val /\ row.ver = o.ver + 1
    BY <1>2 DEF Instance, Row
  <1>4. i \in Instance /\ i.st = o.st /\ i.val = o.val /\ i.oval = o.val /\ i.ver = o.ver + 1 /\ i.dirty = FALSE
    <2>1. o.ver + 1 \in Nat /\ o.val \in Value \cup {NoValue}
      BY <1>2 DEF Instance
    <2> QED
      BY <1>2, <2>1 DEF Instance
  <1>5. obj' = [obj EXCEPT ![s] = [obj[s] EXCEPT ![k] = i]]
    BY <1>2 DEF Update
  <1>6. Keeps(tx[s], k, o, want[s][k], PutAside(s, k))
    BY DEF SessionsOK, WishesOf
  <1> HIDE DEF i, row
  <1>7. ASSUME NEW t \in Transaction, k \in t.wrote, t.rows[k] = row
        PROVE  Keeps(t, k, i, want[s][k], PutAside(s, k))
    BY <1>1, <1>3, <1>4, <1>6, <1>7 DEF Keeps, Away
  <1>8. k \in ever \ mixed /\ row # Absent => db[k] # Absent /\ row.ver > db[k].ver
    <2> SUFFICES ASSUME k \in ever \ mixed PROVE db[k] # Absent /\ row.ver > db[k].ver
      OBVIOUS
    <2>1. Ahead(tx[s]) /\ Known(tx[s], obj[s]) /\ db[k] \in Row /\ db[k].ver \in Nat /\ Absent.ver = 0
      BY Constants DEF SessionsOK, VersionsOf, TypeOK, Row
    <2>2. CASE k \in tx[s].wrote
      <3>1. tx[s].rows[k].ver = o.ver /\ o.ver >= 1
        BY <1>1, <2>1, <2>2 DEF Known, InMap
      <3>2. tx[s].rows[k] # Absent
        BY <2>1, <3>1
      <3> QED
        BY <1>2, <1>3, <2>1, <2>2, <3>1, <3>2 DEF Ahead
    <2>3. CASE k \notin tx[s].wrote
      <3>1. db[k].ver = o.ver /\ o.ver >= 1
        BY <1>1, <2>1, <2>3 DEF Matches, View, Known, InMap
      <3> QED
        BY <1>2, <1>3, <2>1, <3>1
    <2> QED
      BY <2>2, <2>3
  <1>9. Learnt(k, row, i) /\ mixed \subseteq mixed'
    BY <1>1, <1>2, <1>3, <1>4, <1>8 DEF Learnt
  <1> QED
    BY <1>1, <1>2, <1>3, <1>4, <1>5, <1>7, <1>9, StatementStep

\* DELETE keeps the invariant.
LEMMA DeleteRowStep ==
  ASSUME IInv, NEW s \in Session, NEW k \in Key, DeleteRow(s, k)
  PROVE  IInv'
  <1> DEFINE o == obj[s][k]
             row == Absent
             i == [o EXCEPT !.st = "erased", !.dirty = FALSE]
  <1> USE DEF IInv
  <1>1. /\ UNCHANGED <<db, mark, pc, call, dirty, held, want, ever, ops, mixed>>
        /\ todo' = [todo EXCEPT ![s] = todo[s] \ {k}] /\ pc[s] = "delete" /\ pc[s] \in Flushing
        /\ Free(s, k) /\ Writes(s, k, row) /\ k \in todo[s]
    BY DEF DeleteRow, Visits, Flushing
  <1>2. o \in Instance /\ obj \in [Session -> [Key -> Instance]] /\ mixed' \subseteq Key
    BY <1>1 DEF TypeOK
  <1>3. i \in Instance /\ i.st = "erased" /\ row \in Row
    BY <1>2, Constants DEF Instance
  <1>4. obj' = [obj EXCEPT ![s] = [obj[s] EXCEPT ![k] = i]]
    BY <1>2 DEF DeleteRow
  <1>5. Keeps(tx[s], k, o, want[s][k], PutAside(s, k)) /\ o.st = "deleted"
    BY <1>1 DEF SessionsOK, WishesOf, PlaceOf
  <1> HIDE DEF i
  <1>6. ASSUME NEW t \in Transaction, k \in t.wrote, t.rows[k] = row
        PROVE  Keeps(t, k, i, want[s][k], PutAside(s, k))
    BY <1>3, <1>5, <1>6 DEF Keeps, Away
  <1>7. Learnt(k, row, i) /\ mixed \subseteq mixed'
    BY <1>1, <1>3 DEF InMap, Learnt
  <1>8. /\ UNCHANGED <<db, mark, pc, call, dirty, held, want, ever, ops>>
        /\ todo' = [todo EXCEPT ![s] = todo[s] \ {k}] /\ pc[s] \in Flushing
        /\ Free(s, k) /\ Writes(s, k, row)
    BY <1>1
  <1>9. i \in Instance /\ row \in Row
    BY <1>3
  <1> HIDE DEF row
  <1> QED
    BY <1>2, <1>4, <1>6, <1>7, <1>8, <1>9, StatementStep

-----------------------------------------------------------------------------
(* What a call does after its flush.                                       *)

\* A call that returns keeps the invariant when it keeps the session's own
\* versions and wishes and locks what it writes.
LEMMA ReturnStep ==
  ASSUME IInv, NEW s \in Session, Returns(s), mixed \subseteq mixed', mixed' \subseteq Key,
         tx' \in [Session -> Transaction], obj' \in [Session -> [Key -> Instance]],
         want' \in [Session -> [Key -> Wish]],
         mark' \in [Session -> SUBSET [obj : [Key -> Instance], tx : Transaction, want : [Key -> Wish]]],
         \A r \in Session : r # s =>
             tx'[r] = tx[r] /\ obj'[r] = obj[r] /\ want'[r] = want[r] /\ mark'[r] = mark[r],
         \A k \in tx'[s].wrote : k \in tx[s].wrote \/ Free(s, k),
         \A m \in mark'[s] : m.tx.wrote \subseteq tx'[s].wrote /\ mark'[s] = {m},
         VersionsOf(s)', WishesOf(s)'
  PROVE  IInv'
  <1> USE DEF IInv
  <1>1. /\ pc' = [pc EXCEPT ![s] = "idle"] /\ call' = [call EXCEPT ![s] = NoCall]
        /\ held' = [held EXCEPT ![s] = FALSE] /\ UNCHANGED <<db, todo, dirty, ever, ops>>
    BY DEF Returns, Goes
  <1>2. NoCall \in [op : {"none", "flush", "commit", "savepoint", "get", "refresh", "update", "delete"},
                    key : Key \cup {NoKey}] /\ NoCall.op = "none"
    BY DEF NoCall
  <1>3. /\ pc'[s] = "idle" /\ call'[s] = NoCall /\ held'[s] = FALSE
        /\ \A r \in Session : r # s => pc'[r] = pc[r] /\ call'[r] = call[r] /\ held'[r] = held[r]
    BY <1>1 DEF TypeOK
  <1>4. TypeOK'
    BY <1>1, <1>2 DEF TypeOK
  <1>5. Own(s)
    BY <1>1, <1>3 DEF Own
  <1>6. PlaceOf(s)'
    BY <1>2, <1>3 DEF PlaceOf
  <1> QED
    BY <1>1, <1>4, <1>5, <1>6, Frame

\* A row that is loaded is known.
LEMMA LoadedIsKnown ==
  ASSUME IInv, NEW s \in Session, NEW k \in Key, View(s, k) # Absent,
         tx' = tx, mark' = mark, db' = db, ever' = ever, mixed' = mixed,
         obj' = [obj EXCEPT ![s] = [obj[s] EXCEPT ![k] = Loaded(View(s, k))]],
         want' = [want EXCEPT ![s][k] = "nothing"], held'[s] = FALSE, ~held[s] \/ call[s].key = k
  PROVE  /\ VersionsOf(s)' /\ WishesOf(s)'
         /\ obj' \in [Session -> [Key -> Instance]] /\ want' \in [Session -> [Key -> Wish]]
         /\ \A r \in Session : r # s => obj'[r] = obj[r] /\ want'[r] = want[r]
  <1> DEFINE i == Loaded(View(s, k))
  <1> USE DEF IInv
  <1>1. View(s, k) \in Row
    BY DEF View, TypeOK, Transaction
  <1>2. /\ i \in Instance /\ i.st = "persistent" /\ i.oval = View(s, k).val /\ i.ver = View(s, k).ver
        /\ i.dirty = FALSE
    BY <1>1 DEF Loaded, Instance, Row
  <1> HIDE DEF i
  <1>3. /\ obj' \in [Session -> [Key -> Instance]] /\ obj'[s][k] = i
        /\ \A j \in Key : j # k => obj'[s][j] = obj[s][j]
        /\ \A r \in Session : r # s => obj'[r] = obj[r]
    BY <1>2, PutInstance DEF TypeOK, i
  <1>4. "nothing" \in Wish
    BY DEF Wish
  <1>5. /\ want' \in [Session -> [Key -> Wish]] /\ want'[s][k] = "nothing"
        /\ \A j \in Key : j # k => want'[s][j] = want[s][j]
        /\ \A r \in Session : r # s => want'[r] = want[r]
    BY <1>4, PutWish DEF TypeOK
  <1>6. VersionsOf(s) /\ WishesOf(s)
    BY DEF SessionsOK
  <1>7. VersionsOf(s)'
    <2>1. Known(tx[s], obj[s])'
      <3>1. CASE k \in tx[s].wrote
        BY <1>2, <1>3, <1>6, <3>1 DEF VersionsOf, Known, Ahead, View
      <3>2. CASE k \notin tx[s].wrote
        BY <1>2, <1>3, <1>6, <3>2 DEF VersionsOf, Known, Committed, View
      <3> QED
        BY <3>1, <3>2
    <2> QED
      BY <1>6, <2>1 DEF VersionsOf, Ahead, Known
  <1>8. WishesOf(s)'
    <2>1. Keeps(tx[s], k, obj[s][k], want[s][k], PutAside(s, k))'
      BY <1>5, Constants DEF Keeps
    <2>2. \A j \in Key : j # k => (PutAside(s, j)' <=> PutAside(s, j))
      BY DEF PutAside
    <2> QED
      BY <1>3, <1>5, <1>6, <2>1, <2>2, OneWish
  <1> QED
    BY <1>3, <1>5, <1>7, <1>8

\* The flag that was put aside comes back.
LEMMA FlagComesBack ==
  ASSUME IInv, NEW s \in Session, UNCHANGED <<db, tx, mark, want, mixed, ever>>, held'[s] = FALSE,
         obj' \in [Session -> [Key -> Instance]],
         \A j \in Key : /\ obj'[s][j].st = obj[s][j].st /\ obj'[s][j].val = obj[s][j].val
                        /\ obj'[s][j].oval = obj[s][j].oval /\ obj'[s][j].ver = obj[s][j].ver
                        /\ obj'[s][j].dirty <=> (obj[s][j].dirty \/ PutAside(s, j))
  PROVE  VersionsOf(s)' /\ WishesOf(s)'
  <1> USE DEF IInv
  <1>1. VersionsOf(s)'
    BY QuietVersions DEF SessionsOK
  <1>2. WishesOf(s)
    BY DEF SessionsOK
  <1>3. \A j \in Key : ~PutAside(s, j)'
    BY DEF PutAside
  <1>4. WishesOf(s)'
    <2>1. ASSUME NEW j \in Key PROVE Keeps(tx[s], j, obj[s][j], want[s][j], PutAside(s, j))'
      BY <1>2, <1>3, <2>1 DEF WishesOf, Keeps
    <2> QED
      BY <1>2, <2>1 DEF WishesOf
  <1> QED
    BY <1>1, <1>4

\* The return of flush keeps the invariant.
LEMMA FlushedStep ==
  ASSUME IInv, NEW s \in Session, Flushed(s)
  PROVE  IInv'
  <1> USE DEF IInv
  <1>1. Returns(s) /\ UNCHANGED <<db, tx, obj, mark, want, mixed, ever>> /\ call[s].op = "flush" /\ held'[s] = FALSE
    BY DEF Flushed, Running, Returns, TypeOK
  <1>2. ~held[s]
    BY <1>1 DEF SessionsOK, PlaceOf
  <1>3. VersionsOf(s)' /\ WishesOf(s)'
    <2>1. obj' \in [Session -> [Key -> Instance]] /\ \A j \in Key : ~PutAside(s, j)
      BY <1>1, <1>2 DEF TypeOK, PutAside
    <2> QED
      BY <1>1, <2>1, FlagComesBack
  <1>4. /\ tx' \in [Session -> Transaction] /\ obj' \in [Session -> [Key -> Instance]]
        /\ want' \in [Session -> [Key -> Wish]] /\ mixed' \subseteq Key
        /\ mark' \in [Session -> SUBSET [obj : [Key -> Instance], tx : Transaction, want : [Key -> Wish]]]
    BY <1>1 DEF TypeOK
  <1> QED
    BY <1>1, <1>3, <1>4, ReturnStep DEF Locked

\* get keeps the invariant.
LEMMA GetStep ==
  ASSUME IInv, NEW s \in Session, Get(s)
  PROVE  IInv'
  <1> DEFINE k == call[s].key
             loads == obj[s][k].st \in {"none", "erased"} /\ View(s, k) # Absent
  <1> USE DEF IInv
  <1>1. Returns(s) /\ UNCHANGED <<db, tx, mark, mixed, ever>> /\ call[s].op = "get" /\ held'[s] = FALSE
    BY DEF Get, Running, Returns, TypeOK
  <1>2. ~held[s] /\ k \in Key
    BY <1>1 DEF SessionsOK, PlaceOf
  <1>3. /\ tx' \in [Session -> Transaction] /\ mixed' \subseteq Key
        /\ mark' \in [Session -> SUBSET [obj : [Key -> Instance], tx : Transaction, want : [Key -> Wish]]]
    BY <1>1 DEF TypeOK
  <1>4. /\ VersionsOf(s)' /\ WishesOf(s)'
        /\ obj' \in [Session -> [Key -> Instance]] /\ want' \in [Session -> [Key -> Wish]]
        /\ \A r \in Session : r # s => obj'[r] = obj[r] /\ want'[r] = want[r]
    <2>1. CASE loads
      <3>1. /\ obj' = [obj EXCEPT ![s] = [obj[s] EXCEPT ![k] = Loaded(View(s, k))]]
            /\ want' = [want EXCEPT ![s][k] = "nothing"]
        BY <1>2, <2>1 DEF Get, TypeOK
      <3> QED
        BY <1>1, <1>2, <2>1, <3>1, LoadedIsKnown
    <2>2. CASE ~loads
      <3>1. obj' = obj /\ want' = want
        BY <2>2 DEF Get
      <3>2. obj' \in [Session -> [Key -> Instance]] /\ want' \in [Session -> [Key -> Wish]] /\ \A j \in Key : ~PutAside(s, j)
        BY <1>2, <3>1 DEF TypeOK, PutAside
      <3> QED
        BY <1>1, <3>1, <3>2, FlagComesBack
    <2> QED
      BY <2>1, <2>2
  <1> QED
    BY <1>1, <1>3, <1>4, ReturnStep DEF Locked

\* refresh keeps the invariant: it loads the row, or gives the flag back.
LEMMA RefreshStep ==
  ASSUME IInv, NEW s \in Session, Refresh(s)
  PROVE  IInv'
  <1> DEFINE k == call[s].key
             loads == obj[s][k].st = "persistent" /\ View(s, k) # Absent
  <1> USE DEF IInv
  <1>1. Returns(s) /\ UNCHANGED <<db, tx, mark, mixed, ever>> /\ call[s].op = "refresh" /\ held'[s] = FALSE
    BY DEF Refresh, Running, Returns, TypeOK
  <1>2. k \in Key /\ held[s] \in BOOLEAN
    BY <1>1 DEF SessionsOK, PlaceOf, TypeOK
  <1>3. /\ tx' \in [Session -> Transaction] /\ mixed' \subseteq Key
        /\ mark' \in [Session -> SUBSET [obj : [Key -> Instance], tx : Transaction, want : [Key -> Wish]]]
    BY <1>1 DEF TypeOK
  <1>4. /\ VersionsOf(s)' /\ WishesOf(s)'
        /\ obj' \in [Session -> [Key -> Instance]] /\ want' \in [Session -> [Key -> Wish]]
        /\ \A r \in Session : r # s => obj'[r] = obj[r] /\ want'[r] = want[r]
    <2>1. CASE loads
      <3>1. /\ obj' = [obj EXCEPT ![s] = [obj[s] EXCEPT ![k] = Loaded(View(s, k))]]
            /\ want' = [want EXCEPT ![s][k] = "nothing"]
        BY <1>2, <2>1 DEF Refresh, TypeOK
      <3> QED
        BY <1>1, <1>2, <2>1, <3>1, LoadedIsKnown
    <2>2. CASE ~loads
      <3> DEFINE flag == obj[s][k].dirty \/ held[s]
                 i == [obj[s][k] EXCEPT !.dirty = flag]
      <3>1. obj[s][k] \in Instance /\ obj \in [Session -> [Key -> Instance]] /\ flag \in BOOLEAN
        BY <1>2 DEF TypeOK
      <3>2. obj' = [obj EXCEPT ![s] = [obj[s] EXCEPT ![k] = i]] /\ want' = want
        BY <1>2, <2>2, <3>1 DEF Refresh
      <3>3. /\ i \in Instance /\ i.st = obj[s][k].st /\ i.val = obj[s][k].val
            /\ i.oval = obj[s][k].oval /\ i.ver = obj[s][k].ver /\ i.dirty = flag
        <4> HIDE DEF flag
        <4> QED
          BY <3>1 DEF Instance
      <3> HIDE DEF i
      <3>4. /\ obj' \in [Session -> [Key -> Instance]] /\ obj'[s][k] = i
            /\ \A j \in Key : j # k => obj'[s][j] = obj[s][j]
            /\ \A r \in Session : r # s => obj'[r] = obj[r]
        BY <1>2, <3>1, <3>2, <3>3, PutInstance
      <3>5. \A j \in Key : PutAside(s, j) <=> (held[s] /\ j = k)
        BY DEF PutAside
      <3>6. ASSUME NEW j \in Key
            PROVE  /\ obj'[s][j].st = obj[s][j].st /\ obj'[s][j].val = obj[s][j].val
                   /\ obj'[s][j].oval = obj[s][j].oval /\ obj'[s][j].ver = obj[s][j].ver
                   /\ obj'[s][j].dirty <=> (obj[s][j].dirty \/ PutAside(s, j))
        BY <3>3, <3>4, <3>5, <3>6
      <3>7. want' \in [Session -> [Key -> Wish]]
        BY <3>2 DEF TypeOK
      <3> QED
        BY <1>1, <3>2, <3>4, <3>6, <3>7, FlagComesBack
    <2> QED
      BY <2>1, <2>2
  <1> QED
    BY <1>1, <1>3, <1>4, ReturnStep DEF Locked

\* A statement that fails outside a flush keeps the invariant.
LEMMA RunFailsStep ==
  ASSUME IInv, NEW s \in Session, RunFails(s)
  PROVE  IInv'
  <1> DEFINE k == call[s].key
  <1> USE DEF IInv
  <1>1. Returns(s) /\ UNCHANGED <<db, tx, mark, want, mixed, ever>> /\ held'[s] = FALSE
    BY DEF RunFails, Running, Returns, TypeOK
  <1>2. /\ tx' \in [Session -> Transaction] /\ mixed' \subseteq Key /\ want' \in [Session -> [Key -> Wish]]
        /\ mark' \in [Session -> SUBSET [obj : [Key -> Instance], tx : Transaction, want : [Key -> Wish]]]
    BY <1>1 DEF TypeOK
  <1>3. obj \in [Session -> [Key -> Instance]]
    BY DEF TypeOK
  <1>4. /\ obj' \in [Session -> [Key -> Instance]]
        /\ \A r \in Session : r # s => obj'[r] = obj[r]
        /\ \A j \in Key : /\ obj'[s][j].st = obj[s][j].st /\ obj'[s][j].val = obj[s][j].val
                          /\ obj'[s][j].oval = obj[s][j].oval /\ obj'[s][j].ver = obj[s][j].ver
                          /\ obj'[s][j].dirty <=> (obj[s][j].dirty \/ PutAside(s, j))
    <2>1. CASE ~held[s]
      BY <1>3, <2>1 DEF RunFails, PutAside
    <2>2. CASE held[s]
      <3> DEFINE i == [obj[s][k] EXCEPT !.dirty = TRUE]
      <3>1. k \in Key /\ obj[s][k] \in Instance
        BY <1>3, <2>2 DEF SessionsOK, PlaceOf
      <3>2. obj' = [obj EXCEPT ![s] = [obj[s] EXCEPT ![k] = i]]
        BY <1>3, <2>2, <3>1 DEF RunFails
      <3>3. /\ i \in Instance /\ i.st = obj[s][k].st /\ i.val = obj[s][k].val
            /\ i.oval = obj[s][k].oval /\ i.ver = obj[s][k].ver /\ i.dirty = TRUE
        BY <3>1 DEF Instance
      <3> HIDE DEF i
      <3>4. /\ obj' \in [Session -> [Key -> Instance]] /\ obj'[s][k] = i
            /\ \A j \in Key : j # k => obj'[s][j] = obj[s][j]
            /\ \A r \in Session : r # s => obj'[r] = obj[r]
        BY <1>3, <3>1, <3>2, <3>3, PutInstance
      <3>5. \A j \in Key : PutAside(s, j) <=> j = k
        BY <2>2 DEF PutAside
      <3> QED
        BY <3>3, <3>4, <3>5
    <2> QED
      BY <2>1, <2>2
  <1>5. VersionsOf(s)' /\ WishesOf(s)'
    BY <1>1, <1>4, FlagComesBack
  <1> QED
    BY <1>1, <1>2, <1>4, <1>5, ReturnStep DEF Locked

\* The savepoint holds what the session holds, and keeps the invariant.
LEMMA SavepointStep ==
  ASSUME IInv, NEW s \in Session, Savepoint(s)
  PROVE  IInv'
  <1> DEFINE m == [obj |-> obj[s], tx |-> tx[s], want |-> want[s]]
  <1> USE DEF IInv
  <1>1. /\ Returns(s) /\ UNCHANGED <<db, tx, obj, want, mixed, ever>> /\ held'[s] = FALSE
        /\ call[s].op = "savepoint" /\ mark' = [mark EXCEPT ![s] = {m}]
    BY DEF Savepoint, Running, Returns, TypeOK
  <1>2. ~held[s] /\ VersionsOf(s) /\ WishesOf(s)
    BY <1>1 DEF SessionsOK, PlaceOf
  <1>3. m \in [obj : [Key -> Instance], tx : Transaction, want : [Key -> Wish]] /\ m.obj = obj[s] /\ m.tx = tx[s] /\ m.want = want[s]
    BY DEF TypeOK
  <1> HIDE DEF m
  <1>4. /\ tx' \in [Session -> Transaction] /\ obj' \in [Session -> [Key -> Instance]]
        /\ want' \in [Session -> [Key -> Wish]] /\ mixed' \subseteq Key
        /\ mark' \in [Session -> SUBSET [obj : [Key -> Instance], tx : Transaction, want : [Key -> Wish]]]
        /\ mark'[s] = {m} /\ \A r \in Session : r # s => mark'[r] = mark[r]
    BY <1>1, <1>3 DEF TypeOK
  <1>5. VersionsOf(s)'
    BY <1>1, <1>2, <1>3, <1>4 DEF VersionsOf, Ahead, Known
  <1>6. WishesOf(s)'
    <2>1. \A j \in Key : ~PutAside(s, j) /\ ~PutAside(s, j)'
      BY <1>1, <1>2 DEF PutAside
    <2> QED
      BY <1>1, <1>2, <1>3, <1>4, <2>1 DEF WishesOf, Keeps
  <1> QED
    BY <1>1, <1>3, <1>4, <1>5, <1>6, ReturnStep

\* OrmQuery.update keeps the invariant: it leaves the version alone, so its
\* key is one of those whose version says less than their value.
LEMMA BulkUpdateStep ==
  ASSUME IInv, NEW s \in Session, NEW v \in Value, BulkUpdate(s, v)
  PROVE  IInv'
  <1> DEFINE k == call[s].key
             live == {j \in Mapped(s) : obj[s][j].st = "persistent"}
             hits == View(s, k) # Absent
             row == [View(s, k) EXCEPT !.val = v]
             moved(E) == [j \in Key |-> IF j \in E THEN Expired(obj[s][j]) ELSE obj[s][j]]
             wishes(E) == [j \in Key |->
                 CASE j = k /\ hits /\ obj[s][k].st \notin {"pending", "deleted"}
                        /\ k \notin DirtyInstances(s) \ E -> v
                   [] j \in E /\ (j # k \/ ~hits) -> "nothing"
                   [] OTHER -> want[s][j]]
  <1> USE DEF IInv
  <1>1. /\ Returns(s) /\ UNCHANGED <<db, mark, ever>> /\ call[s].op = "update" /\ held'[s] = FALSE /\ Free(s, k)
        /\ mixed' = IF hits THEN mixed \cup {k} ELSE mixed
    BY DEF BulkUpdate, Running, Returns, TypeOK
  <1>2. k \in Key /\ ~held[s] /\ VersionsOf(s) /\ WishesOf(s)
    BY <1>1 DEF SessionsOK, PlaceOf
  <1>3. PICK E \in SUBSET live : obj' = [obj EXCEPT ![s] = moved(E)] /\ want' = [want EXCEPT ![s] = wishes(E)]
    BY DEF BulkUpdate
  <1>4. /\ obj \in [Session -> [Key -> Instance]] /\ tx \in [Session -> Transaction]
        /\ want \in [Session -> [Key -> Wish]] /\ E \subseteq Key /\ \A j \in E : obj[s][j].st = "persistent"
    BY DEF TypeOK, Mapped
  <1>5. View(s, k) \in Row /\ (hits => View(s, k).ver >= 1)
    <2>1. View(s, k) \in Row
      BY <1>2 DEF View, TypeOK, Transaction
    <2>2. hits => View(s, k).ver >= 1
      BY <1>2 DEF View, VersionsOf, Ahead, Committed
    <2> QED
      BY <2>1, <2>2
  <1>6. row \in Row /\ row.val = v /\ row.ver = View(s, k).ver
    BY <1>5 DEF Row
  <1> HIDE DEF row
  <1>7. /\ tx' \in [Session -> Transaction]
        /\ \A r \in Session : r # s => tx'[r] = tx[r]
        /\ \A j \in Key : j # k => (j \in tx'[s].wrote <=> j \in tx[s].wrote) /\ tx'[s].rows[j] = tx[s].rows[j]
        /\ tx[s].wrote \subseteq tx'[s].wrote
        /\ hits => k \in tx'[s].wrote /\ tx'[s].rows[k] = row
        /\ ~hits => tx' = tx
    <2>1. tx' = IF hits THEN [tx EXCEPT ![s].wrote = @ \cup {k}, ![s].rows[k] = row] ELSE tx
      BY DEF BulkUpdate, row
    <2> QED
      BY <1>2, <1>4, <1>6, <2>1 DEF Transaction
  <1>8. /\ obj' \in [Session -> [Key -> Instance]]
        /\ \A r \in Session : r # s => obj'[r] = obj[r]
        /\ \A j \in Key : /\ obj'[s][j].st = obj[s][j].st /\ obj'[s][j].oval = obj[s][j].oval
                          /\ obj'[s][j].ver = obj[s][j].ver
                          /\ j \in E => ~obj'[s][j].dirty
                          /\ j \notin E => obj'[s][j] = obj[s][j]
    <2>1. \A i \in Instance : /\ Expired(i) \in Instance /\ Expired(i).st = i.st /\ Expired(i).oval = i.oval
                              /\ Expired(i).ver = i.ver /\ Expired(i).dirty = FALSE
      BY DEF Expired, Instance
    <2>2. moved(E) \in [Key -> Instance]
      BY <1>4, <2>1
    <2>3. \A j \in Key : moved(E)[j] = IF j \in E THEN Expired(obj[s][j]) ELSE obj[s][j]
      OBVIOUS
    <2> HIDE DEF moved
    <2>4. /\ obj' \in [Session -> [Key -> Instance]] /\ obj'[s] = moved(E)
          /\ \A r \in Session : r # s => obj'[r] = obj[r]
      BY <1>3, <1>4, <2>2
    <2> QED
      BY <1>4, <2>1, <2>3, <2>4
  <1>9. /\ want' \in [Session -> [Key -> Wish]] /\ want'[s] = wishes(E)
        /\ \A r \in Session : r # s => want'[r] = want[r]
    <2>1. wishes(E) \in [Key -> Wish]
      BY <1>4 DEF Wish
    <2> HIDE DEF wishes
    <2> QED
      BY <1>3, <1>4, <2>1
  <1>10. VersionsOf(s)'
    <2>1. Ahead(tx[s])'
      BY <1>1, <1>2, <1>5, <1>6, <1>7 DEF VersionsOf, Ahead, TypeOK, Transaction
    <2>2. Known(tx[s], obj[s])'
      BY <1>1, <1>2, <1>7, <1>8 DEF VersionsOf, Known
    <2>3. (\A m \in mark[s] : Ahead(m.tx) /\ Known(m.tx, m.obj))'
      BY <1>1, <1>2 DEF VersionsOf, Ahead, Known
    <2> QED
      BY <2>1, <2>2, <2>3 DEF VersionsOf
  <1>11. WishesOf(s)'
    <2>1. \A j \in Key : ~PutAside(s, j) /\ ~PutAside(s, j)'
      BY <1>1, <1>2 DEF PutAside
    <2>2. ASSUME NEW j \in Key PROVE Keeps(tx[s], j, obj[s][j], want[s][j], PutAside(s, j))'
      <3>0. Keeps(tx[s], j, obj[s][j], want[s][j], FALSE)
        BY <1>2, <2>1 DEF WishesOf, Keeps
      <3>1. CASE j = k /\ hits /\ obj[s][k].st \notin {"pending", "deleted"} /\ k \notin DirtyInstances(s) \ E
        <4>1. want'[s][j] = v
          BY <1>9, <3>1
        <4>2. obj[s][j].st \in Away \/ (obj[s][j].st = "persistent" /\ ~obj'[s][j].dirty)
          BY <1>4, <1>8, <3>1 DEF DirtyInstances, Mapped, Away, Instance
        <4> QED
          BY <1>6, <1>7, <1>8, <2>1, <3>1, <4>1, <4>2, Constants DEF Keeps
      <3>2. CASE j \in E /\ (j # k \/ ~hits)
        <4>1. want'[s][j] = "nothing"
          BY <1>9, <3>2
        <4> QED
          BY <4>1, Constants DEF Keeps
      <3>3. CASE /\ ~(j = k /\ hits /\ obj[s][k].st \notin {"pending", "deleted"} /\ k \notin DirtyInstances(s) \ E)
                 /\ ~(j \in E /\ (j # k \/ ~hits))
        <4>1. want'[s][j] = want[s][j]
          BY <1>9, <3>3
        <4>2. CASE j # k \/ ~hits
          BY <1>7, <1>8, <2>1, <3>0, <3>3, <4>1, <4>2 DEF Keeps
        <4>3. CASE j = k /\ hits
          <5>1. /\ obj[s][j].st \in {"pending", "deleted"} \/ (obj[s][j].dirty /\ obj[s][j].st = "persistent")
                /\ j \notin E
            BY <1>4, <3>3, <4>3 DEF DirtyInstances, Mapped
          <5> QED
            BY <1>8, <2>1, <3>0, <4>1, <5>1 DEF Keeps, Away
        <4> QED
          BY <4>2, <4>3
      <3> QED
        BY <3>1, <3>2, <3>3
    <2> QED
      BY <1>1, <1>2, <2>2 DEF WishesOf
  <1>12. /\ mixed \subseteq mixed' /\ mixed' \subseteq Key /\ \A m \in mark'[s] : m.tx.wrote \subseteq tx'[s].wrote /\ mark'[s] = {m}
         /\ mark' \in [Session -> SUBSET [obj : [Key -> Instance], tx : Transaction, want : [Key -> Wish]]]
    BY <1>1, <1>2, <1>7 DEF TypeOK, Locked
  <1>13. \A j \in tx'[s].wrote : j \in tx[s].wrote \/ Free(s, j)
    BY <1>1, <1>4, <1>7 DEF Transaction
  <1> QED
    BY <1>1, <1>7, <1>8, <1>9, <1>10, <1>11, <1>12, <1>13, ReturnStep

\* OrmQuery.delete keeps the invariant: what was in the identity map is not
\* there any more.
LEMMA BulkDeleteStep ==
  ASSUME IInv, NEW s \in Session, BulkDelete(s)
  PROVE  IInv'
  <1> DEFINE k == call[s].key
             hits == View(s, k) # Absent
             left == [j \in Key |-> IF j \in Mapped(s) THEN None ELSE obj[s][j]]
             wishes == [j \in Key |->
                 CASE j = k /\ tx' # tx /\ obj[s][k].st # "pending" -> "gone"
                   [] j \in Mapped(s) /\ (j # k \/ tx' = tx) -> "nothing"
                   [] OTHER -> want[s][j]]
  <1> USE DEF IInv
  <1>1. /\ Returns(s) /\ UNCHANGED <<db, mark, ever, mixed>> /\ call[s].op = "delete" /\ held'[s] = FALSE /\ Free(s, k)
        /\ obj' = [obj EXCEPT ![s] = left] /\ want' = [want EXCEPT ![s] = wishes]
    BY DEF BulkDelete, Running, Returns, TypeOK
  <1>2. k \in Key /\ ~held[s] /\ VersionsOf(s) /\ WishesOf(s)
    BY <1>1 DEF SessionsOK, PlaceOf
  <1>3. /\ obj \in [Session -> [Key -> Instance]] /\ tx \in [Session -> Transaction]
        /\ want \in [Session -> [Key -> Wish]]
    BY DEF TypeOK
  <1>4. /\ tx' \in [Session -> Transaction]
        /\ \A r \in Session : r # s => tx'[r] = tx[r]
        /\ \A j \in Key : j # k => (j \in tx'[s].wrote <=> j \in tx[s].wrote) /\ tx'[s].rows[j] = tx[s].rows[j]
        /\ tx[s].wrote \subseteq tx'[s].wrote
        /\ hits => k \in tx'[s].wrote /\ tx'[s].rows[k] = Absent
        /\ ~hits => tx' = tx
    <2>1. CASE hits
      <3>1. Writes(s, k, Absent) /\ Absent \in Row
        BY <2>1, Constants DEF BulkDelete
      <3> QED
        BY <1>2, <1>3, <2>1, <3>1 DEF Transaction, Writes
    <2>2. CASE ~hits
      BY <1>3, <2>2 DEF BulkDelete
    <2> QED
      BY <2>1, <2>2
  <1>5. hits <=> tx' # tx
    BY <1>4 DEF View
  <1>6. /\ obj' \in [Session -> [Key -> Instance]]
        /\ \A r \in Session : r # s => obj'[r] = obj[r]
        /\ \A j \in Key : obj'[s][j] = IF j \in Mapped(s) THEN None ELSE obj[s][j]
    <2>1. left \in [Key -> Instance]
      BY <1>3, Constants
    <2>2. \A j \in Key : left[j] = IF j \in Mapped(s) THEN None ELSE obj[s][j]
      OBVIOUS
    <2> HIDE DEF left
    <2>3. /\ obj' \in [Session -> [Key -> Instance]] /\ obj'[s] = left
          /\ \A r \in Session : r # s => obj'[r] = obj[r]
      BY <1>1, <1>3, <2>1
    <2> QED
      BY <2>2, <2>3
  <1>7. /\ want' \in [Session -> [Key -> Wish]] /\ want'[s] = wishes
        /\ \A r \in Session : r # s => want'[r] = want[r]
    <2>1. wishes \in [Key -> Wish]
      BY <1>3 DEF Wish
    <2> HIDE DEF wishes
    <2> QED
      BY <1>1, <1>3, <2>1
  <1>8. \A j \in Key : obj'[s][j].st \notin InMap
    BY <1>3, <1>6, Constants DEF Mapped, InMap
  <1>9. VersionsOf(s)'
    <2>1. Ahead(tx[s])'
      BY <1>1, <1>2, <1>3, <1>4 DEF VersionsOf, Ahead, Transaction
    <2>2. Known(tx[s], obj[s])'
      BY <1>8 DEF Known
    <2>3. (\A m \in mark[s] : Ahead(m.tx) /\ Known(m.tx, m.obj))'
      BY <1>1, <1>2 DEF VersionsOf, Ahead, Known
    <2> QED
      BY <2>1, <2>2, <2>3 DEF VersionsOf
  <1>10. WishesOf(s)'
    <2>1. \A j \in Key : ~PutAside(s, j) /\ ~PutAside(s, j)'
      BY <1>1, <1>2 DEF PutAside
    <2>2. ASSUME NEW j \in Key PROVE Keeps(tx[s], j, obj[s][j], want[s][j], PutAside(s, j))'
      <3>0. Keeps(tx[s], j, obj[s][j], want[s][j], FALSE)
        BY <1>2, <2>1 DEF WishesOf, Keeps
      <3>1. CASE j = k /\ hits /\ obj[s][k].st # "pending"
        <4>1. want'[s][j] = "gone"
          BY <1>5, <1>7, <3>1
        <4>2. obj'[s][j].st \in Away
          <5>1. obj[s][j].st \in {"none", "pending", "persistent", "deleted", "erased"}
            BY <1>3 DEF Instance
          <5> QED
            BY <1>6, <3>1, <5>1, Constants DEF Mapped, Away
        <4> QED
          BY <1>4, <2>1, <3>1, <4>1, <4>2, Constants DEF Keeps
      <3>2. CASE j \in Mapped(s) /\ (j # k \/ ~hits)
        <4>1. want'[s][j] = "nothing"
          BY <1>5, <1>7, <3>2
        <4> QED
          BY <4>1, Constants DEF Keeps
      <3>3. CASE ~(j = k /\ hits /\ obj[s][k].st # "pending") /\ ~(j \in Mapped(s) /\ (j # k \/ ~hits))
        <4>1. want'[s][j] = want[s][j]
          BY <1>5, <1>7, <3>3
        <4>2. CASE j \notin Mapped(s) /\ (j # k \/ ~hits)
          BY <1>4, <1>6, <2>1, <3>0, <4>1, <4>2 DEF Keeps
        <4>3. CASE j = k /\ hits /\ obj[s][k].st = "pending"
          <5>1. obj'[s][j] = obj[s][j]
            BY <1>6, <4>3 DEF Mapped
          <5> QED
            BY <2>1, <3>0, <4>1, <4>3, <5>1 DEF Keeps, Away
        <4> QED
          BY <3>3, <4>2, <4>3
      <3> QED
        BY <3>1, <3>2, <3>3
    <2> QED
      BY <1>1, <1>2, <2>2 DEF WishesOf
  <1>11. /\ mixed' \subseteq Key /\ \A m \in mark'[s] : m.tx.wrote \subseteq tx'[s].wrote /\ mark'[s] = {m}
         /\ mark' \in [Session -> SUBSET [obj : [Key -> Instance], tx : Transaction, want : [Key -> Wish]]]
    BY <1>1, <1>4 DEF TypeOK, Locked
  <1>12. \A j \in tx'[s].wrote : j \in tx[s].wrote \/ Free(s, j)
    BY <1>1, <1>3, <1>4 DEF Transaction
  <1> QED
    BY <1>1, <1>4, <1>6, <1>7, <1>9, <1>10, <1>11, <1>12, ReturnStep

-----------------------------------------------------------------------------
(* The savepoint, and the end.                                             *)

\* Back to the savepoint, or without it: rows, instances and wishes are again
\* those that it holds.
LEMMA RollbackToSavepointStep ==
  ASSUME IInv, NEW s \in Session, RollbackToSavepoint(s) \/ ReleaseSavepoint(s)
  PROVE  IInv'
  <1> USE DEF IInv
  <1>1. /\ UNCHANGED <<db, pc, call, todo, dirty, held, mixed, ever>> /\ ops' \in 0 .. MaxOps /\ pc[s] = "idle"
    BY UnitOfWorkAssumption DEF RollbackToSavepoint, ReleaseSavepoint, Acts, place, TypeOK
  <1>2. VersionsOf(s) /\ WishesOf(s) /\ PlaceOf(s)
    BY DEF SessionsOK
  <1>3. \A j \in Key : ~PutAside(s, j) /\ ~PutAside(s, j)'
    BY <1>1, <1>2 DEF PlaceOf, PutAside
  <1>4. PlaceOf(s)'
    BY <1>1, <1>2 DEF PlaceOf
  <1>5. CASE RollbackToSavepoint(s)
    <2>1. PICK m \in mark[s] : /\ tx' = [tx EXCEPT ![s] = m.tx] /\ want' = [want EXCEPT ![s] = m.want]
                               /\ obj' = [obj EXCEPT ![s] = m.obj] /\ mark' = mark
      BY <1>5 DEF RollbackToSavepoint
    <2>2. m \in [obj : [Key -> Instance], tx : Transaction, want : [Key -> Wish]]
      BY DEF TypeOK
    <2>3. /\ tx'[s] = m.tx /\ want'[s] = m.want /\ obj'[s] = m.obj
          /\ \A r \in Session : r # s => tx'[r] = tx[r] /\ want'[r] = want[r] /\ obj'[r] = obj[r]
      BY <2>1 DEF TypeOK
    <2>4. TypeOK'
      BY <1>1, <2>1, <2>2 DEF TypeOK
    <2>5. Own(s)
      BY <1>1, <2>1, <2>3 DEF Own
    <2>6. VersionsOf(s)'
      BY <1>1, <1>2, <2>1, <2>3 DEF VersionsOf, Ahead, Known
    <2>7. WishesOf(s)'
      BY <1>2, <1>3, <2>1, <2>3 DEF WishesOf, Keeps
    <2>8. /\ \A k \in tx'[s].wrote : k \in tx[s].wrote
          /\ \A n \in mark'[s] : n.tx.wrote \subseteq tx'[s].wrote /\ mark'[s] = {n}
      BY <2>1, <2>3 DEF Locked
    <2> QED
      BY <1>1, <1>4, <2>4, <2>5, <2>6, <2>7, <2>8, Frame
  <1>6. CASE ReleaseSavepoint(s)
    <2>1. UNCHANGED <<tx, obj, want>> /\ mark' = [mark EXCEPT ![s] = {}]
      BY <1>6 DEF ReleaseSavepoint
    <2>2. mark'[s] = {} /\ \A r \in Session : r # s => mark'[r] = mark[r]
      BY <2>1 DEF TypeOK
    <2>3. TypeOK'
      BY <1>1, <2>1 DEF TypeOK
    <2>4. Own(s)
      BY <1>1, <2>1, <2>2 DEF Own
    <2>5. VersionsOf(s)'
      BY <1>1, <1>2, <2>1, <2>2, QuietVersions
    <2>6. WishesOf(s)'
      BY <1>2, <1>3, <2>1, <2>2 DEF WishesOf, Keeps
    <2> QED
      BY <1>1, <1>4, <2>1, <2>2, <2>3, <2>4, <2>5, <2>6, Frame
  <1> QED
    BY <1>5, <1>6

\* What a session that ends leaves: its rows or nothing, which no instance of
\* another session can take for the row it knows.
LEMMA EndsStep ==
  ASSUME IInv, NEW s \in Session, NEW durable \in BOOLEAN, Ends(s, durable)
  PROVE  IInv'
  <1> USE DEF IInv
  <1>1. /\ tx' = [tx EXCEPT ![s] = NoTx] /\ obj' = [obj EXCEPT ![s] = [k \in Key |-> None]]
        /\ mark' = [mark EXCEPT ![s] = {}] /\ want' = [want EXCEPT ![s] = NoWants]
        /\ todo' = [todo EXCEPT ![s] = {}] /\ dirty' = [dirty EXCEPT ![s] = {}]
        /\ call' = [call EXCEPT ![s] = NoCall] /\ held' = [held EXCEPT ![s] = FALSE]
        /\ pc' = [pc EXCEPT ![s] = "ended"] /\ mixed' = mixed /\ ops' = ops
        /\ ever' = ever \cup {k \in Key : db'[k] # Absent}
    BY DEF Ends, Goes
  <1>2. /\ tx'[s] = NoTx /\ obj'[s] = [k \in Key |-> None] /\ mark'[s] = {} /\ want'[s] = NoWants
        /\ todo'[s] = {} /\ call'[s] = NoCall /\ held'[s] = FALSE /\ pc'[s] = "ended"
    BY <1>1 DEF TypeOK
  <1>3. ASSUME NEW r \in Session, r # s
        PROVE  /\ tx'[r] = tx[r] /\ obj'[r] = obj[r] /\ mark'[r] = mark[r] /\ want'[r] = want[r]
               /\ todo'[r] = todo[r] /\ call'[r] = call[r] /\ held'[r] = held[r] /\ pc'[r] = pc[r]
    BY <1>1, <1>3 DEF TypeOK
  <1>4. /\ db' \in [Key -> Row]
        /\ \A k \in Key : db'[k] = db[k] \/ (k \in tx[s].wrote /\ db'[k] = tx[s].rows[k])
    <2>1. \A k \in Key : View(s, k) \in Row
      BY DEF View, TypeOK, Transaction
    <2> QED
      BY <2>1 DEF Ends, View, TypeOK
  <1>5. TypeOK'
    <2>1. [k \in Key |-> None] \in [Key -> Instance] /\ NoTx \in Transaction /\ NoWants \in [Key -> Wish]
      BY Constants
    <2>2. NoCall \in [op : {"none", "flush", "commit", "savepoint", "get", "refresh", "update", "delete"},
                      key : Key \cup {NoKey}]
      BY DEF NoCall
    <2>3. /\ ever' \subseteq Key /\ tx' \in [Session -> Transaction] /\ obj' \in [Session -> [Key -> Instance]]
          /\ want' \in [Session -> [Key -> Wish]]
      BY <1>1, <2>1 DEF TypeOK
    <2>4. /\ mark' \in [Session -> SUBSET [obj : [Key -> Instance], tx : Transaction, want : [Key -> Wish]]]
          /\ pc' \in [Session -> {"idle", "run", "ended"} \cup Flushing]
          /\ todo' \in [Session -> SUBSET Key] /\ dirty' \in [Session -> SUBSET Key] /\ held' \in [Session -> BOOLEAN]
      BY <1>1 DEF TypeOK
    <2>5. call' \in [Session -> [op : {"none", "flush", "commit", "savepoint", "get", "refresh", "update", "delete"},
                                 key : Key \cup {NoKey}]]
      BY <1>1, <2>2 DEF TypeOK
    <2> QED
      BY <1>1, <1>4, <2>3, <2>4, <2>5 DEF TypeOK
  <1>6. VersionsOf(s) /\ tx[s].wrote \subseteq Key
    BY DEF SessionsOK, TypeOK, Transaction
  <1>7. Committed'
    BY <1>1, <1>4, <1>6 DEF Committed, VersionsOf, Ahead
  <1>8. Locked'
    BY <1>2, <1>3, Constants DEF Locked
  <1>9. VersionsOf(s)' /\ WishesOf(s)' /\ PlaceOf(s)'
    <2>1. VersionsOf(s)'
      BY <1>2, Constants DEF VersionsOf, Ahead, Known, InMap
    <2>2. WishesOf(s)'
      BY <1>2, Constants DEF WishesOf, Keeps, NoWants
    <2>3. PlaceOf(s)'
      BY <1>2 DEF PlaceOf, NoCall
    <2> QED
      BY <2>1, <2>2, <2>3
  <1>10. ASSUME NEW r \in Session, r # s PROVE VersionsOf(r)' /\ WishesOf(r)' /\ PlaceOf(r)'
    <2> USE <1>10
    <2>1. VersionsOf(r) /\ WishesOf(r) /\ PlaceOf(r)
      BY DEF SessionsOK
    \* What the other session, or its savepoint, wrote is not what s wrote.
    <2>2. \A k \in Key : db'[k] = db[k] => (k \in ever' <=> k \in ever)
      BY <1>1 DEF Committed
    <2>3. \A k \in tx[r].wrote : k \in Key /\ k \notin tx[s].wrote /\ db'[k] = db[k]
      BY <1>4 DEF Locked, TypeOK, Transaction
    <2>4. \A t : t.wrote \subseteq tx[r].wrote /\ Ahead(t) =>
              \A k \in t.wrote :
                  /\ t.rows[k] = Absent \/ t.rows[k].ver >= 1
                  /\ k \in ever' \ mixed /\ t.rows[k] # Absent => db'[k] # Absent /\ t.rows[k].ver > db'[k].ver
      BY <2>2, <2>3 DEF Ahead
    <2>5. ASSUME NEW t, NEW o \in [Key -> Instance], t.wrote \subseteq tx[r].wrote, Known(t, o),
                 NEW k \in Key \ mixed, o[k].st \in InMap, k \notin t.wrote
          PROVE  /\ k \in ever'
                 /\ \/ db'[k] = Absent
                    \/ o[k].ver < db'[k].ver
                    \/ o[k].ver = db'[k].ver /\ o[k].oval = db'[k].val
      <3> USE <2>5
      <3>1. /\ k \in ever
            /\ \/ db[k] = Absent
               \/ o[k].ver < db[k].ver
               \/ o[k].ver = db[k].ver /\ o[k].oval = db[k].val
        BY DEF Known
      <3>2. CASE db'[k] = db[k]
        BY <1>1, <3>1, <3>2
      <3>3. CASE k \in tx[s].wrote /\ db'[k] = tx[s].rows[k] /\ db'[k] # Absent
        <4>1. db[k] # Absent /\ db'[k].ver > db[k].ver
          BY <1>6, <3>1, <3>3 DEF VersionsOf, Ahead
        <4>2. db[k].ver \in Nat /\ db'[k].ver \in Nat /\ o[k].ver \in Nat
          BY <1>4 DEF TypeOK, Row, Instance
        <4> QED
          BY <1>1, <3>1, <4>1, <4>2
      <3> QED
        BY <1>1, <1>4, <3>1, <3>2, <3>3
    <2>6. VersionsOf(r)'
      <3>1. Ahead(tx[r])'
        BY <1>1, <1>3, <2>1, <2>4 DEF VersionsOf, Ahead
      <3>2. Known(tx[r], obj[r])'
        <4>1. obj[r] \in [Key -> Instance] /\ Known(tx[r], obj[r])
          BY <2>1 DEF TypeOK, VersionsOf
        <4>2. \A k \in Key \ mixed : obj[r][k].st \in InMap /\ k \notin tx[r].wrote =>
                  /\ k \in ever'
                  /\ \/ db'[k] = Absent
                     \/ obj[r][k].ver < db'[k].ver
                     \/ obj[r][k].ver = db'[k].ver /\ obj[r][k].oval = db'[k].val
          BY <2>5, <4>1
        <4> QED
          BY <1>1, <1>3, <4>1, <4>2 DEF Known
      <3>3. ASSUME NEW m \in mark[r] PROVE Ahead(m.tx)' /\ Known(m.tx, m.obj)'
        <4>1. /\ m.tx.wrote \subseteq tx[r].wrote /\ m.obj \in [Key -> Instance]
              /\ Ahead(m.tx) /\ Known(m.tx, m.obj)
          BY <2>1, <3>3 DEF Locked, TypeOK, VersionsOf
        <4>2. Ahead(m.tx)'
          BY <1>1, <2>4, <4>1 DEF Ahead
        <4>3. \A k \in Key \ mixed : m.obj[k].st \in InMap /\ k \notin m.tx.wrote =>
                  /\ k \in ever'
                  /\ \/ db'[k] = Absent
                     \/ m.obj[k].ver < db'[k].ver
                     \/ m.obj[k].ver = db'[k].ver /\ m.obj[k].oval = db'[k].val
          BY <2>5, <4>1
        <4>4. Known(m.tx, m.obj)'
          BY <1>1, <4>1, <4>3 DEF Known
        <4> QED
          BY <4>2, <4>4
      <3> QED
        BY <1>3, <3>1, <3>2, <3>3 DEF VersionsOf
    <2>7. WishesOf(r)'
      BY <1>3, <2>1 DEF WishesOf, PutAside
    <2>8. PlaceOf(r)'
      BY <1>3, <2>1 DEF PlaceOf, HasFlushWork, DirtyInstances, Mapped
    <2> QED
      BY <2>6, <2>7, <2>8
  <1> QED
    BY <1>5, <1>7, <1>8, <1>9, <1>10 DEF SessionsOK

-----------------------------------------------------------------------------
(* The theorems.                                                           *)

\* Every step keeps the invariant.
LEMMA NextOK == IInv /\ [Next]_vars => IInv'
  <1> SUFFICES ASSUME IInv, [Next]_vars PROVE IInv'
    OBVIOUS
  <1>1. CASE UNCHANGED vars
    <2>1. UNCHANGED <<db, tx, obj, mark, pc, call, todo, dirty, held, want, mixed, ever, ops>>
      BY <1>1 DEF vars, place
    <2>2. TypeOK' /\ Committed' /\ Locked'
      BY <2>1 DEF IInv, TypeOK, Committed, Locked
    <2>3. ASSUME NEW s \in Session PROVE VersionsOf(s)' /\ WishesOf(s)' /\ PlaceOf(s)'
      <3>1. VersionsOf(s) /\ WishesOf(s) /\ PlaceOf(s)
        BY DEF IInv, SessionsOK
      <3>2. VersionsOf(s)'
        BY <2>1, <3>1, QuietVersions
      <3>3. WishesOf(s)'
        BY <2>1, <3>1 DEF WishesOf, PutAside
      <3>4. PlaceOf(s)'
        BY <2>1, <3>1 DEF PlaceOf, HasFlushWork, DirtyInstances, Mapped
      <3> QED
        BY <3>2, <3>3, <3>4
    <2> QED
      BY <2>2, <2>3 DEF IInv, SessionsOK
  <1>2. ASSUME NEW s \in Session, Call(s) PROVE IInv'
    BY <1>2, BeginStep DEF Call
  <1>3. ASSUME NEW s \in Session, FlushFails(s) \/ Commit(s) \/ CommitFails(s) \/ Rollback(s) PROVE IInv'
    BY <1>3, EndsStep DEF FlushFails, Commit, CommitFails, Rollback
  <1> QED
    BY <1>1, <1>2, <1>3, AssignStep, AddStep, DeleteStep, ExpungeStep, RoundStep, UpdateNothingStep,
       InsertStep, UpdateStep, DeleteRowStep, FlushedStep, GetStep, RefreshStep, BulkDeleteStep, RunFailsStep,
       BulkUpdateStep, SavepointStep, RollbackToSavepointStep DEF Next

\* The invariant holds in every reachable state of the units of work.
THEOREM UnitsOfWorkInv == Spec => []IInv
  BY InitOK, NextOK, PTL DEF Spec

\* The rows, instances, savepoints and wishes of every session of orm.py keep
\* their types.
THEOREM UnitOfWorkTypes == Spec => []TypeOK
  <1>1. IInv => TypeOK
    BY DEF IInv
  <1> QED
    BY <1>1, UnitsOfWorkInv, PTL

\* An instance whose version is the row's knows the row's value, and what its
\* own session wrote or took back never makes it stale: the WHERE version = of
\* _update and _delete overwrites nothing that the session has not seen.
THEOREM VersionsStayTrue == Spec => []VersionsAreTrue
  <1>1. IInv => VersionsAreTrue
    <2> SUFFICES ASSUME IInv, NEW s \in Session, NEW k \in Mapped(s) \ mixed
                 PROVE  /\ Matches(s, k) => View(s, k).val = obj[s][k].oval
                        /\ k \in tx[s].wrote => Matches(s, k)
      BY DEF VersionsAreTrue
    <2>1. Known(tx[s], obj[s]) /\ k \in Key \ mixed /\ obj[s][k].st \in InMap
      BY DEF IInv, SessionsOK, VersionsOf, Mapped, InMap
    <2>2. db[k].ver \in Nat /\ obj[s][k].ver \in Nat
      BY <2>1 DEF IInv, TypeOK, Row, Instance
    <2> QED
      BY <2>1, <2>2, Constants DEF Known, Matches, View
  <1> QED
    BY <1>1, UnitsOfWorkInv, PTL

\* When a session sends COMMIT, its transaction holds every change that the
\* application asked for and no savepoint undid, those that the hooks made
\* during the flush included.
THEOREM CommitForgetsNothing == Spec => []NothingForgotten
  <1>1. IInv => NothingForgotten
    <2> SUFFICES ASSUME IInv, NEW s \in Session, NEW k \in Key, Running(s, "commit")
                 PROVE  CASE want[s][k] = "nothing" -> TRUE
                          [] want[s][k] = "gone" -> View(s, k) = Absent
                          [] OTHER -> View(s, k).val = want[s][k]
      BY DEF NothingForgotten
    <2>1. /\ Keeps(tx[s], k, obj[s][k], want[s][k], PutAside(s, k)) /\ ~PutAside(s, k)
          /\ ~HasFlushWork(s)
      BY DEF IInv, SessionsOK, WishesOf, PlaceOf, PutAside, Running
    <2>2. obj[s][k].st \notin {"pending", "deleted"} /\ (obj[s][k].st = "persistent" => ~obj[s][k].dirty)
      BY <2>1 DEF HasFlushWork, DirtyInstances, Mapped
    <2>3. want[s][k] \in {"nothing", "gone"} \cup Value
      BY DEF IInv, TypeOK, Wish
    <2>4. want[s][k] = "gone" => View(s, k) = Absent
      BY <2>1, <2>2 DEF Keeps, View
    <2>5. want[s][k] \in Value => View(s, k).val = want[s][k]
      BY <2>1, <2>2 DEF Keeps, View
    <2> QED
      BY <2>3, <2>4, <2>5, Constants
  <1> QED
    BY <1>1, UnitsOfWorkInv, PTL
=============================================================================
