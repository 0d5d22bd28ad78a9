----------------------------- MODULE ConfigProofs -----------------------------
(***************************************************************************)
(* Caches are coherent and accepted edits are current, for every number of *)
(* processes, writers, keys and values.                                    *)
(***************************************************************************)
EXTENDS Config, FiniteSetTheorems, TLAPS

\* A revision names one state of the store, and none is ahead of the store.
IHistory ==
  /\ db \in history
  /\ \A h \in history : h.rev \in Nat /\ h.rev <= db.rev
  /\ \A g, h \in history : g.rev = h.rev => g = h

\* Everything read from the store comes from its history.
Known(s) == s = Empty \/ s \in history

IReads ==
  /\ \A n \in Node : Known(cache[n]) /\ Known(snap[n])
  /\ \A w \in Writer : Known(tx[w].base)

\* The revision row is locked by one session; only an edit's locks are two.
ILocks ==
  /\ \A v, w \in Writer : "revision" \in tx[v].locks /\ "revision" \in tx[w].locks => v = w
  /\ \A w \in Writer : tx[w].kind \in {"none", "form"} => tx[w].locks = {}

\* Only a key that is written is written twice.
IWrites == \A w \in Writer : tx[w].planned = {} => tx[w].again = 0

IInv == TypeOK /\ IHistory /\ IReads /\ ILocks /\ IWrites /\ AcceptedEditIsCurrent

-------------------------------------------------------------------------------
\* The empty cache is a snapshot, and so is a write that has not begun a Tx.
LEMMA Blank == Empty \in Snapshot /\ NoWrite \in Tx /\ NoMap \in Map
               /\ Empty.rev = -1
               /\ NoWrite.kind = "none" /\ NoWrite.locks = {} /\ NoWrite.base = Empty
               /\ NoWrite.want \in Map /\ NoWrite.again = 0
BY DEF Empty, Snapshot, NoWrite, Tx, NoMap, Map

\* The fields of a transaction.
LEMMA TxFields ==
  ASSUME NEW t \in Tx
  PROVE  /\ t.base \in Snapshot /\ t.want \in Map /\ t.planned \in SUBSET Key
         /\ t.again \in {0, 1}
         /\ t.locks \in SUBSET {"row", "table", "revision"}
         /\ t.kind \in {"none", "form", "edit", "set"}
BY DEF Tx

\* What the transaction w may become without a commit.
Sound(w, t) ==
  /\ Known(t.base) /\ (t.planned = {} => t.again = 0)
  /\ "revision" \in t.locks => "revision" \in tx[w].locks \/ Free(w, "revision")
  /\ t.kind \in {"none", "form"} => t.locks = {}
  /\ t.kind = "edit" /\ t.locks = {"table", "revision"} => db = t.base

\* Every step of a transaction that is no commit leaves the store alone.
LEMMA TxStep ==
  ASSUME IInv, NEW w \in Writer, NEW t \in Tx,
         tx' = [tx EXCEPT ![w] = t], UNCHANGED <<ivars, db, cache, snap, history>>,
         Sound(w, t)
  PROVE  IInv'
<1>1. TypeOK'
  BY DEF IInv, TypeOK, ITypeOK, ivars
<1>2. tx'[w] = t /\ \A v \in Writer \ {w} : tx'[v] = tx[v]
  BY DEF IInv, TypeOK
<1>3. IHistory'
  BY DEF IInv, IHistory
<1>4. IReads'
  BY <1>2 DEF IInv, IReads, Known, Sound
<1>5. ILocks'
  BY <1>2 DEF IInv, ILocks, Free, Sound
<1>6. AcceptedEditIsCurrent'
  BY <1>2 DEF IInv, AcceptedEditIsCurrent, Sound
<1>7. IWrites'
  BY Zenon, <1>2 DEF IInv, IWrites, Sound
<1> QED  BY <1>1, <1>3, <1>4, <1>5, <1>6, <1>7 DEF IInv

\* A commit by the session that holds the revision row.
LEMMA CommitStep ==
  ASSUME IInv, NEW w \in Writer, "revision" \in tx[w].locks, Committed(w)
  PROVE  IInv'
<1> USE ConfigAssumption
<1> DEFINE p == tx[w].planned
           new == [rev |-> db.rev + Cardinality(p) + tx[w].again,
                   map |-> [k \in Key |-> IF k \in p THEN tx[w].want[k] ELSE db.map[k]]]
<1>1. /\ db' = new /\ history' = history \cup {new} /\ tx' = [tx EXCEPT ![w] = NoWrite]
      /\ UNCHANGED <<phase, session, listener, holder, cache, snap>>
      /\ inbox' = Notified \/ inbox' = inbox
  BY DEF Committed
<1>2. tx[w] \in Tx /\ db \in Snapshot
  BY DEF IInv, TypeOK
<1>3. p \in SUBSET Key /\ IsFiniteSet(p) /\ Cardinality(p) \in Nat
      /\ (Cardinality(p) = 0 <=> p = {})
  BY <1>2, TxFields, FS_Subset, FS_CardinalityType, FS_EmptySet
<1>4. db.rev \in Nat /\ db.map \in Map /\ db = [rev |-> db.rev, map |-> db.map]
  BY <1>2 DEF IInv, IHistory, Snapshot
<1>12. tx[w].again \in {0, 1} /\ (p = {} => tx[w].again = 0)
  BY Zenon, <1>2, TxFields DEF IInv, IWrites
<1>5. new \in Snapshot /\ new.rev = db.rev + Cardinality(p) + tx[w].again /\ new.rev \in Nat
  <2>1. new.map \in Map
    BY <1>2, <1>3, <1>4, TxFields DEF Map
  <2> QED  BY <1>3, <1>4, <1>12, <2>1 DEF Snapshot
<1>6. p = {} => new = db
  <2>1. p = {} => [k \in Key |-> IF k \in p THEN tx[w].want[k] ELSE db.map[k]] = db.map
    BY <1>4 DEF Map
  <2> QED  BY <1>3, <1>4, <1>12, <2>1
<1>7. p # {} => new.rev > db.rev
  BY <1>3, <1>4, <1>5, <1>12
<1> HIDE DEF new, p
<1>8. tx'[w] = NoWrite /\ \A v \in Writer \ {w} : tx'[v] = tx[v]
  BY <1>1 DEF IInv, TypeOK
<1>9. TypeOK'
  <2>1. ITypeOK /\ history \subseteq Snapshot /\ cache \in [Node -> Snapshot]
        /\ snap \in [Node -> Snapshot] /\ tx \in [Writer -> Tx]
    BY DEF IInv, TypeOK
  <2>2. inbox' \in [Node -> BOOLEAN]
    BY Zenon, <1>1, <2>1 DEF ITypeOK, Notified
  <2>3. ITypeOK'
    BY <1>1, <2>1, <2>2 DEF ITypeOK
  <2>4. tx' \in [Writer -> Tx]
    BY <1>1, <2>1, Blank
  <2> QED  BY <1>1, <1>5, <2>1, <2>3, <2>4 DEF TypeOK
<1>10. IHistory'
  <2>1. CASE p = {}
    BY <1>1, <1>6, <2>1 DEF IInv, IHistory
  <2>2. CASE p # {}
    BY <1>1, <1>4, <1>5, <1>7, <2>2 DEF IInv, IHistory
  <2> QED  BY <2>1, <2>2
<1>11. IReads'
  BY <1>1, <1>8, Blank DEF IInv, IReads, Known
<1>14. ILocks'
  BY <1>8, Blank DEF IInv, ILocks
<1>13. AcceptedEditIsCurrent'
  BY <1>8, Blank DEF IInv, ILocks, AcceptedEditIsCurrent
<1>15. IWrites'
  BY Zenon, <1>8, Blank DEF IInv, IWrites
<1> QED  BY <1>9, <1>10, <1>11, <1>13, <1>14, <1>15 DEF IInv

\* The plane's own steps.
LEMMA PlaneStep ==
  ASSUME IInv, NEW n \in Node, Plane(n)
  PROVE  IInv'
<1>1. ITypeOK'
  <2>1. ITypeOK
    BY DEF IInv, TypeOK
  <2>2. CASE BootRefresh(n) \/ PollRefresh(n)
    BY <2>1, <2>2 DEF ITypeOK, BootRefresh, PollRefresh
  <2>3. CASE Connect(n)
    BY <2>1, <2>3 DEF ITypeOK, Connect
  <2>4. CASE ListenerRefresh(n)
    BY <2>1, <2>4 DEF ITypeOK, ListenerRefresh
  <2>5. CASE SessionEnds(n)
    BY <2>1, <2>5 DEF ITypeOK, SessionEnds
  <2>6. CASE NoticeLoss(n)
    BY <2>1, <2>6 DEF ITypeOK, NoticeLoss
  <2> QED  BY <2>2, <2>3, <2>4, <2>5, <2>6 DEF Plane
<1> QED  BY <1>1 DEF IInv, TypeOK, Plane, cvars, IHistory, IReads, Known, ILocks, IWrites,
                     AcceptedEditIsCurrent

\* The steps of a refresh, its failure, and the end of the process.
LEMMA RefreshStep ==
  ASSUME IInv, NEW n \in Node, Refresh(n) \/ RefreshFails(n) \/ Stop(n)
  PROVE  IInv'
<1>0. UNCHANGED <<db, tx, history>>
  BY Zenon DEF Refresh, Load_snapshot, Apply, RefreshFails, Stop
<1>1. ITypeOK'
  <2>1. ITypeOK
    BY DEF IInv, TypeOK
  <2>2. CASE Load_snapshot(n)
    BY <2>1, <2>2 DEF Load_snapshot, ivars, ITypeOK
  <2>3. CASE Stop(n)
    BY <2>1, <2>3 DEF Stop, NodeStops, ITypeOK
  <2>4. ASSUME NEW ok \in BOOLEAN, RunEnds(n, ok) PROVE ITypeOK'
    BY <2>1, <2>4 DEF RunEnds, ITypeOK
  <2> QED  BY Zenon, <2>2, <2>3, <2>4 DEF Refresh, Apply, RefreshFails
<1>2. /\ \E s \in {snap[n], db, Empty} : snap' = [snap EXCEPT ![n] = s]
      /\ cache' = cache \/ \E s \in {cache[n], snap[n], Empty} : cache' = [cache EXCEPT ![n] = s]
  BY Zenon DEF Refresh, Load_snapshot, Apply, RefreshFails, Stop
<1>3. TypeOK'
  BY <1>0, <1>1, <1>2, Blank DEF IInv, TypeOK
<1>4. IReads'
  BY <1>0, <1>2 DEF IInv, TypeOK, IHistory, IReads, Known
<1> QED  BY <1>0, <1>3, <1>4 DEF IInv, IHistory, ILocks, IWrites, AcceptedEditIsCurrent

\* Every step preserves the invariant.
LEMMA IInvNext == IInv /\ [Next]_vars => IInv'
<1> SUFFICES ASSUME IInv, [Next]_vars PROVE IInv'
  OBVIOUS
<1>1. CASE UNCHANGED vars
  BY <1>1 DEF vars, ivars, cvars, IInv, TypeOK, ITypeOK, IHistory, IReads, Known, ILocks, IWrites,
              AcceptedEditIsCurrent
<1>2. ASSUME NEW n \in Node, Plane(n) \/ Refresh(n) \/ RefreshFails(n) \/ Stop(n) PROVE IInv'
  BY <1>2, PlaneStep, RefreshStep
<1>3. ASSUME NEW w \in Writer
      PROVE  tx[w] \in Tx /\ Known(tx[w].base) /\ (tx[w].planned = {} => tx[w].again = 0)
  BY DEF IInv, TypeOK, IReads, IWrites
<1>4. ASSUME NEW w \in Writer, Set(w) PROVE IInv'
  <2>1. ASSUME NEW k \in Key, NEW v \in Value \cup {None}, LockRow(w, k, v) PROVE IInv'
    <3> DEFINE t == [NoWrite EXCEPT !.kind = "set", !.want[k] = v, !.planned = {k}, !.locks = {"row"}]
    <3>1. t \in Tx /\ t.base = Empty /\ t.kind = "set" /\ t.locks = {"row"} /\ t.again = 0
      BY Zenon, Blank DEF NoWrite, Tx, NoMap, Map
    <3>2. tx' = [tx EXCEPT ![w] = t] /\ UNCHANGED <<ivars, db, cache, snap, history>>
      BY <2>1 DEF LockRow
    <3> HIDE DEF t
    <3>9. Sound(w, t)
      BY Zenon, <3>1 DEF Sound, Known
    <3> QED  BY Zenon, <3>1, <3>2, <3>9, TxStep
  <2>2. CASE BumpRevision(w)
    <3> DEFINE t == [tx[w] EXCEPT !.locks = @ \cup {"revision"}]
    <3>1. /\ t \in Tx /\ t.base = tx[w].base /\ t.kind = "set"
          /\ t.planned = tx[w].planned /\ t.again = tx[w].again
      BY <1>3, <2>2 DEF BumpRevision, Tx
    <3>2. tx' = [tx EXCEPT ![w] = t] /\ UNCHANGED <<ivars, db, cache, snap, history>>
          /\ Free(w, "revision")
      BY <2>2 DEF BumpRevision, IInv, TypeOK
    <3> HIDE DEF t
    <3>9. Sound(w, t)
      BY Zenon, <1>3, <3>1, <3>2 DEF Sound
    <3> QED  BY Zenon, <3>1, <3>2, <3>9, TxStep
  <2>3. CASE SetCommit(w)
    BY <2>3, CommitStep DEF SetCommit
  <2> QED  BY <1>4, <2>1, <2>2, <2>3 DEF Set
<1>5. ASSUME NEW w \in Writer, Rollback(w) PROVE IInv'
  <2>1. Sound(w, NoWrite)
    BY Zenon, Blank DEF Sound, Known
  <2> QED  BY Zenon, <1>5, <2>1, Blank, TxStep DEF Rollback
<1>6. ASSUME NEW w \in Writer, NEW n \in Node, Admin_render(w, n) PROVE IInv'
  <2> DEFINE t == [NoWrite EXCEPT !.kind = "form", !.base = cache[n]]
  <2>1. t \in Tx /\ t.base = cache[n] /\ t.kind = "form" /\ t.locks = {} /\ t.again = 0
    BY Zenon, Blank DEF NoWrite, Tx, IInv, TypeOK
  <2>2. Known(cache[n])
    BY DEF IInv, IReads
  <2>3. tx' = [tx EXCEPT ![w] = t] /\ UNCHANGED <<ivars, db, cache, snap, history>>
    BY <1>6 DEF Admin_render
  <2> HIDE DEF t
  <2>9. Sound(w, t)
    BY Zenon, <2>1, <2>2 DEF Sound
  <2> QED  BY Zenon, <2>1, <2>3, <2>9, TxStep
<1>7. ASSUME NEW w \in Writer, NEW n \in Node, Submit(w, n) PROVE IInv'
  <2> DEFINE planned(want, new) == Planned(tx[w].base.map, want, cache[n].map) \cup new
  <2>1. PICK want \in Posts(tx[w].base.map), again \in {0, 1} :
          \E new \in Restated(tx[w].base.map, want) :
            /\ again = 1 => \E k \in new : cache[n].map[k] # None
            /\ tx' = [tx EXCEPT ![w].kind = "edit", ![w].want = want,
                                ![w].planned = planned(want, new), ![w].again = again]
    BY Zenon, <1>7 DEF Submit
  <2>7. PICK new \in Restated(tx[w].base.map, want) :
          /\ again = 1 => \E k \in new : cache[n].map[k] # None
          /\ tx' = [tx EXCEPT ![w].kind = "edit", ![w].want = want,
                              ![w].planned = planned(want, new), ![w].again = again]
    BY Zenon, <2>1
  <2> DEFINE p == planned(want, new)
  <2>8. p \in SUBSET Key /\ (again = 1 => p # {})
    <3>1. new = {} \/ \E k \in Key : new = {k}
      BY <2>7 DEF Restated
    <3> QED  BY Zenon, <2>7, <3>1 DEF Planned
  <2> HIDE DEF p
  <2> DEFINE t == [tx[w] EXCEPT !.kind = "edit", !.want = want, !.planned = p, !.again = again]
  <2>2. want \in Map
    BY <2>1 DEF Posts
  <2>3. /\ t \in Tx /\ t.base = tx[w].base /\ t.kind = "edit" /\ t.locks = tx[w].locks
        /\ t.planned = p /\ t.again = again
    BY Zenon, <1>3, <2>2, <2>8 DEF Tx
  <2>6. t.planned = {} => t.again = 0
    BY Zenon, <2>3, <2>8
  <2>4. tx' = [tx EXCEPT ![w] = t] /\ UNCHANGED <<ivars, db, cache, snap, history>>
    BY Zenon, <1>7, <2>7 DEF Submit, IInv, TypeOK, p
  <2>5. tx[w].locks = {}
    BY <1>7 DEF Submit, IInv, ILocks
  <2> HIDE DEF t
  <2>9. Sound(w, t)
    BY Zenon, <1>3, <2>3, <2>5, <2>6 DEF Sound
  <2> QED  BY Zenon, <2>3, <2>4, <2>9, TxStep
<1>8. ASSUME NEW w \in Writer, LockTable(w, {}) PROVE IInv'
  <2> DEFINE t == [tx[w] EXCEPT !.locks = @ \cup {"table"}]
  <2>1. /\ t \in Tx /\ t.base = tx[w].base /\ t.kind = "edit" /\ t.locks = {"table"}
        /\ t.planned = tx[w].planned /\ t.again = tx[w].again
    BY <1>3, <1>8 DEF LockTable, Tx
  <2>2. tx' = [tx EXCEPT ![w] = t] /\ UNCHANGED <<ivars, db, cache, snap, history>>
    BY <1>8 DEF LockTable, IInv, TypeOK
  <2> HIDE DEF t
  <2>9. Sound(w, t)
    BY Zenon, <1>3, <2>1 DEF Sound
  <2> QED  BY Zenon, <2>1, <2>2, <2>9, TxStep
<1>9. ASSUME NEW w \in Writer, CheckRevision(w, {"table"}) PROVE IInv'
  <2>1. UNCHANGED <<ivars, db, cache, snap, history>> /\ Free(w, "revision")
    BY <1>9 DEF CheckRevision
  <2>2. CASE db.rev = tx[w].base.rev
    <3> DEFINE t == [tx[w] EXCEPT !.locks = @ \cup {"revision"}]
    <3>1. /\ t \in Tx /\ t.base = tx[w].base /\ t.kind = "edit"
          /\ t.planned = tx[w].planned /\ t.again = tx[w].again
      BY <1>3, <1>9 DEF CheckRevision, Tx
    <3>2. tx' = [tx EXCEPT ![w] = t]
      BY <1>9, <2>2 DEF CheckRevision, IInv, TypeOK
    <3>3. db = tx[w].base
      BY <1>3, <2>2, Blank DEF Known, IInv, IHistory
    <3> HIDE DEF t
    <3>9. Sound(w, t)
      BY Zenon, <1>3, <2>1, <3>1, <3>3 DEF Sound
    <3> QED  BY Zenon, <2>1, <3>1, <3>2, <3>9, TxStep
  <2>3. CASE db.rev # tx[w].base.rev
    <3>1. tx' = [tx EXCEPT ![w] = NoWrite]
      BY <1>9, <2>3 DEF CheckRevision, IInv, TypeOK
    <3>2. Sound(w, NoWrite)
      BY Zenon, Blank DEF Sound, Known
    <3> QED  BY Zenon, <2>1, <3>1, <3>2, Blank, TxStep
  <2> QED  BY <2>2, <2>3
<1>10. ASSUME NEW w \in Writer, EditCommit(w) PROVE IInv'
  BY <1>10, CommitStep DEF EditCommit
<1> QED  BY <1>1, <1>2, <1>4, <1>5, <1>6, <1>7, <1>8, <1>9, <1>10
         DEF Next, Write, Apply_edit, EditLocks

\* The invariant holds initially.
LEMMA IInvInit == Init => IInv
<1> SUFFICES ASSUME Init PROVE IInv
  OBVIOUS
<1>1. db \in Snapshot /\ db.rev = 0 /\ history = {db}
  BY Blank DEF Init, Snapshot
<1>2. TypeOK
  BY <1>1, Blank DEF Init, IInit, TypeOK, ITypeOK
<1> QED  BY <1>1, <1>2, Blank DEF Init, IInv, IHistory, IReads, Known, ILocks, IWrites, AcceptedEditIsCurrent

\* The inductive invariant of the store, its caches and its writers.
THEOREM Invariance == Spec => []IInv
BY IInvInit, IInvNext, PTL DEF Spec

\* Every reachable state of the store, the forms, the writing transactions and the
\* caches has its type (SCHEMA_DDL, CacheState, admin_render).
THEOREM TypeCorrect == Spec => []TypeOK
<1>1. IInv => TypeOK
  BY DEF IInv
<1> QED  BY <1>1, Invariance, PTL

\* Every cache is the store at one revision (load_snapshot_from and apply).
THEOREM CachesAreCoherent == Spec => []Coherent
<1>1. IInv => Coherent
  BY DEF IInv, IReads, Known, Coherent
<1> QED  BY <1>1, Invariance, PTL

\* No write is lost under an accepted edit (apply_edit's compare-and-swap).
THEOREM AcceptedEditsAreCurrent == Spec => []AcceptedEditIsCurrent
<1>1. IInv => AcceptedEditIsCurrent
  BY DEF IInv
<1> QED  BY <1>1, Invariance, PTL
\* A process past its module start has a filled cache.
ILoaded == \A n \in Node : phase[n] \in {"first", "up"} => cache[n] # Empty

\* A refresh that succeeds leaves a filled cache, one that fails at boot no process.
LEMMA LoadedNext == IInv /\ ILoaded /\ [Next]_vars => ILoaded'
<1> SUFFICES ASSUME IInv, ILoaded, [Next]_vars PROVE ILoaded'
  OBVIOUS
<1>0. /\ cache \in [Node -> Snapshot] /\ phase \in [Node -> {"off", "fill", "first", "up"}]
      /\ snap \in [Node -> Snapshot]
  BY DEF IInv, TypeOK, ITypeOK
<1>1. CASE phase' = phase /\ cache' = cache
  BY <1>1 DEF ILoaded
<1>2. ASSUME NEW n \in Node, Plane(n) PROVE ILoaded'
  BY <1>0, <1>2 DEF Plane, BootRefresh, Connect, ListenerRefresh, PollRefresh, SessionEnds,
                   NoticeLoss, cvars, ILoaded
<1>3. ASSUME NEW n \in Node, Apply(n) PROVE ILoaded'
  <2>1. /\ snap[n] # Empty
        /\ cache' = [cache EXCEPT ![n] = IF snap[n].rev <= @.rev THEN @ ELSE snap[n]]
        /\ \E p : phase' = [phase EXCEPT ![n] = p]
    BY Zenon, <1>3 DEF Apply, RunEnds
  <2>2. snap[n].rev \in Nat
    BY <2>1 DEF IInv, IReads, Known, IHistory
  <2>3. cache'[n] # Empty
    BY <1>0, <2>1, <2>2, Blank
  <2> QED  BY <1>0, <2>1, <2>3 DEF ILoaded
<1>4. ASSUME NEW n \in Node, RefreshFails(n) PROVE ILoaded'
  BY <1>0, <1>4 DEF RefreshFails, RunEnds, ILoaded
<1>5. ASSUME NEW n \in Node, Stop(n) PROVE ILoaded'
  BY <1>0, <1>5 DEF Stop, NodeStops, ILoaded
<1>6. ASSUME NEW w \in Writer, Write(w) PROVE phase' = phase /\ cache' = cache
  BY <1>6 DEF Write, Set, LockRow, BumpRevision, SetCommit, Committed, Apply_edit, Admin_render,
              Submit, EditLocks, LockTable, CheckRevision, EditCommit, Rollback, ivars
<1>7. ASSUME NEW n \in Node, Load_snapshot(n) PROVE phase' = phase /\ cache' = cache
  BY <1>7 DEF Load_snapshot, ivars
<1>8. CASE UNCHANGED vars
  BY <1>1, <1>8 DEF vars, ivars, cvars
<1> QED  BY <1>1, <1>2, <1>3, <1>4, <1>5, <1>6, <1>7, <1>8 DEF Next, Refresh

\* No process serves the cache it was born with (InvalidationPlane::start and
\* Config::start fail the boot when the first refresh fails).
THEOREM BootsAreLoaded == Spec => []ServesLoaded
<1>1. Init => ILoaded
  BY DEF Init, IInit, ILoaded
<1>2. ILoaded => ServesLoaded
  BY DEF ILoaded, ServesLoaded
<1> QED  BY <1>1, <1>2, LoadedNext, Invariance, PTL DEF Spec
===============================================================================
