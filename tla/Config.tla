-------------------------------- MODULE Config --------------------------------
(***************************************************************************)
(* modules/config on the invalidation plane: settings in Postgres with a   *)
(* revision that every write bumps in its own transaction, and in every    *)
(* process a cache of the whole store (config's own Service, or the        *)
(* CachedConfig of api/config/rpc, which reads through config-svc).        *)
(*                                                                         *)
(* Writers are sessions: Service::set and single psql statements, and the  *)
(* admin form with its compare-and-swap on the revision.                   *)
(***************************************************************************)
EXTENDS Invalidation

CONSTANTS
  Key,       \* (namespace, key) pairs
  Value,
  None,      \* no row
  Writer,    \* sessions that may write at the same time
  MaxRev     \* bound on the revision, a key that is written twice counted once

ASSUME ConfigAssumption ==
  /\ MaxRev \in Nat
  /\ IsFiniteSet(Key)
  /\ None \notin Value

VARIABLES
  db,       \* [rev, map]: config.revision and config.settings, committed
  cache,    \* [Node -> [rev, map]]: CacheState
  snap,     \* [Node -> [rev, map]]: what the running refresh has read
  tx,       \* [Writer -> Tx]
  history   \* observation: every committed [rev, map]

cvars == <<db, cache, snap, tx, history>>
vars == <<ivars, cvars>>

Map == [Key -> Value \cup {None}]

NoMap == [k \in Key |-> None]

Snapshot == [rev: Int, map: Map]

\* CacheState::empty.
Empty == [rev |-> -1, map |-> NoMap]

\* A write: the form it started from, what the store should hold, the keys it
\* writes, how many of them twice, and the locks it holds.
Tx == [kind: {"none", "form", "edit", "set"}, base: Snapshot, want: Map,
       planned: SUBSET Key, again: {0, 1}, locks: SUBSET {"row", "table", "revision"}]

NoWrite == [kind |-> "none", base |-> Empty, want |-> NoMap, planned |-> {}, again |-> 0,
            locks |-> {}]

\* The lock is free as far as the session w is concerned.
Free(w, lock) == \A v \in Writer \ {w} : lock \notin tx[v].locks

-------------------------------------------------------------------------------
Init ==
  /\ IInit
  /\ db = [rev |-> 0, map |-> NoMap]
  /\ cache = [n \in Node |-> Empty]
  /\ snap = [n \in Node |-> Empty]
  /\ tx = [w \in Writer |-> NoWrite]
  /\ history = {[rev |-> 0, map |-> NoMap]}

\* The trigger bumps the revision once per written row, and notifies.
Committed(w) ==
  LET new == [rev |-> db.rev + Cardinality(tx[w].planned) + tx[w].again,
              map |-> [k \in Key |-> IF k \in tx[w].planned THEN tx[w].want[k] ELSE db.map[k]]] IN
  /\ db' = new
  /\ history' = history \cup {new}
  /\ inbox' = IF tx[w].planned # {} THEN Notified ELSE inbox
  /\ tx' = [tx EXCEPT ![w] = NoWrite]
  /\ UNCHANGED <<phase, session, listener, holder, cache, snap>>

-------------------------------------------------------------------------------
(* Service::set and single psql statements *)

InFlight == {w \in Writer : tx[w].kind = "set"}

\* The statement locks the table (ROW EXCLUSIVE) and its row; a DELETE finds one.
LockRow(w, k, v) ==
  /\ tx[w].kind = "none" /\ db.rev + Cardinality(InFlight) < MaxRev
  /\ Free(w, "table")
  /\ \A u \in InFlight : tx[u].planned # {k}
  /\ v # None \/ db.map[k] # None
  /\ tx' = [tx EXCEPT ![w] = [NoWrite EXCEPT !.kind = "set", !.want[k] = v,
                                             !.planned = {k}, !.locks = {"row"}]]
  /\ UNCHANGED <<ivars, db, cache, snap, history>>

\* The trigger's UPDATE of config.revision, held to the end of the transaction.
BumpRevision(w) ==
  /\ tx[w].kind = "set" /\ tx[w].locks = {"row"} /\ Free(w, "revision")
  /\ tx' = [tx EXCEPT ![w].locks = @ \cup {"revision"}]
  /\ UNCHANGED <<ivars, db, cache, snap, history>>

SetCommit(w) ==
  /\ tx[w].kind = "set" /\ "revision" \in tx[w].locks
  /\ Committed(w)

Set(w) == (\E k \in Key, v \in Value \cup {None} : LockRow(w, k, v)) \/ BumpRevision(w) \/ SetCommit(w)

-------------------------------------------------------------------------------
(* The admin form *)

\* admin_render: the fields and the hidden _expected_revision, from one guard.
Admin_render(w, n) ==
  /\ tx[w].kind = "none" /\ phase[n] = "up"
  /\ tx' = [tx EXCEPT ![w] = [NoWrite EXCEPT !.kind = "form", !.base = cache[n]]]
  /\ UNCHANGED <<ivars, db, cache, snap, history>>

\* What an operator can post: another value in every field, and one new setting.
Posts(base) ==
  {want \in Map : /\ \A k \in Key : base[k] # None => want[k] # None
                  /\ Cardinality({k \in Key : base[k] = None /\ want[k] # None}) <= 1}

\* Slip: the new setting is forgotten.
Planned_FieldsOnly(base, want, cached) ==
  {k \in Key : cached[k] # None /\ want[k] \notin {None, cached[k]}}

\* The fields that differ from the cache of the process that got the POST, and
\* the new setting.
Planned(base, want, cached) ==
  {k \in Key : IF base[k] = None THEN want[k] # None
               ELSE cached[k] # None /\ want[k] # cached[k]}

\* The new setting may also name a key that has a field.
Restated(base, want) ==
  IF \E k \in Key : base[k] = None /\ want[k] # None THEN {{}}
  ELSE {{}} \cup {{k} : k \in {j \in Key : base[j] # None}}

\* apply_edit up to its transaction, in the process n.  A restated key is written once
\* more than its field, which may be written too.
Submit(w, n) ==
  /\ tx[w].kind = "form" /\ phase[n] = "up"
  /\ \E want \in Posts(tx[w].base.map), again \in {0, 1} :
     \E new \in Restated(tx[w].base.map, want) :
       LET planned == Planned(tx[w].base.map, want, cache[n].map) \cup new IN
       /\ tx[w].base.rev + Cardinality(planned) <= MaxRev
       /\ again = 1 => \E k \in new : cache[n].map[k] # None
       /\ tx' = [tx EXCEPT ![w].kind = "edit", ![w].want = want, ![w].planned = planned,
                           ![w].again = again]
  /\ UNCHANGED <<ivars, db, cache, snap, history>>

\* SHARE ROW EXCLUSIVE conflicts with itself and with every writing statement.
LockTable(w, held) ==
  /\ tx[w].kind = "edit" /\ tx[w].locks = held
  /\ Free(w, "table") /\ Free(w, "row")
  /\ tx' = [tx EXCEPT ![w].locks = @ \cup {"table"}]
  /\ UNCHANGED <<ivars, db, cache, snap, history>>

\* Slip: the revision is locked and not compared.
CheckRevision_Blind(w, held) ==
  /\ tx[w].kind = "edit" /\ tx[w].locks = held /\ Free(w, "revision")
  /\ tx' = [tx EXCEPT ![w].locks = @ \cup {"revision"}]
  /\ UNCHANGED <<ivars, db, cache, snap, history>>

\* SELECT revision FOR UPDATE; another revision than the form's is a Conflict.
CheckRevision(w, held) ==
  /\ tx[w].kind = "edit" /\ tx[w].locks = held /\ Free(w, "revision")
  /\ \/ db.rev = tx[w].base.rev /\ tx' = [tx EXCEPT ![w].locks = @ \cup {"revision"}]
     \/ db.rev # tx[w].base.rev /\ tx' = [tx EXCEPT ![w] = NoWrite]
  /\ UNCHANGED <<ivars, db, cache, snap, history>>

\* Slip: the revision row is locked before the table.
EditLocks_RevisionFirst(w) == CheckRevision(w, {}) \/ LockTable(w, {"revision"})

EditLocks(w) == LockTable(w, {}) \/ CheckRevision(w, {"table"})

EditCommit(w) ==
  /\ tx[w].kind = "edit" /\ tx[w].locks = {"table", "revision"}
  /\ Committed(w)

\* A form that is not posted, an error, a lost connection, a crash.
Rollback(w) ==
  /\ tx[w].kind # "none"
  /\ tx' = [tx EXCEPT ![w] = NoWrite]
  /\ UNCHANGED <<ivars, db, cache, snap, history>>

Apply_edit(w) == (\E n \in Node : Admin_render(w, n) \/ Submit(w, n)) \/ EditLocks(w) \/ EditCommit(w)

-------------------------------------------------------------------------------
(* refresh, the callback *)

\* Slip: the revision and the settings are read by two statements.
Load_snapshot_TwoReads(n) ==
  /\ holder[n] # "free" /\ snap[n] = Empty
  /\ \E old \in history : snap' = [snap EXCEPT ![n] = [rev |-> db.rev, map |-> old.map]]
  /\ UNCHANGED <<ivars, db, cache, tx, history>>

\* One statement over the committed store, locally or in config-svc.
Load_snapshot(n) ==
  /\ holder[n] # "free" /\ snap[n] = Empty
  /\ snap' = [snap EXCEPT ![n] = db]
  /\ UNCHANGED <<ivars, db, cache, tx, history>>

\* The revision-gated swap.
Apply(n) ==
  /\ snap[n] # Empty
  /\ cache' = [cache EXCEPT ![n] = IF snap[n].rev <= @.rev THEN @ ELSE snap[n]]
  /\ snap' = [snap EXCEPT ![n] = Empty]
  /\ RunEnds(n, TRUE)
  /\ UNCHANGED <<db, tx, history>>

\* The database or the peer fails, or the callback's deadline drops the future.
RefreshFails(n) ==
  /\ snap' = [snap EXCEPT ![n] = Empty]
  /\ RunEnds(n, FALSE)
  /\ cache' = [cache EXCEPT ![n] = IF holder[n] = "boot" THEN Empty ELSE @]
  /\ UNCHANGED <<db, tx, history>>

Stop(n) ==
  /\ NodeStops(n)
  /\ cache' = [cache EXCEPT ![n] = Empty]
  /\ snap' = [snap EXCEPT ![n] = Empty]
  /\ UNCHANGED <<db, tx, history>>

Refresh(n) == Load_snapshot(n) \/ Apply(n)

Plane(n) ==
  /\ BootRefresh(n) \/ Connect(n) \/ ListenerRefresh(n) \/ PollRefresh(n)
     \/ SessionEnds(n) \/ NoticeLoss(n)
  /\ UNCHANGED cvars

Write(w) == Set(w) \/ Apply_edit(w) \/ Rollback(w)

Next ==
  \/ \E w \in Writer : Write(w)
  \/ \E n \in Node : Plane(n) \/ Refresh(n) \/ RefreshFails(n) \/ Stop(n)

Spec == Init /\ [][Next]_vars

-------------------------------------------------------------------------------
(* Properties *)

\* Every variable has its type; a form holds what admin_render can have rendered.
TypeOK ==
  /\ ITypeOK
  /\ db \in Snapshot /\ history \subseteq Snapshot
  /\ cache \in [Node -> Snapshot] /\ snap \in [Node -> Snapshot]
  /\ tx \in [Writer -> Tx]

\* What a process serves is the whole store as it was after some commit, with the
\* revision of that commit: never the settings of one and the revision of
\* another (load_snapshot_from's single statement, apply's single guard).
Coherent == \A n \in Node : cache[n] = Empty \/ cache[n] \in history

\* The boot guarantee ("no cache is stale-ready"): a process that is up answers
\* from a store it has read, never from the empty cache it was born with.
ServesLoaded == \A n \in Node : phase[n] = "up" => cache[n] # Empty

\* From the moment apply_edit's compare-and-swap succeeds until it commits, the
\* store is exactly what the operator's form showed: nobody's write is lost.
AcceptedEditIsCurrent ==
  \A w \in Writer : tx[w].kind = "edit" /\ tx[w].locks = {"table", "revision"} =>
    db = tx[w].base

\* "Applies a posted whole-snapshot edit with the global config.revision as its
\* compare-and-swap authority": an edit that is accepted leaves the store with
\* the posted values.
EditIsWhole ==
  [][\A w \in Writer : EditCommit(w) =>
        \A k \in Key : tx[w].want[k] # None => db'.map[k] = tx[w].want[k]]_vars

-------------------------------------------------------------------------------
(* Liveness *)

\* Sessions that hold no lock another needs go on; lock queues are first come,
\* first served.
WriterFairness ==
  \A w \in Writer : /\ WF_vars(BumpRevision(w) \/ SetCommit(w) \/ EditCommit(w))
                    /\ SF_vars(EditLocks(w))

\* No deadlock between apply_edit and the writers ("using the same order avoids a
\* row-revision lock inversion"): without any rollback an edit ends.
EditEnds == \A w \in Writer : tx[w].kind = "edit" ~> tx[w].kind = "none"

\* The tasks of a process run, its statements return within the deadline, the poll
\* ticks forever; the callback's lock is first come, first served.
PollFairness ==
  \A n \in Node : WF_vars(Refresh(n)) /\ SF_vars(PollRefresh(n) /\ UNCHANGED cvars)

\* Processes stop restarting and refreshes stop failing.
Calm == <>[][\A n \in Node : ~RefreshFails(n) /\ ~Stop(n)]_vars

\* The freshness floor: once the writes stop, every running process ends with
\* the store, whatever NOTIFYs were lost and however its session died.
Fresh == Calm => \A n \in Node : <>[](phase[n] = "up" => cache[n] = db)
===============================================================================
