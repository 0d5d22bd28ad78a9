------------------------------ MODULE EventPlane ------------------------------
(***************************************************************************)
(* The durable event plane (core/asyncevents) with its operator tool       *)
(* (tools/eventctl): one Postgres log shared by every process, appended to *)
(* inside producers' domain transactions and pulled by the delivery        *)
(* workers of consumer-owned subscriptions.                                *)
(*                                                                         *)
(* A position is <<generation, producer_xid, tie_breaker>>.  Transactions  *)
(* are the unit of interleaving: a producer allocates its xid, appends and *)
(* commits in separate steps; a worker claims a subscription row, selects  *)
(* the next event, runs the handler and commits in separate steps.  The    *)
(* xid 0 means "no transaction".                                           *)
(***************************************************************************)
EXTENDS Integers, Sequences, FiniteSets

CONSTANTS
  Sub,          \* subscription ids
  Stream,       \* (topic, contract_version) pairs
  StreamOf,     \* the stream a subscription reads
  Start,        \* its StartPosition
  ExplicitAt,   \* the position of StartPosition::Explicit
  Typed,        \* subscriptions made with on_tx (they carry the history policy)
  Policy,       \* the history policy a stream's code contract declares
  Emits,        \* streams a durable handler may emit to inside its delivery
  Producer,     \* producing transactions that may be open at the same time
  Worker,       \* delivery workers, of all processes
  PauseAfter,   \* PAUSE_AFTER
  GcBatch,      \* BATCH of the retention sweep
  MaxFailures,  \* bound: the highest failure count a resume starts from, plus 1
  MaxGen, MaxXid, MaxTie  \* bounds; MaxTie is also the i64::MAX of a floor

Pos == (0..MaxGen) \X (0..MaxXid) \X (0..MaxTie)

ASSUME ConstantsAssumption ==
  /\ Sub # {} /\ Stream # {}
  /\ StreamOf \in [Sub -> Stream]
  /\ Start \in [Sub -> {"genesis", "after_registration", "explicit"}]
  /\ ExplicitAt \in Pos
  /\ Typed \subseteq Sub
  /\ Emits \subseteq Stream
  /\ Policy \in [Stream -> {"min_retention", "keep_forever"}]
  /\ PauseAfter \in Nat \ {0}
  /\ GcBatch \in Nat \ {0}
  /\ MaxFailures \in Nat \ {0}
  /\ MaxGen \in Nat \ {0}
  /\ MaxXid \in Nat \ {0}
  /\ MaxTie \in Nat \ {0}

VARIABLES
  generation,  \* plane_meta.generation
  moved,       \* the cluster's system_identifier differs from plane_meta's
  up,          \* the processes are past their startup guards
  nextXid,     \* the next transaction id of the cluster
  nextTie,     \* the next tie_breaker of the events identity column
  log,         \* committed rows of asyncevents.events
  contracts,   \* streams with a committed history_contracts row
  producer,    \* open producer transactions
  bump,        \* bump_generation holds the exclusive writer lock
  row,         \* committed rows of asyncevents.subscriptions
  pending,     \* subscription rows inserted but not committed
  worker,      \* delivery attempts
  zombie,      \* delivery backends whose termination failed
  gc           \* a retention DELETE between its snapshot and its commit

\* Observations: nothing below is read by an action.
VARIABLES
  floor,       \* the cursor a subscription was registered with
  applied,     \* positions whose effect committed, in commit order
  skipped,     \* positions an operator skipped
  deleted,     \* committed events the retention sweep removed
  excused      \* events removed by a statement that could not see the row

meta == <<generation, moved, up, bump>>
ids  == <<nextXid, nextTie>>
data == <<log, contracts>>
hist == <<floor, applied, skipped, deleted, excused>>
vars == <<meta, ids, data, producer, row, pending, worker, zombie, gc, hist>>

-------------------------------------------------------------------------------
(* Positions and rows *)

Lt(p, q) ==
  \/ p[1] < q[1]
  \/ p[1] = q[1] /\ p[2] < q[2]
  \/ p[1] = q[1] /\ p[2] = q[2] /\ p[3] < q[3]

Leq(p, q) == p = q \/ Lt(p, q)

Event == [pos: Pos, stream: Stream]

Zero == <<0, 0, 0>>

NoEvent == [pos |-> Zero, stream |-> CHOOSE st \in Stream : TRUE]

\* A transaction: its xid (0: none) and the events it has appended.
Tx == [xid: 0..MaxXid, wrote: SUBSET Event]

NoTx == [xid |-> 0, wrote |-> {}]

\* A subscription row; due abstracts next_attempt_at.
Row == [state: {"absent", "active", "paused", "retired"}, cursor: Pos,
        failures: Nat, due: BOOLEAN]

NoRow == [state |-> "absent", cursor |-> Zero, failures |-> 0, due |-> TRUE]

Registration == [xid: 0..MaxXid, cursor: Pos]

NoPending == [xid |-> 0, cursor |-> Zero]

\* A delivery attempt: the row as it was claimed, and the event it handles.
Attempt == [phase: {"idle", "claimed", "handling", "record"}, sub: Sub,
            xid: 0..MaxXid, cursor: Pos, failures: Nat, ev: Event,
            wrote: SUBSET Event]

Idle == [phase |-> "idle", sub |-> CHOOSE s \in Sub : TRUE, xid |-> 0,
         cursor |-> Zero, failures |-> 0, ev |-> NoEvent, wrote |-> {}]

Session == [sub: Sub, xid: 0..MaxXid, wrote: SUBSET Event]

Sweep == [batch: SUBSET Event, seen: SUBSET Sub]

NoGc == [batch |-> {}, seen |-> {}]

Live(s) == row[s].state \in {"active", "paused"}

\* Workers whose backend has a transaction open.
Delivering == {w \in Worker : worker[w].phase \in {"claimed", "handling"}}

\* FOR UPDATE on the subscription row.
Locked(s) ==
  \/ \E w \in Delivering : worker[w].sub = s
  \/ \E z \in zombie : z.sub = s

\* The shared form of WRITER_LOCK_KEY is held by whoever has appended.
WriterLockShared ==
  \/ \E p \in Producer : producer[p].wrote # {}
  \/ \E w \in Worker : worker[w].wrote # {}
  \/ \E z \in zombie : z.wrote # {}

\* At the bound, claims and registrations share the last xid, which no event
\* carries: they go on and no longer hold the frontier back.
NextXid == IF nextXid < MaxXid THEN nextXid + 1 ELSE nextXid

\* Slip: the frontier is the next xid, open transactions are not waited for.
BelowXmin_HighWater(x) == x < nextXid

\* x precedes pg_snapshot_xmin: every transaction at or below it has ended.
BelowXmin(x) ==
  /\ x < nextXid
  /\ \A p \in Producer : producer[p].xid # 0 => x < producer[p].xid
  /\ \A w \in Delivering : x < worker[w].xid
  /\ \A z \in zombie : x < z.xid
  /\ \A s \in Sub : pending[s].xid # 0 => x < pending[s].xid

\* The frontier-bounded candidates past cursor c.
Eligible(st, c) ==
  {e \in log : /\ e.stream = st
               /\ Lt(c, e.pos)
               /\ e.pos[1] < generation \/ BelowXmin(e.pos[2])}

\* ORDER BY generation, producer_xid, tie_breaker LIMIT 1.
IsNext(e, st, c) ==
  /\ e \in Eligible(st, c)
  /\ \A f \in Eligible(st, c) : Leq(e.pos, f.pos)

-------------------------------------------------------------------------------
(* Init: the schema migrated, plane_meta seeded, nothing registered. *)

Init ==
  /\ generation = 1 /\ moved = FALSE /\ up = TRUE /\ bump = FALSE
  /\ nextXid = 1 /\ nextTie = 1
  /\ log = {} /\ contracts = {}
  /\ producer = [p \in Producer |-> NoTx]
  /\ row = [s \in Sub |-> NoRow]
  /\ pending = [s \in Sub |-> NoPending]
  /\ worker = [w \in Worker |-> Idle]
  /\ zombie = {}
  /\ gc = NoGc
  /\ floor = [s \in Sub |-> Zero]
  /\ applied = [s \in Sub |-> <<>>]
  /\ skipped = [s \in Sub |-> {}]
  /\ deleted = {}
  /\ excused = [s \in Sub |-> {}]

-------------------------------------------------------------------------------
(* Producers *)

\* A domain transaction makes its first write, which allocates its xid.
Begin(p) ==
  /\ up /\ producer[p].xid = 0 /\ nextXid < MaxXid
  /\ producer' = [producer EXCEPT ![p].xid = nextXid]
  /\ nextXid' = NextXid
  /\ UNCHANGED <<meta, nextTie, data, row, pending, worker, zombie, gc, hist>>

NewEvent(xid, st) == [pos |-> <<generation, xid, nextTie>>, stream |-> st]

\* append_event: the shared writer lock, then the generation read, then the
\* INSERT stamped with the transaction's own xid.
Append_event(p, st) ==
  /\ producer[p].xid # 0 /\ ~bump /\ nextTie < MaxTie
  /\ producer' = [producer EXCEPT ![p].wrote = @ \cup {NewEvent(producer[p].xid, st)}]
  /\ nextTie' = nextTie + 1
  /\ UNCHANGED <<meta, nextXid, data, row, pending, worker, zombie, gc, hist>>

\* The commit publishes the events together with their history contracts.
Publish(wrote) ==
  /\ log' = log \cup wrote
  /\ contracts' = contracts \cup {e.stream : e \in wrote}

Commit(p) ==
  /\ producer[p].xid # 0
  /\ Publish(producer[p].wrote)
  /\ producer' = [producer EXCEPT ![p] = NoTx]
  /\ UNCHANGED <<meta, ids, row, pending, worker, zombie, gc, hist>>

Abort(p) ==
  /\ producer[p].xid # 0
  /\ producer' = [producer EXCEPT ![p] = NoTx]
  /\ UNCHANGED <<meta, ids, data, row, pending, worker, zombie, gc, hist>>

-------------------------------------------------------------------------------
(* Generations, restore and boot *)

\* Slip: the bump does not wait for the writers in flight.
BumpLock_NoWait ==
  /\ ~bump /\ generation < MaxGen
  /\ bump' = TRUE
  /\ UNCHANGED <<generation, moved, up, ids, data, producer, row, pending,
                 worker, zombie, gc, hist>>

\* bump_generation: the exclusive writer lock waits out every shared holder.
BumpLock ==
  /\ ~bump /\ ~WriterLockShared /\ generation < MaxGen
  /\ bump' = TRUE
  /\ UNCHANGED <<generation, moved, up, ids, data, producer, row, pending,
                 worker, zombie, gc, hist>>

\* ... then generation + 1 and the current cluster's identity, atomically.
BumpCommit ==
  /\ bump /\ generation < MaxGen
  /\ generation' = generation + 1 /\ moved' = FALSE /\ bump' = FALSE
  /\ UNCHANGED <<up, ids, data, producer, row, pending, worker, zombie, gc, hist>>

BumpLost ==
  /\ bump
  /\ bump' = FALSE
  /\ UNCHANGED <<generation, moved, up, ids, data, producer, row, pending,
                 worker, zombie, gc, hist>>

\* The database is restored onto another cluster, which has xids of its own.
\* Every session ends with the old cluster and every process is restarted.
Restore ==
  /\ generation < MaxGen
  /\ moved' = TRUE /\ up' = FALSE /\ bump' = FALSE
  /\ nextXid' \in 1..MaxXid
  /\ producer' = [p \in Producer |-> NoTx]
  /\ pending' = [s \in Sub |-> NoPending]
  /\ worker' = [w \in Worker |-> Idle]
  /\ zombie' = {} /\ gc' = NoGc
  /\ UNCHANGED <<generation, nextTie, data, row, hist>>

\* startup_guards: a changed system_identifier refuses the boot.
Boot ==
  /\ ~up /\ ~moved
  /\ up' = TRUE
  /\ UNCHANGED <<generation, moved, bump, ids, data, producer, row, pending,
                 worker, zombie, gc, hist>>

-------------------------------------------------------------------------------
(* reconcile_one: the subscription row is inserted if missing *)

\* Slip: the exclusive floor is one past the largest tie_breaker.
StartCursor_Overflow(s) == <<generation, nextXid, MaxTie + 1>>

StartCursor(s) ==
  CASE Start[s] = "genesis" -> Zero
    [] Start[s] = "after_registration" -> <<generation, nextXid, MaxTie>>
    [] Start[s] = "explicit" -> ExplicitAt

\* ensure_history_contract of a typed subscription commits on its own; the row
\* is INSERTed in a transaction whose xid is the floor of after_registration.
\* An existing row is left alone (ON CONFLICT DO NOTHING).
RegisterInsert(s) ==
  /\ up /\ row[s].state = "absent" /\ pending[s].xid = 0
  /\ contracts' = IF s \in Typed THEN contracts \cup {StreamOf[s]} ELSE contracts
  /\ pending' = [pending EXCEPT ![s] = [xid |-> nextXid, cursor |-> StartCursor(s)]]
  /\ nextXid' = NextXid
  /\ UNCHANGED <<meta, nextTie, log, producer, row, worker, zombie, gc, hist>>

RegisterCommit(s) ==
  /\ pending[s].xid # 0
  /\ row' = [row EXCEPT ![s] = [state |-> "active", cursor |-> pending[s].cursor,
                                failures |-> 0, due |-> TRUE]]
  /\ pending' = [pending EXCEPT ![s] = NoPending]
  /\ floor' = [floor EXCEPT ![s] = pending[s].cursor]
  /\ UNCHANGED <<meta, ids, data, producer, worker, zombie, gc,
                 applied, skipped, deleted, excused>>

RegisterAbort(s) ==
  /\ pending[s].xid # 0
  /\ pending' = [pending EXCEPT ![s] = NoPending]
  /\ UNCHANGED <<meta, ids, data, producer, row, worker, zombie, gc, hist>>

-------------------------------------------------------------------------------
(* deliver_one_on *)

\* Slip: a row that has failed once is not due again.
Claim_Healthy(w, s) ==
  /\ up /\ worker[w].phase = "idle"
  /\ row[s].state = "active" /\ row[s].due /\ row[s].failures = 0 /\ ~Locked(s)
  /\ worker' = [worker EXCEPT ![w] =
       [phase |-> "claimed", sub |-> s, xid |-> nextXid, cursor |-> row[s].cursor,
        failures |-> row[s].failures, ev |-> NoEvent, wrote |-> {}]]
  /\ nextXid' = NextXid
  /\ UNCHANGED <<meta, nextTie, data, producer, row, pending, zombie, gc, hist>>

\* The due-subscription select: FOR UPDATE SKIP LOCKED, which allocates an xid.
Claim(w, s) ==
  /\ up /\ worker[w].phase = "idle"
  /\ row[s].state = "active" /\ row[s].due /\ ~Locked(s)
  /\ worker' = [worker EXCEPT ![w] =
       [phase |-> "claimed", sub |-> s, xid |-> nextXid, cursor |-> row[s].cursor,
        failures |-> row[s].failures, ev |-> NoEvent, wrote |-> {}]]
  /\ nextXid' = NextXid
  /\ UNCHANGED <<meta, nextTie, data, producer, row, pending, zombie, gc, hist>>

\* The next-event select, with a snapshot of its own.
Select(w) ==
  /\ worker[w].phase = "claimed"
  /\ \E e \in log :
       /\ IsNext(e, StreamOf[worker[w].sub], worker[w].cursor)
       /\ worker' = [worker EXCEPT ![w].phase = "handling", ![w].ev = e]
  /\ UNCHANGED <<meta, ids, data, producer, row, pending, zombie, gc, hist>>

\* Step::Empty.
Empty(w) ==
  /\ worker[w].phase = "claimed"
  /\ Eligible(StreamOf[worker[w].sub], worker[w].cursor) = {}
  /\ worker' = [worker EXCEPT ![w] = Idle]
  /\ UNCHANGED <<meta, ids, data, producer, row, pending, zombie, gc, hist>>

\* A handler that is itself a producer emits on the delivery transaction.
HandlerEmit(w, st) ==
  /\ worker[w].phase = "handling" /\ st \in Emits
  /\ ~bump /\ nextTie < MaxTie /\ worker[w].xid < MaxXid
  /\ worker' = [worker EXCEPT ![w].wrote = @ \cup {NewEvent(worker[w].xid, st)}]
  /\ nextTie' = nextTie + 1
  /\ UNCHANGED <<meta, nextXid, data, producer, row, pending, zombie, gc, hist>>

\* Ok(Ok(())): the effect, the events it emitted and the checkpoint commit.
Deliver(w) ==
  LET s == worker[w].sub
      p == worker[w].ev.pos IN
  /\ worker[w].phase = "handling"
  /\ row' = [row EXCEPT ![s] = [state |-> row[s].state, cursor |-> p,
                                failures |-> 0, due |-> TRUE]]
  /\ Publish(worker[w].wrote)
  /\ worker' = [worker EXCEPT ![w] = Idle]
  /\ applied' = [applied EXCEPT ![s] = Append(@, p)]
  /\ UNCHANGED <<meta, ids, producer, pending, zombie, gc,
                 floor, skipped, deleted, excused>>

\* record_failure: guarded by the cursor and the failure count of the claim.
\* The state is neither compared nor, below the threshold, written.
Record_failure(w) ==
  LET s == worker[w].sub
      f == worker[w].failures + 1 IN
  row' = IF row[s].cursor = worker[w].cursor /\ row[s].failures = worker[w].failures
         THEN [row EXCEPT ![s].failures = f, ![s].due = FALSE,
                          ![s].state = IF f >= PauseAfter THEN "paused" ELSE @]
         ELSE row

\* Ok(Err(_)): roll back to the savepoint, record under the row lock, commit.
HandlerErr(w) ==
  /\ worker[w].phase = "handling"
  /\ Record_failure(w)
  /\ worker' = [worker EXCEPT ![w] = Idle]
  /\ UNCHANGED <<meta, ids, data, producer, pending, zombie, gc, hist>>

\* The delivery backend lives on without its client until Postgres ends it.
Backend(w) == [sub |-> worker[w].sub, xid |-> worker[w].xid, wrote |-> worker[w].wrote]

\* Err(_elapsed): pg_terminate_backend only signals, and may fail altogether.
HandlerTimeout(w) ==
  /\ worker[w].phase = "handling"
  /\ zombie' = zombie \cup {Backend(w)}
  /\ worker' = [worker EXCEPT ![w].phase = "record", ![w].xid = 0,
                              ![w].ev = NoEvent, ![w].wrote = {}]
  /\ UNCHANGED <<meta, ids, data, producer, row, pending, gc, hist>>

\* ... then record_failure through a fresh session, once the row is free ...
RecordAfterTimeout(w) ==
  /\ worker[w].phase = "record" /\ ~Locked(worker[w].sub)
  /\ Record_failure(w)
  /\ worker' = [worker EXCEPT ![w] = Idle]
  /\ UNCHANGED <<meta, ids, data, producer, pending, zombie, gc, hist>>

\* ... or not at all: no fresh session, lock_timeout, or a crash.
RecordGivesUp(w) ==
  /\ worker[w].phase = "record"
  /\ worker' = [worker EXCEPT ![w] = Idle]
  /\ UNCHANGED <<meta, ids, data, producer, row, pending, zombie, gc, hist>>

\* The worker errors out, is aborted or crashes with its transaction open.
Lose(w) ==
  /\ w \in Delivering
  /\ zombie' = zombie \cup {Backend(w)}
  /\ worker' = [worker EXCEPT ![w] = Idle]
  /\ UNCHANGED <<meta, ids, data, producer, row, pending, gc, hist>>

\* Slip: a session idle in its transaction is never ended.
BackendEnds_NoTimeout(z) ==
  /\ z \in zombie /\ z.wrote # {}
  /\ zombie' = zombie \ {z}
  /\ UNCHANGED <<meta, ids, data, producer, row, pending, worker, gc, hist>>

\* Postgres notices: the transaction rolls back and its locks are released.
BackendEnds(z) ==
  /\ z \in zombie
  /\ zombie' = zombie \ {z}
  /\ UNCHANGED <<meta, ids, data, producer, row, pending, worker, gc, hist>>

\* next_attempt_at passes.
BackoffElapses(s) ==
  /\ ~row[s].due
  /\ row' = [row EXCEPT ![s].due = TRUE]
  /\ UNCHANGED <<meta, ids, data, producer, pending, worker, zombie, gc, hist>>

-------------------------------------------------------------------------------
(* eventctl.  Every UPDATE waits for the row lock. *)

\* Slip: an operator's UPDATE does not wait for the delivery in flight.
Operable_NoWait(s) == row[s].state # "absent"

Operable(s) == row[s].state # "absent" /\ ~Locked(s)

OperatorFrame == UNCHANGED <<meta, ids, data, producer, pending, worker, zombie, gc>>

Retry(s) ==
  /\ Operable(s)
  /\ row' = [row EXCEPT ![s].failures = 0, ![s].due = TRUE]
  /\ OperatorFrame /\ UNCHANGED hist

\* Slip: pause and retire overtake the delivery in flight.
Set_state_NoWait(s, state) ==
  /\ row[s].state # "absent"
  /\ row' = [row EXCEPT ![s].state = state]
  /\ OperatorFrame /\ UNCHANGED hist

Set_state(s, state) ==
  /\ Operable(s)
  /\ row' = [row EXCEPT ![s].state = state]
  /\ OperatorFrame /\ UNCHANGED hist

Pause(s) == Set_state(s, "paused")

Retire(s) == Set_state(s, "retired")

\* The failure count is left alone.
Resume(s) ==
  /\ Operable(s) /\ row[s].failures < MaxFailures
  /\ row' = [row EXCEPT ![s].state = "active", ![s].due = TRUE]
  /\ OperatorFrame /\ UNCHANGED hist

\* Slip: the checkpoint jumps over the backlog, which is all recorded as skipped.
Skip_Backlog(s) ==
  /\ Operable(s)
  /\ ~(row[s].state = "active" /\ row[s].failures = 0)
  /\ \E e \in log :
       LET backlog == {f \in log : /\ f.stream = StreamOf[s] /\ Lt(row[s].cursor, f.pos)
                                  /\ ~Lt(e.pos, f.pos)}
       IN  /\ e \in backlog
           /\ row' = [row EXCEPT ![s] = [state |-> "active", cursor |-> e.pos,
                                         failures |-> 0, due |-> TRUE]]
           /\ skipped' = [skipped EXCEPT ![s] = @ \cup {f.pos : f \in backlog}]
  /\ OperatorFrame /\ UNCHANGED <<floor, applied, deleted, excused>>

\* One event, picked as the worker picks it, on a row that is not healthy.
Skip(s) ==
  /\ Operable(s)
  /\ ~(row[s].state = "active" /\ row[s].failures = 0)
  /\ \E e \in log :
       /\ IsNext(e, StreamOf[s], row[s].cursor)
       /\ row' = [row EXCEPT ![s] = [state |-> "active", cursor |-> e.pos,
                                     failures |-> 0, due |-> TRUE]]
       /\ skipped' = [skipped EXCEPT ![s] = @ \cup {e.pos}]
  /\ OperatorFrame /\ UNCHANGED <<floor, applied, deleted, excused>>

-------------------------------------------------------------------------------
(* gc_topic: one DELETE statement, from its snapshot to its commit *)

\* Slip: paused subscriptions do not hold the floor.
Unblocked_ActiveOnly(st) ==
  {e \in log : /\ e.stream = st
               /\ \A s \in Sub : row[s].state = "active" /\ StreamOf[s] = st
                                   => Lt(e.pos, row[s].cursor)}

\* NOT EXISTS a live subscription of the stream at or below e.
Unblocked(st) ==
  {e \in log : /\ e.stream = st
               /\ \A s \in Sub : Live(s) /\ StreamOf[s] = st => Lt(e.pos, row[s].cursor)}

\* Which unblocked events are past min_retention_days is the clock's choice.
GcSelect(st) ==
  /\ up /\ gc = NoGc /\ st \in contracts /\ Policy[st] = "min_retention"
  /\ \E batch \in SUBSET Unblocked(st) :
       /\ batch # {} /\ Cardinality(batch) <= GcBatch
       /\ gc' = [batch |-> batch, seen |-> {s \in Sub : Live(s)}]
  /\ UNCHANGED <<meta, ids, data, producer, row, pending, worker, zombie, hist>>

GcDelete ==
  /\ gc.batch # {}
  /\ log' = log \ gc.batch
  /\ deleted' = deleted \cup (log \cap gc.batch)
  /\ excused' = [s \in Sub |-> IF s \in gc.seen THEN excused[s]
                               ELSE excused[s] \cup {e.pos : e \in gc.batch}]
  /\ gc' = NoGc
  /\ UNCHANGED <<meta, ids, contracts, producer, row, pending, worker, zombie,
                 floor, applied, skipped>>

GcLose ==
  /\ gc.batch # {}
  /\ gc' = NoGc
  /\ UNCHANGED <<meta, ids, data, producer, row, pending, worker, zombie, hist>>

-------------------------------------------------------------------------------
Produce(p) == Begin(p) \/ Commit(p) \/ Abort(p) \/ \E st \in Stream : Append_event(p, st)

Bump == BumpLock \/ BumpCommit \/ BumpLost

Reconcile_one(s) == RegisterInsert(s) \/ RegisterCommit(s) \/ RegisterAbort(s)

Deliver_one_on(w) ==
  \/ \E s \in Sub : Claim(w, s)
  \/ Select(w) \/ Empty(w)
  \/ \E st \in Stream : HandlerEmit(w, st)
  \/ Deliver(w) \/ HandlerErr(w)
  \/ HandlerTimeout(w) \/ RecordAfterTimeout(w) \/ RecordGivesUp(w)
  \/ Lose(w)

Operate(s) == Retry(s) \/ Pause(s) \/ Retire(s) \/ Resume(s) \/ Skip(s)

Gc_topic == (\E st \in Stream : GcSelect(st)) \/ GcDelete \/ GcLose

Next ==
  \/ \E p \in Producer : Produce(p)
  \/ Bump \/ Restore \/ Boot
  \/ \E s \in Sub : Reconcile_one(s) \/ BackoffElapses(s) \/ Operate(s)
  \/ \E w \in Worker : Deliver_one_on(w)
  \/ \E z \in zombie : BackendEnds(z)
  \/ Gc_topic

Spec == Init /\ [][Next]_vars

-------------------------------------------------------------------------------
(* Properties *)

\* Every variable has its type: positions stay inside the position space, in
\* particular the i64::MAX floor that reconcile_one writes.
TypeOK ==
  /\ generation \in 1..MaxGen /\ moved \in BOOLEAN /\ up \in BOOLEAN /\ bump \in BOOLEAN
  /\ nextXid \in 1..MaxXid /\ nextTie \in 1..MaxTie
  /\ log \subseteq Event /\ contracts \subseteq Stream
  /\ producer \in [Producer -> Tx]
  /\ row \in [Sub -> Row]
  /\ pending \in [Sub -> Registration]
  /\ worker \in [Worker -> Attempt]
  /\ zombie \subseteq Session
  /\ gc \in Sweep
  /\ floor \in [Sub -> Pos] /\ applied \in [Sub -> Seq(Pos)]
  /\ skipped \in [Sub -> SUBSET Pos] /\ excused \in [Sub -> SUBSET Pos]
  /\ deleted \subseteq Event

\* No gap: every event of a subscription's stream that ever committed, past the
\* position it was registered at and not past its checkpoint, took effect, was
\* skipped by an operator, or was removed while the subscription was not live.
\* This is what the snapshot-xmin frontier of the next-event select is for.
NoGap ==
  \A s \in Sub : row[s].state # "absent" =>
    \A e \in log \cup deleted :
      e.stream = StreamOf[s] /\ Lt(floor[s], e.pos) /\ Leq(e.pos, row[s].cursor) =>
        \/ \E i \in DOMAIN applied[s] : applied[s][i] = e.pos
        \/ e.pos \in skipped[s]
        \/ e.pos \in excused[s]

\* Exactly once and in order: the effects a subscription's handler commits are
\* strictly increasing in log position, whatever crashes, times out or is
\* retried in between, and none lies past the checkpoint.
InOrder ==
  \A s \in Sub : \A i, j \in DOMAIN applied[s] :
    /\ i < j => Lt(applied[s][i], applied[s][j])
    /\ Leq(applied[s][i], row[s].cursor)

\* While a handler runs, the row is exactly as its worker claimed it: the claim
\* of record_failure's comment that on the error arm "the guard is trivially true".
ClaimIsCurrent ==
  \A w \in Delivering :
    /\ row[worker[w].sub].state = "active"
    /\ row[worker[w].sub].cursor = worker[w].cursor
    /\ row[worker[w].sub].failures = worker[w].failures

\* Retention never removes an event that a live subscription still has to
\* consume, unless the DELETE's snapshot did not show that subscription live
\* (the residual window gc_topic documents).
UnconsumedIsKept ==
  \A s \in Sub : Live(s) =>
    \A e \in deleted :
      e.stream = StreamOf[s] /\ Lt(row[s].cursor, e.pos) => e.pos \in excused[s]

\* A checkpoint never moves back, neither by a delivery nor by a skip nor by a
\* late step of a worker that lost its row.
CheckpointMonotone ==
  [][\A s \in Sub : row[s].state # "absent" => Leq(row[s].cursor, row'[s].cursor)]_vars

\* bump_generation: "no event of the old generation can commit after the bump
\* does".
GenerationFence ==
  [][\A e \in log' \ log : e.pos[1] = generation']_vars

\* An effect commits only on a row that is active at that moment: pause and
\* retire wait for the delivery in flight instead of overtaking it.
NeverDeliversHalted ==
  [][\A s \in Sub : applied'[s] # applied[s] => row[s].state = "active"]_vars

\* eventctl retire: "The worker never delivers a retired row, and retention
\* excludes it from the GC floor": only the operator ends a retirement.
RetiredStaysRetired ==
  [][\A s \in Sub : row[s].state = "retired" /\ row'[s].state # "retired" =>
        Resume(s) \/ Skip(s) \/ Pause(s)]_vars

-------------------------------------------------------------------------------
(* Liveness *)

\* What the code's scheduling gives: every statement of a delivery session and the
\* bounded handler return or are timed out (handler_timeout, and the session timeout
\* that connect sets), a backoff elapses, and drain_pass visits every subscription in
\* turn.  Nothing is assumed of the sessions of producers, registrations and
\* bump_generation: connect sets no timeout on them, and one may stay open for ever.
Fairness ==
  /\ \A s \in Sub : /\ WF_vars(BackoffElapses(s))
                    /\ SF_vars(\E w \in Worker : Claim(w, s))
                    /\ WF_vars(\E z \in zombie : z.sub = s /\ BackendEnds(z))
  /\ \A w \in Worker : /\ WF_vars(Select(w) \/ Empty(w))
                       /\ WF_vars(Deliver(w) \/ HandlerErr(w) \/ HandlerTimeout(w))
                       /\ WF_vars(RecordAfterTimeout(w))

\* Connection losses, failures to record and operators stop interfering.
Quiet ==
  <>[][~ \/ \E w \in Worker : Lose(w) \/ RecordGivesUp(w)
         \/ \E s \in Sub : Operate(s)]_vars

\* The event with tie_breaker t is committed and still ahead of active s.
Pending(s, t) ==
  /\ row[s].state = "active"
  /\ \E e \in log : /\ e.stream = StreamOf[s] /\ e.pos[3] = t
                    /\ Lt(row[s].cursor, e.pos)

\* A session without a timeout is open at or below the xid of committed event t.
HeldBack(t) ==
  \E e \in log :
    /\ e.pos[3] = t /\ e.pos[1] = generation
    /\ \/ \E p \in Producer : producer[p].xid \in 1..e.pos[2]
       \/ \E s \in Sub : pending[s].xid \in 1..e.pos[2]

\* A committed event ahead of an active subscription does not stay there: the
\* checkpoint passes it, or the subscription is paused (PAUSE_AFTER bounds the
\* attempts).  Only a transaction that was open before the event's own can keep it back
\* for ever, by never ending; one that began later cannot, nor can a handler that fails
\* or times out, another subscription or another delivery.
Progress ==
  Quiet => \A s \in Sub, t \in 1..(MaxTie - 1) :
             []<>~HeldBack(t) => (Pending(s, t) ~> ~Pending(s, t))

\* A subscription row does not stay locked: the timeout arm, the session
\* timeouts and the commit of every step release it again and again.
RowIsReleased == \A s \in Sub : []<>~Locked(s)
===============================================================================
