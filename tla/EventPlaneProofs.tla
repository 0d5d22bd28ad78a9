--------------------------- MODULE EventPlaneProofs ---------------------------
(***************************************************************************)
(* The guarantees of the event plane, for every number of producers,       *)
(* workers, subscriptions and streams and every value of the bounds: its   *)
(* inductive invariant, what each step does to transactions, rows and      *)
(* claims, the invariants and action properties that follow, and that it   *)
(* implements the log of EventLog.                                         *)
(***************************************************************************)
EXTENDS EventPlaneLog, TLAPS

Present(s) == row[s].state # "absent"

\* No process has a transaction open before it is past the startup guards.
IUp ==
  /\ moved => ~up
  /\ ~up => /\ \A p \in Producer : producer[p].xid = 0
            /\ Delivering = {}
  /\ \A p \in Producer : producer[p].wrote # {} => producer[p].xid # 0

\* Uncommitted events carry the current generation and their transaction's xid,
\* committed ones no later generation; the exclusive writer lock is exclusive.
IEvents ==
  /\ \A p \in Producer : \A e \in producer[p].wrote :
       e.pos[1] = generation /\ e.pos[2] = producer[p].xid
  /\ \A w \in Worker : \A e \in worker[w].wrote :
       e.pos[1] = generation /\ e.pos[2] = worker[w].xid
  /\ \A e \in log \cup deleted : e.pos[1] <= generation
  /\ bump => ~WriterLockShared

\* Position p is one no open or future transaction can still append below.
Settled(p) ==
  /\ p[1] <= generation
  /\ p[1] < generation \/ moved \/ BelowXmin(p[2])

\* Row locks: one holder, and the row is as it was claimed.
ILocks ==
  /\ \A v, w \in Delivering : worker[v].sub = worker[w].sub => v = w
  /\ \A w \in Delivering : \A z \in zombie : z.sub # worker[w].sub
  /\ ClaimIsCurrent
  /\ \A w \in Worker : worker[w].phase = "record" => Present(worker[w].sub)
  /\ \A s \in Sub : pending[s].xid # 0 => ~Present(s)

\* A checkpoint is where registration put it, or settled.
ICheckpoints ==
  \A s \in Sub : Present(s) => row[s].cursor = floor[s] \/ Settled(row[s].cursor)

\* The event being handled is the next one of its stream and settled.
IHandling ==
  \A w \in Worker : worker[w].phase = "handling" =>
    /\ Lt(worker[w].cursor, worker[w].ev.pos)
    /\ Settled(worker[w].ev.pos)
    /\ \A e \in log \cup deleted :
         /\ e.stream = StreamOf[worker[w].sub]
         /\ Lt(worker[w].cursor, e.pos) /\ Lt(e.pos, worker[w].ev.pos)
         => e.pos \in excused[worker[w].sub]

\* What retention removes, or is about to remove, lies below every checkpoint
\* its snapshot showed live; nothing takes effect before registration.
IRetention ==
  /\ \A s \in gc.seen : /\ Present(s)
                        /\ \A e \in gc.batch :
                             e.stream = StreamOf[s] => Lt(e.pos, row[s].cursor)
  /\ \A s \in Sub : \A e \in deleted :
       e.stream = StreamOf[s] =>
         e.pos \in excused[s] \/ (Present(s) /\ Lt(e.pos, row[s].cursor))
  /\ \A s \in Sub : ~Present(s) => applied[s] = <<>>

IInv ==
  /\ TypeOK /\ IUp /\ IEvents /\ ILocks /\ ICheckpoints
  /\ IHandling /\ IRetention /\ NoGap /\ InOrder

-------------------------------------------------------------------------------
(* Positions are totally ordered, lexicographically. *)

\* The components of a position are numbers.
LEMMA PosTypes ==
  ASSUME NEW p \in Pos
  PROVE  p[1] \in 0..MaxGen /\ p[2] \in 0..MaxXid /\ p[3] \in 0..MaxTie /\ p = <<p[1], p[2], p[3]>>
BY DEF Pos

\* The row comparison of the selects is transitive.
LEMMA LtTrans ==
  ASSUME NEW p \in Pos, NEW q \in Pos, NEW r \in Pos
  PROVE  /\ Lt(p, q) /\ Lt(q, r) => Lt(p, r)
         /\ Leq(p, q) /\ Lt(q, r) => Lt(p, r)
         /\ Lt(p, q) /\ Leq(q, r) => Lt(p, r)
         /\ Leq(p, q) /\ Leq(q, r) => Leq(p, r)
BY PosTypes, ConstantsAssumption DEF Lt, Leq

\* It is irreflexive, so a position is never both before and not before another.
LEMMA LtIrrefl ==
  ASSUME NEW p \in Pos, NEW q \in Pos
  PROVE  /\ ~Lt(p, p)
         /\ Lt(p, q) => ~Leq(q, p)
BY PosTypes, ConstantsAssumption DEF Lt, Leq

\* It is total: the ORDER BY of the selects has a first row.
LEMMA LtTotal ==
  ASSUME NEW p \in Pos, NEW q \in Pos
  PROVE  Lt(p, q) \/ Leq(q, p)
<1>1. p = q \/ p[1] # q[1] \/ p[2] # q[2] \/ p[3] # q[3]
  BY Zenon, PosTypes
<1> QED  BY <1>1, PosTypes, ConstantsAssumption DEF Lt, Leq
-------------------------------------------------------------------------------
(* Types *)

\* The placeholders of an idle worker and of a missing row are well typed.
LEMMA Defaults ==
  /\ Zero \in Pos /\ NoEvent \in Event /\ NoTx \in Tx /\ NoPending \in Registration
  /\ NoRow \in Row /\ Idle \in Attempt /\ NoGc \in Sweep
<1>1. (CHOOSE st \in Stream : TRUE) \in Stream /\ (CHOOSE s \in Sub : TRUE) \in Sub
  BY Zenon, ConstantsAssumption
<1>2. Zero \in Pos
  BY ConstantsAssumption DEF Zero, Pos
<1>3. NoEvent \in Event
  BY Zenon, <1>1, <1>2 DEF NoEvent, Event
<1>4. NoTx \in Tx /\ NoPending \in Registration /\ NoGc \in Sweep
  BY <1>2, ConstantsAssumption DEF NoTx, Tx, NoPending, Registration, NoGc, Sweep
<1>5. NoRow \in Row
  BY Zenon, <1>2 DEF NoRow, Row
<1>6. Idle \in Attempt
  BY <1>1, <1>2, <1>3, ConstantsAssumption DEF Idle, Attempt
<1> QED
  BY Zenon, <1>2, <1>3, <1>4, <1>5, <1>6

\* The fields of the state's records are well typed.
LEMMA Fields ==
  ASSUME TypeOK
  PROVE  /\ \A p \in Producer : /\ producer[p] \in Tx /\ producer[p].xid \in 0..MaxXid
                                /\ producer[p].wrote \subseteq Event
         /\ \A s \in Sub : /\ row[s] \in Row /\ row[s].cursor \in Pos
                           /\ row[s].failures \in Nat
                           /\ pending[s].xid \in 0..MaxXid /\ pending[s].cursor \in Pos
                           /\ floor[s] \in Pos
                           /\ StreamOf[s] \in Stream
         /\ \A w \in Worker : /\ worker[w] \in Attempt /\ worker[w].sub \in Sub
                              /\ worker[w].xid \in 0..MaxXid /\ worker[w].cursor \in Pos
                              /\ worker[w].failures \in Nat
                              /\ worker[w].ev \in Event /\ worker[w].ev.pos \in Pos
                              /\ worker[w].wrote \subseteq Event
         /\ \A z \in zombie : z.sub \in Sub /\ z.xid \in 0..MaxXid /\ z.wrote \subseteq Event
         /\ \A e \in Event : e.pos \in Pos /\ e.stream \in Stream
         /\ gc.batch \subseteq Event /\ gc.seen \subseteq Sub
<1>1. \A p \in Producer : /\ producer[p] \in Tx /\ producer[p].xid \in 0..MaxXid
                          /\ producer[p].wrote \subseteq Event
  BY Zenon DEF TypeOK, Tx
<1>2. \A s \in Sub : row[s] \in Row /\ row[s].cursor \in Pos /\ row[s].failures \in Nat
  BY Zenon DEF TypeOK, Row
<1>3. \A s \in Sub : /\ pending[s].xid \in 0..MaxXid /\ pending[s].cursor \in Pos
                     /\ floor[s] \in Pos /\ StreamOf[s] \in Stream
  BY Zenon, ConstantsAssumption DEF TypeOK, Registration
<1>4. \A e \in Event : e.pos \in Pos /\ e.stream \in Stream
  BY Zenon DEF Event
<1>5. \A w \in Worker : worker[w] \in Attempt
  BY Zenon DEF TypeOK
<1>6. \A w \in Worker : /\ worker[w].sub \in Sub
                        /\ worker[w].xid \in 0..MaxXid /\ worker[w].cursor \in Pos
                        /\ worker[w].failures \in Nat
                        /\ worker[w].ev \in Event
                        /\ worker[w].wrote \subseteq Event
  BY Zenon, <1>5 DEF Attempt
<1>7. \A z \in zombie : z.sub \in Sub /\ z.xid \in 0..MaxXid /\ z.wrote \subseteq Event
  BY Zenon DEF TypeOK, Session
<1>8. gc.batch \subseteq Event /\ gc.seen \subseteq Sub
  BY Zenon DEF TypeOK, Sweep
<1> QED
  BY Zenon, <1>1, <1>2, <1>3, <1>4, <1>5, <1>6, <1>7, <1>8

\* The single-field updates of a subscription row.
LEMMA RowUpdates ==
  ASSUME NEW r \in Row
  PROVE  /\ [r EXCEPT !.due = TRUE] \in Row
         /\ [r EXCEPT !.failures = 0, !.due = TRUE] \in Row
         /\ \A x \in {"active", "paused", "retired"} : [r EXCEPT !.state = x] \in Row
         /\ [r EXCEPT !.state = "active", !.due = TRUE] \in Row
         /\ \A f \in Nat : /\ [r EXCEPT !.failures = f, !.due = FALSE, !.state = "paused"] \in Row
                           /\ [r EXCEPT !.failures = f, !.due = FALSE, !.state = @] \in Row
BY Zenon DEF Row

\* A fresh row is well typed.
LEMMA FreshRow ==
  ASSUME NEW c \in Pos, NEW x \in {"absent", "active", "paused", "retired"}
  PROVE  [state |-> x, cursor |-> c, failures |-> 0, due |-> TRUE] \in Row
BY Zenon DEF Row

\* A new event is an event.
LEMMA NewEventType ==
  ASSUME TypeOK, NEW st \in Stream, NEW x \in 0..MaxXid
  PROVE  NewEvent(x, st) \in Event
<1>1. generation \in 0..MaxGen /\ nextTie \in 0..MaxTie
  BY ConstantsAssumption DEF TypeOK
<1>2. <<generation, x, nextTie>> \in Pos
  BY Zenon, <1>1 DEF Pos
<1> QED  BY Zenon, <1>2 DEF NewEvent, Event

\* An initial cursor is a position.
LEMMA StartCursorType ==
  ASSUME TypeOK, NEW s \in Sub
  PROVE  StartCursor(s) \in Pos
<1>1. generation \in 0..MaxGen /\ nextXid \in 0..MaxXid /\ MaxTie \in 0..MaxTie
  BY ConstantsAssumption DEF TypeOK
<1>2. <<generation, nextXid, MaxTie>> \in Pos
  BY Zenon, <1>1 DEF Pos
<1>3. Start[s] \in {"genesis", "after_registration", "explicit"}
  BY Zenon, ConstantsAssumption
<1> QED  BY Zenon, <1>2, <1>3, ConstantsAssumption, Defaults DEF StartCursor

\* Xid allocation stays inside the bound and never goes back.
LEMMA NextXidType ==
  ASSUME TypeOK
  PROVE  NextXid \in 1..MaxXid /\ nextXid <= NextXid
BY ConstantsAssumption DEF NextXid, TypeOK

\* Initially every variable has its type.
LEMMA TypeInit == Init => TypeOK
<1> SUFFICES ASSUME Init PROVE TypeOK
  BY Zenon
<1>1. \A s \in Sub : <<>> \in Seq(Pos)
  OBVIOUS
<1>2. 1 \in 1..MaxGen /\ 1 \in 1..MaxXid /\ 1 \in 1..MaxTie
  BY ConstantsAssumption
<1>3. /\ producer \in [Producer -> Tx] /\ row \in [Sub -> Row]
      /\ pending \in [Sub -> Registration] /\ worker \in [Worker -> Attempt] /\ gc \in Sweep
  BY Zenon, Defaults DEF Init
<1>4. /\ floor \in [Sub -> Pos] /\ applied \in [Sub -> Seq(Pos)]
      /\ skipped \in [Sub -> SUBSET Pos] /\ excused \in [Sub -> SUBSET Pos]
  BY Zenon, <1>1, Defaults DEF Init
<1> QED  BY Zenon, <1>2, <1>3, <1>4 DEF Init, TypeOK

\* Every step keeps the types.
LEMMA TypeNext == TypeOK /\ [Next]_vars => TypeOK'
<1> SUFFICES ASSUME TypeOK, [Next]_vars PROVE TypeOK'
  BY Zenon
<1> USE DEF meta, ids, data, hist
<1>a. CASE UNCHANGED vars
  BY Zenon, <1>a DEF vars, TypeOK
<1>b. ASSUME NEW p \in Producer, Produce(p) PROVE TypeOK'
  <2>1. CASE Begin(p)
    <3>1. nextXid \in 0..MaxXid
      BY DEF TypeOK
    <3>2. [producer[p] EXCEPT !.xid = nextXid] \in Tx
      BY Zenon, <3>1, Fields DEF Tx
    <3> QED  BY Zenon, <2>1, <3>2, NextXidType DEF Begin, TypeOK
  <2>2. ASSUME NEW st \in Stream, Append_event(p, st) PROVE TypeOK'
    <3>1. NewEvent(producer[p].xid, st) \in Event
      BY Zenon, NewEventType, Fields
    <3>2. [producer[p] EXCEPT !.wrote = @ \cup {NewEvent(producer[p].xid, st)}] \in Tx
      BY Zenon, <3>1, Fields DEF Tx
    <3>3. nextTie + 1 \in 1..MaxTie
      BY <2>2, ConstantsAssumption DEF Append_event, TypeOK
    <3>4. producer' \in [Producer -> Tx]
      BY Zenon, <2>2, <3>2 DEF Append_event, TypeOK
    <3> QED  BY Zenon, <2>2, <3>3, <3>4 DEF Append_event, TypeOK
  <2>3. CASE Commit(p)
    <3>1. {e.stream : e \in producer[p].wrote} \subseteq Stream /\ producer[p].wrote \subseteq Event
      BY Zenon, Fields
    <3> QED  BY Zenon, <2>3, <3>1, Defaults DEF Commit, Publish, TypeOK
  <2>4. CASE Abort(p)
    BY Zenon, <2>4, Defaults DEF Abort, TypeOK
  <2> QED  BY Zenon, <1>b, <2>1, <2>2, <2>3, <2>4 DEF Produce
<1>c. CASE Bump
  <2>1. CASE BumpLock
    BY Zenon, <2>1 DEF BumpLock, TypeOK
  <2>2. CASE BumpCommit
    <3>1. generation + 1 \in 1..MaxGen
      BY <2>2, ConstantsAssumption DEF BumpCommit, TypeOK
    <3> QED  BY Zenon, <2>2, <3>1 DEF BumpCommit, TypeOK
  <2>3. CASE BumpLost
    BY Zenon, <2>3 DEF BumpLost, TypeOK
  <2> QED  BY Zenon, <1>c, <2>1, <2>2, <2>3 DEF Bump
<1>d. CASE Restore
  BY Zenon, <1>d, Defaults DEF Restore, TypeOK
<1>e. CASE Boot
  BY Zenon, <1>e DEF Boot, TypeOK
<1>f. ASSUME NEW s \in Sub, Reconcile_one(s) PROVE TypeOK'
  <2>1. CASE RegisterInsert(s)
    <3>1. [xid |-> nextXid, cursor |-> StartCursor(s)] \in Registration
      BY StartCursorType DEF TypeOK, Registration
    <3>2. contracts' \subseteq Stream
      BY Zenon, <2>1, Fields DEF RegisterInsert, TypeOK
    <3> QED  BY Zenon, <2>1, <3>1, <3>2, NextXidType DEF RegisterInsert, TypeOK
  <2>2. CASE RegisterCommit(s)
    BY Zenon, <2>2, Defaults, Fields, FreshRow DEF RegisterCommit, TypeOK
  <2>3. CASE RegisterAbort(s)
    BY Zenon, <2>3, Defaults DEF RegisterAbort, TypeOK
  <2> QED  BY Zenon, <1>f, <2>1, <2>2, <2>3 DEF Reconcile_one
<1>g. ASSUME NEW s \in Sub, BackoffElapses(s) PROVE TypeOK'
  BY Zenon, <1>g, Fields, RowUpdates DEF BackoffElapses, TypeOK
<1>h. ASSUME NEW s \in Sub, Operate(s) PROVE TypeOK'
  <2>1. CASE Retry(s)
    BY Zenon, <2>1, Fields, RowUpdates DEF Retry, OperatorFrame, TypeOK
  <2>2. ASSUME NEW x \in {"paused", "retired"}, Set_state(s, x) PROVE TypeOK'
    BY Zenon, <2>2, Fields, RowUpdates DEF Set_state, OperatorFrame, TypeOK
  <2>3. CASE Resume(s)
    BY Zenon, <2>3, Fields, RowUpdates DEF Resume, OperatorFrame, TypeOK
  <2>4. CASE Skip(s)
    <3>1. PICK e \in log :
            /\ row' = [row EXCEPT ![s] = [state |-> "active", cursor |-> e.pos,
                                          failures |-> 0, due |-> TRUE]]
            /\ skipped' = [skipped EXCEPT ![s] = @ \cup {e.pos}]
      BY Zenon, <2>4 DEF Skip
    <3>2. e.pos \in Pos
      BY Zenon, Fields DEF TypeOK
    <3>3. row' \in [Sub -> Row]
      BY Zenon, <3>1, <3>2, FreshRow DEF TypeOK
    <3>4. skipped' \in [Sub -> SUBSET Pos]
      BY Zenon, <3>1, <3>2 DEF TypeOK
    <3> QED  BY Zenon, <2>4, <3>3, <3>4 DEF Skip, OperatorFrame, TypeOK
  <2> QED  BY Zenon, <1>h, <2>1, <2>2, <2>3, <2>4 DEF Operate, Pause, Retire
<1>i. ASSUME NEW w \in Worker, Deliver_one_on(w) PROVE TypeOK'
  <2>1. ASSUME NEW s \in Sub, Claim(w, s) PROVE TypeOK'
    <3>1. [phase |-> "claimed", sub |-> s, xid |-> nextXid, cursor |-> row[s].cursor,
           failures |-> row[s].failures, ev |-> NoEvent, wrote |-> {}] \in Attempt
      <4>1. nextXid \in 0..MaxXid
        BY DEF TypeOK
      <4> QED  BY Zenon, <4>1, Fields, Defaults DEF Attempt
    <3> QED  BY Zenon, <2>1, <3>1, NextXidType DEF Claim, TypeOK
  <2>2. CASE Select(w)
    <3>1. PICK e \in log : worker' = [worker EXCEPT ![w].phase = "handling", ![w].ev = e]
      BY Zenon, <2>2 DEF Select
    <3>2. [worker[w] EXCEPT !.phase = "handling", !.ev = e] \in Attempt
      <4>1. e \in Event
        BY Zenon DEF TypeOK
      <4> QED  BY Zenon, <4>1, Fields DEF Attempt
    <3> QED  BY Zenon, <2>2, <3>1, <3>2 DEF Select, TypeOK
  <2>3. CASE Empty(w)
    BY Zenon, <2>3, Defaults DEF Empty, TypeOK
  <2>4. ASSUME NEW st \in Stream, HandlerEmit(w, st) PROVE TypeOK'
    <3>1. NewEvent(worker[w].xid, st) \in Event
      BY Zenon, NewEventType, Fields
    <3>2. [worker[w] EXCEPT !.wrote = @ \cup {NewEvent(worker[w].xid, st)}] \in Attempt
      BY Zenon, <3>1, Fields DEF Attempt
    <3>3. nextTie + 1 \in 1..MaxTie
      BY <2>4, ConstantsAssumption DEF HandlerEmit, TypeOK
    <3>4. worker' \in [Worker -> Attempt]
      BY Zenon, <2>4, <3>2 DEF HandlerEmit, TypeOK
    <3> QED  BY Zenon, <2>4, <3>3, <3>4 DEF HandlerEmit, TypeOK
  <2>5. CASE Deliver(w)
    <3>1. {e.stream : e \in worker[w].wrote} \subseteq Stream /\ worker[w].wrote \subseteq Event
      BY Zenon, Fields
    <3>2. log' \subseteq Event /\ contracts' \subseteq Stream /\ worker' \in [Worker -> Attempt]
      BY Zenon, <2>5, <3>1, Defaults DEF Deliver, Publish, TypeOK
    <3>3. row[worker[w].sub].state \in {"absent", "active", "paused", "retired"}
      BY Zenon, Fields DEF Row
    <3>4. row' \in [Sub -> Row]
      BY Zenon, <2>5, <3>3, Fields, FreshRow DEF Deliver, TypeOK
    <3>5. applied' \in [Sub -> Seq(Pos)]
      BY <2>5, Fields DEF Deliver, TypeOK
    <3> QED  BY Zenon, <2>5, <3>2, <3>4, <3>5 DEF Deliver, TypeOK
  <2>6. ASSUME Record_failure(w) PROVE row' \in [Sub -> Row]
    <3> DEFINE s == worker[w].sub
               f == worker[w].failures + 1
    <3>1. s \in Sub /\ row[s] \in Row /\ f \in Nat
      BY Fields
    <3>2. CASE f >= PauseAfter
      BY Zenon, <2>6, <3>1, <3>2, RowUpdates DEF Record_failure, TypeOK
    <3>3. CASE ~(f >= PauseAfter)
      BY Zenon, <2>6, <3>1, <3>3, RowUpdates DEF Record_failure, TypeOK
    <3> QED  BY Zenon, <3>2, <3>3
  <2>7. CASE HandlerErr(w)
    BY Zenon, <2>6, <2>7, Defaults DEF HandlerErr, TypeOK
  <2>8. Backend(w) \in Session
    BY Zenon, Fields DEF Backend, Session
  <2>9. CASE HandlerTimeout(w)
    <3>1. [worker[w] EXCEPT !.phase = "record", !.xid = 0, !.ev = NoEvent, !.wrote = {}] \in Attempt
      <4>1. 0 \in 0..MaxXid /\ NoEvent \in Event /\ worker[w] \in Attempt
        BY Fields, Defaults, ConstantsAssumption
      <4> QED  BY Zenon, <4>1 DEF Attempt
    <3> QED  BY Zenon, <2>8, <2>9, <3>1 DEF HandlerTimeout, TypeOK
  <2>10. CASE RecordAfterTimeout(w)
    BY Zenon, <2>6, <2>10, Defaults DEF RecordAfterTimeout, TypeOK
  <2>11. CASE RecordGivesUp(w)
    BY Zenon, <2>11, Defaults DEF RecordGivesUp, TypeOK
  <2>12. CASE Lose(w)
    BY Zenon, <2>8, <2>12, Defaults DEF Lose, TypeOK
  <2> QED  BY Zenon, <1>i, <2>1, <2>2, <2>3, <2>4, <2>5, <2>7, <2>9, <2>10, <2>11, <2>12
           DEF Deliver_one_on
<1>j. ASSUME NEW z \in zombie, BackendEnds(z) PROVE TypeOK'
  BY Zenon, <1>j DEF BackendEnds, TypeOK
<1>k. CASE Gc_topic
  <2>1. ASSUME NEW st \in Stream, GcSelect(st) PROVE TypeOK'
    <3>1. PICK batch \in SUBSET Unblocked(st) :
            gc' = [batch |-> batch, seen |-> {s \in Sub : Live(s)}]
      BY Zenon, <2>1 DEF GcSelect
    <3>2. gc' \in Sweep
      BY Zenon, <3>1 DEF Sweep, Unblocked, TypeOK
    <3> QED  BY Zenon, <2>1, <3>2 DEF GcSelect, TypeOK
  <2>2. CASE GcDelete
    <3>1. {e.pos : e \in gc.batch} \subseteq Pos /\ gc.batch \subseteq Event
      BY Zenon, Fields
    <3>2. excused' \in [Sub -> SUBSET Pos]
      BY Zenon, <2>2, <3>1 DEF GcDelete, TypeOK
    <3> QED  BY Zenon, <2>2, <3>1, <3>2, Defaults DEF GcDelete, TypeOK
  <2>3. CASE GcLose
    BY Zenon, <2>3, Defaults DEF GcLose, TypeOK
  <2> QED  BY Zenon, <1>k, <2>1, <2>2, <2>3 DEF Gc_topic
<1> QED
  BY Zenon, <1>a, <1>b, <1>c, <1>d, <1>e, <1>f, <1>g, <1>h, <1>i, <1>j, <1>k DEF Next

\* Every variable always has its type.
THEOREM TypeCorrect == Spec => []TypeOK
BY TypeInit, TypeNext, PTL DEF Spec

-------------------------------------------------------------------------------
(* What a step can do, by the part of the state it touches *)

\* Next, flattened to the single actions.
LEMMA StepCases ==
  ASSUME [Next]_vars
  PROVE  \/ UNCHANGED vars
         \/ \E p \in Producer : \/ Begin(p) \/ Commit(p) \/ Abort(p)
                                \/ \E st \in Stream : Append_event(p, st)
         \/ BumpLock \/ BumpCommit \/ BumpLost \/ Restore \/ Boot
         \/ \E s \in Sub : \/ RegisterInsert(s) \/ RegisterCommit(s) \/ RegisterAbort(s)
                           \/ BackoffElapses(s) \/ Retry(s) \/ Resume(s) \/ Skip(s)
                           \/ \E x \in {"paused", "retired"} : Set_state(s, x)
         \/ \E w \in Worker : \/ \E s \in Sub : Claim(w, s)
                              \/ Select(w) \/ Empty(w)
                              \/ \E st \in Stream : HandlerEmit(w, st)
                              \/ Deliver(w) \/ HandlerErr(w) \/ HandlerTimeout(w)
                              \/ RecordAfterTimeout(w) \/ RecordGivesUp(w) \/ Lose(w)
         \/ \E z \in zombie : BackendEnds(z)
         \/ (\E st \in Stream : GcSelect(st)) \/ GcDelete \/ GcLose
<1>1. CASE UNCHANGED vars
  BY Zenon, <1>1
<1>2. CASE \E p \in Producer : Produce(p)
  BY Zenon, <1>2 DEF Produce
<1>3. CASE Bump \/ Restore \/ Boot
  BY Zenon, <1>3 DEF Bump
<1>4. ASSUME NEW s \in Sub, Reconcile_one(s) \/ BackoffElapses(s) \/ Operate(s)
      PROVE  \/ RegisterInsert(s) \/ RegisterCommit(s) \/ RegisterAbort(s)
             \/ BackoffElapses(s) \/ Retry(s) \/ Resume(s) \/ Skip(s)
             \/ \E x \in {"paused", "retired"} : Set_state(s, x)
  BY Zenon, <1>4 DEF Reconcile_one, Operate, Pause, Retire
<1>5. CASE \E w \in Worker : Deliver_one_on(w)
  BY Zenon, <1>5 DEF Deliver_one_on
<1>6. CASE \E z \in zombie : BackendEnds(z)
  BY Zenon, <1>6
<1>7. CASE Gc_topic
  BY Zenon, <1>7 DEF Gc_topic
<1> QED  BY Zenon, <1>1, <1>2, <1>3, <1>4, <1>5, <1>6, <1>7 DEF Next

\* An idle worker holds nothing.
LEMMA IdleFields == Idle.phase = "idle" /\ Idle.wrote = {} /\ NoTx.xid = 0 /\ NoTx.wrote = {}
BY Zenon DEF Idle, NoTx

\* The process-level invariant is kept.
LEMMA UpNext == ASSUME TypeOK, IUp, [Next]_vars PROVE IUp'
<1> USE DEF meta, ids, data, hist
<1> USE IdleFields
<1>1. CASE UNCHANGED <<producer, worker, moved, up>>
  BY Zenon, <1>1 DEF IUp, Delivering
<1>2. ASSUME NEW p \in Producer,
             \/ Begin(p) \/ Commit(p) \/ Abort(p) \/ \E st \in Stream : Append_event(p, st)
      PROVE  IUp'
  <2>1. up /\ UNCHANGED <<worker, moved, up>>
    BY Zenon, <1>2 DEF Begin, Commit, Abort, Append_event, IUp
  <2>2. \A q \in Producer : producer'[q].wrote # {} => producer'[q].xid # 0
    <3>1. CASE Begin(p)
      BY <3>1 DEF Begin, TypeOK, IUp
    <3>2. CASE Commit(p) \/ Abort(p)
      BY Zenon, <3>2 DEF Commit, Abort, TypeOK, IUp
    <3>3. ASSUME NEW st \in Stream, Append_event(p, st)
          PROVE \A q \in Producer : producer'[q].wrote # {} => producer'[q].xid # 0
      BY <3>3 DEF Append_event, TypeOK, IUp
    <3> QED  BY Zenon, <1>2, <3>1, <3>2, <3>3
  <2> QED  BY Zenon, <2>1, <2>2 DEF IUp
<1>3. CASE BumpLock \/ BumpCommit \/ BumpLost \/ Boot
  <2>1. CASE BumpLock \/ BumpCommit \/ BumpLost
    BY <2>1 DEF BumpLock, BumpCommit, BumpLost, IUp, Delivering
  <2>2. CASE Boot
    BY Zenon, <2>2 DEF Boot, IUp, Delivering
  <2> QED  BY Zenon, <1>3, <2>1, <2>2
<1>4. CASE Restore
  BY Zenon, <1>4 DEF Restore, IUp, Delivering
<1>5. ASSUME NEW w \in Worker, NEW s \in Sub, Claim(w, s) PROVE IUp'
  BY Zenon, <1>5 DEF Claim, IUp
<1>6. ASSUME NEW w \in Worker,
             \/ Select(w) \/ Empty(w) \/ (\E st \in Stream : HandlerEmit(w, st))
             \/ Deliver(w) \/ HandlerErr(w) \/ HandlerTimeout(w) \/ Lose(w)
      PROVE  IUp'
  <2>1. w \in Delivering /\ UNCHANGED <<producer, moved, up>>
    BY Zenon, <1>6
       DEF Select, Empty, HandlerEmit, Deliver, HandlerErr, HandlerTimeout, Lose, Delivering
  <2> QED  BY Zenon, <2>1 DEF IUp
<1>7. ASSUME NEW w \in Worker, RecordAfterTimeout(w) \/ RecordGivesUp(w) PROVE IUp'
  <2>1. UNCHANGED <<producer, moved, up>> /\ worker' = [worker EXCEPT ![w] = Idle]
    BY Zenon, <1>7 DEF RecordAfterTimeout, RecordGivesUp
  <2>2. Delivering' \subseteq Delivering
    BY Zenon, <2>1 DEF Delivering, TypeOK
  <2> QED  BY Zenon, <2>1, <2>2 DEF IUp
<1>8. ASSUME NEW s \in Sub,
             \/ RegisterInsert(s) \/ RegisterCommit(s) \/ RegisterAbort(s)
             \/ BackoffElapses(s) \/ Retry(s) \/ Resume(s) \/ Skip(s)
             \/ \E x \in {"paused", "retired"} : Set_state(s, x)
      PROVE  UNCHANGED <<producer, worker, moved, up>>
  BY Zenon, <1>8 DEF RegisterInsert, RegisterCommit, RegisterAbort, BackoffElapses, Retry, Resume,
              Skip, Set_state, OperatorFrame
<1>9. ASSUME \/ \E z \in zombie : BackendEnds(z)
             \/ (\E st \in Stream : GcSelect(st)) \/ GcDelete \/ GcLose
      PROVE  UNCHANGED <<producer, worker, moved, up>>
  BY Zenon, <1>9 DEF BackendEnds, GcSelect, GcDelete, GcLose
<1>10. UNCHANGED vars => UNCHANGED <<producer, worker, moved, up>>
  BY Zenon DEF vars
<1> QED
  BY Zenon, StepCases, <1>1, <1>2, <1>3, <1>4, <1>5, <1>6, <1>7, <1>8, <1>9, <1>10

\* Uncommitted events keep the generation they were stamped with: it cannot
\* change while the shared writer lock is held.
LEMMA EventsNext == ASSUME TypeOK, IUp, IEvents, [Next]_vars PROVE IEvents'
<1> USE DEF meta, ids, data, hist
<1> USE IdleFields
<1>1. CASE UNCHANGED <<producer, worker, zombie, generation, log, deleted, bump>>
  BY Zenon, <1>1 DEF IEvents, WriterLockShared
<1>2. ASSUME NEW p \in Producer, Begin(p) \/ Abort(p) \/ Commit(p) PROVE IEvents'
  <2>1. UNCHANGED <<worker, zombie, generation, deleted, bump>>
    BY Zenon, <1>2 DEF Begin, Abort, Commit
  <2>2. /\ \A q \in Producer \ {p} : producer'[q] = producer[q]
        /\ producer'[p].wrote = {}
    <3>1. CASE Begin(p)
      <4>1. producer[p].wrote = {}
        BY Zenon, <3>1 DEF Begin, IUp
      <4> QED  BY Zenon, <3>1, <4>1 DEF Begin, TypeOK, Tx
    <3>2. CASE Abort(p) \/ Commit(p)
      BY Zenon, <3>2 DEF Abort, Commit, TypeOK
    <3> QED  BY Zenon, <1>2, <3>1, <3>2
  <2>3. \A e \in log' : e \in log \/ e \in producer[p].wrote
    BY Zenon, <1>2 DEF Begin, Abort, Commit, Publish
  <2>4. \A q \in Producer : \A e \in producer'[q].wrote :
          e.pos[1] = generation /\ e.pos[2] = producer'[q].xid
    BY <2>2 DEF IEvents
  <2>5. \A e \in log' \cup deleted : e.pos[1] <= generation
    BY <2>3 DEF IEvents, TypeOK
  <2>6. WriterLockShared' => WriterLockShared
    BY Zenon, <2>1, <2>2 DEF WriterLockShared
  <2> QED  BY Zenon, <2>1, <2>4, <2>5, <2>6 DEF IEvents
<1>3. ASSUME NEW p \in Producer, NEW st \in Stream, Append_event(p, st) PROVE IEvents'
  <2>1. /\ UNCHANGED <<worker, zombie, generation, deleted, bump, log>> /\ ~bump
        /\ \A q \in Producer \ {p} : producer'[q] = producer[q]
        /\ producer'[p].xid = producer[p].xid
        /\ producer'[p].wrote = producer[p].wrote \cup {NewEvent(producer[p].xid, st)}
    BY Zenon, <1>3 DEF Append_event, TypeOK, Tx
  <2>2. /\ NewEvent(producer[p].xid, st).pos[1] = generation
        /\ NewEvent(producer[p].xid, st).pos[2] = producer[p].xid
    BY Zenon DEF NewEvent
  <2> QED  BY <2>1, <2>2 DEF IEvents
<1>4. CASE BumpLock \/ BumpLost \/ Boot
  BY <1>4 DEF BumpLock, BumpLost, Boot, IEvents, WriterLockShared
<1>5. CASE BumpCommit
  <2>1. /\ UNCHANGED <<producer, worker, zombie, log, deleted>> /\ generation' = generation + 1
        /\ bump' = FALSE /\ ~WriterLockShared
    BY Zenon, <1>5 DEF BumpCommit, IEvents
  <2>2. /\ \A p \in Producer : producer[p].wrote = {}
        /\ \A w \in Worker : worker[w].wrote = {}
    BY Zenon, <2>1 DEF WriterLockShared
  <2>3. \A e \in log \cup deleted : e.pos[1] <= generation + 1
    <3>1. \A e \in log \cup deleted : e.pos[1] \in Nat /\ e.pos[1] <= generation
      <4>1. \A e \in log \cup deleted : e.pos \in Pos
        BY Zenon, Fields DEF TypeOK
      <4> QED  BY <4>1, PosTypes DEF IEvents
    <3> QED  BY <3>1 DEF TypeOK
  <2> QED  BY Zenon, <2>1, <2>2, <2>3 DEF IEvents
<1>6. CASE Restore
  BY Zenon, <1>6 DEF Restore, IEvents, WriterLockShared
<1>7. ASSUME NEW w \in Worker,
             \/ (\E s \in Sub : Claim(w, s)) \/ Empty(w) \/ HandlerErr(w)
             \/ RecordAfterTimeout(w) \/ RecordGivesUp(w) \/ Deliver(w)
      PROVE  IEvents'
  <2>1. /\ UNCHANGED <<producer, zombie, generation, deleted, bump>>
        /\ \A v \in Worker \ {w} : worker'[v] = worker[v]
        /\ worker'[w].wrote = {}
    <3>1. worker \in [Worker -> Attempt]
      BY Zenon DEF TypeOK
    <3>2. CASE \E s \in Sub : Claim(w, s)
      BY <3>1, <3>2 DEF Claim
    <3>3. CASE Empty(w)
      BY Zenon, <3>1, <3>3 DEF Empty
    <3>4. CASE HandlerErr(w)
      BY Zenon, <3>1, <3>4 DEF HandlerErr
    <3>5. CASE RecordAfterTimeout(w) \/ RecordGivesUp(w)
      BY Zenon, <3>1, <3>5 DEF RecordAfterTimeout, RecordGivesUp
    <3>6. CASE Deliver(w)
      BY Zenon, <3>1, <3>6 DEF Deliver
    <3> QED  BY Zenon, <1>7, <3>2, <3>3, <3>4, <3>5, <3>6
  <2>2. \A e \in log' : e \in log \/ e \in worker[w].wrote
    BY Zenon, <1>7 DEF Claim, Empty, HandlerErr, RecordAfterTimeout, RecordGivesUp, Deliver, Publish
  <2>3. \A v \in Worker : \A e \in worker'[v].wrote :
          e.pos[1] = generation /\ e.pos[2] = worker'[v].xid
    <3>1. ASSUME NEW v \in Worker \ {w}, NEW e \in worker[v].wrote
          PROVE  e.pos[1] = generation /\ e.pos[2] = worker[v].xid
      BY Zenon DEF IEvents
    <3> QED  BY <2>1, <3>1
  <2>4. \A e \in log' \cup deleted : e.pos[1] <= generation
    <3>1. generation \in Nat
      BY DEF TypeOK
    <3>2. \A e \in worker[w].wrote : e.pos[1] = generation
      BY Zenon DEF IEvents
    <3>3. \A e \in log \cup deleted : e.pos[1] <= generation
      BY Zenon DEF IEvents
    <3> QED  BY <2>2, <3>1, <3>2, <3>3
  <2>5. WriterLockShared' => WriterLockShared
    BY Zenon, <2>1 DEF WriterLockShared
  <2> QED  BY Zenon, <2>1, <2>3, <2>4, <2>5 DEF IEvents
<1>8. ASSUME NEW w \in Worker, Select(w) PROVE IEvents'
  <2>1. /\ UNCHANGED <<producer, zombie, generation, log, deleted, bump>>
        /\ \A v \in Worker : worker'[v].wrote = worker[v].wrote /\ worker'[v].xid = worker[v].xid
    BY <1>8 DEF Select, TypeOK, Attempt
  <2> QED  BY Zenon, <2>1 DEF IEvents, WriterLockShared
<1>9. ASSUME NEW w \in Worker, NEW st \in Stream, HandlerEmit(w, st) PROVE IEvents'
  <2>1. /\ UNCHANGED <<producer, zombie, generation, deleted, bump, log>> /\ ~bump
        /\ \A v \in Worker \ {w} : worker'[v] = worker[v]
        /\ worker'[w].xid = worker[w].xid
        /\ worker'[w].wrote = worker[w].wrote \cup {NewEvent(worker[w].xid, st)}
    BY Zenon, <1>9 DEF HandlerEmit, TypeOK, Attempt
  <2>2. /\ NewEvent(worker[w].xid, st).pos[1] = generation
        /\ NewEvent(worker[w].xid, st).pos[2] = worker[w].xid
    BY Zenon DEF NewEvent
  <2> QED  BY <2>1, <2>2 DEF IEvents
<1>10. ASSUME NEW w \in Worker, HandlerTimeout(w) \/ Lose(w) PROVE IEvents'
  <2>1. /\ UNCHANGED <<producer, generation, deleted, bump, log>>
        /\ \A v \in Worker \ {w} : worker'[v] = worker[v]
        /\ worker'[w].wrote = {}
        /\ zombie' = zombie \cup {Backend(w)}
    BY <1>10 DEF HandlerTimeout, Lose, TypeOK, Attempt
  <2>2. Backend(w).wrote = worker[w].wrote
    BY Zenon DEF Backend
  <2>3. WriterLockShared' => WriterLockShared
    BY Zenon, <2>1, <2>2 DEF WriterLockShared
  <2>4. \A v \in Worker : \A e \in worker'[v].wrote :
          e.pos[1] = generation /\ e.pos[2] = worker'[v].xid
    BY <2>1 DEF IEvents
  <2> QED  BY Zenon, <2>1, <2>3, <2>4 DEF IEvents
<1>11. ASSUME NEW z \in zombie, BackendEnds(z) PROVE IEvents'
  BY Zenon, <1>11 DEF BackendEnds, IEvents, WriterLockShared
<1>12. CASE GcDelete
  <2>1. log' \cup deleted' \subseteq log \cup deleted
    BY Zenon, <1>12 DEF GcDelete
  <2> QED  BY Zenon, <1>12, <2>1 DEF GcDelete, IEvents, WriterLockShared
<1>13. ASSUME NEW s \in Sub,
             \/ RegisterInsert(s) \/ RegisterCommit(s) \/ RegisterAbort(s)
             \/ BackoffElapses(s) \/ Retry(s) \/ Resume(s) \/ Skip(s)
             \/ \E x \in {"paused", "retired"} : Set_state(s, x)
      PROVE  UNCHANGED <<producer, worker, zombie, generation, log, deleted, bump>>
  BY Zenon, <1>13 DEF RegisterInsert, RegisterCommit, RegisterAbort, BackoffElapses, Retry, Resume,
              Skip, Set_state, OperatorFrame
<1>14. ASSUME (\E st \in Stream : GcSelect(st)) \/ GcLose
      PROVE  UNCHANGED <<producer, worker, zombie, generation, log, deleted, bump>>
  BY Zenon, <1>14 DEF GcSelect, GcLose
<1>15. UNCHANGED vars => UNCHANGED <<producer, worker, zombie, generation, log, deleted, bump>>
  BY Zenon DEF vars
<1> QED
  BY Zenon, StepCases, <1>1, <1>2, <1>3, <1>4, <1>5, <1>6, <1>7, <1>8, <1>9, <1>10, <1>11, <1>12,
     <1>13, <1>14, <1>15

\* A transaction id that precedes every open transaction still does after any
\* step on the same cluster: new transactions take ids from nextXid upwards.
LEMMA XminNext ==
  ASSUME TypeOK, [Next]_vars, ~Restore, NEW x \in 0..MaxXid, BelowXmin(x)
  PROVE  BelowXmin(x)'
<1> USE DEF meta, ids, data, hist
<1> USE IdleFields
<1> DEFINE Same == UNCHANGED <<nextXid, producer, worker, zombie, pending>>
<1>1. CASE Same
  BY Zenon, <1>1 DEF BelowXmin, Delivering
<1>2. ASSUME nextXid' = NextXid PROVE x < nextXid'
  <2>1. x < nextXid /\ nextXid \in Nat
    BY DEF BelowXmin, TypeOK
  <2> QED  BY <1>2, <2>1, NextXidType
<1>3. ASSUME NEW p \in Producer, Begin(p) PROVE BelowXmin(x)'
  <2>1. /\ UNCHANGED <<worker, zombie, pending>> /\ nextXid' = NextXid
        /\ \A q \in Producer \ {p} : producer'[q] = producer[q]
        /\ producer'[p].xid = nextXid
    BY Zenon, <1>3 DEF Begin, TypeOK, Tx
  <2> QED  BY Zenon, <2>1, <1>2 DEF BelowXmin, Delivering
<1>4. ASSUME NEW p \in Producer,
             Commit(p) \/ Abort(p) \/ (\E st \in Stream : Append_event(p, st))
      PROVE  BelowXmin(x)'
  <2>1. /\ UNCHANGED <<worker, zombie, pending, nextXid>>
        /\ \A q \in Producer : producer'[q].xid = producer[q].xid \/ producer'[q].xid = 0
    <3>1. CASE Commit(p) \/ Abort(p)
      BY Zenon, <3>1 DEF Commit, Abort, TypeOK
    <3>2. CASE \E st \in Stream : Append_event(p, st)
      BY <3>2 DEF Append_event, TypeOK, Tx
    <3> QED  BY Zenon, <1>4, <3>1, <3>2
  <2> QED  BY Zenon, <2>1 DEF BelowXmin, Delivering
<1>5. ASSUME NEW s \in Sub, RegisterInsert(s) PROVE BelowXmin(x)'
  <2>1. /\ UNCHANGED <<worker, zombie, producer>> /\ nextXid' = NextXid
        /\ \A r \in Sub \ {s} : pending'[r] = pending[r]
        /\ pending'[s].xid = nextXid
    BY Zenon, <1>5 DEF RegisterInsert, TypeOK
  <2> QED  BY Zenon, <2>1, <1>2 DEF BelowXmin, Delivering
<1>6. ASSUME NEW s \in Sub, RegisterCommit(s) \/ RegisterAbort(s) PROVE BelowXmin(x)'
  <2>1. /\ UNCHANGED <<worker, zombie, producer, nextXid>>
        /\ \A r \in Sub : pending'[r] = pending[r] \/ pending'[r].xid = 0
    <3>1. pending \in [Sub -> Registration] /\ NoPending.xid = 0
      BY Zenon DEF TypeOK, NoPending
    <3>2. CASE RegisterCommit(s)
      BY Zenon, <3>1, <3>2 DEF RegisterCommit
    <3>3. CASE RegisterAbort(s)
      BY Zenon, <3>1, <3>3 DEF RegisterAbort
    <3> QED  BY Zenon, <1>6, <3>2, <3>3
  <2> QED  BY Zenon, <2>1 DEF BelowXmin, Delivering
<1>7. ASSUME NEW w \in Worker, NEW s \in Sub, Claim(w, s) PROVE BelowXmin(x)'
  <2>1. /\ UNCHANGED <<producer, zombie, pending>> /\ nextXid' = NextXid
        /\ \A v \in Worker \ {w} : worker'[v] = worker[v]
        /\ worker'[w].xid = nextXid
    BY Zenon, <1>7 DEF Claim, TypeOK
  <2> QED  BY Zenon, <2>1, <1>2 DEF BelowXmin, Delivering
<1>8. ASSUME NEW w \in Worker,
             \/ Select(w) \/ Empty(w) \/ (\E st \in Stream : HandlerEmit(w, st))
             \/ Deliver(w) \/ HandlerErr(w) \/ RecordAfterTimeout(w) \/ RecordGivesUp(w)
      PROVE  BelowXmin(x)'
  <2>1. UNCHANGED <<producer, zombie, pending, nextXid>>
    BY Zenon, <1>8
       DEF Select, Empty, HandlerEmit, Deliver, HandlerErr, RecordAfterTimeout, RecordGivesUp
  <2>2. \A v \in Delivering' : v \in Delivering /\ worker'[v].xid = worker[v].xid
    <3>1. CASE Select(w)
      BY <3>1 DEF Select, Delivering, TypeOK, Attempt
    <3>2. CASE \E st \in Stream : HandlerEmit(w, st)
      BY <3>2 DEF HandlerEmit, Delivering, TypeOK, Attempt
    <3>3. CASE worker' = [worker EXCEPT ![w] = Idle]
      BY Zenon, <3>3 DEF Delivering, TypeOK
    <3> QED  BY Zenon, <1>8, <3>1, <3>2, <3>3
                DEF Empty, Deliver, HandlerErr, RecordAfterTimeout, RecordGivesUp
  <2> QED  BY Zenon, <2>1, <2>2 DEF BelowXmin
<1>9. ASSUME NEW w \in Worker, HandlerTimeout(w) \/ Lose(w) PROVE BelowXmin(x)'
  <2>1. UNCHANGED <<producer, pending, nextXid>> /\ zombie' = zombie \cup {Backend(w)}
    BY Zenon, <1>9 DEF HandlerTimeout, Lose
  <2>2. \A v \in Delivering' : v \in Delivering /\ worker'[v].xid = worker[v].xid
    <3>1. CASE HandlerTimeout(w)
      BY <3>1 DEF HandlerTimeout, Delivering, TypeOK, Attempt
    <3>2. CASE Lose(w)
      BY Zenon, <3>2 DEF Lose, Delivering, TypeOK
    <3> QED  BY Zenon, <1>9, <3>1, <3>2
  <2>3. w \in Delivering /\ Backend(w).xid = worker[w].xid
    BY Zenon, <1>9 DEF HandlerTimeout, Lose, Delivering, Backend
  <2> QED  BY Zenon, <2>1, <2>2, <2>3 DEF BelowXmin
<1>10. ASSUME NEW z \in zombie, BackendEnds(z) PROVE BelowXmin(x)'
  BY Zenon, <1>10 DEF BackendEnds, BelowXmin, Delivering
<1>11. ASSUME NEW s \in Sub,
             \/ BackoffElapses(s) \/ Retry(s) \/ Resume(s) \/ Skip(s)
             \/ \E y \in {"paused", "retired"} : Set_state(s, y)
      PROVE  Same
  BY Zenon, <1>11 DEF BackoffElapses, Retry, Resume, Skip, Set_state, OperatorFrame
<1>12. ASSUME \/ BumpLock \/ BumpCommit \/ BumpLost \/ Boot
              \/ (\E st \in Stream : GcSelect(st)) \/ GcDelete \/ GcLose
       PROVE  Same
  BY Zenon, <1>12 DEF BumpLock, BumpCommit, BumpLost, Boot, GcSelect, GcDelete, GcLose
<1>13. UNCHANGED vars => Same
  BY Zenon DEF vars
<1> HIDE DEF Same
<1> QED
  BY Zenon, StepCases, <1>1, <1>3, <1>4, <1>5, <1>6, <1>7, <1>8, <1>9, <1>10, <1>11, <1>12, <1>13

\* How the generation and the cluster change.
LEMMA MetaStep ==
  ASSUME [Next]_vars
  PROVE  \/ UNCHANGED <<generation, moved>> /\ ~Restore
         \/ generation' = generation /\ moved' = TRUE
         \/ generation' = generation + 1 /\ ~Restore
<1> USE DEF meta, ids, data, hist
<1>1. CASE Restore
  BY Zenon, <1>1 DEF Restore
<1>2. CASE BumpCommit
  BY Zenon, <1>1, <1>2 DEF BumpCommit
<1>3. ASSUME ~Restore, ~BumpCommit PROVE UNCHANGED <<generation, moved>>
  <2>1. ASSUME NEW s \in Sub,
               \/ RegisterInsert(s) \/ RegisterCommit(s) \/ RegisterAbort(s)
               \/ BackoffElapses(s) \/ Retry(s) \/ Resume(s) \/ Skip(s)
               \/ \E x \in {"paused", "retired"} : Set_state(s, x)
        PROVE  UNCHANGED <<generation, moved>>
    BY Zenon, <2>1 DEF RegisterInsert, RegisterCommit, RegisterAbort, BackoffElapses, Retry, Resume,
                Skip, Set_state, OperatorFrame
  <2>2. ASSUME NEW w \in Worker,
               \/ (\E s \in Sub : Claim(w, s)) \/ Select(w) \/ Empty(w)
               \/ (\E st \in Stream : HandlerEmit(w, st))
               \/ Deliver(w) \/ HandlerErr(w) \/ HandlerTimeout(w)
               \/ RecordAfterTimeout(w) \/ RecordGivesUp(w) \/ Lose(w)
        PROVE  UNCHANGED <<generation, moved>>
    BY Zenon, <2>2 DEF Claim, Select, Empty, HandlerEmit, Deliver, HandlerErr, HandlerTimeout,
                RecordAfterTimeout, RecordGivesUp, Lose
  <2>3. ASSUME NEW p \in Producer,
               \/ Begin(p) \/ Commit(p) \/ Abort(p) \/ \E st \in Stream : Append_event(p, st)
        PROVE  UNCHANGED <<generation, moved>>
    BY Zenon, <2>3 DEF Begin, Commit, Abort, Append_event
  <2>4. ASSUME \/ BumpLock \/ BumpLost \/ Boot \/ (\E z \in zombie : BackendEnds(z))
               \/ (\E st \in Stream : GcSelect(st)) \/ GcDelete \/ GcLose
        PROVE  UNCHANGED <<generation, moved>>
    BY Zenon, <2>4 DEF BumpLock, BumpLost, Boot, BackendEnds, GcSelect, GcDelete, GcLose
  <2>5. UNCHANGED vars => UNCHANGED <<generation, moved>>
    BY Zenon DEF vars
  <2> QED  BY Zenon, StepCases, <1>3, <2>1, <2>2, <2>3, <2>4, <2>5
<1> QED
  BY Zenon, <1>1, <1>2, <1>3

\* A settled position stays settled, through commits, bumps and restores.
LEMMA SettledNext ==
  ASSUME TypeOK, [Next]_vars, NEW p \in Pos, Settled(p)
  PROVE  Settled(p)'
<1>1. p[1] \in Nat /\ p[2] \in 0..MaxXid /\ generation \in Nat
  BY PosTypes DEF TypeOK
<1>2. CASE UNCHANGED <<generation, moved>> /\ ~Restore
  BY Zenon, <1>1, <1>2, XminNext DEF Settled
<1>3. CASE generation' = generation /\ moved' = TRUE
  BY Zenon, <1>1, <1>3 DEF Settled
<1>4. CASE generation' = generation + 1
  BY <1>1, <1>4 DEF Settled
<1> QED  BY Zenon, <1>2, <1>3, <1>4, MetaStep

-------------------------------------------------------------------------------
(* Subscription rows *)

\* The step leaves the checkpoint, the existence and the history of s alone.
KeepsRow(s) ==
  /\ row'[s].cursor = row[s].cursor
  /\ row'[s].state = "absent" <=> row[s].state = "absent"
  /\ applied'[s] = applied[s] /\ floor'[s] = floor[s] /\ skipped'[s] = skipped[s]

\* ... and the columns a claim reads.
SameRow(s) ==
  /\ row'[s].state = row[s].state
  /\ row'[s].cursor = row[s].cursor
  /\ row'[s].failures = row[s].failures

\* What record_failure does to the rows.
LEMMA RecordStep ==
  ASSUME TypeOK, NEW w \in Worker, Record_failure(w), Present(worker[w].sub)
  PROVE  /\ \A s \in Sub : row'[s].cursor = row[s].cursor
         /\ \A s \in Sub : row'[s].state = "absent" <=> row[s].state = "absent"
         /\ \A s \in Sub \ {worker[w].sub} : row'[s] = row[s]
<1> DEFINE s == worker[w].sub
           f == worker[w].failures + 1
           x == IF f >= PauseAfter THEN "paused" ELSE row[s].state
<1>1. s \in Sub /\ row[s] \in Row
  BY Zenon, Fields
<1>2. CASE row' = row
  BY Zenon, <1>2
<1>3. CASE row' = [row EXCEPT ![s] = [row[s] EXCEPT !.failures = f, !.due = FALSE, !.state = x]]
  <2>1. row'[s].cursor = row[s].cursor /\ row'[s].state = x
    BY Zenon, <1>1, <1>3 DEF TypeOK, Row
  <2>2. \A r \in Sub \ {s} : row'[r] = row[r]
    BY Zenon, <1>1, <1>3 DEF TypeOK
  <2>3. row[s].state # "absent" /\ x # "absent"
    BY Zenon DEF Present
  <2> QED  BY Zenon, <2>1, <2>2, <2>3
<1> QED  BY Zenon, <1>2, <1>3 DEF Record_failure

\* A checkpoint moves by a delivery, a skip or its registration, and by nothing else.
LEMMA RowStep ==
  ASSUME TypeOK, ILocks, [Next]_vars, NEW s \in Sub
  PROVE  \/ KeepsRow(s) \/ RegisterCommit(s) \/ Skip(s)
         \/ \E w \in Worker : Deliver(w) /\ worker[w].sub = s
<1> USE DEF meta, ids, data, hist
<1>1. CASE UNCHANGED <<row, applied, floor, skipped>>
  BY Zenon, <1>1 DEF KeepsRow
<1>2. ASSUME NEW r \in Sub, RegisterCommit(r) \/ Skip(r), r # s PROVE KeepsRow(s)
  BY Zenon, <1>2 DEF RegisterCommit, Skip, KeepsRow, TypeOK
<1>3. ASSUME NEW r \in Sub,
             \/ BackoffElapses(r) \/ Retry(r) \/ Resume(r)
             \/ \E x \in {"paused", "retired"} : Set_state(r, x)
      PROVE  KeepsRow(s)
  <2>1. UNCHANGED <<applied, floor, skipped>>
    BY Zenon, <1>3 DEF BackoffElapses, Retry, Resume, Set_state
  <2>2. row'[s].cursor = row[s].cursor /\ (row'[s].state = "absent" <=> row[s].state = "absent")
    <3>1. CASE BackoffElapses(r)
      BY Zenon, <3>1 DEF BackoffElapses, TypeOK, Row
    <3>2. CASE Retry(r)
      BY Zenon, <3>2 DEF Retry, TypeOK, Row
    <3>3. CASE Resume(r)
      BY Zenon, <3>3 DEF Resume, Operable, TypeOK, Row
    <3>4. ASSUME NEW x \in {"paused", "retired"}, Set_state(r, x)
          PROVE  row'[s].cursor = row[s].cursor /\ (row'[s].state = "absent" <=> row[s].state = "absent")
      BY Zenon, <3>4 DEF Set_state, Operable, TypeOK, Row
    <3> QED  BY Zenon, <1>3, <3>1, <3>2, <3>3, <3>4
  <2> QED  BY Zenon, <2>1, <2>2 DEF KeepsRow
<1>4. ASSUME NEW w \in Worker, Deliver(w), worker[w].sub # s PROVE KeepsRow(s)
  BY Zenon, <1>4, Fields DEF Deliver, KeepsRow, TypeOK
<1>5. ASSUME NEW w \in Worker, HandlerErr(w) \/ RecordAfterTimeout(w) PROVE KeepsRow(s)
  <2>1. UNCHANGED <<applied, floor, skipped>> /\ Record_failure(w)
    BY Zenon, <1>5 DEF HandlerErr, RecordAfterTimeout
  <2>2. Present(worker[w].sub)
    BY Zenon, <1>5 DEF HandlerErr, RecordAfterTimeout, ILocks, ClaimIsCurrent, Delivering, Present
  <2> QED  BY Zenon, <2>1, <2>2, RecordStep DEF KeepsRow
<1>6. ASSUME NEW w \in Worker,
             \/ (\E r \in Sub : Claim(w, r)) \/ Select(w) \/ Empty(w)
             \/ (\E st \in Stream : HandlerEmit(w, st))
             \/ HandlerTimeout(w) \/ RecordGivesUp(w) \/ Lose(w)
      PROVE  UNCHANGED <<row, applied, floor, skipped>>
  BY Zenon, <1>6 DEF Claim, Select, Empty, HandlerEmit, HandlerTimeout, RecordGivesUp, Lose
<1>7. ASSUME NEW p \in Producer,
             \/ Begin(p) \/ Commit(p) \/ Abort(p) \/ \E st \in Stream : Append_event(p, st)
      PROVE  UNCHANGED <<row, applied, floor, skipped>>
  BY Zenon, <1>7 DEF Begin, Commit, Abort, Append_event
<1>8. ASSUME \/ BumpLock \/ BumpCommit \/ BumpLost \/ Boot \/ Restore
             \/ (\E z \in zombie : BackendEnds(z))
             \/ (\E st \in Stream : GcSelect(st)) \/ GcDelete \/ GcLose
      PROVE  UNCHANGED <<row, applied, floor, skipped>>
  BY Zenon, <1>8
     DEF BumpLock, BumpCommit, BumpLost, Boot, Restore, BackendEnds, GcSelect, GcDelete, GcLose
<1>9. ASSUME NEW r \in Sub, RegisterInsert(r) \/ RegisterAbort(r)
      PROVE  UNCHANGED <<row, applied, floor, skipped>>
  BY Zenon, <1>9 DEF RegisterInsert, RegisterAbort
<1>10. UNCHANGED vars => UNCHANGED <<row, applied, floor, skipped>>
  BY Zenon DEF vars
<1> QED
  BY Zenon, StepCases, <1>1, <1>2, <1>3, <1>4, <1>5, <1>6, <1>7, <1>8, <1>9, <1>10

\* A registered subscription stays registered.
LEMMA PresentStays ==
  ASSUME TypeOK, ILocks, [Next]_vars, NEW s \in Sub, Present(s)
  PROVE  Present(s)'
<1>1. CASE KeepsRow(s)
  BY Zenon, <1>1 DEF KeepsRow, Present
<1>2. CASE RegisterCommit(s)
  BY Zenon, <1>2 DEF RegisterCommit, Present, TypeOK
<1>3. CASE Skip(s)
  BY <1>3 DEF Skip, Present, TypeOK
<1>4. ASSUME NEW w \in Worker, Deliver(w), worker[w].sub = s PROVE Present(s)'
  BY Zenon, <1>4 DEF Deliver, Present, TypeOK
<1> QED  BY Zenon, RowStep, <1>1, <1>2, <1>3, <1>4

-------------------------------------------------------------------------------
(* Rows and their locks *)

\* A row has one holder, and what its holder read of it stays current: everything
\* else that writes the row waits for the lock.
LEMMA LocksNext == ASSUME TypeOK, ILocks, [Next]_vars PROVE ILocks'
<1> USE DEF meta, ids, data, hist
<1> USE IdleFields
<1> DEFINE Exclusive ==
             /\ \A v, w \in Delivering : worker[v].sub = worker[w].sub => v = w
             /\ \A w \in Delivering : \A z \in zombie : z.sub # worker[w].sub
             /\ ClaimIsCurrent
           Still == UNCHANGED <<worker, zombie, row>>
           Holds(v) == /\ v \in Delivering
                       /\ worker'[v].sub = worker[v].sub
                       /\ worker'[v].cursor = worker[v].cursor
                       /\ worker'[v].failures = worker[v].failures
                       /\ SameRow(worker[v].sub)
<1>0. Exclusive
  BY Zenon DEF ILocks
<1>1. ASSUME \A v \in Delivering' : Holds(v),
             \A z \in zombie' : \/ z \in zombie
                                \/ \E w \in Delivering \ Delivering' : z.sub = worker[w].sub
      PROVE  Exclusive'
  <2>1. \A v \in Delivering' : v \in Delivering /\ worker'[v].sub = worker[v].sub
    BY Zenon, <1>1
  <2>2. \A v, w \in Delivering' : worker'[v].sub = worker'[w].sub => v = w
    BY Zenon, <2>1, <1>0
  <2>3. ASSUME NEW w \in Delivering', NEW z \in zombie' PROVE z.sub # worker'[w].sub
    BY <1>0, <1>1, <2>1, <2>3
  <2>4. ClaimIsCurrent'
    BY <1>0, <1>1 DEF ClaimIsCurrent, SameRow
  <2> QED  BY Zenon, <2>2, <2>3, <2>4
<1>2. ASSUME UNCHANGED <<worker, zombie>>,
             \A v \in Delivering : SameRow(worker[v].sub)
      PROVE  Exclusive'
  <2>1. Delivering' = Delivering
    BY Zenon, <1>2 DEF Delivering
  <2> QED  BY Zenon, <1>1, <1>2, <2>1
<1>3. ASSUME UNCHANGED row PROVE \A s \in Sub : SameRow(s)
  BY Zenon, <1>3 DEF SameRow
<1>4. \A v \in Delivering : worker[v].sub \in Sub /\ Locked(worker[v].sub)
  BY Zenon, Fields DEF Locked, Delivering
<1>5. ASSUME NEW s \in Sub,
             \/ Retry(s) \/ Resume(s) \/ Skip(s)
             \/ \E x \in {"paused", "retired"} : Set_state(s, x)
      PROVE  Exclusive'
  <2>1. ~Locked(s) /\ UNCHANGED <<worker, zombie>>
    BY Zenon, <1>5 DEF Retry, Resume, Skip, Set_state, Operable, OperatorFrame
  <2>2. \A r \in Sub \ {s} : row'[r] = row[r]
    BY Zenon, <1>5 DEF Retry, Resume, Skip, Set_state, TypeOK
  <2> QED  BY Zenon, <1>2, <1>4, <2>1, <2>2 DEF SameRow
<1>6. ASSUME NEW s \in Sub, BackoffElapses(s) PROVE Exclusive'
  <2>1. UNCHANGED <<worker, zombie>> /\ \A r \in Sub : SameRow(r)
    BY Zenon, <1>6 DEF BackoffElapses, SameRow, TypeOK, Row
  <2> QED  BY Zenon, <1>2, <1>4, <2>1
<1>7. ASSUME NEW s \in Sub, RegisterCommit(s) PROVE Exclusive'
  <2>1. UNCHANGED <<worker, zombie>> /\ \A r \in Sub \ {s} : row'[r] = row[r]
    BY Zenon, <1>7 DEF RegisterCommit, TypeOK
  <2>2. \A v \in Delivering : worker[v].sub # s
    BY Zenon, <1>7 DEF RegisterCommit, ILocks, ClaimIsCurrent, Present
  <2> QED  BY Zenon, <1>2, <1>4, <2>1, <2>2 DEF SameRow
<1>8. ASSUME Still PROVE Exclusive'
  BY Zenon, <1>2, <1>3, <1>4, <1>8
<1>9. ASSUME Restore PROVE Exclusive'
  <2>1. Delivering' = {}
    BY Zenon, <1>9 DEF Restore, Delivering
  <2> QED  BY Zenon, <2>1 DEF ClaimIsCurrent
<1>10. ASSUME NEW w \in Worker, NEW s \in Sub, Claim(w, s) PROVE Exclusive'
  <2>1. /\ UNCHANGED <<row, zombie>> /\ ~Locked(s) /\ row[s].state = "active"
        /\ \A v \in Worker \ {w} : worker'[v] = worker[v]
        /\ worker'[w].sub = s /\ worker'[w].cursor = row[s].cursor
        /\ worker'[w].failures = row[s].failures
    BY Zenon, <1>10 DEF Claim, TypeOK
  <2>2. \A v \in Delivering' \ {w} : v \in Delivering /\ worker'[v] = worker[v] /\ worker[v].sub # s
    BY Zenon, <2>1 DEF Delivering, Locked
  <2>3. \A v, u \in Delivering' : worker'[v].sub = worker'[u].sub => v = u
    BY <1>0, <2>1, <2>2
  <2>4. ASSUME NEW v \in Delivering', NEW z \in zombie' PROVE z.sub # worker'[v].sub
    BY <1>0, <2>1, <2>2 DEF Locked
  <2>5. ClaimIsCurrent'
    BY <1>0, <2>1, <2>2 DEF ClaimIsCurrent
  <2> QED  BY Zenon, <2>3, <2>4, <2>5
<1>11. ASSUME NEW w \in Worker, Select(w) \/ (\E st \in Stream : HandlerEmit(w, st)) PROVE Exclusive'
  <2>1. UNCHANGED <<row, zombie>>
    BY Zenon, <1>11 DEF Select, HandlerEmit
  <2>2. /\ \A v \in Worker \ {w} : worker'[v] = worker[v]
        /\ worker'[w].sub = worker[w].sub /\ worker'[w].cursor = worker[w].cursor
        /\ worker'[w].failures = worker[w].failures /\ w \in Delivering
    <3>1. CASE Select(w)
      BY <3>1 DEF Select, Delivering, TypeOK, Attempt
    <3>2. CASE \E st \in Stream : HandlerEmit(w, st)
      BY <3>2 DEF HandlerEmit, Delivering, TypeOK, Attempt
    <3> QED  BY Zenon, <1>11, <3>1, <3>2
  <2>3. \A v \in Delivering' : Holds(v)
    BY Zenon, <1>3, <1>4, <2>1, <2>2 DEF Delivering
  <2> QED  BY Zenon, <1>1, <2>1, <2>3
<1>12. ASSUME NEW w \in Worker,
             \/ Empty(w) \/ HandlerErr(w) \/ Deliver(w)
             \/ RecordAfterTimeout(w) \/ RecordGivesUp(w)
      PROVE  Exclusive'
  <2>1. UNCHANGED zombie /\ worker' = [worker EXCEPT ![w] = Idle]
    BY Zenon, <1>12 DEF Empty, HandlerErr, Deliver, RecordAfterTimeout, RecordGivesUp
  <2>2. \A v \in Delivering' : v \in Delivering /\ v # w /\ worker'[v] = worker[v]
    BY Zenon, <2>1 DEF Delivering, TypeOK
  <2>3. \A v \in Delivering' : SameRow(worker[v].sub)
    <3>1. CASE Empty(w) \/ RecordGivesUp(w)
      BY Zenon, <3>1, <1>3, <1>4, <2>2 DEF Empty, RecordGivesUp
    <3>2. CASE Deliver(w)
      <4>1. \A v \in Delivering' : worker[v].sub # worker[w].sub
        BY Zenon, <1>0, <2>2, <3>2 DEF Deliver, Delivering
      <4>2. \A r \in Sub \ {worker[w].sub} : row'[r] = row[r]
        BY Zenon, <3>2 DEF Deliver, TypeOK
      <4> QED  BY Zenon, <1>4, <2>2, <4>1, <4>2 DEF SameRow
    <3>3. CASE HandlerErr(w)
      <4>1. \A v \in Delivering' : worker[v].sub # worker[w].sub
        BY Zenon, <1>0, <2>2, <3>3 DEF HandlerErr, Delivering
      <4>2. Present(worker[w].sub)
        BY Zenon, <1>0, <3>3 DEF HandlerErr, Delivering, ClaimIsCurrent, Present
      <4>3. \A r \in Sub \ {worker[w].sub} : row'[r] = row[r]
        BY Zenon, <3>3, <4>2, RecordStep DEF HandlerErr
      <4> QED  BY Zenon, <1>4, <2>2, <4>1, <4>3 DEF SameRow
    <3>4. CASE RecordAfterTimeout(w)
      <4>1. \A v \in Delivering' : worker[v].sub # worker[w].sub
        BY Zenon, <1>4, <2>2, <3>4 DEF RecordAfterTimeout
      <4>2. Present(worker[w].sub)
        BY Zenon, <3>4 DEF RecordAfterTimeout, ILocks
      <4>3. \A r \in Sub \ {worker[w].sub} : row'[r] = row[r]
        BY Zenon, <3>4, <4>2, RecordStep DEF RecordAfterTimeout
      <4> QED  BY Zenon, <1>4, <2>2, <4>1, <4>3 DEF SameRow
    <3> QED  BY Zenon, <1>12, <3>1, <3>2, <3>3, <3>4
  <2> QED  BY Zenon, <1>1, <2>1, <2>2, <2>3
<1>13. ASSUME NEW w \in Worker, HandlerTimeout(w) \/ Lose(w) PROVE Exclusive'
  <2>1. UNCHANGED row /\ zombie' = zombie \cup {Backend(w)} /\ w \in Delivering
    BY Zenon, <1>13 DEF HandlerTimeout, Lose, Delivering
  <2>2. \A v \in Delivering' : v \in Delivering /\ v # w /\ worker'[v] = worker[v]
    <3>1. CASE HandlerTimeout(w)
      BY <3>1 DEF HandlerTimeout, Delivering, TypeOK, Attempt
    <3>2. CASE Lose(w)
      BY Zenon, <3>2 DEF Lose, Delivering, TypeOK
    <3> QED  BY Zenon, <1>13, <3>1, <3>2
  <2>3. Backend(w).sub = worker[w].sub
    BY Zenon DEF Backend
  <2> QED  BY Zenon, <1>1, <1>3, <1>4, <2>1, <2>2, <2>3
<1>14. ASSUME NEW z \in zombie, BackendEnds(z) PROVE Exclusive'
  <2>1. UNCHANGED <<row, worker>> /\ zombie' \subseteq zombie
    BY Zenon, <1>14 DEF BackendEnds
  <2>2. Delivering' = Delivering
    BY Zenon, <2>1 DEF Delivering
  <2> QED  BY Zenon, <1>1, <1>3, <1>4, <2>1, <2>2
<1>15. Exclusive'
  <2>1. ASSUME NEW p \in Producer,
               \/ Begin(p) \/ Commit(p) \/ Abort(p) \/ \E st \in Stream : Append_event(p, st)
        PROVE  Still
    BY Zenon, <2>1 DEF Begin, Commit, Abort, Append_event
  <2>2. ASSUME \/ BumpLock \/ BumpCommit \/ BumpLost \/ Boot
               \/ (\E st \in Stream : GcSelect(st)) \/ GcDelete \/ GcLose
        PROVE  Still
    BY Zenon, <2>2 DEF BumpLock, BumpCommit, BumpLost, Boot, GcSelect, GcDelete, GcLose
  <2>3. ASSUME NEW r \in Sub, RegisterInsert(r) \/ RegisterAbort(r)
        PROVE  Still
    BY Zenon, <2>3 DEF RegisterInsert, RegisterAbort
  <2>4. UNCHANGED vars => Still
    BY Zenon DEF vars
  <2> HIDE DEF Exclusive, Still
  <2> QED
    BY Zenon, StepCases, <1>5, <1>6, <1>7, <1>8, <1>9, <1>10, <1>11, <1>12, <1>13, <1>14,
       <2>1, <2>2, <2>3, <2>4

<1>16. ASSUME NEW w \in Worker, worker'[w].phase = "record"
       PROVE  /\ worker[w].phase = "record" \/ w \in Delivering
              /\ worker'[w].sub = worker[w].sub
  <2> DEFINE Goal == /\ worker[w].phase = "record" \/ w \in Delivering
                     /\ worker'[w].sub = worker[w].sub
  <2>1. ASSUME worker' = worker PROVE Goal
    BY Zenon, <1>16, <2>1
  <2>2. ASSUME NEW v \in Worker, worker' = [worker EXCEPT ![v] = Idle] PROVE Goal
    BY Zenon, <1>16, <2>2 DEF TypeOK
  <2>3. ASSUME NEW v \in Worker, NEW s \in Sub, Claim(v, s) PROVE Goal
    BY Zenon, <1>16, <2>3 DEF Claim, TypeOK
  <2>4. ASSUME NEW v \in Worker, Select(v) PROVE Goal
    BY <1>16, <2>4 DEF Select, TypeOK, Attempt
  <2>5. ASSUME NEW v \in Worker, NEW st \in Stream, HandlerEmit(v, st) PROVE Goal
    BY Zenon, <1>16, <2>5 DEF HandlerEmit, TypeOK, Attempt
  <2>6. ASSUME NEW v \in Worker, HandlerTimeout(v) PROVE Goal
    BY <1>16, <2>6 DEF HandlerTimeout, TypeOK, Attempt, Delivering
  <2>7. ASSUME Restore PROVE Goal
    BY Zenon, <1>16, <2>7 DEF Restore
  <2>8. ASSUME NEW v \in Worker,
               \/ Empty(v) \/ HandlerErr(v) \/ Deliver(v)
               \/ RecordAfterTimeout(v) \/ RecordGivesUp(v) \/ Lose(v)
        PROVE  worker' = [worker EXCEPT ![v] = Idle]
    BY Zenon, <2>8 DEF Empty, HandlerErr, Deliver, RecordAfterTimeout, RecordGivesUp, Lose
  <2>9. ASSUME NEW p \in Producer,
               \/ Begin(p) \/ Commit(p) \/ Abort(p) \/ \E st \in Stream : Append_event(p, st)
        PROVE  worker' = worker
    BY Zenon, <2>9 DEF Begin, Commit, Abort, Append_event
  <2>10. ASSUME \/ BumpLock \/ BumpCommit \/ BumpLost \/ Boot
                \/ (\E z \in zombie : BackendEnds(z))
                \/ (\E st \in Stream : GcSelect(st)) \/ GcDelete \/ GcLose
         PROVE  worker' = worker
    BY Zenon, <2>10
       DEF BumpLock, BumpCommit, BumpLost, Boot, BackendEnds, GcSelect, GcDelete, GcLose
  <2>11. ASSUME NEW s \in Sub,
                \/ RegisterInsert(s) \/ RegisterCommit(s) \/ RegisterAbort(s)
                \/ BackoffElapses(s) \/ Retry(s) \/ Resume(s) \/ Skip(s)
                \/ \E x \in {"paused", "retired"} : Set_state(s, x)
         PROVE  worker' = worker
    BY Zenon, <2>11
       DEF RegisterInsert, RegisterCommit, RegisterAbort, BackoffElapses, Retry, Resume,
                 Skip, Set_state, OperatorFrame
  <2>12. UNCHANGED vars => worker' = worker
    BY Zenon DEF vars
  <2> HIDE DEF Goal
  <2>13. Goal
    BY Zenon, StepCases, <2>1, <2>2, <2>3, <2>4, <2>5, <2>6, <2>7, <2>8, <2>9, <2>10, <2>11, <2>12
  <2> QED  BY Zenon, <2>13 DEF Goal
<1>17. ASSUME NEW w \in Worker, worker'[w].phase = "record"
       PROVE  row'[worker'[w].sub].state # "absent"
  <2>1. worker[w].sub \in Sub /\ Present(worker[w].sub)
    BY Zenon, <1>16, <1>17, Fields DEF ILocks, ClaimIsCurrent, Present
  <2>2. worker'[w].sub = worker[w].sub
    BY Zenon, <1>16, <1>17
  <2> QED  BY Zenon, <2>1, <2>2, PresentStays DEF Present
<1>18. ASSUME NEW s \in Sub, pending'[s].xid # 0 PROVE ~Present(s)'
  <2>1. CASE RegisterInsert(s)
    BY Zenon, <2>1 DEF RegisterInsert, Present
  <2>2. CASE pending'[s] = pending[s]
    <3>1. ~Present(s)
      BY Zenon, <1>18, <2>2 DEF ILocks
    <3>2. ~Skip(s) /\ ~\E w \in Worker : Deliver(w) /\ worker[w].sub = s
      BY Zenon, <3>1 DEF Skip, Operable, Present, Deliver, ILocks, ClaimIsCurrent, Delivering
    <3>3. CASE RegisterCommit(s)
      BY Zenon, <1>18, <3>3 DEF RegisterCommit, TypeOK, NoPending
    <3>4. CASE KeepsRow(s)
      BY Zenon, <3>1, <3>4 DEF KeepsRow, Present
    <3> QED  BY Zenon, RowStep, <3>2, <3>3, <3>4
  <2>3. ASSUME NEW r \in Sub, RegisterInsert(r), r # s PROVE pending'[s] = pending[s]
    BY Zenon, <2>3 DEF RegisterInsert, TypeOK
  <2>4. ASSUME NEW r \in Sub, RegisterCommit(r) \/ RegisterAbort(r) PROVE pending'[s] = pending[s]
    BY <1>18, <2>4 DEF RegisterCommit, RegisterAbort, TypeOK, NoPending
  <2>5. CASE Restore
    BY Zenon, <1>18, <2>5 DEF Restore, NoPending
  <2>6. ASSUME NEW r \in Sub,
               \/ BackoffElapses(r) \/ Retry(r) \/ Resume(r) \/ Skip(r)
               \/ \E x \in {"paused", "retired"} : Set_state(r, x)
        PROVE  pending' = pending
    BY Zenon, <2>6 DEF BackoffElapses, Retry, Resume, Skip, Set_state, OperatorFrame
  <2>7. ASSUME NEW w \in Worker,
               \/ (\E r \in Sub : Claim(w, r)) \/ Select(w) \/ Empty(w)
               \/ (\E st \in Stream : HandlerEmit(w, st))
               \/ Deliver(w) \/ HandlerErr(w) \/ HandlerTimeout(w)
               \/ RecordAfterTimeout(w) \/ RecordGivesUp(w) \/ Lose(w)
        PROVE  pending' = pending
    BY Zenon, <2>7 DEF Claim, Select, Empty, HandlerEmit, Deliver, HandlerErr, HandlerTimeout,
                RecordAfterTimeout, RecordGivesUp, Lose
  <2>8. ASSUME NEW p \in Producer,
               \/ Begin(p) \/ Commit(p) \/ Abort(p) \/ \E st \in Stream : Append_event(p, st)
        PROVE  pending' = pending
    BY Zenon, <2>8 DEF Begin, Commit, Abort, Append_event
  <2>9. ASSUME \/ BumpLock \/ BumpCommit \/ BumpLost \/ Boot
               \/ (\E z \in zombie : BackendEnds(z))
               \/ (\E st \in Stream : GcSelect(st)) \/ GcDelete \/ GcLose
        PROVE  pending' = pending
    BY Zenon, <2>9 DEF BumpLock, BumpCommit, BumpLost, Boot, BackendEnds, GcSelect, GcDelete, GcLose
  <2>10. UNCHANGED vars => pending' = pending
    BY Zenon DEF vars
  <2>11. pending'[s] = pending[s] \/ RegisterInsert(s) \/ Restore
    BY Zenon, StepCases, <2>3, <2>4, <2>6, <2>7, <2>8, <2>9, <2>10
  <2> QED  BY Zenon, <2>1, <2>2, <2>5, <2>11
<1> QED  BY Zenon, <1>15, <1>17, <1>18 DEF ILocks, Present

-------------------------------------------------------------------------------
(* The log *)

\* The steps that change the log or what has been removed from it.
LEMMA LogKinds ==
  ASSUME [Next]_vars
  PROVE  \/ UNCHANGED <<log, deleted, excused>> \/ GcDelete
         \/ (\E p \in Producer : Commit(p)) \/ (\E w \in Worker : Deliver(w))
<1> USE DEF meta, ids, data, hist
<1> DEFINE Still == UNCHANGED <<log, deleted, excused>>
<1>1. ASSUME NEW p \in Producer, Begin(p) \/ Abort(p) \/ (\E st \in Stream : Append_event(p, st))
      PROVE  Still
  BY Zenon, <1>1 DEF Begin, Abort, Append_event
<1>2. ASSUME \/ BumpLock \/ BumpCommit \/ BumpLost \/ Boot \/ Restore
             \/ (\E z \in zombie : BackendEnds(z))
             \/ (\E st \in Stream : GcSelect(st)) \/ GcLose
      PROVE  Still
  BY Zenon, <1>2 DEF BumpLock, BumpCommit, BumpLost, Boot, Restore, BackendEnds, GcSelect, GcLose
<1>3. ASSUME NEW s \in Sub,
             \/ RegisterInsert(s) \/ RegisterCommit(s) \/ RegisterAbort(s)
             \/ BackoffElapses(s) \/ Retry(s) \/ Resume(s) \/ Skip(s)
             \/ \E x \in {"paused", "retired"} : Set_state(s, x)
      PROVE  Still
  BY Zenon, <1>3 DEF RegisterInsert, RegisterCommit, RegisterAbort, BackoffElapses, Retry, Resume,
              Skip, Set_state, OperatorFrame
<1>4. ASSUME NEW w \in Worker,
             \/ (\E s \in Sub : Claim(w, s)) \/ Select(w) \/ Empty(w)
             \/ (\E st \in Stream : HandlerEmit(w, st)) \/ HandlerErr(w) \/ HandlerTimeout(w)
             \/ RecordAfterTimeout(w) \/ RecordGivesUp(w) \/ Lose(w)
      PROVE  Still
  BY Zenon, <1>4 DEF Claim, Select, Empty, HandlerEmit, HandlerErr, HandlerTimeout,
              RecordAfterTimeout, RecordGivesUp, Lose
<1>5. UNCHANGED vars => Still
  BY Zenon DEF vars
<1> HIDE DEF Still
<1>6. \/ Still \/ GcDelete \/ (\E p \in Producer : Commit(p)) \/ (\E w \in Worker : Deliver(w))
  BY Zenon, StepCases, <1>1, <1>2, <1>3, <1>4, <1>5
<1> QED  BY Zenon, <1>6 DEF Still

\* Events enter the log only by the commit of the transaction that appended them.
LEMMA LogStep ==
  ASSUME TypeOK, [Next]_vars
  PROVE  /\ \A e \in log' \cup deleted' :
              \/ e \in log \cup deleted
              \/ \E p \in Producer : Commit(p) /\ e \in producer[p].wrote
              \/ \E w \in Worker : Deliver(w) /\ e \in worker[w].wrote
         /\ \A e \in log' \ log :
              \/ \E p \in Producer : Commit(p) /\ e \in producer[p].wrote
              \/ \E w \in Worker : Deliver(w) /\ e \in worker[w].wrote
         /\ \A s \in Sub : excused[s] \subseteq excused'[s]
<1> USE DEF meta, ids, data, hist
<1>1. ASSUME NEW p \in Producer, Commit(p)
      PROVE log' = log \cup producer[p].wrote /\ UNCHANGED <<deleted, excused>>
  BY Zenon, <1>1 DEF Commit, Publish
<1>2. ASSUME NEW w \in Worker, Deliver(w)
      PROVE log' = log \cup worker[w].wrote /\ UNCHANGED <<deleted, excused>>
  BY Zenon, <1>2 DEF Deliver, Publish
<1>3. ASSUME GcDelete
      PROVE  /\ log' \subseteq log /\ log' \cup deleted' \subseteq log \cup deleted
             /\ \A s \in Sub : excused[s] \subseteq excused'[s]
  BY Zenon, <1>3 DEF GcDelete
<1> QED  BY Zenon, LogKinds, <1>1, <1>2, <1>3

\* An event that is still to be committed lies past every settled position.
LEMMA FreshIsLater ==
  ASSUME TypeOK, IUp, IEvents, NEW p \in Pos, Settled(p), NEW e \in Event,
         \/ \E q \in Producer : e \in producer[q].wrote
         \/ \E w \in Worker : worker[w].phase = "handling" /\ e \in worker[w].wrote
  PROVE  Lt(p, e.pos)
<1>1. p[1] \in Int /\ p[2] \in Int /\ e.pos[1] \in Int /\ e.pos[2] \in Int
  BY PosTypes, Fields, ConstantsAssumption
<1>2. up /\ ~moved
  BY Zenon DEF IUp, Delivering
<1>3. e.pos[1] = generation
  BY Zenon DEF IEvents
<1>4. BelowXmin(p[2]) => p[2] < e.pos[2]
  <2>1. ASSUME NEW q \in Producer, e \in producer[q].wrote, BelowXmin(p[2]) PROVE p[2] < e.pos[2]
    BY Zenon, <2>1 DEF BelowXmin, IEvents, IUp
  <2>2. ASSUME NEW w \in Worker, worker[w].phase = "handling", e \in worker[w].wrote, BelowXmin(p[2])
        PROVE  p[2] < e.pos[2]
    BY Zenon, <2>2 DEF BelowXmin, IEvents, Delivering
  <2> QED  BY Zenon, <2>1, <2>2
<1>5. generation \in Int
  BY DEF TypeOK
<1> QED  BY <1>1, <1>2, <1>3, <1>4, <1>5 DEF Settled, Lt

\* ... in particular one that a step commits.
LEMMA CommittedIsLater ==
  ASSUME TypeOK, IUp, IEvents, [Next]_vars, NEW p \in Pos, Settled(p),
         NEW e \in log' \cup deleted', e \notin log \cup deleted
  PROVE  Lt(p, e.pos) /\ e.pos \in Pos
<1>1. CASE \E q \in Producer : Commit(q) /\ e \in producer[q].wrote
  BY Zenon, <1>1, FreshIsLater, Fields
<1>2. CASE \E w \in Worker : Deliver(w) /\ e \in worker[w].wrote
  <2>1. \E w \in Worker : worker[w].phase = "handling" /\ e \in worker[w].wrote
    BY Zenon, <1>2 DEF Deliver
  <2> QED  BY Zenon, <2>1, FreshIsLater, Fields
<1> QED  BY Zenon, LogStep, <1>1, <1>2

\* What is older than a transaction below the frontier is below it too.
LEMMA BelowXminDown ==
  ASSUME TypeOK, NEW x \in Int, NEW y \in Int, x <= y, BelowXmin(y)
  PROVE  BelowXmin(x)
<1>1. /\ nextXid \in Int
      /\ \A p \in Producer : producer[p].xid \in Int
      /\ \A w \in Worker : worker[w].xid \in Int
      /\ \A z \in zombie : z.xid \in Int
      /\ \A t \in Sub : pending[t].xid \in Int
  <2>1. nextXid \in Int
    BY DEF TypeOK
  <2>2. 0..MaxXid \subseteq Int
    OBVIOUS
  <2> QED  BY Zenon, <2>1, <2>2, Fields
<1>2. x < nextXid /\ \A p \in Producer : producer[p].xid # 0 => x < producer[p].xid
  BY <1>1 DEF BelowXmin
<1>3. \A w \in Delivering : x < worker[w].xid
  BY <1>1 DEF BelowXmin, Delivering
<1>4. (\A z \in zombie : x < z.xid) /\ \A t \in Sub : pending[t].xid # 0 => x < pending[t].xid
  BY <1>1 DEF BelowXmin
<1> QED  BY Zenon, <1>2, <1>3, <1>4 DEF BelowXmin

\* The event a select returns is settled, and nothing of its stream that is in
\* the log lies between the cursor and it.
LEMMA SelectedIsNext ==
  ASSUME TypeOK, IEvents, NEW st \in Stream, NEW c \in Pos, NEW e \in log, IsNext(e, st, c)
  PROVE  /\ e.stream = st /\ e.pos \in Pos /\ Lt(c, e.pos)
         /\ Settled(e.pos)
         /\ \A d \in log : d.stream = st /\ Lt(c, d.pos) => Leq(e.pos, d.pos)
<1>1. e.pos \in Pos /\ generation \in Int
  <2>1. log \subseteq Event /\ generation \in Int
    BY DEF TypeOK
  <2> QED  BY Zenon, <2>1, Fields
<1>2. e.pos[1] \in Int /\ e.pos[2] \in Int
  BY <1>1, PosTypes
<1>3. /\ e.stream = st /\ Lt(c, e.pos)
      /\ e.pos[1] < generation \/ BelowXmin(e.pos[2])
  BY Zenon DEF IsNext, Eligible
<1>4. Settled(e.pos)
  BY Zenon, <1>3 DEF Settled, IEvents
<1>5. ASSUME NEW d \in log, d.stream = st, Lt(c, d.pos), ~Leq(e.pos, d.pos) PROVE FALSE
  <2>1. d.pos \in Pos /\ d.pos[1] <= generation
    BY Zenon, Fields DEF TypeOK, IEvents
  <2>2. d.pos[1] \in Int /\ d.pos[2] \in Int
    BY <2>1, PosTypes
  <2>3. Lt(d.pos, e.pos)
    BY Zenon, <1>1, <1>5, <2>1, LtTotal
  <2>4. d.pos[1] < generation \/ d.pos[2] <= e.pos[2]
    BY <1>1, <1>2, <1>3, <2>1, <2>2, <2>3, e.pos[1] <= generation DEF Lt, IEvents
  <2>5. BelowXmin(e.pos[2]) /\ d.pos[2] <= e.pos[2] => BelowXmin(d.pos[2])
    BY Zenon, <1>2, <2>2, BelowXminDown
  <2>6. d.pos[1] < generation \/ BelowXmin(d.pos[2])
    BY <1>1, <1>2, <1>3, <2>2, <2>3, <2>4, <2>5 DEF Lt
  <2>7. d \in Eligible(st, c)
    BY Zenon, <1>5, <2>6 DEF Eligible
  <2> QED  BY Zenon, <1>5, <2>7 DEF IsNext
<1> QED  BY Zenon, <1>1, <1>3, <1>4, <1>5

-------------------------------------------------------------------------------
(* Checkpoints, deliveries and retention *)

\* What a delivery does to the row and the history of s.
LEMMA DeliverStep ==
  ASSUME TypeOK, ILocks, IHandling, NEW w \in Worker, Deliver(w)
  PROVE  LET s == worker[w].sub IN
         /\ s \in Sub /\ Present(s) /\ row[s].state = "active" /\ row[s].cursor = worker[w].cursor
         /\ row'[s].cursor = worker[w].ev.pos /\ row'[s].state = "active"
         /\ applied'[s] = Append(applied[s], worker[w].ev.pos)
         /\ floor'[s] = floor[s] /\ skipped'[s] = skipped[s]
         /\ Lt(row[s].cursor, worker[w].ev.pos) /\ Settled(worker[w].ev.pos)
<1> DEFINE s == worker[w].sub
<1>1. worker[w].phase = "handling" /\ w \in Delivering /\ s \in Sub
  BY Zenon, Fields DEF Deliver, Delivering
<1>2. Present(s) /\ row[s].state = "active" /\ row[s].cursor = worker[w].cursor
  BY Zenon, <1>1 DEF ILocks, ClaimIsCurrent, Present
<1>3. /\ row'[s].cursor = worker[w].ev.pos /\ row'[s].state = "active"
      /\ applied'[s] = Append(applied[s], worker[w].ev.pos)
      /\ floor'[s] = floor[s] /\ skipped'[s] = skipped[s]
  BY Zenon, <1>1, <1>2 DEF Deliver, TypeOK
<1>4. Lt(row[s].cursor, worker[w].ev.pos) /\ Settled(worker[w].ev.pos)
  BY Zenon, <1>1, <1>2 DEF IHandling
<1> QED  BY Zenon, <1>1, <1>2, <1>3, <1>4

\* What a skip does to the row and the history of s.
LEMMA SkipStep ==
  ASSUME TypeOK, IEvents, NEW s \in Sub, Skip(s)
  PROVE  /\ Present(s) /\ UNCHANGED <<log, deleted, excused, applied, floor>>
         /\ \E e \in log : /\ IsNext(e, StreamOf[s], row[s].cursor)
                           /\ row'[s].cursor = e.pos /\ row'[s].state = "active"
                           /\ skipped'[s] = skipped[s] \cup {e.pos}
                           /\ e.pos \in Pos /\ Lt(row[s].cursor, e.pos) /\ Settled(e.pos)
<1>1. Present(s) /\ UNCHANGED <<log, deleted, excused, applied, floor>>
  BY Zenon DEF Skip, Operable, Present, OperatorFrame, data
<1>2. PICK e \in log : /\ IsNext(e, StreamOf[s], row[s].cursor)
                       /\ row'[s].cursor = e.pos /\ row'[s].state = "active"
                       /\ skipped'[s] = skipped[s] \cup {e.pos}
  BY DEF Skip, TypeOK
<1>3. StreamOf[s] \in Stream /\ row[s].cursor \in Pos
  BY Zenon, Fields
<1>4. e.pos \in Pos /\ Lt(row[s].cursor, e.pos) /\ Settled(e.pos)
  BY Zenon, <1>2, <1>3, SelectedIsNext
<1> QED  BY Zenon, <1>1, <1>2, <1>4

\* A registration puts the checkpoint and the floor at the same place.
LEMMA RegisterStep ==
  ASSUME TypeOK, ILocks, NEW s \in Sub, RegisterCommit(s)
  PROVE  /\ ~Present(s) /\ Present(s)' /\ row'[s].cursor = floor'[s]
         /\ UNCHANGED <<log, deleted, excused, applied>>
BY Zenon DEF RegisterCommit, ILocks, Present, TypeOK, data

\* A checkpoint never moves back.
LEMMA CursorMono ==
  ASSUME TypeOK, IEvents, ILocks, IHandling, [Next]_vars, NEW s \in Sub, Present(s)
  PROVE  row[s].cursor \in Pos /\ row'[s].cursor \in Pos /\ Leq(row[s].cursor, row'[s].cursor)
<1>1. row[s].cursor \in Pos
  BY Zenon, Fields
<1>2. CASE KeepsRow(s)
  BY Zenon, <1>1, <1>2 DEF KeepsRow, Leq
<1>3. CASE RegisterCommit(s)
  BY Zenon, <1>3, RegisterStep
<1>4. CASE Skip(s)
  BY Zenon, <1>1, <1>4, SkipStep DEF Leq
<1>5. ASSUME NEW w \in Worker, Deliver(w), worker[w].sub = s
      PROVE  row'[s].cursor \in Pos /\ Leq(row[s].cursor, row'[s].cursor)
  BY Zenon, <1>5, DeliverStep, Fields DEF Leq
<1> QED  BY Zenon, RowStep, <1>1, <1>2, <1>3, <1>4, <1>5

\* Every checkpoint past its floor is settled.
LEMMA CheckpointsNext ==
  ASSUME TypeOK, IEvents, ILocks, IHandling, ICheckpoints, [Next]_vars
  PROVE  ICheckpoints'
<1>1. ASSUME NEW s \in Sub, Present(s)'
      PROVE  row'[s].cursor = floor'[s] \/ \E c \in Pos : c = row'[s].cursor /\ Settled(c)
  <2>1. CASE KeepsRow(s)
    BY Zenon, <1>1, <2>1, Fields DEF KeepsRow, ICheckpoints, Present
  <2>2. CASE RegisterCommit(s)
    BY Zenon, <2>2, RegisterStep
  <2>3. CASE Skip(s)
    BY Zenon, <2>3, SkipStep
  <2>4. ASSUME NEW w \in Worker, Deliver(w), worker[w].sub = s
        PROVE  \E c \in Pos : c = row'[s].cursor /\ Settled(c)
    BY Zenon, <2>4, DeliverStep, Fields
  <2> QED  BY Zenon, RowStep, <2>1, <2>2, <2>3, <2>4
<1>2. ASSUME NEW s \in Sub, Present(s)'
      PROVE  (row[s].cursor = floor[s] \/ Settled(row[s].cursor))'
  <2>1. ASSUME NEW c \in Pos, c = row'[s].cursor, Settled(c)'
        PROVE  (row[s].cursor = floor[s] \/ Settled(row[s].cursor))'
    BY Zenon, <2>1 DEF Settled, BelowXmin
  <2> QED  BY Zenon, <1>1, <1>2, <2>1, SettledNext
<1> QED  BY Zenon, <1>2 DEF ICheckpoints

\* How a worker comes to handle an event.
LEMMA AttemptStep ==
  ASSUME TypeOK, [Next]_vars, NEW w \in Worker, worker'[w].phase = "handling"
  PROVE  \/ Select(w)
         \/ /\ worker[w].phase = "handling" /\ worker'[w].ev = worker[w].ev
            /\ worker'[w].sub = worker[w].sub /\ worker'[w].cursor = worker[w].cursor
<1> USE DEF meta, ids, data, hist
<1> USE IdleFields
<1> DEFINE Goal == \/ Select(w)
                   \/ /\ worker[w].phase = "handling" /\ worker'[w].ev = worker[w].ev
                      /\ worker'[w].sub = worker[w].sub /\ worker'[w].cursor = worker[w].cursor
<1>1. ASSUME worker' = worker PROVE Goal
  BY Zenon, <1>1
<1>2. ASSUME NEW v \in Worker, worker' = [worker EXCEPT ![v] = Idle] PROVE Goal
  BY Zenon, <1>2 DEF TypeOK
<1>3. ASSUME NEW v \in Worker, NEW s \in Sub, Claim(v, s) PROVE Goal
  BY Zenon, <1>3 DEF Claim, TypeOK
<1>4. ASSUME NEW v \in Worker, Select(v) PROVE Goal
  <2>1. v # w => worker'[w] = worker[w]
    BY Zenon, <1>4 DEF Select, TypeOK
  <2> QED  BY Zenon, <1>4, <2>1
<1>5. ASSUME NEW v \in Worker, NEW st \in Stream, HandlerEmit(v, st) PROVE Goal
  BY Zenon, <1>5 DEF HandlerEmit, TypeOK, Attempt
<1>6. ASSUME NEW v \in Worker, HandlerTimeout(v) PROVE Goal
  BY <1>6 DEF HandlerTimeout, TypeOK, Attempt
<1>7. ASSUME Restore PROVE Goal
  BY Zenon, <1>7 DEF Restore
<1>8. ASSUME NEW v \in Worker,
             \/ Empty(v) \/ HandlerErr(v) \/ Deliver(v)
             \/ RecordAfterTimeout(v) \/ RecordGivesUp(v) \/ Lose(v)
      PROVE  worker' = [worker EXCEPT ![v] = Idle]
  BY Zenon, <1>8 DEF Empty, HandlerErr, Deliver, RecordAfterTimeout, RecordGivesUp, Lose
<1>9. ASSUME NEW p \in Producer,
             \/ Begin(p) \/ Commit(p) \/ Abort(p) \/ \E st \in Stream : Append_event(p, st)
      PROVE  worker' = worker
  BY Zenon, <1>9 DEF Begin, Commit, Abort, Append_event
<1>10. ASSUME \/ BumpLock \/ BumpCommit \/ BumpLost \/ Boot
              \/ (\E z \in zombie : BackendEnds(z))
              \/ (\E st \in Stream : GcSelect(st)) \/ GcDelete \/ GcLose
       PROVE  worker' = worker
  BY Zenon, <1>10 DEF BumpLock, BumpCommit, BumpLost, Boot, BackendEnds, GcSelect, GcDelete, GcLose
<1>11. ASSUME NEW s \in Sub,
              \/ RegisterInsert(s) \/ RegisterCommit(s) \/ RegisterAbort(s)
              \/ BackoffElapses(s) \/ Retry(s) \/ Resume(s) \/ Skip(s)
              \/ \E x \in {"paused", "retired"} : Set_state(s, x)
       PROVE  worker' = worker
  BY Zenon, <1>11 DEF RegisterInsert, RegisterCommit, RegisterAbort, BackoffElapses, Retry, Resume,
               Skip, Set_state, OperatorFrame
<1>12. UNCHANGED vars => worker' = worker
  BY Zenon DEF vars
<1> HIDE DEF Goal
<1>13. Goal
  BY Zenon, StepCases, <1>1, <1>2, <1>3, <1>4, <1>5, <1>6, <1>7, <1>8, <1>9, <1>10, <1>11, <1>12
<1> QED  BY Zenon, <1>13 DEF Goal

\* The event being handled stays the next one of its stream: whatever commits
\* meanwhile lies past it.
LEMMA HandlingNext ==
  ASSUME TypeOK, IUp, IEvents, ILocks, IHandling, IRetention, [Next]_vars
  PROVE  IHandling'
<1> DEFINE Between(c, p, s) ==
      \A e \in log \cup deleted :
         e.stream = StreamOf[s] /\ Lt(c, e.pos) /\ Lt(e.pos, p) => e.pos \in excused[s]
<1>1. ASSUME NEW w \in Worker, worker'[w].phase = "handling"
      PROVE  \E c \in Pos, p \in Pos, s \in Sub :
               /\ c = worker'[w].cursor /\ p = worker'[w].ev.pos /\ s = worker'[w].sub
               /\ Lt(c, p) /\ Settled(p) /\ Between(c, p, s)
  <2>1. CASE Select(w)
    <3> DEFINE s == worker[w].sub
               c == worker[w].cursor
    <3>1. s \in Sub /\ c \in Pos /\ StreamOf[s] \in Stream /\ w \in Delivering
      BY Zenon, <2>1, Fields DEF Select, Delivering
    <3>2. PICK e \in log : /\ IsNext(e, StreamOf[worker[w].sub], worker[w].cursor)
                           /\ worker' = [worker EXCEPT ![w].phase = "handling", ![w].ev = e]
      <4> HIDE DEF s, c
      <4> QED  BY Zenon, <2>1 DEF Select
    <3>3. worker'[w].sub = s /\ worker'[w].cursor = c /\ worker'[w].ev = e
      BY Zenon, <3>2 DEF TypeOK, Attempt
    <3>4. /\ e.pos \in Pos /\ Lt(c, e.pos) /\ Settled(e.pos)
          /\ \A d \in log : d.stream = StreamOf[s] /\ Lt(c, d.pos) => Leq(e.pos, d.pos)
      BY Zenon, <3>1, <3>2, SelectedIsNext
    <3>5. ASSUME NEW d \in log \cup deleted, d.stream = StreamOf[s], Lt(c, d.pos), Lt(d.pos, e.pos)
          PROVE  d.pos \in excused[s]
      <4>1. d.pos \in Pos
        BY Zenon, Fields DEF TypeOK
      <4>2. d \notin log
        BY Zenon, <3>4, <3>5, <4>1, LtIrrefl
      <4>3. d.pos \in excused[s] \/ Lt(d.pos, row[s].cursor)
        BY Zenon, <3>1, <3>5, <4>2 DEF IRetention
      <4>4. row[s].cursor = c
        BY Zenon, <3>1 DEF ILocks, ClaimIsCurrent
      <4> QED  BY Zenon, <3>1, <3>5, <4>1, <4>3, <4>4, LtIrrefl DEF Leq
    <3> QED  BY Zenon, <3>1, <3>3, <3>4, <3>5
  <2>2. CASE /\ worker[w].phase = "handling" /\ worker'[w].ev = worker[w].ev
             /\ worker'[w].sub = worker[w].sub /\ worker'[w].cursor = worker[w].cursor
    BY Zenon, <2>2, Fields DEF IHandling
  <2> QED  BY Zenon, <1>1, <2>1, <2>2, AttemptStep
<1>2. ASSUME NEW c \in Pos, NEW p \in Pos, NEW s \in Sub, Settled(p), Between(c, p, s)
      PROVE  Settled(p)' /\ Between(c, p, s)'
  <2>1. Settled(p)'
    BY Zenon, <1>2, SettledNext
  <2>2. ASSUME NEW e \in log' \cup deleted', e.stream = StreamOf[s], Lt(c, e.pos), Lt(e.pos, p)
        PROVE  e.pos \in excused'[s]
    <3>1. CASE e \in log \cup deleted
      BY Zenon, <1>2, <2>2, <3>1, LogStep
    <3>2. CASE e \notin log \cup deleted
      BY Zenon, <1>2, <2>2, <3>2, CommittedIsLater, LtIrrefl DEF Leq
    <3> QED  BY Zenon, <3>1, <3>2
  <2> QED  BY Zenon, <2>1, <2>2
<1>3. ASSUME NEW w \in Worker, worker'[w].phase = "handling"
      PROVE  (/\ Lt(worker[w].cursor, worker[w].ev.pos)
              /\ Settled(worker[w].ev.pos)
              /\ Between(worker[w].cursor, worker[w].ev.pos, worker[w].sub))'
  <2>1. PICK c \in Pos, p \in Pos, s \in Sub :
               /\ c = worker'[w].cursor /\ p = worker'[w].ev.pos /\ s = worker'[w].sub
               /\ Lt(c, p) /\ Settled(p) /\ Between(c, p, s)
    BY Zenon, <1>1, <1>3
  <2>2. Settled(p)' /\ Between(c, p, s)'
    BY Zenon, <1>2, <2>1
  <2>3. Settled(worker[w].ev.pos)'
    BY Zenon, <2>1, <2>2 DEF Settled, BelowXmin
  <2>4. Between(worker[w].cursor, worker[w].ev.pos, worker[w].sub)'
    BY Zenon, <2>1, <2>2
  <2> QED  BY Zenon, <2>1, <2>3, <2>4
<1> QED  BY Zenon, <1>3 DEF IHandling

\* Retention stays below every checkpoint its snapshot showed.
LEMMA RetentionNext ==
  ASSUME TypeOK, IEvents, ILocks, IHandling, IRetention, [Next]_vars
  PROVE  IRetention'
<1> USE DEF meta, ids, data, hist
<1>1. ASSUME NEW s \in Sub, NEW e \in Event, Present(s), Lt(e.pos, row[s].cursor)
      PROVE  Lt(e.pos, row'[s].cursor)
  BY Zenon, <1>1, CursorMono, LtTrans, Fields
<1>2. CASE GcDelete
  <2>1. row' = row /\ gc' = NoGc /\ applied' = applied
    BY Zenon, <1>2 DEF GcDelete
  <2>2. ASSUME NEW s \in Sub, NEW e \in deleted', e.stream = StreamOf[s]
        PROVE  e.pos \in excused'[s] \/ (Present(s) /\ Lt(e.pos, row[s].cursor))
    <3>1. CASE e \in deleted
      BY Zenon, <2>2, <3>1, LogStep DEF IRetention
    <3>2. CASE e \notin deleted /\ s \in gc.seen
      BY Zenon, <1>2, <2>2, <3>2 DEF GcDelete, IRetention
    <3>3. CASE e \notin deleted /\ s \notin gc.seen
      BY Zenon, <1>2, <2>2, <3>3 DEF GcDelete
    <3> QED  BY Zenon, <3>1, <3>2, <3>3
  <2> QED  BY Zenon, <2>1, <2>2 DEF IRetention, Present, NoGc
<1>3. ASSUME NEW st \in Stream, GcSelect(st) PROVE IRetention'
  <2>1. /\ UNCHANGED <<row, applied, deleted, excused>>
        /\ gc'.seen = {s \in Sub : Live(s)} /\ gc'.batch \subseteq Unblocked(st)
    BY <1>3 DEF GcSelect
  <2>2. ASSUME NEW s \in gc'.seen, NEW e \in gc'.batch, e.stream = StreamOf[s]
        PROVE  Lt(e.pos, row[s].cursor)
    BY Zenon, <2>1, <2>2 DEF Unblocked
  <2>3. \A s \in gc'.seen : Present(s)
    BY Zenon, <2>1 DEF Live, Present
  <2> QED  BY Zenon, <2>1, <2>2, <2>3 DEF IRetention, Present
<1>4. ASSUME gc' = gc \/ gc' = NoGc, deleted' = deleted PROVE IRetention'
  <2>1. ASSUME NEW s \in gc'.seen
        PROVE  /\ Present(s)'
               /\ \A e \in gc'.batch : e.stream = StreamOf[s] => Lt(e.pos, row'[s].cursor)
    <3>1. gc' = gc /\ s \in gc.seen /\ s \in Sub /\ gc.batch \subseteq Event
      BY <1>4, <2>1, Fields DEF NoGc
    <3>2. Present(s) /\ \A e \in gc.batch : e.stream = StreamOf[s] => Lt(e.pos, row[s].cursor)
      BY Zenon, <3>1 DEF IRetention
    <3> QED  BY Zenon, <1>1, <3>1, <3>2, PresentStays
  <2>2. ASSUME NEW s \in Sub, NEW e \in deleted, e.stream = StreamOf[s]
        PROVE  e.pos \in excused'[s] \/ (Present(s)' /\ Lt(e.pos, row'[s].cursor))
    <3>1. CASE e.pos \in excused[s]
      BY Zenon, <3>1, LogStep
    <3>2. CASE Present(s) /\ Lt(e.pos, row[s].cursor)
      BY Zenon, <1>1, <3>2, PresentStays DEF TypeOK
    <3> QED  BY Zenon, <2>2, <3>1, <3>2 DEF IRetention
  <2>3. ASSUME NEW s \in Sub, ~Present(s)' PROVE applied'[s] = <<>>
    <3>1. ~Present(s) /\ applied[s] = <<>>
      BY Zenon, <2>3, PresentStays DEF IRetention
    <3>2. CASE KeepsRow(s)
      BY Zenon, <3>1, <3>2 DEF KeepsRow
    <3>3. CASE RegisterCommit(s)
      BY Zenon, <2>3, <3>3, RegisterStep
    <3>4. CASE Skip(s)
      BY Zenon, <3>1, <3>4, SkipStep
    <3>5. ASSUME NEW w \in Worker, Deliver(w), worker[w].sub = s PROVE FALSE
      BY Zenon, <3>1, <3>5, DeliverStep
    <3> QED  BY Zenon, RowStep, <3>2, <3>3, <3>4, <3>5
  <2> QED  BY Zenon, <1>4, <2>1, <2>2, <2>3 DEF IRetention
<1> DEFINE Still == (gc' = gc \/ gc' = NoGc) /\ deleted' = deleted
<1>5. ASSUME NEW p \in Producer,
             \/ Begin(p) \/ Commit(p) \/ Abort(p) \/ \E st \in Stream : Append_event(p, st)
      PROVE  Still
  BY Zenon, <1>5 DEF Begin, Commit, Abort, Append_event
<1>6. ASSUME \/ BumpLock \/ BumpCommit \/ BumpLost \/ Boot \/ Restore
             \/ (\E z \in zombie : BackendEnds(z)) \/ GcLose
      PROVE  Still
  BY Zenon, <1>6 DEF BumpLock, BumpCommit, BumpLost, Boot, Restore, BackendEnds, GcLose
<1>7. ASSUME NEW s \in Sub,
             \/ RegisterInsert(s) \/ RegisterCommit(s) \/ RegisterAbort(s)
             \/ BackoffElapses(s) \/ Retry(s) \/ Resume(s) \/ Skip(s)
             \/ \E x \in {"paused", "retired"} : Set_state(s, x)
      PROVE  Still
  BY Zenon, <1>7 DEF RegisterInsert, RegisterCommit, RegisterAbort, BackoffElapses, Retry, Resume,
              Skip, Set_state, OperatorFrame
<1>8. ASSUME NEW w \in Worker,
             \/ (\E s \in Sub : Claim(w, s)) \/ Select(w) \/ Empty(w)
             \/ (\E st \in Stream : HandlerEmit(w, st))
             \/ Deliver(w) \/ HandlerErr(w) \/ HandlerTimeout(w)
             \/ RecordAfterTimeout(w) \/ RecordGivesUp(w) \/ Lose(w)
      PROVE  Still
  BY Zenon, <1>8 DEF Claim, Select, Empty, HandlerEmit, Deliver, HandlerErr, HandlerTimeout,
              RecordAfterTimeout, RecordGivesUp, Lose
<1>9. UNCHANGED vars => Still
  BY Zenon DEF vars
<1>10. Still \/ GcDelete \/ \E st \in Stream : GcSelect(st)
  <2> HIDE DEF Still
  <2> QED  BY Zenon, StepCases, <1>5, <1>6, <1>7, <1>8, <1>9
<1> QED  BY Zenon, <1>2, <1>3, <1>4, <1>10

\* What a delivery appends to the history, element by element.
LEMMA AppendFacts ==
  ASSUME NEW q \in Seq(Pos), NEW x \in Pos
  PROVE  /\ DOMAIN q = 1..Len(q) /\ Len(q) \in Nat
         /\ DOMAIN Append(q, x) = 1..(Len(q) + 1)
         /\ \A i \in 1..Len(q) : Append(q, x)[i] = q[i] /\ q[i] \in Pos
         /\ Append(q, x)[Len(q) + 1] = x
OBVIOUS

\* A subscription without history has nothing out of order.
LEMMA EmptyHistory == DOMAIN << >> = {}
OBVIOUS

\* A committed event inside the new checkpoint is an old one.
LEMMA NoLateEvent ==
  ASSUME TypeOK, IUp, IEvents, ILocks, IHandling, ICheckpoints, [Next]_vars, TypeOK',
         NEW s \in Sub, Present(s)',
         NEW e \in log' \cup deleted', Lt(floor'[s], e.pos), Leq(e.pos, row'[s].cursor)
  PROVE  /\ e \in log \cup deleted /\ Present(s) /\ floor'[s] = floor[s]
         /\ e.pos \in Pos /\ row[s].cursor \in Pos
<1>1. e.pos \in Pos /\ row'[s].cursor \in Pos /\ floor'[s] \in Pos /\ row[s].cursor \in Pos
  <2>1. e \in Event /\ row'[s] \in Row /\ row[s] \in Row /\ floor'[s] \in Pos
    BY Zenon DEF TypeOK
  <2> QED  BY Zenon, <2>1, Fields DEF Row, Event
<1>2. ASSUME NEW p \in Pos, Settled(p), Leq(e.pos, p) PROVE e \in log \cup deleted
  BY Zenon, <1>1, <1>2, CommittedIsLater, LtIrrefl DEF Leq
<1>3. CASE KeepsRow(s)
  <2>1. Present(s) /\ row'[s].cursor = row[s].cursor /\ floor'[s] = floor[s]
    BY Zenon, <1>3 DEF KeepsRow, Present
  <2>2. row[s].cursor # floor[s]
    BY Zenon, <1>1, <2>1, LtIrrefl DEF Leq
  <2> QED  BY Zenon, <1>1, <1>2, <2>1, <2>2 DEF ICheckpoints
<1>4. CASE RegisterCommit(s)
  BY Zenon, <1>1, <1>4, RegisterStep, LtIrrefl DEF Leq
<1>5. CASE Skip(s)
  BY Zenon, <1>1, <1>5, SkipStep
<1>6. ASSUME NEW w \in Worker, Deliver(w), worker[w].sub = s
      PROVE  e \in log \cup deleted /\ Present(s) /\ floor'[s] = floor[s]
  BY Zenon, <1>1, <1>2, <1>6, DeliverStep
<1> QED  BY Zenon, <1>1, RowStep, <1>3, <1>4, <1>5, <1>6

\* NoGap is preserved.
LEMMA NoGapNext ==
  ASSUME TypeOK, IUp, IEvents, ILocks, IHandling, ICheckpoints, IRetention, NoGap,
         [Next]_vars, TypeOK'
  PROVE  NoGap'
<1> DEFINE Done(s, x) == \/ \E i \in DOMAIN applied[s] : applied[s][i] = x
                         \/ x \in skipped[s]
                         \/ x \in excused[s]
<1> SUFFICES ASSUME NEW s \in Sub, Present(s)', NEW e \in log' \cup deleted',
                    e.stream = StreamOf[s], Lt(floor'[s], e.pos), Leq(e.pos, row'[s].cursor)
             PROVE  Done(s, e.pos)'
  BY Zenon DEF NoGap, Present
<1>1. /\ e \in log \cup deleted /\ Present(s) /\ floor'[s] = floor[s]
      /\ e.pos \in Pos /\ row[s].cursor \in Pos
  BY Zenon, NoLateEvent
<1>2. excused[s] \subseteq excused'[s]
  BY Zenon, LogStep
<1>3. Leq(e.pos, row[s].cursor) => Done(s, e.pos)
  BY Zenon, <1>1 DEF NoGap, Present
<1>4. Leq(e.pos, row[s].cursor) \/ Lt(row[s].cursor, e.pos)
  BY Zenon, <1>1, LtTotal DEF Leq
<1>5. CASE KeepsRow(s)
  BY Zenon, <1>2, <1>3, <1>5 DEF KeepsRow
<1>6. CASE RegisterCommit(s)
  BY Zenon, <1>1, <1>6, RegisterStep
<1>7. CASE Skip(s)
  <2>1. PICK n \in log : /\ IsNext(n, StreamOf[s], row[s].cursor)
                         /\ row'[s].cursor = n.pos /\ skipped'[s] = skipped[s] \cup {n.pos}
                         /\ n.pos \in Pos
    BY Zenon, <1>7, SkipStep
  <2>2. applied' = applied
    BY Zenon, <1>7, SkipStep
  <2>3. CASE Leq(e.pos, row[s].cursor)
    BY Zenon, <1>2, <1>3, <2>1, <2>2, <2>3
  <2>4. CASE e.pos = n.pos
    BY Zenon, <2>1, <2>4
  <2>5. CASE Lt(row[s].cursor, e.pos) /\ Lt(e.pos, n.pos)
    <3>1. e \notin log
      <4>1. StreamOf[s] \in Stream
        BY Zenon, Fields
      <4>2. e \in log => Leq(n.pos, e.pos)
        BY Zenon, <1>1, <2>1, <2>5, <4>1, SelectedIsNext
      <4> QED  BY Zenon, <1>1, <2>1, <2>5, <4>2, LtIrrefl
    <3>2. e.pos \in excused[s]
      BY Zenon, <1>1, <2>5, <3>1, LtIrrefl DEF IRetention, Leq
    <3> QED  BY Zenon, <1>2, <3>2
  <2> QED  BY Zenon, <1>4, <2>1, <2>3, <2>4, <2>5 DEF Leq
<1>8. ASSUME NEW w \in Worker, Deliver(w), worker[w].sub = s PROVE Done(s, e.pos)'
  <2> DEFINE n == worker[w].ev.pos
  <2>1. /\ row[s].cursor = worker[w].cursor /\ row'[s].cursor = n
        /\ applied'[s] = Append(applied[s], n) /\ skipped'[s] = skipped[s]
        /\ worker[w].phase = "handling" /\ n \in Pos /\ applied[s] \in Seq(Pos)
    BY Zenon, <1>8, DeliverStep, Fields DEF Deliver, TypeOK
  <2> HIDE DEF n
  <2>2. CASE Leq(e.pos, row[s].cursor)
    <3>1. ASSUME NEW i \in DOMAIN applied[s], applied[s][i] = e.pos
          PROVE  i \in DOMAIN applied'[s] /\ applied'[s][i] = e.pos
      <4>1. i \in 1..Len(applied[s]) /\ Len(applied[s]) \in Nat
        BY Zenon, <2>1, AppendFacts
      <4>2. i \in DOMAIN Append(applied[s], n) /\ Append(applied[s], n)[i] = applied[s][i]
        BY <2>1, <4>1, AppendFacts
      <4> QED  BY Zenon, <2>1, <3>1, <4>2
    <3> QED  BY Zenon, <1>2, <1>3, <2>1, <2>2, <3>1
  <2>3. CASE e.pos = n
    <3>1. Len(applied[s]) + 1 \in DOMAIN applied'[s] /\ applied'[s][Len(applied[s]) + 1] = n
      <4>1. /\ Len(applied[s]) + 1 \in 1..(Len(applied[s]) + 1)
            /\ DOMAIN Append(applied[s], n) = 1..(Len(applied[s]) + 1)
            /\ Append(applied[s], n)[Len(applied[s]) + 1] = n
        BY <2>1, AppendFacts
      <4> QED  BY Zenon, <2>1, <4>1
    <3> QED  BY Zenon, <2>3, <3>1
  <2>4. CASE Lt(row[s].cursor, e.pos) /\ Lt(e.pos, n)
    BY Zenon, <1>1, <1>2, <1>8, <2>1, <2>4 DEF IHandling, n
  <2> QED  BY Zenon, <1>4, <2>1, <2>2, <2>3, <2>4 DEF Leq
<1> QED  BY Zenon, RowStep, <1>5, <1>6, <1>7, <1>8

\* InOrder is preserved.
LEMMA InOrderNext ==
  ASSUME TypeOK, IEvents, ILocks, IHandling, IRetention, InOrder, [Next]_vars
  PROVE  InOrder'
<1> SUFFICES ASSUME NEW s \in Sub
             PROVE  \A i, j \in DOMAIN applied'[s] :
                      /\ i < j => Lt(applied'[s][i], applied'[s][j])
                      /\ Leq(applied'[s][i], row'[s].cursor)
  BY Zenon DEF InOrder
<1>1. applied[s] \in Seq(Pos) /\ row[s].cursor \in Pos
  BY Zenon, Fields DEF TypeOK
<1>2. CASE KeepsRow(s)
  BY Zenon, <1>2 DEF KeepsRow, InOrder
<1>3. CASE RegisterCommit(s)
  <2>1. ~Present(s) /\ applied'[s] = applied[s]
    BY Zenon, <1>3, RegisterStep
  <2>2. applied'[s] = <<>>
    BY Zenon, <2>1 DEF IRetention
  <2> QED  BY Zenon, <2>2, EmptyHistory
<1>4. CASE Skip(s)
  <2>1. applied' = applied /\ Present(s)
    BY Zenon, <1>4, SkipStep
  <2>2. row'[s].cursor \in Pos /\ Leq(row[s].cursor, row'[s].cursor)
    BY Zenon, <2>1, CursorMono
  <2>3. \A i, j \in DOMAIN applied[s] : /\ i < j => Lt(applied[s][i], applied[s][j])
                                        /\ Leq(applied[s][i], row[s].cursor)
    BY Zenon DEF InOrder
  <2>4. ASSUME NEW i \in DOMAIN applied[s] PROVE Leq(applied[s][i], row'[s].cursor)
    <3>1. applied[s][i] \in Pos /\ Leq(applied[s][i], row[s].cursor)
      BY <1>1, <2>3
    <3> QED  BY Zenon, <1>1, <2>2, <3>1, LtTrans DEF Leq
  <2> QED  BY Zenon, <2>1, <2>3, <2>4
<1>5. ASSUME NEW w \in Worker, Deliver(w), worker[w].sub = s
      PROVE  \A i, j \in DOMAIN applied'[s] :
                      /\ i < j => Lt(applied'[s][i], applied'[s][j])
                      /\ Leq(applied'[s][i], row'[s].cursor)
  <2> DEFINE n == worker[w].ev.pos
             q == applied[s]
  <2>1. /\ applied'[s] = Append(q, n) /\ row'[s].cursor = n
        /\ n \in Pos /\ Lt(row[s].cursor, n) /\ q \in Seq(Pos)
    BY Zenon, <1>1, <1>5, DeliverStep, Fields
  <2>2. \A i \in 1..Len(q) : q[i] \in Pos /\ Leq(q[i], row[s].cursor)
    BY Zenon, <2>1, AppendFacts DEF InOrder
  <2> HIDE DEF n
  <2>3. \A i \in 1..Len(q) : Lt(q[i], n)
    BY Zenon, <1>1, <2>1, <2>2, LtTrans DEF Leq
  <2>4. \A i, j \in 1..Len(q) : i < j => Lt(q[i], q[j])
    BY Zenon, <2>1, AppendFacts DEF InOrder
  <2> HIDE DEF q
  <2> QED  BY <2>1, <2>3, <2>4, AppendFacts DEF Leq
<1> QED  BY Zenon, RowStep, <1>2, <1>3, <1>4, <1>5

-------------------------------------------------------------------------------
(* The theorems *)

\* The inductive invariant holds initially.
LEMMA IInvInit == Init => IInv
<1> SUFFICES ASSUME Init PROVE IInv
  BY Zenon
<1>1. TypeOK
  BY Zenon, TypeInit
<1>2. IUp /\ IEvents /\ ILocks /\ ICheckpoints /\ IHandling
  BY Zenon, IdleFields DEF Init, IUp, IEvents, ILocks, ICheckpoints, IHandling, Delivering,
     WriterLockShared, ClaimIsCurrent, Present, NoRow, NoPending
<1>3. IRetention
  BY Zenon DEF Init, IRetention, Present, NoRow, NoGc
<1>4. NoGap
  BY Zenon DEF Init, NoGap
<1>5. InOrder
  BY DEF Init, InOrder
<1> QED  BY Zenon, <1>1, <1>2, <1>3, <1>4, <1>5 DEF IInv

\* Every step preserves it.
LEMMA IInvNext == IInv /\ [Next]_vars => IInv'
BY Zenon, TypeNext, UpNext, EventsNext, LocksNext, CheckpointsNext, HandlingNext, RetentionNext,
   NoGapNext, InOrderNext DEF IInv

\* The inductive invariant of the event plane.
THEOREM Invariance == Spec => []IInv
BY IInvInit, IInvNext, PTL DEF Spec

\* No gap, whatever producers, workers, operators, retention and restores do:
\* no committed event is passed over by a checkpoint (the snapshot-xmin frontier
\* of deliver_one_on's select, with the generations of bump_generation).
THEOREM NoEventIsPassedOver == Spec => []NoGap
<1>1. IInv => NoGap
  BY Zenon DEF IInv
<1> QED  BY <1>1, Invariance, PTL

\* Exactly once and in order: the effects that commit with a checkpoint are
\* strictly increasing in position (deliver_one_on's transactional checkpoint).
THEOREM EffectsAreInOrder == Spec => []InOrder
<1>1. IInv => InOrder
  BY Zenon DEF IInv
<1> QED  BY <1>1, Invariance, PTL

\* A running handler's row is as its worker claimed it (the FOR UPDATE lock of
\* deliver_one_on, which every operator statement waits for).
THEOREM ClaimsAreCurrent == Spec => []ClaimIsCurrent
<1>1. IInv => ClaimIsCurrent
  BY Zenon DEF IInv, ILocks
<1> QED  BY <1>1, Invariance, PTL

\* Retention keeps what a live subscription still has to consume (gc_topic).
THEOREM RetentionKeepsUnconsumed == Spec => []UnconsumedIsKept
<1>1. IInv => UnconsumedIsKept
  <2> SUFFICES ASSUME IInv, NEW s \in Sub, Live(s), NEW e \in deleted,
                      e.stream = StreamOf[s], Lt(row[s].cursor, e.pos)
               PROVE  e.pos \in excused[s]
    BY Zenon DEF UnconsumedIsKept
  <2>1. e.pos \in Pos /\ row[s].cursor \in Pos
    BY Zenon, Fields DEF IInv, TypeOK
  <2> QED  BY Zenon, <2>1, LtIrrefl DEF IInv, IRetention, Leq
<1> QED  BY <1>1, Invariance, PTL

\* No step moves a checkpoint back.
THEOREM CheckpointsAreMonotone == Spec => CheckpointMonotone
<1>1. IInv /\ [Next]_vars =>
        [\A s \in Sub : row[s].state # "absent" => Leq(row[s].cursor, row'[s].cursor)]_vars
  BY Zenon, CursorMono DEF IInv, Present
<1> QED  BY <1>1, Invariance, PTL DEF Spec, CheckpointMonotone

\* A handler's effects commit only on an active row.
THEOREM HaltedIsNotDelivered == Spec => NeverDeliversHalted
<1>1. IInv /\ [Next]_vars =>
        [\A s \in Sub : applied'[s] # applied[s] => row[s].state = "active"]_vars
  <2> SUFFICES ASSUME IInv, [Next]_vars, NEW s \in Sub, applied'[s] # applied[s]
               PROVE  row[s].state = "active"
    BY Zenon
  <2>1. TypeOK /\ IEvents /\ ILocks /\ IHandling
    BY Zenon DEF IInv
  <2>2. ~KeepsRow(s)
    BY Zenon DEF KeepsRow
  <2>3. ~RegisterCommit(s)
    BY Zenon, <2>1, RegisterStep
  <2>4. ~Skip(s)
    BY Zenon, <2>1, SkipStep
  <2>5. PICK w \in Worker : Deliver(w) /\ worker[w].sub = s
    BY Zenon, <2>1, <2>2, <2>3, <2>4, RowStep
  <2> QED  BY Zenon, <2>1, <2>5, DeliverStep
<1> QED  BY <1>1, Invariance, PTL DEF Spec, NeverDeliversHalted

\* An event commits only in the generation it was appended in: the exclusive
\* writer lock of bump_generation waits for every open append.
THEOREM GenerationsAreFenced == Spec => GenerationFence
<1>1. IInv /\ [Next]_vars => [\A e \in log' \ log : e.pos[1] = generation']_vars
  <2> SUFFICES ASSUME IInv, [Next]_vars, NEW e \in log', e \notin log
               PROVE  e.pos[1] = generation'
    BY Zenon
  <2>1. CASE \E p \in Producer : Commit(p) /\ e \in producer[p].wrote
    BY Zenon, <2>1 DEF IInv, IEvents, Commit, meta
  <2>2. CASE \E w \in Worker : Deliver(w) /\ e \in worker[w].wrote
    BY Zenon, <2>2 DEF IInv, IEvents, Deliver, meta
  <2> QED  BY Zenon, <2>1, <2>2, LogStep DEF IInv
<1> QED  BY <1>1, Invariance, PTL DEF Spec, GenerationFence

\* The event being handled was read from the log, and nothing that is still in
\* the log lies between the checkpoint and it.
IRead ==
  \A w \in Worker : worker[w].phase = "handling" =>
    /\ worker[w].ev \in log \cup deleted
    /\ worker[w].ev.stream = StreamOf[worker[w].sub]
    /\ \A d \in log : d.stream = StreamOf[worker[w].sub] /\ Lt(worker[w].cursor, d.pos)
                        => Leq(worker[w].ev.pos, d.pos)

\* No step takes a committed event out of the history.
LEMMA HistoryGrows ==
  ASSUME [Next]_vars
  PROVE  log \cup deleted \subseteq log' \cup deleted'
<1>1. ASSUME NEW p \in Producer, Commit(p) PROVE log \subseteq log' /\ deleted' = deleted
  BY Zenon, <1>1 DEF Commit, Publish, hist
<1>2. ASSUME NEW w \in Worker, Deliver(w) PROVE log \subseteq log' /\ deleted' = deleted
  BY Zenon, <1>2 DEF Deliver, Publish
<1>3. GcDelete => log \cup deleted \subseteq log' \cup deleted'
  BY Zenon DEF GcDelete
<1> QED  BY Zenon, <1>1, <1>2, <1>3, LogKinds

\* What is being handled stays what it was read as: nothing that commits
\* meanwhile can come before it.
LEMMA ReadNext ==
  ASSUME TypeOK, IUp, IEvents, IHandling, IRead, [Next]_vars, TypeOK'
  PROVE  IRead'
<1> SUFFICES ASSUME NEW w \in Worker, worker'[w].phase = "handling"
             PROVE  /\ worker'[w].ev \in log' \cup deleted'
                    /\ worker'[w].ev.stream = StreamOf[worker'[w].sub]
                    /\ \A d \in log' : /\ d.stream = StreamOf[worker'[w].sub]
                                       /\ Lt(worker'[w].cursor, d.pos)
                                       => Leq(worker'[w].ev.pos, d.pos)
  BY Zenon DEF IRead
<1>1. CASE Select(w)
  <2> DEFINE s == worker[w].sub
             c == worker[w].cursor
  <2>1. s \in Sub /\ c \in Pos /\ StreamOf[s] \in Stream
    BY Zenon, Fields
  <2>2. log' = log
    BY Zenon, <1>1 DEF Select, data
  <2>3. PICK e \in log : /\ IsNext(e, StreamOf[worker[w].sub], worker[w].cursor)
                         /\ worker' = [worker EXCEPT ![w].phase = "handling", ![w].ev = e]
    <3> HIDE DEF s, c
    <3> QED  BY Zenon, <1>1 DEF Select
  <2>4. worker'[w].sub = s /\ worker'[w].cursor = c /\ worker'[w].ev = e
    BY <2>3 DEF TypeOK, Attempt
  <2>5. /\ e.stream = StreamOf[s]
        /\ \A d \in log : d.stream = StreamOf[s] /\ Lt(c, d.pos) => Leq(e.pos, d.pos)
    BY Zenon, <2>1, <2>3, SelectedIsNext
  <2> HIDE DEF s, c
  <2> QED  BY Zenon, <2>2, <2>4, <2>5
<1>2. CASE /\ worker[w].phase = "handling" /\ worker'[w].ev = worker[w].ev
           /\ worker'[w].sub = worker[w].sub /\ worker'[w].cursor = worker[w].cursor
  <2> DEFINE p == worker[w].ev.pos
  <2>1. p \in Pos /\ Settled(p)
    BY Zenon, <1>2, Fields DEF IHandling
  <2>2. ASSUME NEW d \in log', d \notin log PROVE Leq(p, d.pos)
    <3>1. \/ \E q \in Producer : d \in producer[q].wrote
          \/ \E v \in Worker : worker[v].phase = "handling" /\ d \in worker[v].wrote
      BY Zenon, <2>2, LogStep DEF Deliver
    <3>2. d \in Event
      BY Zenon DEF TypeOK
    <3> HIDE DEF p
    <3> QED  BY Zenon, <2>1, <3>1, <3>2, FreshIsLater DEF Leq
  <2>3. worker[w].ev \in log' \cup deleted'
    BY Zenon, <1>2, HistoryGrows DEF IRead
  <2> QED  BY Zenon, <1>2, <2>2, <2>3 DEF IRead
<1> QED  BY Zenon, <1>1, <1>2, AttemptStep

\* What a commit adds to the log lies past every checkpoint.
LEMMA LogGrows ==
  ASSUME IInv, TypeOK', [Next]_vars
  PROVE  Log!Grows
<1>1. log \cup deleted \subseteq log' \cup deleted'
  BY Zenon, HistoryGrows
<1>2. ASSUME NEW e \in (log' \cup deleted') \ (log \cup deleted), NEW s \in Sub, Present(s),
             Lt(floor'[s], e.pos)
      PROVE  Lt(row'[s].cursor, e.pos)
  <2>1. Present(s)'
    BY Zenon, <1>2, PresentStays DEF IInv
  <2>2. ~Leq(e.pos, row'[s].cursor)
    BY Zenon, <1>2, <2>1, NoLateEvent DEF IInv
  <2>3. e.pos \in Pos /\ row'[s].cursor \in Pos
    <3>1. e \in Event /\ row'[s] \in Row
      BY Zenon DEF TypeOK
    <3> QED  BY Zenon, <3>1 DEF Row, Event
  <2> QED  BY Zenon, <2>2, <2>3, LtTotal
<1> QED  BY Zenon, <1>1, <1>2 DEF Log!Grows, Log!Unread, Present

\* The mapped cursors and consumers, one subscription at a time.
LEMMA Mapped ==
  ASSUME TypeOK, TypeOK', NEW s \in Sub, NEW p \in Pos,
         row'[s].cursor = p, \A r \in Sub \ {s} : row'[r].cursor = row[r].cursor
  PROVE  [r \in Sub |-> row[r].cursor]' = [[r \in Sub |-> row[r].cursor] EXCEPT ![s] = p]
BY Zenon

\* Rows that keep their place keep it in the mapping.
LEMMA Unmoved ==
  ASSUME TypeOK, TypeOK', \A s \in Sub : KeepsRow(s)
  PROVE  /\ [s \in Sub |-> row[s].cursor]' = [s \in Sub |-> row[s].cursor]
         /\ {s \in Sub : row[s].state # "absent"}' = {s \in Sub : row[s].state # "absent"}
         /\ floor' = floor /\ applied' = applied
<1>1. floor \in [Sub -> Pos] /\ floor' \in [Sub -> Pos]
  BY Zenon DEF TypeOK
<1>2. applied \in [Sub -> Seq(Pos)] /\ applied' \in [Sub -> Seq(Pos)]
  BY Zenon DEF TypeOK
<1> QED  BY <1>1, <1>2 DEF KeepsRow

\* Every step of the event plane is a step of the log, or none.
LEMMA StepSimulation == IInv /\ IRead /\ [Next]_vars => [Log!Next]_(Log!vars)
<1> SUFFICES ASSUME IInv, IRead, [Next]_vars PROVE [Log!Next]_(Log!vars)
  BY Zenon
<1> USE DEF meta, ids, data, hist
<1>0. TypeOK /\ TypeOK' /\ IEvents /\ ILocks /\ IHandling
  BY Zenon, TypeNext DEF IInv
<1>1. ASSUME NEW w \in Worker, Deliver(w) PROVE \E s \in Sub : Log!Consume(s)
  <2>0. PICK s \in Sub, n \in Event : s = worker[w].sub /\ n = worker[w].ev
    BY Zenon, <1>0, <1>1, Fields DEF Deliver, TypeOK
  <2>1. /\ Present(s) /\ row[s].cursor = worker[w].cursor
        /\ row'[s].cursor = n.pos /\ Lt(row[s].cursor, n.pos) /\ n.pos \in Pos
    BY Zenon, <1>0, <1>1, <2>0, DeliverStep, Fields
  <2>2. /\ n \in log \cup deleted /\ n.stream = StreamOf[s]
        /\ \A d \in log : d.stream = StreamOf[s] /\ Lt(row[s].cursor, d.pos) => Leq(n.pos, d.pos)
    BY Zenon, <1>1, <2>0, <2>1 DEF IRead, Deliver
  <2>3. /\ \A r \in Sub \ {s} : row'[r] = row[r]
        /\ applied' = [applied EXCEPT ![s] = Append(@, n.pos)]
        /\ UNCHANGED <<deleted, floor>>
    BY Zenon, <1>0, <1>1, <2>0 DEF Deliver, TypeOK
  <2>4. Present(s)'
    BY Zenon, <1>0, <2>1, PresentStays
  <2>5. [r \in Sub |-> row[r].cursor]' = [[r \in Sub |-> row[r].cursor] EXCEPT ![s] = n.pos]
    BY Zenon, <1>0, <2>1, <2>3, Mapped
  <2>6. {r \in Sub : row[r].state # "absent"}' = {r \in Sub : row[r].state # "absent"}
    BY Zenon, <2>1, <2>3, <2>4 DEF Present
  <2>7. Log!First(s, n)
    <3>1. ASSUME NEW d \in (log \cup deleted) \ deleted, d.stream = StreamOf[s],
                 Lt(row[s].cursor, d.pos)
          PROVE  ~Lt(d.pos, n.pos)
      <4>1. d.pos \in Pos /\ Leq(n.pos, d.pos)
        BY Zenon, <1>0, <2>2, <3>1, Fields DEF TypeOK
      <4> QED  BY Zenon, <2>1, <4>1, LtIrrefl
    <3> QED  BY Zenon, <2>1, <2>2, <3>1 DEF Log!First
  <2>8. Log!Grows
    BY Zenon, <1>0, LogGrows
  <2> QED  BY Zenon, <2>1, <2>2, <2>3, <2>5, <2>6, <2>7, <2>8 DEF Log!Consume, Present
<1>2. ASSUME NEW s \in Sub, Skip(s) PROVE Log!Skip(s)
  <2>1. Present(s) /\ UNCHANGED <<log, deleted, applied, floor>>
    BY Zenon, <1>0, <1>2, SkipStep
  <2>2. PICK n \in log : /\ IsNext(n, StreamOf[s], row[s].cursor)
                         /\ row'[s].cursor = n.pos /\ row'[s].state = "active"
                         /\ n.pos \in Pos /\ Lt(row[s].cursor, n.pos)
    BY Zenon, <1>0, <1>2, SkipStep
  <2>3. \A r \in Sub \ {s} : row'[r] = row[r]
    BY Zenon, <1>0, <1>2 DEF Skip, TypeOK
  <2>4. [r \in Sub |-> row[r].cursor]' = [[r \in Sub |-> row[r].cursor] EXCEPT ![s] = n.pos]
    BY Zenon, <1>0, <2>2, <2>3, Mapped
  <2>5. {r \in Sub : row[r].state # "absent"}' = {r \in Sub : row[r].state # "absent"}
    BY Zenon, <2>1, <2>2, <2>3 DEF Present
  <2>6. Log!First(s, n)
    <3>1. /\ n.stream = StreamOf[s]
          /\ \A d \in log : d.stream = StreamOf[s] /\ Lt(row[s].cursor, d.pos) => Leq(n.pos, d.pos)
      BY Zenon, <1>0, <2>2, Fields, SelectedIsNext
    <3>2. ASSUME NEW d \in (log \cup deleted) \ deleted, d.stream = StreamOf[s],
                 Lt(row[s].cursor, d.pos)
          PROVE  ~Lt(d.pos, n.pos)
      <4>1. d.pos \in Pos /\ Leq(n.pos, d.pos)
        BY Zenon, <1>0, <3>1, <3>2, Fields DEF TypeOK
      <4> QED  BY Zenon, <2>2, <4>1, LtIrrefl
    <3> QED  BY Zenon, <2>2, <3>1, <3>2 DEF Log!First
  <2> QED  BY Zenon, <2>1, <2>2, <2>4, <2>5, <2>6 DEF Log!Skip, Present
<1>3. ASSUME NEW s \in Sub, RegisterCommit(s) PROVE Log!Join(s)
  <2>1. ~Present(s) /\ Present(s)' /\ UNCHANGED <<log, deleted, applied>>
    BY Zenon, <1>0, <1>3, RegisterStep
  <2>2. PICK p \in Pos : row'[s].cursor = p /\ floor' = [floor EXCEPT ![s] = p]
    BY Zenon, <1>0, <1>3, Fields DEF RegisterCommit, TypeOK
  <2>3. \A r \in Sub \ {s} : row'[r] = row[r]
    BY Zenon, <1>0, <1>3 DEF RegisterCommit, TypeOK
  <2>4. [r \in Sub |-> row[r].cursor]' = [[r \in Sub |-> row[r].cursor] EXCEPT ![s] = p]
    BY Zenon, <1>0, <2>2, <2>3, Mapped
  <2>5. {r \in Sub : row[r].state # "absent"}' = {r \in Sub : row[r].state # "absent"} \cup {s}
    BY Zenon, <2>1, <2>3 DEF Present
  <2> QED  BY Zenon, <2>1, <2>2, <2>4, <2>5 DEF Log!Join, Present
<1>4. ASSUME NEW p \in Producer, Commit(p) PROVE Log!Publish
  <2>1. UNCHANGED <<row, deleted, floor, applied>>
    BY Zenon, <1>4 DEF Commit
  <2>2. Log!Grows
    BY Zenon, <1>0, LogGrows
  <2> QED  BY Zenon, <2>1, <2>2 DEF Log!Publish
<1>5. ASSUME GcDelete PROVE Log!Forget
  <2>1. /\ UNCHANGED <<row, floor, applied>> /\ deleted \subseteq deleted'
        /\ deleted' \subseteq log \cup deleted /\ log' \cup deleted' = log \cup deleted
    BY Zenon, <1>5 DEF GcDelete
  <2> QED  BY Zenon, <2>1 DEF Log!Forget
<1>6. CASE /\ UNCHANGED <<log, deleted>> /\ \A s \in Sub : KeepsRow(s)
  BY Zenon, <1>0, <1>6, Unmoved DEF Log!vars
<1>7. ASSUME NEW s \in Sub PROVE KeepsRow(s) \/ RegisterCommit(s) \/ Skip(s) \/ \E w \in Worker : Deliver(w)
  BY Zenon, <1>0, RowStep
<1>8. CASE \E w \in Worker : Deliver(w)
  BY Zenon, <1>1, <1>8 DEF Log!Next
<1>9. CASE \E s \in Sub : Skip(s) \/ RegisterCommit(s)
  BY Zenon, <1>2, <1>3, <1>9 DEF Log!Next
<1>10. CASE GcDelete \/ \E p \in Producer : Commit(p)
  BY Zenon, <1>4, <1>5, <1>10 DEF Log!Next
<1>11. \/ UNCHANGED <<log, deleted>> \/ GcDelete
       \/ (\E p \in Producer : Commit(p)) \/ (\E w \in Worker : Deliver(w))
  BY Zenon, LogKinds
<1> QED  BY Zenon, <1>6, <1>7, <1>8, <1>9, <1>10, <1>11

\* Initially no consumer has joined and nothing has been published.
LEMMA InitSimulation == Init => IRead /\ Log!Init
<1> SUFFICES ASSUME Init PROVE IRead /\ Log!Init
  BY Zenon
<1>1. TypeOK
  BY Zenon, TypeInit
<1>2. IRead
  BY Zenon, IdleFields DEF Init, IRead
<1>3. log \cup deleted = {} /\ deleted = {} /\ applied = [s \in Sub |-> <<>>]
  BY Zenon DEF Init
<1>4. {s \in Sub : row[s].state # "absent"} = {}
  BY Zenon DEF Init, NoRow
<1>5. floor \in [Sub -> Pos] /\ [s \in Sub |-> row[s].cursor] = floor
  BY Zenon, <1>1 DEF Init, TypeOK, NoRow
<1> QED  BY Zenon, <1>2, <1>3, <1>4, <1>5 DEF Log!Init

\* What is being handled was read from the log, in every reachable state.
THEOREM ReadsTheLog == Spec => [](IInv /\ IRead)
<1>1. Init => IInv /\ IRead
  BY Zenon, IInvInit, InitSimulation
<1>2. (IInv /\ IRead) /\ [Next]_vars => (IInv /\ IRead)'
  BY Zenon, IInvNext, TypeNext, ReadNext DEF IInv
<1> QED  BY <1>1, <1>2, PTL DEF Spec

\* The event plane implements the log it promises: for any number of
\* subscriptions, streams, producers and workers, every behaviour of the
\* claim, handle, checkpoint, retry, skip, bump and restore code is one of
\* EventLog.
THEOREM PlaneImplementsLog == Spec => ImplementsLog
<1>1. Init => Log!Init
  BY Zenon, InitSimulation
<1>2. (IInv /\ IRead) /\ [Next]_vars => [Log!Next]_(Log!vars)
  BY Zenon, StepSimulation
<1> QED  BY <1>1, <1>2, ReadsTheLog, PTL DEF Spec, ImplementsLog, Log!Spec
===============================================================================
