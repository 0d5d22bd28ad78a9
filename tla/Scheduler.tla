------------------------------ MODULE Scheduler ------------------------------
(***************************************************************************)
(* modules/scheduler: replicas that scan for due schedules once a second   *)
(* and emit scheduler.fired under a session advisory lock.  last_fired is  *)
(* the authority, and moves in the transaction that appends the event.     *)
(*                                                                         *)
(* The catalogue of schedules is fixed; time is the database's now().      *)
(***************************************************************************)
EXTENDS Naturals, Sequences, FiniteSets

CONSTANTS
  Replica,
  Name,       \* schedule names: numbers, in the C collation of DUE_SQL
  Interval,   \* [Name -> Nat \ {0}]: interval_seconds
  LockKey,    \* [Name -> key]: FNV-1a of the name; names may collide
  MaxTime     \* bound on now

ASSUME ConstantsAssumption ==
  /\ Name \subseteq Nat \ {0} /\ IsFiniteSet(Name)
  /\ Interval \in [Name -> Nat \ {0}]
  /\ MaxTime \in Nat
  /\ DOMAIN LockKey = Name

VARIABLES
  now,      \* the database clock
  last,     \* [Name -> time]: scheduler.schedules.last_fired
  loop,     \* [Replica -> Loop]: the emission loop and its fire
  orphan,   \* server sessions whose client is gone
  fires     \* history: [Name -> times of the committed scheduler.fired events]

vars == <<now, last, loop, orphan, fires>>

-------------------------------------------------------------------------------
\* Phases of a fire whose session holds the advisory lock.
Holding == {"locked", "due", "tx", "unlock"}

Loop == [phase: {"down", "wait", "boundary", "connected"} \cup Holding,
         todo: SUBSET Name,          \* due names of this tick not yet attempted
         cursor: Name \cup {0},      \* the last name whose attempt began
         at: Nat]                    \* now() of the open transaction

\* A session that still holds the lock of name, with or without an open transaction.
Orphan == [name: Name, tx: BOOLEAN, at: Nat]

Fresh == [phase |-> "wait", todo |-> {}, cursor |-> 0, at |-> 0]

Down == [Fresh EXCEPT !.phase = "down"]

\* The schedule a replica is firing is the one its cursor names.
KeyHeld(k) ==
  \/ \E r \in Replica : loop[r].phase \in Holding /\ LockKey[loop[r].cursor] = k
  \/ \E o \in orphan : LockKey[o.name] = k

\* DUE_SQL and FIRE_RECHECK_SQL.
Due(n) == now >= last[n] + Interval[n]

\* Slip: every tick starts at the head of the due list.
IsNext_NoRotation(n, todo, cursor) == n \in todo /\ \A m \in todo : n <= m

\* rotation_start and the walk from it: the first name past the cursor, else wrap.
IsNext(n, todo, cursor) ==
  LET after == {m \in todo : m > cursor}
      turn == IF after = {} THEN todo ELSE after IN
  n \in turn /\ \A m \in turn : n <= m

-------------------------------------------------------------------------------
\* last_fired defaults to the epoch: a fresh schedule is due at once.
Init ==
  /\ now \in 0..MaxTime /\ \A n \in Name : now >= Interval[n]
  /\ last = [n \in Name |-> 0]
  /\ loop = [r \in Replica |-> Fresh]
  /\ orphan = {}
  /\ fires = [n \in Name |-> <<>>]

\* run_loop's tick: due_schedules on a pooled connection.
Scan(r) ==
  /\ loop[r].phase = "wait"
  /\ loop' = [loop EXCEPT ![r].phase = "boundary", ![r].todo = {n \in Name : Due(n)}]
  /\ UNCHANGED <<now, last, orphan, fires>>

\* The tick is over: nothing left, or the aggregate budget is exhausted and the
\* rest is skipped until the next tick.
EndTick(r) ==
  /\ loop[r].phase = "boundary"
  /\ loop' = [loop EXCEPT ![r].phase = "wait", ![r].todo = {}]
  /\ UNCHANGED <<now, last, orphan, fires>>

\* Slip: the cursor does not advance before the fire.
Attempt_CursorLater(r) ==
  /\ loop[r].phase = "boundary"
  /\ \E n \in loop[r].todo :
       /\ IsNext(n, loop[r].todo, loop[r].cursor)
       /\ loop' = [loop EXCEPT ![r].phase = "connected", ![r].todo = @ \ {n}]
  /\ UNCHANGED <<now, last, orphan, fires>>

\* The cursor advances before the fire, which opens its own connection.
Attempt(r) ==
  /\ loop[r].phase = "boundary"
  /\ \E n \in loop[r].todo :
       /\ IsNext(n, loop[r].todo, loop[r].cursor)
       /\ loop' = [loop EXCEPT ![r] = [phase |-> "connected", todo |-> @.todo \ {n},
                                       cursor |-> n, at |-> 0]]
  /\ UNCHANGED <<now, last, orphan, fires>>

GoTo(r, phase) == loop' = [loop EXCEPT ![r].phase = phase]

\* pg_try_advisory_lock: held elsewhere, another replica is firing.
TryLock(r) ==
  /\ loop[r].phase = "connected"
  /\ GoTo(r, IF KeyHeld(LockKey[loop[r].cursor]) THEN "boundary" ELSE "locked")
  /\ UNCHANGED <<now, last, orphan, fires>>

\* Slip: the scan's verdict is trusted under the lock.
Recheck_Trusted(r) ==
  /\ loop[r].phase = "locked"
  /\ GoTo(r, "due")
  /\ UNCHANGED <<now, last, orphan, fires>>

\* fire_locked: still due, under the lock?
Recheck(r) ==
  /\ loop[r].phase = "locked"
  /\ GoTo(r, IF Due(loop[r].cursor) THEN "due" ELSE "unlock")
  /\ UNCHANGED <<now, last, orphan, fires>>

\* BEGIN, the bump and the append; now() is that of BEGIN.
BeginTx(r) ==
  /\ loop[r].phase = "due"
  /\ loop' = [loop EXCEPT ![r].phase = "tx", ![r].at = now]
  /\ UNCHANGED <<now, last, orphan, fires>>

\* Slip: last_fired does not move in the transaction of the event.
Committed_NoBump(n, t) ==
  /\ fires' = [fires EXCEPT ![n] = Append(@, t)]
  /\ UNCHANGED last

\* The bump of last_fired and the event commit together.
Committed(n, t) ==
  /\ last' = [last EXCEPT ![n] = t]
  /\ fires' = [fires EXCEPT ![n] = Append(@, t)]

CommitTx(r) ==
  /\ loop[r].phase = "tx"
  /\ Committed(loop[r].cursor, loop[r].at)
  /\ GoTo(r, "unlock")
  /\ UNCHANGED <<now, orphan>>

\* pg_advisory_unlock and the close of the session, in either order of success.
Unlock(r) ==
  /\ loop[r].phase = "unlock"
  /\ GoTo(r, "boundary")
  /\ UNCHANGED <<now, last, orphan, fires>>

\* A statement errors or times out: the transaction rolls back and the session
\* closes, which releases the lock.
FireFails(r) ==
  /\ loop[r].phase \in {"connected", "locked", "due", "tx"}
  /\ GoTo(r, "boundary")
  /\ UNCHANGED <<now, last, orphan, fires>>

\* The process dies, or stop aborts a loop that outlived STOP_GRACE: the future
\* is dropped wherever it is, and the server has yet to notice the session.
Abandon(r) ==
  /\ loop[r].phase # "down"
  /\ loop' = [loop EXCEPT ![r] = Down]
  /\ orphan' = orphan \cup
       (IF loop[r].phase \in Holding
        THEN {[name |-> loop[r].cursor, tx |-> loop[r].phase = "tx", at |-> loop[r].at]}
        ELSE {})
  /\ UNCHANGED <<now, last, fires>>

\* The server ends the session: a COMMIT that was already sent takes effect, any
\* other transaction rolls back; then the lock is released.
OrphanEnds(o) ==
  /\ orphan' = orphan \ {o}
  /\ \/ UNCHANGED <<last, fires>>
     \/ o.tx /\ Committed(o.name, o.at)
  /\ UNCHANGED <<now, loop>>

Start(r) ==
  /\ loop[r].phase = "down"
  /\ loop' = [loop EXCEPT ![r] = Fresh]
  /\ UNCHANGED <<now, last, orphan, fires>>

Elapse ==
  /\ now < MaxTime
  /\ now' = now + 1
  /\ UNCHANGED <<last, loop, orphan, fires>>

Fire(r) == TryLock(r) \/ Recheck(r) \/ BeginTx(r) \/ CommitTx(r) \/ Unlock(r) \/ FireFails(r)

Run_loop(r) == Scan(r) \/ EndTick(r) \/ Attempt(r) \/ Fire(r)

Next ==
  \/ \E r \in Replica : Run_loop(r) \/ Abandon(r) \/ Start(r)
  \/ \E o \in orphan : OrphanEnds(o)
  \/ Elapse

Spec == Init /\ [][Next]_vars

-------------------------------------------------------------------------------
(* Properties *)

\* Every variable has its type, and a replica past its connect works on a schedule
\* of the catalogue (tick chooses it before fire begins).
TypeOK ==
  /\ now \in Nat /\ last \in [Name -> Nat]
  /\ loop \in [Replica -> Loop]
  /\ \A r \in Replica : loop[r].phase \in Holding \cup {"connected"} => loop[r].cursor \in Name
  /\ orphan \subseteq Orphan
  /\ fires \in [Name -> Seq(Nat)]

\* Exactly once across replicas: two committed firings of a schedule are at
\* least its interval apart, whichever replicas scanned it as due, and whatever
\* crashed, timed out or was aborted in between (fire: "EXACTLY ONCE across
\* horizontal replicas").
Spaced ==
  \A n \in Name : \A i, j \in DOMAIN fires[n] :
    i < j => fires[n][j] >= fires[n][i] + Interval[n]

\* A session that has re-checked a schedule owns its firing: nobody moves its
\* last_fired before that session's transaction does ("the next winner always
\* observes the moved last_fired").
FiringIsOwned ==
  \A r \in Replica :
    /\ loop[r].phase = "due" => Due(loop[r].cursor)
    /\ loop[r].phase = "tx" => loop[r].at >= last[loop[r].cursor] + Interval[loop[r].cursor]

-------------------------------------------------------------------------------
(* Liveness *)

\* The loop ticks forever, every statement ends within its timeout, and some
\* tick has budget left for a first attempt.
Fairness ==
  \A r \in Replica : /\ WF_vars(Scan(r) \/ EndTick(r)) /\ SF_vars(Attempt(r))
                     /\ WF_vars(Fire(r))

LiveSpec == Spec /\ Fairness

\* No schedule starves behind one that keeps failing or eats the whole budget of
\* its tick (tick: "Advancing before the await prevents a slow/erroring head
\* from starving later names").
Attended ==
  \A r \in Replica, n \in Name :
    Due(n) ~> (~Due(n) \/ loop[r].phase = "down"
               \/ (loop[r].phase = "connected" /\ loop[r].cursor = n))
===============================================================================
