--------------------------- MODULE SchedulerProofs ---------------------------
(***************************************************************************)
(* Firings are spaced by their interval, for every number of replicas and  *)
(* schedules, every interval and every collision of lock keys.             *)
(***************************************************************************)
EXTENDS Scheduler, TLAPS

\* The session of replica r holds the lock of n.
Holds(r, n) == loop[r].phase \in Holding /\ loop[r].cursor = n

\* An advisory lock has one holder, a live session or an abandoned one.
Mutex ==
  /\ \A r, q \in Replica : \A m, n \in Name :
       Holds(r, m) /\ Holds(q, n) /\ LockKey[m] = LockKey[n] => r = q
  /\ \A r \in Replica : \A o \in orphan : \A n \in Name :
       Holds(r, n) => LockKey[o.name] # LockKey[n]
  /\ \A o, p \in orphan : LockKey[o.name] = LockKey[p.name] => o = p

\* An abandoned transaction still owns its firing.
OrphanIsOwned ==
  \A o \in orphan : o.tx => o.at >= last[o.name] + Interval[o.name]

\* last_fired is not behind any firing.
LastIsLatest ==
  \A n \in Name : \A i \in DOMAIN fires[n] : fires[n][i] <= last[n]

IInv == TypeOK /\ Mutex /\ FiringIsOwned /\ OrphanIsOwned /\ LastIsLatest /\ Spaced

-------------------------------------------------------------------------------
\* The fields of a loop and of an abandoned session.
LEMMA Types ==
  ASSUME TypeOK
  PROVE  /\ \A r \in Replica : /\ loop[r] \in Loop /\ loop[r].at \in Nat
                               /\ loop[r].todo \subseteq Name
                               /\ loop[r].phase \in Holding \cup {"connected"} => loop[r].cursor \in Name
                               /\ loop[r].cursor \in Name \cup {0}
         /\ \A o \in orphan : o.name \in Name /\ o.tx \in BOOLEAN /\ o.at \in Nat
         /\ now \in Nat /\ \A n \in Name : last[n] \in Nat /\ Interval[n] \in Nat
<1>1. \A r \in Replica : loop[r] \in Loop
  BY DEF TypeOK
<1>2. \A o \in orphan : o \in Orphan
  BY DEF TypeOK
<1>3. ASSUME NEW l \in Loop PROVE l.at \in Nat /\ l.todo \subseteq Name /\ l.cursor \in Name \cup {0}
  BY DEF Loop
<1>4. ASSUME NEW o \in Orphan PROVE o.name \in Name /\ o.tx \in BOOLEAN /\ o.at \in Nat
  BY DEF Orphan
<1>5. now \in Nat /\ \A n \in Name : last[n] \in Nat /\ Interval[n] \in Nat
  BY ConstantsAssumption DEF TypeOK
<1>6. \A r \in Replica : loop[r].phase \in Holding \cup {"connected"} => loop[r].cursor \in Name
  BY DEF TypeOK
<1> QED  BY <1>1, <1>2, <1>3, <1>4, <1>5, <1>6

\* What is left of a fire's record once the session moved on.
LEMMA GoToStep ==
  ASSUME TypeOK, NEW r \in Replica, NEW x, GoTo(r, x)
  PROVE  /\ loop'[r] = [loop[r] EXCEPT !.phase = x]
         /\ loop'[r].phase = x /\ loop'[r].cursor = loop[r].cursor /\ loop'[r].at = loop[r].at
         /\ loop'[r].todo = loop[r].todo
         /\ \A q \in Replica \ {r} : loop'[q] = loop[q]
BY DEF TypeOK, GoTo, Loop

\* A commit keeps the types.
LEMMA CommittedType ==
  ASSUME TypeOK, NEW n \in Name, NEW t \in Nat, Committed(n, t)
  PROVE  /\ last' \in [Name -> Nat] /\ fires' \in [Name -> Seq(Nat)]
         /\ last'[n] = t /\ \A m \in Name \ {n} : last'[m] = last[m] /\ fires'[m] = fires[m]
         /\ fires'[n] = Append(fires[n], t)
BY DEF TypeOK, Committed

\* Type correctness is preserved.
LEMMA TypeNext == TypeOK /\ [Next]_vars => TypeOK'
<1> SUFFICES ASSUME TypeOK, [Next]_vars PROVE TypeOK'
  OBVIOUS
<1> USE ConstantsAssumption
<1>1. ASSUME NEW r \in Replica, NEW x \in {"boundary", "locked", "due", "unlock"}, GoTo(r, x),
             loop[r].phase \in Holding \cup {"connected"}
      PROVE  /\ loop' \in [Replica -> Loop]
             /\ \A q \in Replica :
                  loop'[q].phase \in Holding \cup {"connected"} => loop'[q].cursor \in Name
  <2>1. [loop[r] EXCEPT !.phase = x] \in Loop
    BY <1>1, Types DEF Loop, Holding
  <2>2. loop' \in [Replica -> Loop]
    BY <1>1, <2>1 DEF GoTo, TypeOK
  <2> QED  BY <1>1, <2>2, GoToStep, Types
<1>2. ASSUME NEW r \in Replica, Scan(r) \/ EndTick(r) \/ Attempt(r) \/ Start(r) PROVE TypeOK'
  <2>1. ASSUME NEW l \in Loop, loop' = [loop EXCEPT ![r] = l],
               l.phase \in Holding \cup {"connected"} => l.cursor \in Name,
               UNCHANGED <<now, last, orphan, fires>>
        PROVE  TypeOK'
    BY <2>1 DEF TypeOK
  <2>2. ASSUME NEW t \in SUBSET Name, NEW x \in {"boundary", "wait"},
               loop' = [[loop EXCEPT ![r].phase = x] EXCEPT ![r].todo = t],
               UNCHANGED <<now, last, orphan, fires>>
        PROVE  TypeOK'
    <3> DEFINE l == [[loop[r] EXCEPT !.phase = x] EXCEPT !.todo = t]
    <3>1. l \in Loop /\ l.phase = x
      BY Zenon, Types DEF Loop
    <3>2. loop' = [loop EXCEPT ![r] = l]
      BY Zenon, <2>2 DEF TypeOK
    <3> HIDE DEF l
    <3> QED  BY Zenon, <2>1, <2>2, <3>1, <3>2 DEF Holding
  <2>3. CASE Scan(r)
    <3>1. {n \in Name : Due(n)} \in SUBSET Name
      OBVIOUS
    <3> QED  BY Zenon, <2>2, <2>3, <3>1 DEF Scan
  <2>4. CASE EndTick(r)
    BY Zenon, <2>2, <2>4 DEF EndTick
  <2>5. CASE Attempt(r)
    <3>1. PICK n \in loop[r].todo :
            loop' = [loop EXCEPT ![r] = [phase |-> "connected", todo |-> loop[r].todo \ {n},
                                         cursor |-> n, at |-> 0]]
      BY Zenon, <2>5, Types DEF Attempt, TypeOK
    <3>2. [phase |-> "connected", todo |-> loop[r].todo \ {n}, cursor |-> n, at |-> 0] \in Loop
      BY Types DEF Loop
    <3> QED  BY Zenon, <2>1, <2>5, <3>1, <3>2, Types DEF Attempt
  <2>6. CASE Start(r)
    <3>1. Fresh \in Loop /\ Fresh.phase = "wait"
      BY DEF Fresh, Loop
    <3> QED  BY Zenon, <2>1, <2>6, <3>1 DEF Start, Holding
  <2> QED  BY <1>2, <2>3, <2>4, <2>5, <2>6
<1>3. ASSUME NEW r \in Replica, TryLock(r) \/ Recheck(r) \/ Unlock(r) \/ FireFails(r) PROVE TypeOK'
  <2>1. PICK x \in {"boundary", "locked", "due", "unlock"} : GoTo(r, x)
    BY <1>3 DEF TryLock, Recheck, Unlock, FireFails
  <2>2. loop[r].phase \in Holding \cup {"connected"} /\ UNCHANGED <<now, last, orphan, fires>>
    BY <1>3 DEF TryLock, Recheck, Unlock, FireFails, Holding
  <2> QED  BY Zenon, <1>1, <2>1, <2>2 DEF TypeOK
<1>4. ASSUME NEW r \in Replica, BeginTx(r) PROVE TypeOK'
  <2> DEFINE l == [[loop[r] EXCEPT !.phase = "tx"] EXCEPT !.at = now]
  <2>1. l \in Loop /\ l.cursor = loop[r].cursor
    BY Zenon, Types DEF Loop, Holding
  <2>2. loop' = [loop EXCEPT ![r] = l] /\ loop[r].cursor \in Name
    BY Zenon, <1>4, Types DEF BeginTx, TypeOK, Holding
  <2> HIDE DEF l
  <2> QED  BY Zenon, <1>4, <2>1, <2>2 DEF BeginTx, TypeOK
<1>5. ASSUME NEW r \in Replica, CommitTx(r) PROVE TypeOK'
  <2>1. loop[r].cursor \in Name /\ loop[r].at \in Nat
    BY <1>5, Types DEF CommitTx, Holding
  <2>2. last' \in [Name -> Nat] /\ fires' \in [Name -> Seq(Nat)]
    BY <1>5, <2>1, CommittedType DEF CommitTx
  <2> QED  BY Zenon, <1>1, <1>5, <2>2 DEF CommitTx, TypeOK, Holding
<1>6. ASSUME NEW r \in Replica, Abandon(r) PROVE TypeOK'
  <2>1. loop[r].phase \in Holding =>
          [name |-> loop[r].cursor, tx |-> loop[r].phase = "tx", at |-> loop[r].at] \in Orphan
    BY Types DEF Orphan
  <2> QED  BY <1>6, <2>1 DEF Abandon, Down, Fresh, TypeOK, Loop, Holding
<1>7. ASSUME NEW o \in orphan, OrphanEnds(o) PROVE TypeOK'
  BY Zenon, <1>7, Types, CommittedType DEF OrphanEnds, TypeOK
<1>8. CASE Elapse
  BY <1>8 DEF Elapse, TypeOK
<1>9. CASE UNCHANGED vars
  BY <1>9 DEF vars, TypeOK
<1> QED  BY <1>2, <1>3, <1>4, <1>5, <1>6, <1>7, <1>8, <1>9 DEF Next, Run_loop, Fire

\* What Append does to the positions of a history.
LEMMA AppendFacts ==
  ASSUME NEW s \in Seq(Nat), NEW t \in Nat
  PROVE  /\ Len(s) \in Nat /\ DOMAIN s = 1..Len(s)
         /\ DOMAIN Append(s, t) = 1..(Len(s) + 1)
         /\ \A i \in 1..Len(s) : Append(s, t)[i] = s[i] /\ s[i] \in Nat
         /\ Append(s, t)[Len(s) + 1] = t
<1>1. Append(s, t) \in Seq(Nat) /\ Len(Append(s, t)) = Len(s) + 1
  OBVIOUS
<1> QED  BY <1>1

\* The commit of the session that owns the firing of n keeps the history right.
LEMMA CommitStep ==
  ASSUME TypeOK, LastIsLatest, Spaced, NEW n \in Name, NEW t \in Nat,
         t >= last[n] + Interval[n], Committed(n, t)
  PROVE  LastIsLatest' /\ Spaced'
<1>1. Interval[n] \in Nat /\ last[n] \in Nat /\ fires[n] \in Seq(Nat)
  BY Types DEF TypeOK
<1>2. \A i \in 1..Len(fires[n]) : fires[n][i] \in Nat /\ fires[n][i] <= last[n]
  BY <1>1, AppendFacts DEF LastIsLatest
<1>3. /\ DOMAIN fires'[n] = 1..(Len(fires[n]) + 1) /\ Len(fires[n]) \in Nat
      /\ \A i \in 1..Len(fires[n]) : fires'[n][i] = fires[n][i]
      /\ fires'[n][Len(fires[n]) + 1] = t
  <2>1. fires'[n] = Append(fires[n], t)
    BY CommittedType
  <2> QED  BY <1>1, <2>1, AppendFacts
<1>4. \A i \in DOMAIN fires'[n] : fires'[n][i] <= last'[n]
  <2>1. last'[n] = t /\ last[n] <= t
    BY <1>1, CommittedType
  <2>2. ASSUME NEW i \in 1..Len(fires[n]) PROVE fires'[n][i] <= t
    <3>1. fires'[n][i] = fires[n][i] /\ fires[n][i] \in Nat /\ fires[n][i] <= last[n]
      BY <1>2, <1>3
    <3> QED  BY <1>1, <2>1, <3>1
  <2> QED  BY <1>3, <2>1, <2>2
<1>5. \A i, j \in DOMAIN fires'[n] : i < j => fires'[n][j] >= fires'[n][i] + Interval[n]
  <2>1. \A i, j \in 1..Len(fires[n]) : i < j => fires[n][j] >= fires[n][i] + Interval[n]
    BY Zenon, <1>1, AppendFacts DEF Spaced
  <2>2. ASSUME NEW i \in 1..Len(fires[n]) PROVE t >= fires[n][i] + Interval[n]
    BY SMTT(30), <1>1, <1>2
  <2>3. ASSUME NEW i \in DOMAIN fires'[n], NEW j \in DOMAIN fires'[n], i < j
        PROVE  fires'[n][j] >= fires'[n][i] + Interval[n]
    <3>1. i \in 1..Len(fires[n]) /\ (j \in 1..Len(fires[n]) \/ j = Len(fires[n]) + 1)
      BY <1>3, <2>3
    <3> QED  BY <1>3, <2>1, <2>2, <2>3, <3>1
  <2> QED  BY <2>3
<1>6. \A m \in Name \ {n} : last'[m] = last[m] /\ fires'[m] = fires[m]
  BY CommittedType
<1> QED  BY <1>4, <1>5, <1>6 DEF LastIsLatest, Spaced

\* A step that lets no session take a lock keeps the locks exclusive.
LEMMA MutexStep ==
  ASSUME Mutex, NEW r \in Replica, orphan' = orphan,
         \A q \in Replica \ {r} : loop'[q] = loop[q],
         loop'[r].phase \in Holding => /\ loop[r].phase \in Holding
                                       /\ loop'[r].cursor = loop[r].cursor
  PROVE  Mutex'
BY DEF Mutex, Holds

\* Every step preserves the invariant.
LEMMA IInvNext == IInv /\ [Next]_vars => IInv'
<1> SUFFICES ASSUME IInv, [Next]_vars PROVE IInv'
  OBVIOUS
<1>0. /\ TypeOK /\ Mutex /\ FiringIsOwned /\ OrphanIsOwned /\ LastIsLatest /\ Spaced
      /\ TypeOK'
  BY TypeNext DEF IInv
\* The replica that moves is in no phase that owns a firing.
<1>1. ASSUME NEW r \in Replica, Mutex', UNCHANGED <<now, last, orphan, fires>>,
             loop'[r].phase \notin {"due", "tx"}, \A q \in Replica \ {r} : loop'[q] = loop[q]
      PROVE  IInv'
  BY <1>0, <1>1 DEF IInv, FiringIsOwned, OrphanIsOwned, LastIsLatest, Spaced, Due
<1>2. ASSUME NEW r \in Replica, Scan(r) \/ EndTick(r) \/ Attempt(r) \/ Start(r) PROVE IInv'
  <2>1. /\ UNCHANGED <<now, last, orphan, fires>>
        /\ \A q \in Replica \ {r} : loop'[q] = loop[q]
    BY <1>0, <1>2 DEF Scan, EndTick, Attempt, Start, TypeOK
  <2>2. loop'[r].phase \in {"boundary", "wait", "connected"}
    BY <1>0, <1>2 DEF Scan, EndTick, Attempt, Start, Fresh, TypeOK, Loop
  <2> QED  BY <1>0, <1>1, <2>1, <2>2, MutexStep DEF Holding
<1>3. ASSUME NEW r \in Replica, TryLock(r) PROVE IInv'
  <2> DEFINE k == LockKey[loop[r].cursor]
  <2>1. CASE KeyHeld(k)
    <3>1. /\ loop'[r].phase = "boundary" /\ \A q \in Replica \ {r} : loop'[q] = loop[q]
          /\ UNCHANGED <<now, last, orphan, fires>>
      BY Zenon, <1>0, <1>3, <2>1, GoToStep DEF TryLock
    <3> QED  BY <1>0, <1>1, <3>1, MutexStep DEF Holding
  <2>2. CASE ~KeyHeld(k)
    <3>1. /\ loop'[r].phase = "locked" /\ loop'[r].cursor = loop[r].cursor
          /\ \A q \in Replica \ {r} : loop'[q] = loop[q]
          /\ UNCHANGED <<now, last, orphan, fires>> /\ loop[r].phase = "connected"
      BY Zenon, <1>0, <1>3, <2>2, GoToStep DEF TryLock
    <3>2. Mutex'
      BY <1>0, <2>2, <3>1 DEF Mutex, Holds, KeyHeld, Holding
    <3> QED  BY <1>1, <3>1, <3>2
  <2> QED  BY <2>1, <2>2
<1>4. ASSUME NEW r \in Replica, Unlock(r) \/ FireFails(r) PROVE IInv'
  <2>1. /\ loop'[r].phase = "boundary" /\ \A q \in Replica \ {r} : loop'[q] = loop[q]
        /\ UNCHANGED <<now, last, orphan, fires>>
    BY Zenon, <1>0, <1>4, GoToStep DEF Unlock, FireFails
  <2> QED  BY <1>0, <1>1, <2>1, MutexStep DEF Holding
<1>5. ASSUME NEW r \in Replica, Recheck(r) PROVE IInv'
  <2>1. /\ loop'[r].phase \in {"due", "unlock"} /\ loop'[r].cursor = loop[r].cursor
        /\ loop'[r].phase = "due" => Due(loop[r].cursor)
        /\ \A q \in Replica \ {r} : loop'[q] = loop[q]
        /\ UNCHANGED <<now, last, orphan, fires>> /\ loop[r].phase = "locked"
    BY Zenon, <1>0, <1>5, GoToStep DEF Recheck
  <2>2. Mutex'
    BY <1>0, <2>1, MutexStep DEF Holding
  <2>3. FiringIsOwned'
    BY <1>0, <2>1 DEF FiringIsOwned, Due
  <2> QED  BY <1>0, <2>1, <2>2, <2>3 DEF IInv, OrphanIsOwned, LastIsLatest, Spaced
<1>6. ASSUME NEW r \in Replica, BeginTx(r) PROVE IInv'
  <2>1. /\ loop'[r].phase = "tx" /\ loop'[r].cursor = loop[r].cursor /\ loop'[r].at = now
        /\ \A q \in Replica \ {r} : loop'[q] = loop[q]
        /\ UNCHANGED <<now, last, orphan, fires>> /\ loop[r].phase = "due"
    BY <1>0, <1>6 DEF BeginTx, TypeOK, Loop
  <2>2. Mutex'
    BY <1>0, <2>1, MutexStep DEF Holding
  <2>3. FiringIsOwned'
    BY <1>0, <2>1 DEF FiringIsOwned, Due
  <2> QED  BY <1>0, <2>1, <2>2, <2>3 DEF IInv, OrphanIsOwned, LastIsLatest, Spaced
<1>7. ASSUME NEW r \in Replica, CommitTx(r) PROVE IInv'
  <2> DEFINE n == loop[r].cursor
  <2>1. /\ loop'[r].phase = "unlock" /\ loop'[r].cursor = n
        /\ \A q \in Replica \ {r} : loop'[q] = loop[q]
        /\ now' = now /\ orphan' = orphan /\ loop[r].phase = "tx" /\ Committed(n, loop[r].at)
        /\ n \in Name /\ loop[r].at \in Nat /\ Holds(r, n)
    BY Zenon, <1>0, <1>7, GoToStep, Types DEF CommitTx, Holding, Holds
  <2>2. loop[r].at >= last[n] + Interval[n]
    BY <1>0, <2>1 DEF FiringIsOwned
  <2> HIDE DEF n
  <2>3. Mutex'
    BY <1>0, <2>1, MutexStep DEF Holding, n
  <2>4. LastIsLatest' /\ Spaced'
    BY <1>0, <2>1, <2>2, CommitStep
  <2>5. \A m \in Name \ {n} : last'[m] = last[m]
    BY <1>0, <2>1, CommittedType
  <2>6. \A q \in Replica \ {r} : loop[q].phase \in {"due", "tx"} => loop[q].cursor \in Name \ {n}
    BY <1>0, <2>1, Types DEF Mutex, Holds, Holding
  <2>7. \A o \in orphan : o.name \in Name \ {n}
    BY <1>0, <2>1, Types DEF Mutex
  <2>8. FiringIsOwned' /\ OrphanIsOwned'
    BY <1>0, <2>1, <2>5, <2>6, <2>7 DEF FiringIsOwned, OrphanIsOwned, Due
  <2> QED  BY <1>0, <2>3, <2>4, <2>8 DEF IInv
<1>8. ASSUME NEW r \in Replica, Abandon(r) PROVE IInv'
  <2> DEFINE o == [name |-> loop[r].cursor, tx |-> loop[r].phase = "tx", at |-> loop[r].at]
  <2>1. /\ loop'[r].phase = "down" /\ \A q \in Replica \ {r} : loop'[q] = loop[q]
        /\ UNCHANGED <<now, last, fires>>
        /\ orphan' = orphan \/ (loop[r].phase \in Holding /\ orphan' = orphan \cup {o})
    BY <1>0, <1>8 DEF Abandon, Down, Fresh, TypeOK
  <2>2. Mutex'
    <3>1. CASE orphan' = orphan
      BY <1>0, <2>1, <3>1, MutexStep DEF Holding
    <3>2. CASE loop[r].phase \in Holding /\ orphan' = orphan \cup {o}
      <4>1. loop[r].cursor \in Name /\ Holds(r, loop[r].cursor) /\ o.name = loop[r].cursor
        BY <1>0, <3>2, Types DEF Holds
      <4> HIDE DEF o
      <4> QED  BY <1>0, <2>1, <3>2, <4>1, Types DEF Mutex, Holds, Holding
    <3> QED  BY <2>1, <3>1, <3>2
  <2>3. FiringIsOwned' /\ LastIsLatest' /\ Spaced'
    BY <1>0, <2>1 DEF FiringIsOwned, LastIsLatest, Spaced, Due
  <2>4. OrphanIsOwned'
    <3>1. o.tx => o.at >= last[o.name] + Interval[o.name]
      BY Zenon, <1>0 DEF FiringIsOwned
    <3> HIDE DEF o
    <3> QED  BY <1>0, <2>1, <3>1 DEF OrphanIsOwned
  <2> QED  BY <1>0, <2>2, <2>3, <2>4 DEF IInv
<1>9. ASSUME NEW o \in orphan, OrphanEnds(o) PROVE IInv'
  <2>1. orphan' = orphan \ {o} /\ loop' = loop /\ now' = now
    BY <1>9 DEF OrphanEnds
  <2>2. Mutex'
    BY <1>0, <2>1 DEF Mutex, Holds
  <2>3. CASE UNCHANGED <<last, fires>>
    BY <1>0, <2>1, <2>2, <2>3 DEF IInv, FiringIsOwned, OrphanIsOwned, LastIsLatest, Spaced, Due
  <2>4. CASE o.tx /\ Committed(o.name, o.at)
    <3>1. /\ o.name \in Name /\ o.at \in Nat
          /\ o.at >= last[o.name] + Interval[o.name]
      BY <1>0, <2>4, Types DEF OrphanIsOwned
    <3>2. LastIsLatest' /\ Spaced'
      BY <1>0, <2>4, <3>1, CommitStep
    <3>3. \A m \in Name \ {o.name} : last'[m] = last[m]
      BY <1>0, <2>4, <3>1, CommittedType
    <3>4. \A q \in Replica : loop[q].phase \in {"due", "tx"} => loop[q].cursor \in Name \ {o.name}
      BY <1>0, <3>1, Types DEF Mutex, Holds, Holding
    <3>5. \A p \in orphan' : p \in orphan /\ p.name \in Name \ {o.name}
      BY <1>0, <2>1, <3>1, Types DEF Mutex
    <3>6. FiringIsOwned' /\ OrphanIsOwned'
      BY <1>0, <2>1, <3>3, <3>4, <3>5 DEF FiringIsOwned, OrphanIsOwned, Due
    <3> QED  BY <1>0, <2>2, <3>2, <3>6 DEF IInv
  <2> QED  BY <1>9, <2>3, <2>4 DEF OrphanEnds
<1>10. CASE Elapse
  <2>1. now' = now + 1 /\ UNCHANGED <<last, loop, orphan, fires>>
    BY <1>10 DEF Elapse
  <2>2. FiringIsOwned'
    BY <1>0, <2>1, Types DEF FiringIsOwned, Due, Holding
  <2> QED  BY <1>0, <2>1, <2>2 DEF IInv, Mutex, Holds, OrphanIsOwned, LastIsLatest, Spaced
<1>11. CASE UNCHANGED vars
  BY <1>0, <1>11 DEF vars, IInv, Mutex, Holds, FiringIsOwned, OrphanIsOwned, LastIsLatest,
                     Spaced, Due
<1> QED  BY <1>2, <1>3, <1>4, <1>5, <1>6, <1>7, <1>8, <1>9, <1>10, <1>11 DEF Next, Run_loop, Fire

\* The invariant holds initially.
LEMMA IInvInit == Init => IInv
<1> SUFFICES ASSUME Init PROVE IInv
  OBVIOUS
<1>1. Fresh \in Loop /\ Fresh.phase = "wait"
  BY DEF Fresh, Loop
<1>2. TypeOK
  BY <1>1, ConstantsAssumption DEF Init, TypeOK, Holding
<1>3. \A r \in Replica : loop[r].phase = "wait"
  BY <1>1 DEF Init
<1> QED  BY <1>2, <1>3 DEF Init, IInv, Mutex, Holds, Holding, FiringIsOwned, OrphanIsOwned,
                           LastIsLatest, Spaced

\* The inductive invariant of the scheduler.
THEOREM Invariance == Spec => []IInv
BY IInvInit, IInvNext, PTL DEF Spec

\* Every reachable state of the loops, the locks and the abandoned sessions has its
\* type, and a replica past its connect works on one schedule of the catalogue (tick
\* chooses it before fire begins).
THEOREM TypeCorrect == Spec => []TypeOK
<1>1. IInv => TypeOK
  BY DEF IInv
<1> QED  BY <1>1, Invariance, PTL

\* Exactly once across replicas: committed firings of a schedule are spaced by
\* its interval (fire, fire_on and fire_locked).
THEOREM FiringsAreSpaced == Spec => []Spaced
<1>1. IInv => Spaced
  BY DEF IInv
<1> QED  BY <1>1, Invariance, PTL

\* Between the re-check under the lock and the commit nobody else moves
\* last_fired (fire_locked under fire_on's advisory lock).
THEOREM FiringsAreOwned == Spec => []FiringIsOwned
<1>1. IInv => FiringIsOwned
  BY DEF IInv
<1> QED  BY <1>1, Invariance, PTL
===============================================================================
