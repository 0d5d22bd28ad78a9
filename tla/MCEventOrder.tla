---------------------------- MODULE MCEventOrder ----------------------------
(* The safety of EventPlane for TLC, within two scopes. *)
EXTENDS EventPlaneLog, TLC

CONSTANTS s1, s2, s3, t1, t2, t3, p1, p2, w1, w2

\* s1 reads t1 from its beginning; s2 reads t2 from an explicit position, and what
\* its handler emits is read by s3, from its registration on.
Streams   == [s \in Sub |-> IF s = s1 THEN t1 ELSE IF s = s2 THEN t2 ELSE t3]
Starts    == [s \in Sub |-> IF s = s1 THEN "genesis"
                            ELSE IF s = s2 THEN "explicit" ELSE "after_registration"]
FirstEvent == <<1, 1, 1>>
Policies  == [st \in Stream |-> IF st = t1 THEN "min_retention" ELSE "keep_forever"]

Appended == log \cup UNION {producer[p].wrote : p \in Producer}
                \cup UNION {worker[w].wrote : w \in Worker}

Only(subs, streams) ==
  /\ \A s \in Sub \ subs : row[s] = NoRow /\ pending[s] = NoPending
  /\ \A e \in Appended : e.stream \in streams

\* One subscription, two producers and two workers.
OneSubscription == Only({s1}, {t1}) /\ meta = <<1, FALSE, TRUE, FALSE>>

\* Two chained subscriptions that do not fail, one producer and one worker at a
\* time, restores and bumps.
Generations ==
  /\ Only({s2, s3}, {t2, t3}) /\ t1 \notin contracts
  /\ \A s \in Sub : row[s].state \in {"absent", "active"} /\ row[s].failures = 0
  /\ Cardinality({p \in Producer : producer[p] # NoTx}) <= 1
  /\ Cardinality({w \in Worker : worker[w] # Idle}) <= 1

Within == OneSubscription \/ Generations

Symmetry == Permutations(Producer) \cup Permutations(Worker)
=============================================================================
