---------------------------- MODULE MCEventPlane ----------------------------
(* Instances of EventPlane for TLC. *)
EXTENDS EventPlane, TLC

CONSTANTS s1, s2, t1, p1, p2, w1, w2

OnT1 == [s \in Sub |-> t1]
AllGenesis == [s \in Sub |-> "genesis"]
AllMinRetention == [st \in Stream |-> "min_retention"]

\* Two subscriptions, two open producers and the sweep share one event, or a
\* subscription and a producer have two.  The bound stops RegisterInsert, Begin,
\* Append_event and GcSelect, of which no fairness is assumed.
Small ==
  nextTie > 2 => /\ \E s \in Sub : row[s].state = "absent" /\ pending[s].xid = 0
                 /\ \E p \in Producer : producer[p].xid = 0
                 /\ gc = NoGc

SmallSpec == Init /\ [][Next /\ Small']_vars /\ Fairness
=============================================================================
