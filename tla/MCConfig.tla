------------------------------- MODULE MCConfig -------------------------------
(* An instance of Config for TLC, within three scopes. *)
EXTENDS Config, TLC

CONSTANTS n1, w1, w2, k1, v1, v2

\* Two transactions write, LISTEN sessions last.
Writers == \A n \in Node : session[n] \in {"none", "live"}

\* One transaction writes, LISTEN sessions are closed or cut off unnoticed.
Sessions == \A w \in Writer \ {w1} : tx[w] = NoWrite

\* A key is, or was, written twice by one edit.
Twice == db.rev > MaxRev \/ \E w \in Writer : tx[w].again = 1

Within == (Writers \/ Sessions) /\ (Twice => Writers /\ Sessions)

FairSpec == Spec /\ WriterFairness /\ PollFairness
===============================================================================
