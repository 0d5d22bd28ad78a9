---------------------------- MODULE EventPlaneLog ----------------------------
(* The event plane as an implementation of the log it promises. *)
EXTENDS EventPlane

Log == INSTANCE EventLog WITH
  Consumer <- Sub,
  Position <- Pos,
  Before <- Lt,
  ever <- log \cup deleted,
  gone <- deleted,
  joined <- {s \in Sub : row[s].state # "absent"},
  cursor <- [s \in Sub |-> row[s].cursor],
  effect <- applied

\* The event plane implements EventLog: whatever producers, workers, backends
\* that outlive their client, operators, generation bumps and restores do, a
\* subscription's handler sees the log as one that grows only ahead of it, one
\* event after the other, with its effect and the checkpoint of deliver_one_on
\* as one step.
ImplementsLog == Log!Spec
=============================================================================
