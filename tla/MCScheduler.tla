----------------------------- MODULE MCScheduler -----------------------------
(* Instances of Scheduler for TLC. *)
EXTENDS Scheduler, TLC

CONSTANTS r1, r2

OneAndTwo == [n \in Name |-> n]
OneKey == [n \in Name |-> 1]
===============================================================================
