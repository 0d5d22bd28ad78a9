----------------------------- MODULE Invalidation -----------------------------
(***************************************************************************)
(* core/invalidation: in every process one listener session, one poll loop *)
(* and one refresh callback, which they run under a lock.                  *)
(*                                                                         *)
(* What a refresh reads and writes belongs to the module that registered   *)
(* it; here is when one runs.  NOTIFYs that are waiting to be read are one *)
(* flag: a run answers all that were sent before it.                       *)
(***************************************************************************)
EXTENDS Integers, FiniteSets

CONSTANTS
  Node,     \* processes
  Silent    \* whether a session may be cut off without anybody noticing

VARIABLES
  phase,     \* [Node -> ...]: the boot of the process
  session,   \* [Node -> ...]: the LISTEN session, as the server sees it
  listener,  \* [Node -> ...]: what the listener task is at
  inbox,     \* [Node -> BOOLEAN]: NOTIFYs delivered and not read yet
  holder     \* [Node -> ...]: who runs the refresh callback, under its lock

ivars == <<phase, session, listener, inbox, holder>>

ITypeOK ==
  /\ phase \in [Node -> {"off", "fill", "first", "up"}]
  /\ session \in [Node -> {"none", "live", "closed", "silent"}]
  /\ listener \in [Node -> {"connecting", "healing", "listening"}]
  /\ inbox \in [Node -> BOOLEAN]
  /\ holder \in [Node -> {"free", "boot", "listener", "poll"}]

IInit ==
  /\ phase = [n \in Node |-> "off"]
  /\ session = [n \in Node |-> "none"]
  /\ listener = [n \in Node |-> "connecting"]
  /\ inbox = [n \in Node |-> FALSE]
  /\ holder = [n \in Node |-> "free"]

\* pg_notify at the commit of a writer reaches the sessions that are alive.
Notified == [n \in Node |-> inbox[n] \/ session[n] = "live"]

\* Boot: the owner of the cache fills it in its module start, then the plane's
\* start runs every callback once; no task exists yet.
BootRefresh(n) ==
  /\ phase[n] \in {"off", "first"} /\ holder[n] = "free"
  /\ phase' = [phase EXCEPT ![n] = IF @ = "off" THEN "fill" ELSE @]
  /\ holder' = [holder EXCEPT ![n] = "boot"]
  /\ UNCHANGED <<session, listener, inbox>>

\* listen's outer loop: connect and listen_all.
Connect(n) ==
  /\ phase[n] = "up" /\ listener[n] = "connecting"
  /\ session' = [session EXCEPT ![n] = "live"]
  /\ listener' = [listener EXCEPT ![n] = "healing"]
  /\ inbox' = [inbox EXCEPT ![n] = FALSE]
  /\ UNCHANGED <<phase, holder>>

\* The heal after a connect, or run_channel for a NOTIFY, gets the lock.
ListenerRefresh(n) ==
  /\ phase[n] = "up" /\ holder[n] = "free"
  /\ listener[n] = "healing" \/ (listener[n] = "listening" /\ inbox[n])
  /\ holder' = [holder EXCEPT ![n] = "listener"]
  /\ inbox' = [inbox EXCEPT ![n] = @ /\ listener[n] = "healing"]
  /\ UNCHANGED <<phase, session, listener>>

\* Slip: the poll fallback never fires.
PollRefresh_Never(n) == FALSE /\ UNCHANGED ivars

\* poll_loop's tick.
PollRefresh(n) ==
  /\ phase[n] = "up" /\ holder[n] = "free"
  /\ holder' = [holder EXCEPT ![n] = "poll"]
  /\ UNCHANGED <<phase, session, listener, inbox>>

\* run_one is over, with or without success; a failed boot refresh fails start.
RunEnds(n, ok) ==
  /\ holder[n] # "free"
  /\ holder' = [holder EXCEPT ![n] = "free"]
  /\ listener' = [listener EXCEPT ![n] =
       IF holder[n] = "listener" /\ @ = "healing" THEN "listening" ELSE @]
  /\ phase' = [phase EXCEPT ![n] =
       IF holder[n] # "boot" THEN @
       ELSE IF ~ok THEN "off" ELSE IF @ = "fill" THEN "first" ELSE "up"]
  /\ UNCHANGED <<session, inbox>>

\* The session ends at the server; nothing more is delivered to it.
SessionEnds(n) ==
  /\ session[n] = "live"
  /\ \E how \in {"closed"} \cup (IF Silent THEN {"silent"} ELSE {}) :
       session' = [session EXCEPT ![n] = how]
  /\ UNCHANGED <<phase, listener, inbox, holder>>

\* try_recv returns None or an error; notifications read before it are run first.
NoticeLoss(n) ==
  /\ session[n] \in {"closed", "silent"} /\ ~inbox[n]
  /\ listener[n] = "listening" /\ holder[n] # "listener"
  /\ session' = [session EXCEPT ![n] = "none"]
  /\ listener' = [listener EXCEPT ![n] = "connecting"]
  /\ UNCHANGED <<phase, inbox, holder>>

\* The process dies, or stop ends its tasks.
NodeStops(n) ==
  /\ phase[n] # "off"
  /\ phase' = [phase EXCEPT ![n] = "off"]
  /\ session' = [session EXCEPT ![n] = "none"]
  /\ listener' = [listener EXCEPT ![n] = "connecting"]
  /\ inbox' = [inbox EXCEPT ![n] = FALSE]
  /\ holder' = [holder EXCEPT ![n] = "free"]
===============================================================================
