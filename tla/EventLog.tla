------------------------------ MODULE EventLog ------------------------------
(***************************************************************************)
(* What the event plane promises to the modules that use it: one log that  *)
(* only grows at places no consumer has passed, read by each consumer in   *)
(* position order, every event once, with an effect that is atomic with    *)
(* the advance of the consumer's cursor.  No transactions, no claims, no   *)
(* retries, no generations: EventPlane shows that all of those implement   *)
(* this.                                                                   *)
(***************************************************************************)
EXTENDS Sequences

CONSTANTS
  Consumer, Stream, StreamOf,  \* consumers and the stream each one reads
  Position,                    \* the positions of the log
  Before(_, _)                 \* their strict order

VARIABLES
  ever,    \* events published so far: [pos, stream]
  gone,    \* those that retention has removed
  joined,  \* consumers that have joined
  floor,   \* where each of them joined
  cursor,  \* how far each of them has read
  effect   \* positions whose effect each of them has committed, in order

vars == <<ever, gone, joined, floor, cursor, effect>>

Init ==
  /\ ever = {} /\ gone = {} /\ joined = {}
  /\ floor \in [Consumer -> Position]
  /\ cursor = floor
  /\ effect = [c \in Consumer |-> <<>>]

\* An event may appear behind a consumer only where it joined past it.
Unread(c, e) ==
  e.stream = StreamOf[c] /\ Before(floor[c], e.pos) => Before(cursor[c], e.pos)

\* What a step adds to the log lies ahead of where the step leaves each consumer.
Grows == ever \subseteq ever' /\ \A e \in ever' \ ever, c \in joined : Unread(c, e)'

\* A producer's transaction commits.
Publish ==
  /\ Grows
  /\ UNCHANGED <<gone, joined, floor, cursor, effect>>

Join(c) ==
  /\ c \notin joined
  /\ joined' = joined \cup {c}
  /\ \E p \in Position : /\ floor' = [floor EXCEPT ![c] = p]
                         /\ cursor' = [cursor EXCEPT ![c] = p]
  /\ UNCHANGED <<ever, gone, effect>>

\* e is the first event past the cursor of c that retention has left.
First(c, e) ==
  /\ e.stream = StreamOf[c] /\ Before(cursor[c], e.pos)
  /\ \A f \in ever \ gone : f.stream = StreamOf[c] /\ Before(cursor[c], f.pos)
                              => ~Before(f.pos, e.pos)

\* The effect on e, what the effect itself publishes, and the cursor: one step.
Consume(c) ==
  /\ c \in joined
  /\ \E e \in ever : /\ First(c, e)
                     /\ cursor' = [cursor EXCEPT ![c] = e.pos]
                     /\ effect' = [effect EXCEPT ![c] = Append(@, e.pos)]
  /\ Grows
  /\ UNCHANGED <<gone, joined, floor>>

\* An operator gives up on e.
Skip(c) ==
  /\ c \in joined
  /\ \E e \in ever : First(c, e) /\ cursor' = [cursor EXCEPT ![c] = e.pos]
  /\ UNCHANGED <<ever, gone, joined, floor, effect>>

\* Retention.
Forget ==
  /\ gone \subseteq gone' /\ gone' \subseteq ever
  /\ UNCHANGED <<ever, joined, floor, cursor, effect>>

Next ==
  \/ Publish \/ Forget
  \/ \E c \in Consumer : Join(c) \/ Consume(c) \/ Skip(c)

Spec == Init /\ [][Next]_vars
=============================================================================
