--------------------------------- MODULE Mail ---------------------------------
(***************************************************************************)
(* modules/mail: the outbox.  Durable requests and an operator put rows    *)
(* in, the drains of several processes claim them under a lease, talk to   *)
(* the relay without holding a transaction, and write the outcome back by  *)
(* compare-and-set; operators requeue and cancel, retention prunes.        *)
(*                                                                         *)
(* Wall-clock time is a row that becomes due; durations are integers.      *)
(***************************************************************************)
EXTENDS Integers, FiniteSets

CONSTANTS
  Key,             \* idempotency keys
  Header,          \* recipient, subject and kind of a request
  Body,            \* its body
  Blank,           \* the body of a sent row
  Process,         \* processes that run a drain
  SendTimeout, AcquireDeadline, DrainDeadline,
  DrainBatch, MaxAttempts,
  MaxId,           \* bound on inserted rows
  MaxGen,          \* bound on claims and requeues of a row
  RequeueGen,      \* the last generation operators requeue
  MaxDeaths        \* bound on passes that die or fail half-way

ASSUME MailAssumption ==
  /\ {SendTimeout, AcquireDeadline, DrainDeadline} \subseteq Nat \ {0}
  /\ {DrainBatch, MaxAttempts, MaxId, MaxGen, RequeueGen, MaxDeaths} \subseteq Nat
  /\ Blank \notin Header \cup Body

VARIABLES
  outbox,    \* [Key -> Row]: mail.outbox by idempotency_key
  drain,     \* [Process -> Drain]: the pass and the attempt it is at
  ids,       \* how many rows were inserted
  deaths,    \* passes that died
  asked,     \* observation: the message each row was inserted for
  accepted,  \* observation: <<id, generation>> of attempts the relay accepted
  called     \* observation: rows an operator cancelled

vars == <<outbox, drain, ids, deaths, asked, accepted, called>>

Msg == [head: Header, body: Body]

\* A row; "none" is the absence of one.
Row == [state: {"none", "pending", "sent", "parked", "cancelled"}, id: Nat,
        head: Header \cup {Blank}, body: Body \cup {Blank}, attempts: Nat, generation: Nat,
        due: BOOLEAN]

NoRow == [state |-> "none", id |-> 0, head |-> Blank, body |-> Blank, attempts |-> 0,
          generation |-> 0, due |-> FALSE]

\* A drain: what is left of the pass, the rows it took, and the Claimed row.
Drain == [pc: {"idle", "pass", "sending", "writing"}, left: Nat, taken: Nat,
          key: Key \cup {Blank}, id: Nat, attempts: Nat, generation: Nat,
          result: {"none", "ok", "rejected", "infra"}]

Idle == [pc |-> "idle", left |-> 0, taken |-> 0, key |-> Blank, id |-> 0, attempts |-> 0,
         generation |-> 0, result |-> "none"]

Init ==
  /\ outbox = [k \in Key |-> NoRow]
  /\ drain = [p \in Process |-> Idle]
  /\ ids = 0 /\ deaths = 0
  /\ asked = [i \in 1..MaxId |-> [head |-> Blank, body |-> Blank]]
  /\ accepted = {} /\ called = {}

-------------------------------------------------------------------------------
(* Budgets *)

Larger(a, b) == IF a >= b THEN a ELSE b

\* Slip: the floor is the budget.
Pass_budget_Fixed(timeout) == DrainDeadline

Pass_budget(timeout) == Larger(DrainDeadline, timeout + AcquireDeadline)

Claim_lease(timeout) == 3 * timeout

\* What the lease leaves after the send and one checkout, at least a checkout.
Write_budget(timeout) ==
  Larger(Larger(Claim_lease(timeout) - timeout, 0) - AcquireDeadline, AcquireDeadline)

\* A send, a checkout and a status write may outlast the lease.
LeaseTooShort(timeout) == Claim_lease(timeout) < timeout + AcquireDeadline + Write_budget(timeout)

-------------------------------------------------------------------------------
(* The enqueue authority *)

\* Slip: a blanked body is compared.
Body_is_comparable_Always(state) == TRUE

Body_is_comparable(state) == state # "sent"

\* Recipient, subject and kind are compared in every state.
Classify_existing(row, m) ==
  IF row.head = m.head /\ (Body_is_comparable(row.state) => row.body = m.body)
  THEN "Duplicate" ELSE "Conflict"

Inserted(m) ==
  [NoRow EXCEPT !.state = "pending", !.id = ids + 1, !.head = m.head, !.body = m.body,
                !.due = TRUE]

\* enqueue_tx, from on_send_requested or enqueue_from_admin; any other verdict
\* than Inserted leaves the row that has the key alone.
Enqueue(k, m) ==
  /\ outbox[k].state = "none" /\ ids < MaxId
  /\ outbox' = [outbox EXCEPT ![k] = Inserted(m)]
  /\ ids' = ids + 1
  /\ asked' = [asked EXCEPT ![ids + 1] = m]
  /\ UNCHANGED <<drain, deaths, accepted, called>>

-------------------------------------------------------------------------------
(* The drain *)

\* run_loop's tick starts a pass.
StartPass(p) ==
  /\ drain[p].pc = "idle"
  /\ drain' = [drain EXCEPT ![p] = [Idle EXCEPT !.pc = "pass", !.left = Pass_budget(SendTimeout)]]
  /\ UNCHANGED <<outbox, ids, deaths, asked, accepted, called>>

Due(k) == outbox[k].state = "pending" /\ outbox[k].due

\* The pass goes on to another row.
HasRoom(p) ==
  drain[p].pc = "pass" /\ drain[p].left >= SendTimeout /\ drain[p].taken < DrainBatch

\* claim_due_tx, committed: one due row, an attempt burnt, a lease.
Claim_due(p, k) ==
  LET r == [outbox[k] EXCEPT !.attempts = @ + 1, !.generation = @ + 1, !.due = FALSE] IN
  /\ HasRoom(p) /\ Due(k) /\ outbox[k].generation < MaxGen
  /\ outbox' = [outbox EXCEPT ![k] = r]
  /\ drain' = [drain EXCEPT ![p] =
       [pc |-> "sending", left |-> drain[p].left, taken |-> drain[p].taken + 1, key |-> k,
        id |-> r.id, attempts |-> r.attempts, generation |-> r.generation, result |-> "none"]]
  /\ UNCHANGED <<ids, deaths, asked, accepted, called>>

EndPass(p) ==
  /\ drain[p].pc = "pass"
  /\ ~HasRoom(p) \/ \A k \in Key : ~Due(k)
  /\ drain' = [drain EXCEPT ![p] = Idle]
  /\ UNCHANGED <<outbox, ids, deaths, asked, accepted, called>>

\* attempt: the relay answers, or the send times out and nobody knows.
Attempt(p, result, delivered) ==
  LET d == drain[p] IN
  /\ d.pc = "sending"
  /\ result = "ok" => delivered
  /\ result = "rejected" => ~delivered
  /\ accepted' = IF delivered THEN accepted \cup {<<d.id, d.generation>>} ELSE accepted
  /\ \E left \in {d.left - SendTimeout, d.left} :
       drain' = [drain EXCEPT ![p] = [d EXCEPT !.pc = "writing", !.result = result, !.left = left]]
  /\ UNCHANGED <<outbox, ids, deaths, asked, called>>

Disposition(result, attempts) ==
  CASE result = "ok" -> "Sent"
    [] result = "rejected" -> "Parked"
    [] result = "infra" -> IF attempts >= MaxAttempts THEN "Parked" ELSE "Retry"

\* Slip: a state the table's CHECK does not know.
Finished_Failed(row, disposition) ==
  CASE disposition = "Sent" -> [row EXCEPT !.state = "sent", !.body = Blank]
    [] disposition = "Parked" -> [row EXCEPT !.state = "failed"]
    [] disposition = "Retry" -> [row EXCEPT !.due = FALSE]

\* The row a disposition writes; a Retry is due again after its backoff.
Finished(row, disposition) ==
  CASE disposition = "Sent" -> [row EXCEPT !.state = "sent", !.body = Blank]
    [] disposition = "Parked" -> [row EXCEPT !.state = "parked"]
    [] disposition = "Retry" -> [row EXCEPT !.due = FALSE]

\* Slip: the ABA guard is the attempt count.
Matches_Attempts(row, d) == row.id = d.id /\ row.state = "pending" /\ row.attempts = d.attempts

\* Slip: the state is not compared.
Matches_AnyState(row, d) == row.id = d.id /\ row.generation = d.generation

\* The compare-and-set of every status write.
Matches(row, d) == row.id = d.id /\ row.state = "pending" /\ row.generation = d.generation

\* finish_tx, committed; a miss drops the outcome.
Finish(p) ==
  LET d == drain[p] IN
  /\ d.pc = "writing"
  /\ outbox' = IF Matches(outbox[d.key], d)
               THEN [outbox EXCEPT ![d.key] = Finished(@, Disposition(d.result, d.attempts))]
               ELSE outbox
  /\ drain' = [drain EXCEPT ![p] = [Idle EXCEPT !.pc = "pass", !.left = d.left, !.taken = d.taken]]
  /\ UNCHANGED <<ids, deaths, asked, accepted, called>>

\* A failed checkout or statement, an abort at the stop grace, a panic, a crash;
\* a send cut short may have been accepted.
PassDies(p) ==
  /\ drain[p].pc # "idle" /\ deaths < MaxDeaths
  /\ deaths' = deaths + 1
  /\ \/ UNCHANGED accepted
     \/ /\ drain[p].pc = "sending"
        /\ accepted' = accepted \cup {<<drain[p].id, drain[p].generation>>}
  /\ drain' = [drain EXCEPT ![p] = Idle]
  /\ UNCHANGED <<outbox, ids, asked, called>>

InFlight(k) ==
  \E p \in Process : /\ drain[p].pc \in {"sending", "writing"} /\ drain[p].key = k
                     /\ Matches(outbox[k], drain[p])

\* The lease or the backoff runs out; not under an attempt the lease covers.
Becomes_due(k) ==
  /\ outbox[k].state = "pending" /\ ~outbox[k].due
  /\ InFlight(k) => LeaseTooShort(SendTimeout)
  /\ outbox' = [outbox EXCEPT ![k].due = TRUE]
  /\ UNCHANGED <<drain, ids, deaths, asked, accepted, called>>

-------------------------------------------------------------------------------
(* Operators and retention *)

\* requeue_parked_tx, and requeue_all_parked_tx for what one batch finds unlocked.
Requeue(batch) ==
  /\ batch # {}
  /\ \A k \in batch : outbox[k].state = "parked" /\ outbox[k].generation <= RequeueGen
  /\ outbox' = [k \in Key |->
       IF k \in batch
       THEN [outbox[k] EXCEPT !.state = "pending", !.attempts = 0, !.generation = @ + 1,
                              !.due = TRUE]
       ELSE outbox[k]]
  /\ UNCHANGED <<drain, ids, deaths, asked, accepted, called>>

Cancel_pending(k) ==
  /\ outbox[k].state = "pending"
  /\ outbox' = [outbox EXCEPT ![k].state = "cancelled"]
  /\ called' = called \cup {outbox[k].id}
  /\ UNCHANGED <<drain, ids, deaths, asked, accepted>>

\* Slip: everything that is not pending is old enough to go.
Prunable_NotPending(row) == row.state \in {"sent", "cancelled", "parked"}

Prunable(row) == row.state \in {"sent", "cancelled"}

\* PruneHandler: what is past its retention, as far as the sweep gets.
Prune(batch) ==
  /\ batch # {} /\ \A k \in batch : Prunable(outbox[k])
  /\ outbox' = [k \in Key |-> IF k \in batch THEN NoRow ELSE outbox[k]]
  /\ UNCHANGED <<drain, ids, deaths, asked, accepted, called>>

-------------------------------------------------------------------------------
DrainStep(p) ==
  \/ StartPass(p) \/ EndPass(p) \/ Finish(p)
  \/ \E k \in Key : Claim_due(p, k)
  \/ \E result \in {"ok", "rejected", "infra"}, delivered \in BOOLEAN : Attempt(p, result, delivered)

Operator == \E batch \in SUBSET Key : Requeue(batch) \/ Prune(batch)

Next ==
  \/ \E p \in Process : DrainStep(p) \/ PassDies(p)
  \/ \E k \in Key : Becomes_due(k) \/ Cancel_pending(k) \/ \E m \in Msg : Enqueue(k, m)
  \/ Operator

Spec == Init /\ [][Next]_vars

-------------------------------------------------------------------------------
(* Properties *)

\* Every variable has its type; a finished row is one that finish_tx writes.
TypeOK ==
  /\ outbox \in [Key -> Row] /\ drain \in [Process -> Drain]
  /\ ids \in 0..MaxId /\ deaths \in 0..MaxDeaths
  /\ asked \in [1..MaxId -> [head: Header \cup {Blank}, body: Body \cup {Blank}]]
  /\ accepted \subseteq (1..MaxId) \X Nat /\ called \subseteq 1..MaxId

\* A row is marked sent only by the attempt that owns it: the relay accepted the
\* message in the row's own, latest generation ("a write from a superseded
\* attempt can never match").
SentWasAccepted ==
  \A k \in Key : outbox[k].state = "sent" => <<outbox[k].id, outbox[k].generation>> \in accepted

\* No message is lost: what was enqueued has been accepted by the relay, was
\* cancelled, or is still in the outbox with its text.
NoMailIsLost ==
  \A i \in 1..ids :
    \/ \E a \in accepted : a[1] = i
    \/ i \in called
    \/ \E k \in Key : outbox[k].id = i /\ outbox[k].state \in {"pending", "parked"}
                      /\ outbox[k].head = asked[i].head /\ outbox[k].body = asked[i].body

\* An operator's cancel that lands during the dialogue with the relay stands, and
\* a sent row is never touched: both leave the outbox only by retention.
FinalIsFinal ==
  [][\A k \in Key : outbox[k].state \in {"sent", "cancelled"} => outbox'[k] \in {outbox[k], NoRow}]_vars

\* A request under a key that has a row is a Duplicate exactly when it repeats the
\* request the row was inserted for; a sent row, whose body is blanked, no longer
\* tells bodies apart, and nothing else ("the carve-out covers the body only").
VerdictIsRight ==
  \A k \in Key, m \in Msg : outbox[k].state # "none" =>
    LET a == asked[outbox[k].id] IN
    (Classify_existing(outbox[k], m) = "Duplicate") <=>
      a.head = m.head /\ (a.body = m.body \/ outbox[k].state = "sent")

\* "fail-closed toward parking rather than toward an unbounded resend loop": no row
\* is attempted more often than MAIL_MAX_ATTEMPTS before it is parked.
ResendsAreBounded == \A k \in Key : outbox[k].attempts <= MaxAttempts

-------------------------------------------------------------------------------
(* Liveness *)

\* The loop ticks and its steps return within their deadlines, leases run out,
\* the claim takes the row that is due longest.
DrainSpec ==
  /\ Spec
  /\ \A p \in Process : WF_vars(DrainStep(p))
  /\ \A k \in Key : /\ WF_vars(Becomes_due(k))
                    /\ SF_vars(\E p \in Process : Claim_due(p, k))

\* Every pending row is sent, parked or cancelled in the end, unless operators
\* requeue for ever: through dying passes, backoffs and exhausted budgets.
Settles ==
  \A k \in Key : outbox[k].state = "pending" ~> outbox[k].state # "pending"
===============================================================================
