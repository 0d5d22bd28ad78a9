------------------------------ MODULE MailProofs ------------------------------
(***************************************************************************)
(* No message is lost, no superseded attempt is recorded and every verdict *)
(* is right, for every number of keys, processes and messages.             *)
(***************************************************************************)
EXTENDS Mail, TLAPS

\* Rows are distinct, keep recipient, subject and kind for ever and their body until
\* they are sent, and a cancelled row was cancelled by an operator.
IRows ==
  /\ \A k \in Key : outbox[k].state # "none" => outbox[k].id \in 1..ids
  /\ \A j, k \in Key : outbox[j].state # "none" /\ outbox[k].state # "none"
                       /\ outbox[j].id = outbox[k].id => j = k
  /\ \A k \in Key : outbox[k].state # "none" => outbox[k].head = asked[outbox[k].id].head
  /\ \A k \in Key : outbox[k].state \in {"pending", "parked", "cancelled"} =>
                      outbox[k].body = asked[outbox[k].id].body
  /\ \A k \in Key : outbox[k].state = "cancelled" => outbox[k].id \in called

\* A pass claims with a full send left; an "ok" is the relay's.
IDrain ==
  \A p \in Process :
    /\ drain[p].pc = "sending" => drain[p].left >= SendTimeout
    /\ drain[p].pc \in {"sending", "writing"} =>
         drain[p].id \in 1..MaxId /\ drain[p].key \in Key
    /\ drain[p].pc = "writing" => drain[p].result # "none"
    /\ drain[p].pc = "writing" /\ drain[p].result = "ok" =>
         <<drain[p].id, drain[p].generation>> \in accepted

IInv == TypeOK /\ IRows /\ IDrain /\ SentWasAccepted /\ NoMailIsLost

-------------------------------------------------------------------------------
(* Budgets *)

\* "on a healthy pass the status write lands inside the lease whenever
\* MAIL_SEND_TIMEOUT_MS >= ACQUIRE_DEADLINE" (claim_lease and write_budget).
THEOREM LeaseCoversAttempt ==
  ASSUME NEW t \in Nat, t >= AcquireDeadline
  PROVE  ~LeaseTooShort(t)
BY MailAssumption DEF LeaseTooShort, Write_budget, Claim_lease, Larger

\* A pass always has room for one attempt (pass_budget).
THEOREM PassHasRoom ==
  ASSUME NEW t \in Nat
  PROVE  Pass_budget(t) >= t
BY MailAssumption DEF Pass_budget, Larger

-------------------------------------------------------------------------------
(* Records *)

\* The absence of a row is a row, the absence of a pass a drain.
LEMMA Blanks ==
  /\ NoRow \in Row /\ NoRow.state = "none"
  /\ Idle \in Drain /\ Idle.pc = "idle"
BY DEF NoRow, Row, Idle, Drain

\* The fields of a row.
LEMMA RowFields ==
  ASSUME NEW r \in Row
  PROVE  /\ r.id \in Nat /\ r.attempts \in Nat
         /\ r.generation \in Nat /\ r.due \in BOOLEAN
         /\ r.state \in {"none", "pending", "sent", "parked", "cancelled"}
BY DEF Row

\* The fields of a drain.
LEMMA DrainFields ==
  ASSUME NEW d \in Drain
  PROVE  /\ d.left \in Nat /\ d.taken \in Nat /\ d.id \in Nat /\ d.attempts \in Nat
         /\ d.generation \in Nat /\ d.pc \in {"idle", "pass", "sending", "writing"}
         /\ d.result \in {"none", "ok", "rejected", "infra"}
BY DEF Drain

\* What a status write makes of a pending row: the same message, sent only by
\* an accepted attempt.
LEMMA FinishedRow ==
  ASSUME NEW r \in Row, r.state = "pending", NEW n \in Nat,
         NEW result \in {"ok", "rejected", "infra"}
  PROVE  LET f == Finished(r, Disposition(result, n)) IN
         /\ f \in Row /\ f.id = r.id /\ f.generation = r.generation /\ f.head = r.head
         /\ \/ f.state = "sent" /\ result = "ok"
            \/ f.state \in {"pending", "parked"} /\ f.body = r.body
<1>1. \/ Disposition(result, n) = "Sent" /\ result = "ok"
      \/ Disposition(result, n) \in {"Parked", "Retry"}
  BY DEF Disposition
<1>2. /\ [r EXCEPT !.state = "sent", !.body = Blank] \in Row
      /\ [r EXCEPT !.state = "parked"] \in Row /\ [r EXCEPT !.due = FALSE] \in Row
  BY Zenon DEF Row
<1>3. /\ Finished(r, "Sent") = [r EXCEPT !.state = "sent", !.body = Blank]
      /\ Finished(r, "Parked") = [r EXCEPT !.state = "parked"]
      /\ Finished(r, "Retry") = [r EXCEPT !.due = FALSE]
  BY DEF Finished
<1>4. ASSUME NEW f \in Row, f = [r EXCEPT !.state = "sent", !.body = Blank]
      PROVE  /\ f.id = r.id /\ f.generation = r.generation /\ f.head = r.head
             /\ f.state = "sent"
  BY <1>4 DEF Row
<1>5. ASSUME NEW f \in Row, f = [r EXCEPT !.state = "parked"] \/ f = [r EXCEPT !.due = FALSE]
      PROVE  /\ f.id = r.id /\ f.generation = r.generation /\ f.head = r.head
             /\ f.body = r.body /\ f.state \in {"pending", "parked"}
  BY <1>5 DEF Row
<1>6. CASE Disposition(result, n) = "Sent"
  BY <1>6, <1>1, <1>2, <1>3, <1>4
<1>7. CASE Disposition(result, n) = "Parked"
  BY <1>7, <1>2, <1>3, <1>5
<1>8. CASE Disposition(result, n) = "Retry"
  BY Zenon, <1>8, <1>2, <1>3, <1>5
<1> QED  BY <1>1, <1>6, <1>7, <1>8

-------------------------------------------------------------------------------
(* Steps *)

\* What a step other than an insert may do to a row: nothing, remove a settled
\* one, or move an open one on.
RowMoves(k) ==
  LET r == outbox[k]
      n == outbox'[k] IN
  \/ n = r
  \/ r.state \in {"sent", "cancelled"} /\ n = NoRow
  \/ /\ r.state \in {"pending", "parked"} /\ n.id = r.id /\ n.head = r.head
     /\ \/ n.state \in {"pending", "parked"} /\ n.body = r.body
        \/ n.state = "sent" /\ <<n.id, n.generation>> \in accepted'
        \/ n.state = "cancelled" /\ n.body = r.body /\ n.id \in called'

RowsMove ==
  /\ outbox' \in [Key -> Row] /\ called' \subseteq 1..MaxId
  /\ \A k \in Key : RowMoves(k)

\* Such steps preserve what is said of rows.
LEMMA RowsKept ==
  ASSUME TypeOK, IRows, SentWasAccepted, NoMailIsLost, outbox' \in [Key -> Row],
         UNCHANGED <<ids, asked>>, accepted \subseteq accepted', called \subseteq called',
         \A k \in Key : RowMoves(k)
  PROVE  IRows' /\ SentWasAccepted' /\ NoMailIsLost'
<1>1. \A k \in Key : outbox'[k].state # "none" =>
        /\ outbox[k].state # "none" /\ outbox'[k].id = outbox[k].id
        /\ outbox'[k].head = outbox[k].head
  BY Zenon, Blanks DEF RowMoves
<1>2. \A k \in Key : outbox'[k].state \in {"pending", "parked", "cancelled"} =>
        /\ outbox[k].state \in {"pending", "parked", "cancelled"}
        /\ outbox'[k].body = outbox[k].body
  BY Zenon, Blanks DEF RowMoves
<1>3. \A k \in Key : outbox'[k].state = "cancelled" => outbox'[k].id \in called'
  <2>1. \A k \in Key : outbox[k].state = "cancelled" => outbox[k].id \in called
    BY DEF IRows
  <2> QED  BY Zenon, <2>1, Blanks DEF RowMoves
<1>4. IRows'
  BY <1>1, <1>2, <1>3 DEF IRows
<1>5. SentWasAccepted'
  BY Blanks DEF RowMoves, SentWasAccepted
<1>6. ASSUME NEW i \in 1..ids
      PROVE  \/ \E a \in accepted' : a[1] = i
             \/ i \in called'
             \/ \E k \in Key : outbox'[k].id = i /\ outbox'[k].state \in {"pending", "parked"}
                               /\ outbox'[k].head = asked[i].head
                               /\ outbox'[k].body = asked[i].body
  <2>1. CASE \E a \in accepted : a[1] = i
    BY <2>1
  <2>2. CASE i \in called
    BY <2>2
  <2>3. ASSUME NEW k \in Key, outbox[k].id = i, outbox[k].state \in {"pending", "parked"},
               outbox[k].head = asked[i].head, outbox[k].body = asked[i].body
        PROVE  \/ \E a \in accepted' : a[1] = i
               \/ i \in called'
               \/ outbox'[k].id = i /\ outbox'[k].state \in {"pending", "parked"}
                  /\ outbox'[k].head = asked[i].head /\ outbox'[k].body = asked[i].body
    <3>1. <<outbox'[k].id, outbox'[k].generation>>[1] = outbox'[k].id
      OBVIOUS
    <3> QED  BY Zenon, <2>3, <3>1 DEF RowMoves
  <2> QED  BY <2>1, <2>2, <2>3 DEF NoMailIsLost
<1> QED  BY <1>4, <1>5, <1>6 DEF NoMailIsLost

\* Steps that leave the rows alone.
LEMMA RowsSame ==
  ASSUME TypeOK, IRows, SentWasAccepted, NoMailIsLost,
         UNCHANGED <<outbox, ids, asked, called>>, accepted \subseteq accepted'
  PROVE  IRows' /\ SentWasAccepted' /\ NoMailIsLost'
<1>1. \A k \in Key : RowMoves(k)
  BY DEF RowMoves
<1> QED  BY <1>1, RowsKept DEF TypeOK

\* What a step makes of one drain.
DrainOK(d, acc) ==
  /\ d \in Drain
  /\ d.pc = "sending" => d.left >= SendTimeout
  /\ d.pc \in {"sending", "writing"} => d.id \in 1..MaxId /\ d.key \in Key
  /\ d.pc = "writing" => d.result # "none"
  /\ d.pc = "writing" /\ d.result = "ok" => <<d.id, d.generation>> \in acc

\* Steps that write one drain.
LEMMA DrainStepOK ==
  ASSUME TypeOK, IDrain, NEW p \in Process, NEW d, DrainOK(d, accepted'),
         drain' = [drain EXCEPT ![p] = d], accepted \subseteq accepted'
  PROVE  drain' \in [Process -> Drain] /\ IDrain'
<1>1. drain' \in [Process -> Drain]
  BY DEF TypeOK, DrainOK
<1>2. \A q \in Process : drain'[q] = IF q = p THEN d ELSE drain[q]
  BY DEF TypeOK
<1> QED  BY <1>1, <1>2 DEF IDrain, DrainOK

\* A drain that only carries its budget on.
LEMMA CarriesOn ==
  ASSUME NEW pc \in {"idle", "pass"}, NEW left \in Nat, NEW taken \in Nat, NEW acc
  PROVE  /\ DrainOK([Idle EXCEPT !.pc = pc, !.left = left], acc)
         /\ DrainOK([Idle EXCEPT !.pc = pc, !.left = left, !.taken = taken], acc)
         /\ DrainOK(Idle, acc)
<1>1. ASSUME NEW d \in Drain, d.pc \in {"idle", "pass"}
      PROVE  DrainOK(d, acc)
  BY <1>1 DEF DrainOK
<1>2. /\ [Idle EXCEPT !.pc = pc, !.left = left] \in Drain
      /\ [Idle EXCEPT !.pc = pc, !.left = left, !.taken = taken] \in Drain
  BY Zenon DEF Idle, Drain
<1>3. /\ [Idle EXCEPT !.pc = pc, !.left = left].pc = pc
      /\ [Idle EXCEPT !.pc = pc, !.left = left, !.taken = taken].pc = pc
  BY DEF Idle
<1> QED  BY Zenon, <1>1, <1>2, <1>3, Blanks

-------------------------------------------------------------------------------
(* Actions *)

\* A fresh row has a fresh id.
LEMMA EnqueueInv ==
  ASSUME IInv, NEW k \in Key, NEW m \in Msg, Enqueue(k, m)
  PROVE  IInv'
<1> DEFINE r == Inserted(m)
<1>0. ids \in Nat /\ MaxId \in Nat /\ ids <= MaxId
  BY MailAssumption DEF IInv, TypeOK
<1>1. /\ r \in Row /\ r.state = "pending" /\ r.id = ids + 1
      /\ r.head = m.head /\ r.body = m.body
  <2>1. PICK b \in Row : b = NoRow
    BY Blanks
  <2>2. r = [b EXCEPT !.state = "pending", !.id = ids + 1, !.head = m.head,
                      !.body = m.body, !.due = TRUE]
    BY <2>1 DEF Inserted
  <2> HIDE DEF r
  <2>3. ids + 1 \in Nat /\ m.head \in Header /\ m.body \in Body
    BY <1>0 DEF Msg
  <2> QED  BY Zenon, <2>2, <2>3 DEF Row
<1> HIDE DEF r
<1>2. /\ outbox' = [outbox EXCEPT ![k] = r] /\ ids' = ids + 1 /\ outbox[k].state = "none"
      /\ ids + 1 \in 1..MaxId /\ asked' = [asked EXCEPT ![ids + 1] = m]
      /\ UNCHANGED <<drain, deaths, accepted, called>>
  BY <1>0 DEF Enqueue, r
<1>3. TypeOK'
  BY <1>1, <1>2 DEF IInv, TypeOK, Msg
<1>4. \A j \in Key : outbox'[j] = IF j = k THEN r ELSE outbox[j]
  BY <1>2 DEF IInv, TypeOK
<1>5. \A i \in 1..MaxId : asked'[i] = IF i = ids + 1 THEN m ELSE asked[i]
  BY <1>2 DEF IInv, TypeOK
<1>6. /\ \A i \in 1..ids : i \in 1..ids' /\ i \in 1..MaxId /\ i # ids + 1
      /\ \A i \in 1..ids' : i \in 1..ids \/ i = ids + 1
  BY <1>0, <1>2
<1>7. IRows'
  <2>1. \A j \in Key : outbox'[j].state # "none" => outbox'[j].id \in 1..ids'
    BY <1>1, <1>2, <1>4, <1>6 DEF IInv, IRows, TypeOK
  <2>2. \A i, j \in Key : outbox'[i].state # "none" /\ outbox'[j].state # "none"
                          /\ outbox'[i].id = outbox'[j].id => i = j
    BY <1>1, <1>4, <1>6 DEF IInv, IRows
  <2>3. \A j \in Key : outbox'[j].state \in {"pending", "parked", "cancelled"} =>
                         outbox'[j].body = asked'[outbox'[j].id].body
    BY <1>1, <1>2, <1>4, <1>5, <1>6 DEF IInv, IRows
  <2>4. \A j \in Key : outbox'[j].state = "cancelled" => outbox'[j].id \in called'
    BY <1>1, <1>2, <1>4 DEF IInv, IRows
  <2>5. \A j \in Key : outbox'[j].state # "none" =>
                         outbox'[j].head = asked'[outbox'[j].id].head
    BY <1>1, <1>2, <1>4, <1>5, <1>6 DEF IInv, IRows
  <2> QED  BY <2>1, <2>2, <2>3, <2>4, <2>5 DEF IRows
<1>8. IDrain'
  BY <1>2 DEF IInv, IDrain
<1>9. SentWasAccepted'
  BY <1>1, <1>2, <1>4 DEF IInv, SentWasAccepted
<1>10. NoMailIsLost'
  <2>1. ASSUME NEW i \in 1..ids
        PROVE  \/ \E a \in accepted' : a[1] = i
               \/ i \in called'
               \/ \E j \in Key : outbox'[j].id = i /\ outbox'[j].state \in {"pending", "parked"}
                                 /\ outbox'[j].head = asked'[i].head
                                 /\ outbox'[j].body = asked'[i].body
    BY <1>2, <1>4, <1>5, <1>6 DEF IInv, NoMailIsLost
  <2>2. outbox'[k].id = ids + 1 /\ outbox'[k].state \in {"pending", "parked"}
        /\ outbox'[k].head = asked'[ids + 1].head /\ outbox'[k].body = asked'[ids + 1].body
    BY <1>1, <1>2, <1>4, <1>5
  <2> QED  BY <1>6, <2>1, <2>2 DEF NoMailIsLost
<1> QED  BY <1>3, <1>7, <1>8, <1>9, <1>10 DEF IInv

\* Only the drain's own state changes.
LEMMA PassInv ==
  ASSUME IInv, NEW p \in Process, StartPass(p) \/ EndPass(p) \/ PassDies(p)
  PROVE  IInv'
<1>1. Pass_budget(SendTimeout) \in Nat
  BY MailAssumption DEF Pass_budget, Larger
<1>2. PICK d : drain' = [drain EXCEPT ![p] = d] /\ DrainOK(d, accepted')
  BY <1>1, CarriesOn DEF StartPass, EndPass, PassDies
<1>3. /\ accepted \subseteq accepted' /\ accepted' \subseteq (1..MaxId) \X Nat
  <2>1. drain[p].pc = "sending" => <<drain[p].id, drain[p].generation>> \in (1..MaxId) \X Nat
    BY DrainFields DEF IInv, TypeOK, IDrain
  <2> QED  BY <2>1 DEF StartPass, EndPass, PassDies, IInv, TypeOK
<1>4. UNCHANGED <<outbox, ids, asked, called>> /\ deaths' \in 0..MaxDeaths
  BY MailAssumption DEF StartPass, EndPass, PassDies, IInv, TypeOK
<1>5. drain' \in [Process -> Drain] /\ IDrain'
  BY Zenon, <1>2, <1>3, DrainStepOK DEF IInv
<1>6. IRows' /\ SentWasAccepted' /\ NoMailIsLost'
  BY <1>3, <1>4, RowsSame DEF IInv
<1> QED  BY <1>3, <1>4, <1>5, <1>6 DEF IInv, TypeOK

\* A claim burns an attempt and starts a generation.
LEMMA ClaimInv ==
  ASSUME IInv, NEW p \in Process, NEW k \in Key, Claim_due(p, k)
  PROVE  IInv'
<1> DEFINE r == [outbox[k] EXCEPT !.attempts = outbox[k].attempts + 1,
                                  !.generation = outbox[k].generation + 1, !.due = FALSE]
           d == [pc |-> "sending", left |-> drain[p].left, taken |-> drain[p].taken + 1,
                 key |-> k, id |-> r.id, attempts |-> r.attempts,
                 generation |-> r.generation, result |-> "none"]
<1>0. outbox[k] \in Row /\ drain[p] \in Drain
  BY DEF IInv, TypeOK
<1>1. /\ r \in Row /\ r.id = outbox[k].id /\ r.state = outbox[k].state
      /\ r.head = outbox[k].head /\ r.body = outbox[k].body
  <2>1. outbox[k].attempts + 1 \in Nat /\ outbox[k].generation + 1 \in Nat
    BY <1>0, RowFields
  <2> QED  BY Zenon, <1>0, <2>1 DEF Row
<1>2. outbox[k].state = "pending" /\ outbox[k].id \in 1..MaxId
  <2>1. outbox[k].state = "pending"
    BY DEF Claim_due, Due
  <2>2. outbox[k].id \in 1..ids /\ ids \in 0..MaxId
    BY <2>1 DEF IInv, IRows, TypeOK
  <2> QED  BY <2>1, <2>2, MailAssumption
<1>3. DrainOK(d, accepted)
  <2>1. d \in Drain
    BY <1>0, <1>1, DrainFields, RowFields DEF Drain
  <2> QED  BY <2>1, <1>1, <1>2 DEF DrainOK, Claim_due, HasRoom
<1>4. /\ outbox' = [outbox EXCEPT ![k] = r] /\ drain' = [drain EXCEPT ![p] = d]
      /\ UNCHANGED <<ids, deaths, asked, accepted, called>>
  BY DEF Claim_due
<1> HIDE DEF r, d
<1>5. outbox' \in [Key -> Row] /\ \A j \in Key : RowMoves(j)
  BY <1>1, <1>2, <1>4 DEF RowMoves, IInv, TypeOK
<1>6. drain' \in [Process -> Drain] /\ IDrain'
  BY Zenon, <1>3, <1>4, DrainStepOK DEF IInv
<1>7. IRows' /\ SentWasAccepted' /\ NoMailIsLost'
  BY <1>4, <1>5, RowsKept DEF IInv
<1> QED  BY <1>4, <1>5, <1>6, <1>7 DEF IInv, TypeOK

\* The relay's answer.
LEMMA AttemptInv ==
  ASSUME IInv, NEW p \in Process, NEW result \in {"ok", "rejected", "infra"},
         NEW delivered \in BOOLEAN, Attempt(p, result, delivered)
  PROVE  IInv'
<1>0. /\ drain[p] \in Drain /\ drain[p].pc = "sending" /\ drain[p].left >= SendTimeout
      /\ drain[p].id \in 1..MaxId /\ drain[p].key \in Key
  BY Zenon DEF Attempt, IInv, TypeOK, IDrain
<1>1. /\ accepted \subseteq accepted' /\ accepted' \subseteq (1..MaxId) \X Nat
      /\ result = "ok" => <<drain[p].id, drain[p].generation>> \in accepted'
  BY <1>0, DrainFields DEF Attempt, IInv, TypeOK
<1>2. PICK left \in {drain[p].left - SendTimeout, drain[p].left} :
        drain' = [drain EXCEPT ![p] = [drain[p] EXCEPT !.pc = "writing", !.result = result,
                                                       !.left = left]]
  BY Zenon DEF Attempt
<1>3. left \in Nat
  BY <1>0, DrainFields, MailAssumption
<1> DEFINE d == [drain[p] EXCEPT !.pc = "writing", !.result = result, !.left = left]
<1>4. d \in Drain /\ d.pc = "writing" /\ d.result = result /\ d.id = drain[p].id
      /\ d.generation = drain[p].generation /\ d.key = drain[p].key
  BY Zenon, <1>0, <1>3 DEF Drain
<1>5. drain' = [drain EXCEPT ![p] = d] /\ UNCHANGED <<outbox, ids, deaths, asked, called>>
  BY Zenon, <1>2 DEF Attempt
<1> HIDE DEF d
<1>6. DrainOK(d, accepted')
  BY <1>0, <1>1, <1>4 DEF DrainOK
<1>7. drain' \in [Process -> Drain] /\ IDrain'
  BY Zenon, <1>1, <1>5, <1>6, DrainStepOK DEF IInv
<1>8. IRows' /\ SentWasAccepted' /\ NoMailIsLost'
  BY <1>1, <1>5, RowsSame DEF IInv
<1> QED  BY <1>1, <1>5, <1>7, <1>8 DEF IInv, TypeOK

\* The status write: a hit writes what the attempt earned, a miss nothing.
LEMMA FinishInv ==
  ASSUME IInv, NEW p \in Process, Finish(p)
  PROVE  IInv'
<1> DEFINE d == drain[p]
           n == Finished(outbox[d.key], Disposition(d.result, d.attempts))
<1>1. /\ d \in Drain /\ d.pc = "writing" /\ d.key \in Key
      /\ d.result \in {"ok", "rejected", "infra"} /\ d.attempts \in Nat
      /\ d.left \in Nat /\ d.taken \in Nat
      /\ d.result = "ok" => <<d.id, d.generation>> \in accepted
  <2>1. d \in Drain /\ d.pc = "writing"
    BY DEF Finish, IInv, TypeOK
  <2> QED  BY <2>1, DrainFields DEF IInv, IDrain
<1>2. drain' \in [Process -> Drain] /\ IDrain'
  <2>1. /\ drain' = [drain EXCEPT ![p] = [Idle EXCEPT !.pc = "pass", !.left = d.left,
                                                      !.taken = d.taken]]
        /\ UNCHANGED accepted
    BY DEF Finish
  <2>2. DrainOK([Idle EXCEPT !.pc = "pass", !.left = d.left, !.taken = d.taken], accepted')
    BY <1>1, CarriesOn
  <2> QED  BY Zenon, <2>1, <2>2, DrainStepOK DEF IInv
<1>3. UNCHANGED <<ids, deaths, asked, accepted, called>>
  BY DEF Finish
<1>4. outbox' \in [Key -> Row] /\ \A k \in Key : RowMoves(k)
  <2>1. CASE Matches(outbox[d.key], d)
    <3>1. /\ outbox[d.key] \in Row /\ outbox[d.key].state = "pending"
          /\ outbox[d.key].id = d.id /\ outbox[d.key].generation = d.generation
      BY <1>1, <2>1 DEF Matches, IInv, TypeOK
    <3>2. /\ n \in Row /\ n.id = d.id /\ n.generation = d.generation
          /\ n.head = outbox[d.key].head
          /\ \/ n.state = "sent" /\ d.result = "ok"
             \/ n.state \in {"pending", "parked"} /\ n.body = outbox[d.key].body
      BY <1>1, <3>1, FinishedRow
    <3>3. outbox' = [outbox EXCEPT ![d.key] = n]
      BY <2>1 DEF Finish
    <3> HIDE DEF n, d
    <3> QED  BY <1>1, <1>3, <3>1, <3>2, <3>3 DEF RowMoves, IInv, TypeOK
  <2>2. CASE ~Matches(outbox[d.key], d)
    BY <2>2 DEF Finish, RowMoves, IInv, TypeOK
  <2> QED  BY <2>1, <2>2
<1>5. IRows' /\ SentWasAccepted' /\ NoMailIsLost'
  BY <1>3, <1>4, RowsKept DEF IInv
<1> QED  BY <1>2, <1>3, <1>4, <1>5 DEF IInv, TypeOK

\* Time, operators and retention.
LEMMA RowActionsInv ==
  ASSUME IInv,
         \/ \E k \in Key : Becomes_due(k) \/ Cancel_pending(k)
         \/ \E batch \in SUBSET Key : Requeue(batch) \/ Prune(batch)
  PROVE  IInv'
<1>1. /\ UNCHANGED <<drain, ids, deaths, asked, accepted>> /\ called \subseteq called'
  BY DEF Becomes_due, Cancel_pending, Requeue, Prune
<1>2. RowsMove
  <2>1. ASSUME NEW k \in Key, Becomes_due(k)
        PROVE  RowsMove
    <3>1. outbox[k] \in Row
      BY DEF IInv, TypeOK
    <3> DEFINE r == [outbox[k] EXCEPT !.due = TRUE]
    <3>2. /\ r \in Row /\ r.id = outbox[k].id /\ r.state = outbox[k].state
          /\ r.head = outbox[k].head /\ r.body = outbox[k].body
      BY Zenon, <3>1 DEF Row
    <3>3. outbox' = [outbox EXCEPT ![k] = r] /\ outbox[k].state = "pending" /\ called' = called
      BY <2>1 DEF Becomes_due
    <3> HIDE DEF r
    <3> QED  BY <3>2, <3>3 DEF RowsMove, RowMoves, IInv, TypeOK
  <2>2. ASSUME NEW k \in Key, Cancel_pending(k)
        PROVE  RowsMove
    <3>1. outbox[k] \in Row
      BY DEF IInv, TypeOK
    <3> DEFINE r == [outbox[k] EXCEPT !.state = "cancelled"]
    <3>2. /\ r \in Row /\ r.id = outbox[k].id /\ r.state = "cancelled"
          /\ r.head = outbox[k].head /\ r.body = outbox[k].body
      BY <3>1 DEF Row
    <3>3. /\ outbox' = [outbox EXCEPT ![k] = r] /\ outbox[k].state = "pending"
          /\ called' = called \cup {outbox[k].id}
      BY <2>2 DEF Cancel_pending
    <3>4. outbox[k].id \in 1..MaxId
      <4>1. outbox[k].id \in 1..ids /\ ids \in 0..MaxId
        BY <3>3 DEF IInv, IRows, TypeOK
      <4> QED  BY <4>1, MailAssumption
    <3> HIDE DEF r
    <3> QED  BY Zenon, <3>2, <3>3, <3>4 DEF RowsMove, RowMoves, IInv, TypeOK
  <2>3. ASSUME NEW batch \in SUBSET Key, Requeue(batch)
        PROVE  RowsMove
    <3> DEFINE r(k) == [outbox[k] EXCEPT !.state = "pending", !.attempts = 0,
                                         !.generation = outbox[k].generation + 1, !.due = TRUE]
    <3>1. ASSUME NEW k \in Key
          PROVE  r(k) \in Row /\ r(k).id = outbox[k].id /\ r(k).state = "pending"
                 /\ r(k).head = outbox[k].head /\ r(k).body = outbox[k].body
      <4>1. outbox[k] \in Row
        BY DEF IInv, TypeOK
      <4>2. outbox[k].generation + 1 \in Nat
        BY <4>1, RowFields
      <4> QED  BY Zenon, <4>1, <4>2 DEF Row
    <3>2. /\ outbox' = [k \in Key |-> IF k \in batch THEN r(k) ELSE outbox[k]]
          /\ \A k \in batch : outbox[k].state = "parked"
          /\ called' = called
      BY <2>3 DEF Requeue
    <3> HIDE DEF r
    <3> QED  BY <3>1, <3>2 DEF RowsMove, RowMoves, IInv, TypeOK
  <2>4. ASSUME NEW batch \in SUBSET Key, Prune(batch)
        PROVE  RowsMove
    BY <2>4, Blanks DEF Prune, Prunable, RowsMove, RowMoves, IInv, TypeOK
  <2> QED  BY <2>1, <2>2, <2>3, <2>4
<1>3. IDrain'
  BY <1>1 DEF IInv, IDrain
<1>4. IRows' /\ SentWasAccepted' /\ NoMailIsLost'
  BY <1>1, <1>2, RowsKept DEF IInv, RowsMove
<1> QED  BY <1>1, <1>2, <1>3, <1>4 DEF IInv, TypeOK, RowsMove

-------------------------------------------------------------------------------
(* Theorems *)

\* Every step preserves the inductive invariant.
LEMMA Inductive == IInv /\ [Next]_vars => IInv'
<1> SUFFICES ASSUME IInv, [Next]_vars  PROVE IInv'
  OBVIOUS
<1>1. CASE UNCHANGED vars
  <2>1. IRows' /\ SentWasAccepted' /\ NoMailIsLost'
    BY <1>1, RowsSame DEF vars, IInv
  <2> QED  BY <1>1, <2>1 DEF vars, IInv, TypeOK, IDrain
<1>2. CASE Next
  <2>1. ASSUME NEW p \in Process, DrainStep(p) \/ PassDies(p)
        PROVE  IInv'
    BY <2>1, PassInv, ClaimInv, AttemptInv, FinishInv DEF DrainStep
  <2>2. ASSUME NEW k \in Key, Becomes_due(k) \/ Cancel_pending(k) \/ \E m \in Msg : Enqueue(k, m)
        PROVE  IInv'
    BY <2>2, RowActionsInv, EnqueueInv
  <2>3. CASE Operator
    BY <2>3, RowActionsInv DEF Operator
  <2> QED  BY <1>2, <2>1, <2>2, <2>3 DEF Next
<1> QED  BY <1>1, <1>2

\* The invariant holds from an empty outbox on.
LEMMA Invariance == Spec => []IInv
<1>1. Init => IInv
  <2> SUFFICES ASSUME Init  PROVE IInv
    OBVIOUS
  <2>1. TypeOK
    BY Blanks, MailAssumption DEF Init, TypeOK
  <2>2. IRows /\ SentWasAccepted
    BY Blanks DEF Init, IRows, SentWasAccepted
  <2>3. IDrain
    BY Blanks DEF Init, IDrain
  <2>4. NoMailIsLost
    <3>1. 1..ids = {}
      BY DEF Init
    <3> QED  BY <3>1 DEF NoMailIsLost
  <2> QED  BY <2>1, <2>2, <2>3, <2>4 DEF IInv
<1> QED  BY <1>1, Inductive, PTL DEF Spec

\* Every row of the outbox and every drain has its type: a finished row is what
\* finish_tx writes, a claimed one what claim_due_tx returns.
THEOREM TypeCorrect == Spec => []TypeOK
BY Invariance, PTL DEF IInv

\* A row is marked sent only by the attempt of its own generation, whatever the
\* leases, budgets and operators do.
THEOREM SentIsAccepted == Spec => []SentWasAccepted
BY Invariance, PTL DEF IInv

\* Whatever was enqueued is accepted, cancelled by an operator, or still there.
THEOREM NothingIsLost == Spec => []NoMailIsLost
BY Invariance, PTL DEF IInv

\* The replay verdict of enqueue_tx agrees with the original request in every
\* state of the row; once it is sent only the body is no longer compared.
THEOREM VerdictsAreRight == Spec => []VerdictIsRight
<1>1. IInv => VerdictIsRight
  <2> SUFFICES ASSUME IInv, NEW k \in Key, NEW m \in Msg, outbox[k].state # "none"
               PROVE  LET a == asked[outbox[k].id] IN
                      (Classify_existing(outbox[k], m) = "Duplicate") <=>
                        a.head = m.head /\ (a.body = m.body \/ outbox[k].state = "sent")
    BY Zenon DEF VerdictIsRight
  <2>1. outbox[k].state \in {"pending", "sent", "parked", "cancelled"}
    BY RowFields DEF IInv, TypeOK
  <2>2. /\ outbox[k].head = asked[outbox[k].id].head
        /\ outbox[k].state # "sent" => outbox[k].body = asked[outbox[k].id].body
    BY <2>1 DEF IInv, IRows
  <2> QED  BY <2>2 DEF Classify_existing, Body_is_comparable
<1> QED  BY <1>1, Invariance, PTL

\* A step leaves a settled row as it is, or removes it.
LEMMA SettledStep ==
  ASSUME IInv, [Next]_vars, NEW k \in Key, outbox[k].state \in {"sent", "cancelled"}
  PROVE  outbox'[k] \in {outbox[k], NoRow}
<1>1. CASE UNCHANGED outbox
  BY <1>1
<1>2. ASSUME NEW p \in Process, NEW j \in Key, Claim_due(p, j)
      PROVE  outbox'[k] = outbox[k]
  BY <1>2 DEF Claim_due, Due, IInv, TypeOK
<1>3. ASSUME NEW p \in Process, Finish(p)
      PROVE  outbox'[k] = outbox[k]
  BY <1>3 DEF Finish, Matches, IInv, TypeOK
<1>4. ASSUME NEW j \in Key, NEW m \in Msg, Enqueue(j, m)
      PROVE  outbox'[k] = outbox[k]
  BY <1>4 DEF Enqueue, IInv, TypeOK
<1>5. ASSUME NEW j \in Key, Becomes_due(j) \/ Cancel_pending(j)
      PROVE  outbox'[k] = outbox[k]
  BY <1>5 DEF Becomes_due, Cancel_pending, IInv, TypeOK
<1>6. ASSUME NEW batch \in SUBSET Key, Requeue(batch) \/ Prune(batch)
      PROVE  outbox'[k] \in {outbox[k], NoRow}
  BY <1>6 DEF Requeue, Prune, IInv, TypeOK
<1>7. UNCHANGED vars => UNCHANGED outbox
  BY DEF vars
<1>8. ASSUME NEW p \in Process, DrainStep(p) \/ PassDies(p)
      PROVE  UNCHANGED outbox \/ Finish(p) \/ \E j \in Key : Claim_due(p, j)
  BY <1>8 DEF DrainStep, PassDies, StartPass, EndPass, Attempt
<1> QED  BY <1>1, <1>2, <1>3, <1>4, <1>5, <1>6, <1>7, <1>8 DEF Next, Operator

\* A cancel that lands during the relay dialogue stands, and sent rows are final.
THEOREM SettledIsFinal == Spec => FinalIsFinal
<1>1. IInv /\ [Next]_vars =>
        [\A k \in Key : outbox[k].state \in {"sent", "cancelled"} =>
                          outbox'[k] \in {outbox[k], NoRow}]_vars
  BY SettledStep
<1> QED  BY <1>1, Invariance, PTL DEF Spec, FinalIsFinal
===============================================================================
