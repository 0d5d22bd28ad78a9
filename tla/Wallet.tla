------------------------------- MODULE Wallet -------------------------------
(***************************************************************************)
(* The wallet module (modules/wallet): credits, debits and starter grants  *)
(* as concurrent READ COMMITTED transactions over the currency catalog,    *)
(* the balances and the ledger, whose unique idempotency key is claimed    *)
(* before money moves; the tombstone of a deleted player, and the sweep    *)
(* that erases its money and keeps its keys.                               *)
(***************************************************************************)
EXTENDS Integers, FiniteSetsExt

CONSTANTS
  Player,    \* player ids: positive numbers, in the order of their uuids
  Currency,  \* currency codes, some of which the operator adds to the catalog
  Movement,  \* what callers ask for: [key, player, currency, delta, reason]
  Starter,   \* the movements grant_starter may build, the knobs being what they are
  Call,      \* transactions that may be in flight at the same time
  Ceiling    \* the balance ceiling of balances_amount_check

Sentinel == 0   \* PURGE_SENTINEL, the owner of a purged player's ledger rows
Absent   == -1  \* no balance row
Conflict == -1  \* the answer IDEMPOTENCY_CONFLICT

\* What is asked of the constants.
WalletConstants ==
  /\ Sentinel \notin Player
  /\ \A m \in Movement : m.player \in Player /\ m.currency \in Currency /\ m.delta \in Int

VARIABLES
  catalog,  \* committed rows of wallet.currencies
  balance,  \* wallet.balances: amount of (player, currency), or Absent
  ledger,   \* committed rows of wallet.ledger
  purged,   \* wallet.purged_players: none, planted, swept
  call,     \* movements in flight
  sweep     \* the delivery of the purge sweep

VARIABLE answers  \* observation: what callers were answered for a movement

vars == <<catalog, balance, ledger, purged, call, sweep, answers>>

NoCall  == [pc |-> "idle"]
NoSweep == [pc |-> "idle", p |-> Sentinel, done |-> {}, gone |-> {}, owned |-> {}]

Pair(m) == <<m.player, m.currency>>

Init ==
  /\ catalog = {}
  /\ balance = [x \in Player \X Currency |-> Absent]
  /\ ledger = {}
  /\ purged = [p \in Player |-> "none"]
  /\ call = [c \in Call |-> NoCall] /\ sweep = NoSweep
  /\ answers = [m \in Movement |-> {}]

Busy(c) == call[c].pc # "idle"

\* The operator's catalog form, or the dev seed.
Write_currency(cur) ==
  /\ cur \notin catalog
  /\ catalog' = catalog \cup {cur}
  /\ UNCHANGED <<balance, ledger, purged, call, sweep, answers>>

-------------------------------------------------------------------------------
(* apply_on *)

CallFrame == UNCHANGED <<catalog, balance, ledger, purged, sweep>>

Is_player_purged(p) == purged[p] # "none"

\* The transaction begins, and is_player_purged_tx lets it through; Outcome::Purged
\* ends it where it began.
Begin(c, m) ==
  /\ ~Busy(c) /\ ~Is_player_purged(m.player)
  /\ call' = [call EXCEPT ![c] = [pc |-> "checked", m |-> m]]
  /\ UNCHANGED answers /\ CallFrame

\* credit and debit.
Apply(c, m) == m \in Movement \ Starter /\ Begin(c, m)

\* player.registered or player.promoted reaches grant_starter, any number of
\* times; the catalog is probed first.
Grant_starter(c, m) == m \in Starter /\ m.currency \in catalog /\ Begin(c, m)

Same_movement(r, m) ==
  /\ r.player = m.player /\ r.currency = m.currency
  /\ r.delta = m.delta /\ r.reason = m.reason

\* Slip: a replay is answered with the balance of the moment.
Replayed_Live(r, m) == IF Same_movement(r, m) THEN balance[Pair(m)] ELSE Conflict

\* Outcome::Duplicate with the stored balance_after, or Outcome::Conflict.
Replayed(r, m) == IF Same_movement(r, m) THEN r.after ELSE Conflict

\* A durable handler answers nobody; an answer may be lost on its way.
Answer(m, a) ==
  \/ /\ m \notin Starter
     /\ answers' = [answers EXCEPT ![m] = @ \cup {a}]
  \/ UNCHANGED answers

Claims(d, k) == Busy(d) /\ call[d].pc \in {"claimed", "moved"} /\ call[d].m.key = k

\* The dedup gate.  The INSERT waits for an uncommitted row with its key; a
\* committed one is re-read in a fresh snapshot and decides the answer.
Insert_ledger(c) ==
  LET m == call[c].m IN
  /\ call[c].pc = "checked"
  /\ \A d \in Call \ {c} : ~Claims(d, m.key)
  /\ \/ /\ \A r \in ledger : r.key # m.key
        /\ call' = [call EXCEPT ![c].pc = "claimed"]
        /\ UNCHANGED answers
     \/ \E r \in ledger :
          /\ r.key = m.key
          /\ Answer(m, Replayed(r, m))
          /\ call' = [call EXCEPT ![c] = NoCall]
  /\ CallFrame

\* Slip: no row lock separates the reading of the amount from its writing.
Moving_Never(d, x) == FALSE

\* Another transaction has changed, or inserted, the balance row and not committed.
Moving(d, x) == call[d].pc = "moved" /\ Pair(call[d].m) = x

\* nextval under the row lock: past every number drawn before.
Draw ==
  1 + Max({0} \cup {r.seq : r \in ledger}
              \cup {call[d].seq : d \in {e \in Call : call[e].pc = "moved"}})

Moved(c, amount) ==
  call' = [call EXCEPT ![c] =
    [pc |-> "moved", m |-> call[c].m, after |-> amount, seq |-> Draw]]

InRange(amount) == amount >= 0 /\ amount <= Ceiling

\* apply_balance_tx on a row that exists, and set_balance_after_tx: the UPDATE waits
\* for the row, and balances_amount_check aborts the transaction.
Update_balance(c) ==
  LET x == Pair(call[c].m)  amount == balance[x] + call[c].m.delta IN
  /\ call[c].pc = "claimed" /\ balance[x] # Absent
  /\ x \notin sweep.gone /\ \A d \in Call : ~Moving(d, x)
  /\ IF InRange(amount) THEN Moved(c, amount) ELSE call' = [call EXCEPT ![c] = NoCall]
  /\ UNCHANGED answers /\ CallFrame

\* ... and on one that does not: a debit is refused on the spot; a credit waits for a
\* concurrent first credit (and then takes DO UPDATE), and an unknown currency
\* violates the foreign key.
Insert_balance(c) ==
  LET x == Pair(call[c].m)  delta == call[c].m.delta IN
  /\ call[c].pc = "claimed" /\ balance[x] = Absent
  /\ delta > 0 => \A d \in Call : ~Moving(d, x)
  /\ IF delta > 0 /\ InRange(delta) /\ call[c].m.currency \in catalog
       THEN Moved(c, delta)
       ELSE call' = [call EXCEPT ![c] = NoCall]
  /\ UNCHANGED answers /\ CallFrame

Row(c) ==
  [seq |-> call[c].seq, key |-> call[c].m.key, player |-> call[c].m.player,
   currency |-> call[c].m.currency, delta |-> call[c].m.delta,
   reason |-> call[c].m.reason, after |-> call[c].after]

\* wallet.changed is appended and the transaction commits.
Commit(c) ==
  LET m == call[c].m IN
  /\ call[c].pc = "moved"
  /\ ledger' = ledger \cup {Row(c)}
  /\ balance' = [balance EXCEPT ![Pair(m)] = call[c].after]
  /\ Answer(m, call[c].after)
  /\ call' = [call EXCEPT ![c] = NoCall]
  /\ UNCHANGED <<catalog, purged, sweep>>

\* The connection is lost, or a statement fails: nothing happened.
Rollback(c) ==
  /\ Busy(c)
  /\ call' = [call EXCEPT ![c] = NoCall]
  /\ UNCHANGED answers /\ CallFrame

-------------------------------------------------------------------------------
(* Deletion *)

\* player.deleted is delivered.
Plant_purged_player(p) ==
  /\ purged[p] = "none"
  /\ purged' = [purged EXCEPT ![p] = "planted"]
  /\ UNCHANGED <<catalog, balance, ledger, call, sweep, answers>>

SweepFrame == UNCHANGED <<catalog, call, answers>>

Due == {p \in Player : purged[p] = "planted" /\ \A q \in sweep.done : p > q}

\* The players with a tombstone in uuid order, in one transaction; a batch does not
\* see the tombstones planted since it was selected.
Select ==
  /\ sweep.pc = "idle" /\ Due # {}
  /\ \E p \in Due : sweep' = [sweep EXCEPT !.pc = "delete", !.p = p]
  /\ UNCHANGED <<balance, ledger, purged>> /\ SweepFrame

\* purge_player_tx: DELETE FROM balances waits for the movements that hold a row of
\* the player, and does not see one that has only just been inserted ...
Delete_balances ==
  LET rows == {x \in DOMAIN balance : x[1] = sweep.p /\ balance[x] # Absent} IN
  /\ sweep.pc = "delete"
  /\ \A d \in Call, x \in rows : ~Moving(d, x)
  /\ sweep' = [sweep EXCEPT !.pc = "reown", !.gone = @ \cup rows]
  /\ UNCHANGED <<balance, ledger, purged>> /\ SweepFrame

\* ... UPDATE ledger re-owns the rows committed by now, and swept_at is stamped.
Reown_ledger ==
  /\ sweep.pc = "reown"
  /\ sweep' = [sweep EXCEPT !.pc = "idle", !.done = @ \cup {sweep.p},
                            !.owned = @ \cup {r \in ledger : r.player = sweep.p}]
  /\ UNCHANGED <<balance, ledger, purged>> /\ SweepFrame

\* The batches are used up, or the budget is spent: the handler's transaction commits.
SweepCommit ==
  /\ sweep.pc = "idle" /\ sweep.done # {}
  /\ purged' = [p \in Player |-> IF p \in sweep.done THEN "swept" ELSE purged[p]]
  /\ balance' = [x \in DOMAIN balance |-> IF x \in sweep.gone THEN Absent ELSE balance[x]]
  /\ ledger' = (ledger \ sweep.owned) \cup {[r EXCEPT !.player = Sentinel] : r \in sweep.owned}
  /\ sweep' = NoSweep
  /\ SweepFrame

SweepFails ==
  /\ sweep # NoSweep
  /\ sweep' = NoSweep
  /\ UNCHANGED <<balance, ledger, purged>> /\ SweepFrame

-------------------------------------------------------------------------------
CallStep(c) == Insert_ledger(c) \/ Update_balance(c) \/ Insert_balance(c) \/ Commit(c)

SweepStep == Select \/ Delete_balances \/ Reown_ledger \/ SweepCommit

Next ==
  \/ \E cur \in Currency : Write_currency(cur)
  \/ \E c \in Call : \/ \E m \in Movement : Apply(c, m) \/ Grant_starter(c, m)
                     \/ CallStep(c) \/ Rollback(c)
  \/ \E p \in Player : Plant_purged_player(p)
  \/ SweepStep \/ SweepFails

Spec == Init /\ [][Next]_vars

-------------------------------------------------------------------------------
(* Properties *)

\* The licence for #[retry_safe]: every answer to a movement that has been applied is
\* the balance which the original call produced, and none is a conflict, unless the
\* player has been deleted meanwhile.
ReplayAnswersAlike ==
  \A m \in Movement : purged[m.player] = "none" =>
    /\ \A a, b \in answers[m] : a = b
    /\ \A r \in ledger : r.key = m.key /\ Same_movement(r, m) => Conflict \notin answers[m]

Rows(x) == {r \in ledger : r.player = x[1] /\ r.currency = x[2]}

\* The balance that rows run to: balance_after of the last in seq order.
RunsTo(rows) ==
  IF rows = {} THEN 0 ELSE (CHOOSE r \in rows : \A q \in rows : q.seq <= r.seq).after

\* A key moves money once, whatever is retried, redelivered or raced, and the ledger
\* of a player in seq order is the history of the balance: each row's balance_after
\* is its delta added to the one before it, and the last is the balance.
LedgerRunsToBalance ==
  /\ \A r, q \in ledger : r.key = q.key \/ r.seq = q.seq => r = q
  /\ \A x \in DOMAIN balance : purged[x[1]] # "swept" =>
       /\ \A r \in Rows(x) : r.after = RunsTo({q \in Rows(x) : q.seq < r.seq}) + r.delta
       /\ balance[x] = IF Rows(x) = {} THEN Absent ELSE RunsTo(Rows(x))
=============================================================================
