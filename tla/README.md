# Swarog in TLA+

Formal models of the Swarog backend: a modular monolith that also runs split into one
process per module, all on one Postgres database. Each TLA+ module models one
component of `src/`. TLC checks it on small instances, TLAPS proves the most important
properties for every value of the constants. `PROJECT.json` holds the tables: which
definition stands for which lines, which run checks what, which mutation each property
catches, the hazards and the theorems.

## 1. The system

| Part | State | Operations | Talks to | What makes it hard |
|---|---|---|---|---|
| Durable event plane (`core/asyncevents`, `tools/eventctl`) | XID-ordered log, subscription rows with checkpoints, plane generation | append in a producer's transaction, pull delivery, failure recording, retention, operator commands, generation bump | every module that emits or subscribes | commit order is not log order; workers of many processes; handlers that time out while their backend lives on; restore onto another cluster |
| Scheduler (`modules/scheduler`) | `schedules.last_fired` | due scan, advisory lock, re-check, fire | emits `scheduler.fired` on the plane | replicas racing; aborted loops whose sessions survive; starvation |
| Invalidation plane (`core/invalidation`) | one LISTEN session per process, callbacks | boot refresh, heal on reconnect, poll floor | caches of config and gateway keys | lost notifications, silent sockets, refreshes that race |
| Config (`modules/config`) | settings, revision row, per-process cache | `set`, raw SQL under a trigger, admin edit by compare-and-swap, snapshot load | invalidation plane | lock order, stale pages, torn snapshots |
| Mail (`modules/mail`) | the outbox | enqueue, leased drain, requeue, cancel, retention | plane, SMTP relay | sends that outlive their lease, crashes between claim and status write |
| Accounts (`modules/accounts`) | players, handles, identities, refresh families, sessions, delete tickets | register, login, link, rotate, replay, revoke, delete | gateway, plane | requests of one player in two replicas, locks taken in several orders |
| Characters, Inventory | characters, holdings, tombstones | create, delete, grant, starter item, wipe, purge sweep | accounts, scheduler and each other over the plane | events handled in either order, sweeps racing writers |
| Wallet, Party, Friends | ledger and balances; membership, invites, revisions; edges | RPC operations, purge of a deleted player | plane, push | idempotent replays, races of requests in two replicas |

The other parts of the repository (groups, storage, notifications, match and its
projections, audit, admin portal, API keys, gateway, transport, process lifecycle,
supervisors, tools) are listed in `components` with the reason why they are left out.

## 2. Modules

| Module | Models | Runs | Proofs |
|---|---|---|---|
| `EventPlane` | `core/asyncevents`, `tools/eventctl` | `event_order`, `event_liveness`, `event_retired` | `EventPlaneProofs` |
| `EventLog`, mapped in `EventPlaneLog` | what the plane promises its users | `event_order` | `EventPlaneProofs` |
| `Scheduler` | `modules/scheduler` | `scheduler_once` | `SchedulerProofs` |
| `Invalidation`, extended by `Config` | `core/invalidation`, `modules/config` | `config_store`, `config_replicas` | `ConfigProofs` |
| `Mail` | `modules/mail` | `mail_outbox`, `mail_settles`, `mail_resend` | `MailProofs` |
| `Accounts` | `modules/accounts` | `accounts` | `AccountsProofs` |
| `Characters`, `Inventory`, composed in `Purge` | `modules/characters`, `modules/inventory` | `purge` | `PurgeProofs` |
| `Friends`, `Wallet`, `Party`, side by side in `Domains` | the modules of those names | `domains` | `DomainProofs` (Friends, Wallet), `PartyProofs` |

Conventions. A definition whose comment starts with "Slip:" is a plausible mistake in
the definition after it; it is used only to show that a property would notice. Variables
marked "observation" record what happened; no action of the modelled code depends on
them. `MaxXxx` constants and guards marked "Bound" keep instances finite for TLC; the
theorems hold for every value of the constants.

Scopes. Some instances are too large to explore whole. Their MC module names a few
*scopes*, sets of states that leave out some of the inputs, and a behaviour stays in
one scope (a variable `scope` chosen at the start, or the CONSTRAINT `Within` as a
disjunction of scopes). Every action happens in some scope. Safety within a scope is
safety of the states of that scope, no more; what lies outside is left to the theorems,
which know no scopes. Liveness within a scope is checked on the behaviours that can
take their promised steps inside it; one whose next promised step would leave the scope
is not judged.

## 3. Event plane

**Code and model.** A position is `<<generation, producer_xid, tie_breaker>>`, ordered
lexicographically. Transactions are the unit of interleaving. A producer allocates an xid
(`Begin`), appends (`Append_event`) and commits or aborts in separate steps, so commits
happen in any order. A worker claims a row (`Claim`: `FOR UPDATE SKIP LOCKED`, active,
due), selects the next event below the snapshot's xmin (`Select`, `Empty`), runs the
handler, which may emit on the same transaction (`HandlerEmit`), and commits handler
effects and checkpoint together (`Deliver`). A handler error records the failure on the
same transaction (`HandlerErr`). A handler timeout only signals the backend: the session
lives on in `zombie`, holding the row lock, while the failure is recorded from another
connection with the claimed cursor and count (`HandlerTimeout`, `RecordAfterTimeout`,
`RecordGivesUp`, `BackendEnds`). `Lose` is a lost connection. Registration is an insert and
a later commit, so that a producer may fall between them. Retention is a select with its
own snapshot and a later delete (`GcSelect`, `GcDelete`). Operators pause, resume, retry, skip,
retire. `BumpLock`/`BumpCommit` take the exclusive writer lock; `Restore` puts the committed
state onto another cluster whose xids start anew, and `Boot` passes the startup guards.

**Abstractions.** Payloads are absent; a stream is a topic at a version. Xids of
retention, bump and operator transactions are not modelled (they append nothing); at the
bound the xid counter saturates and no further transaction begins. A sweep runs alone.
Retention age and backoff are nondeterministic. Specification-hash drift, contract drift
and the prepared-transaction guard stop a boot without changing state. A process that
survives a cluster switch on its open pool is outside the guards (see hazards).

**Properties.** `NoGap`: nothing committed below a checkpoint was left out.
`ClaimIsCurrent`: a claimed row stays as claimed. `UnconsumedIsKept`: retention removes
nothing a live subscription has ahead. `NeverDeliversHalted`, `GenerationFence`.
`ImplementsLog`: the plane implements `EventLog`, a log without transactions, claims,
retries or generations, in which a consumer takes the first event ahead of it and moves
its cursor in the same step. Under `Fairness`: `Progress` (a committed event is passed or
its subscription is paused, unless a transaction that was open before the event's own
never ends) and `RowIsReleased`. `InOrder` (effects commit once each, in
position order) and `CheckpointMonotone` are proved without a run of their own: the
refinement implies them and its run covers them.

**Runs.** `event_order` (402,133 states, two scopes): one subscription with two producers,
two workers, all failures, operators and retention on one generation; and two chained
subscriptions, one with an explicit start, across restore and bump with a producer in
flight. `event_liveness` (78,121): the two liveness properties, with two producers so that
an open transaction does hold a later event back, and two subscriptions. `Small` lets the
second subscription, the second open producer and the sweep meet one event, and one
subscription and one producer two. Four xids and three tie breakers are what the
out-of-order commit needs: a committed higher event, an open lower one, the delivery, and
the handler's own emission.

**Fairness.** `drain_pass` visits all subscriptions round robin, so a row that is claimable
again and again is claimed: strong fairness on `Claim` per subscription. Every other
fairness is weak: the handler timeout and the session timeout that `connect` sets end
what a delivery session has open. They are set on delivery sessions only, so nothing is
assumed of producers, registrations and bumps: each may leave its transaction open for
ever. `docs/reference/event-plane-ops.md` says that such a session stalls delivery, and so
`Progress` is conditional (`HeldBack`): without the condition the run fails, with it a
transaction left open after the event's own does no harm. `Quiet` says that connection
losses and operators stop interfering.

**Proof.** `IInv` adds to the properties: events of an open transaction carry its xid and
the current generation, and no bump holds the lock while one is open (`IEvents`); a row
lock has one holder (`ILocks`); a checkpoint is where registration put it or *settled*,
that is, no open or future transaction can append below it (`ICheckpoints`); the handled
event is settled and everything of its stream between cursor and it was removed while
the subscription was not live (`IHandling`); what a sweep has chosen is below every
checkpoint its snapshot showed live (`IRetention`). *Settled* is the heart: the frontier
makes it true at the select, `BelowXmin` is preserved by every step, and with it no gap can
open behind a checkpoint. The refinement adds `IRead` (a handled event has been
published) and shows for each action which step of `EventLog`, or which stutter, it is.
`EventPlaneProofs` goes from the types and what each step does to transactions and rows
to the row locks and the cursors, then to the invariant, the theorems and the refinement.

## 4. Scheduler

A replica's loop scans (`Scan`), rotates (`IsNext`), takes the advisory lock on its own
connection (`TryLock`), re-checks (`Recheck`), opens the transaction, commits event and
`last_fired` together (`CommitTx`), unlocks. `Abandon` is a stop, an abort or a crash at any
point: the session may survive as an orphan that holds the lock and may still commit.
Lock keys are hashes, so two schedules may share one (`OneKey`). The catalogue is fixed
(no code path deletes a schedule), the database clock is monotone, and the readiness
probe is left out.

`scheduler_once` (54,490 states; two replicas, two schedules of different intervals on one
lock key): `Spaced` (firings at least an interval apart), `FiringIsOwned` (between re-check
and commit nobody else moves `last_fired`) and `Attended` (every due schedule is attempted).
The loop ticks for as long as the process runs, so its steps are weakly fair; an attempt
is strongly fair, because the rotation comes back to a schedule until it has been tried.

Proof: with `Mutex` (a key has one holder, sessions that were abandoned included),
`OrphanIsOwned` and `LastIsLatest`, both safety properties are inductive, for any number of
replicas, schedules and key collisions.

## 5. Invalidation and Config

`Invalidation` has the state of the plane per process: boot phase, session, listener,
inbox (a set of notifications is one flag: refreshes are idempotent), and the owner of
the callback lock. `Config` extends it with the store, the caches and the writers. A
writer locks a row, the trigger locks the revision row, the commit publishes values,
revision and NOTIFY together. An admin edit renders from the cache of the process it
reached, posts to any process, locks table and revision, compares, writes. The "new
setting" of a form may name a key that has a field too; the key is then written twice
(`Restated`, `again`). A refresh reads one snapshot (`Load_snapshot`) and installs it
unless it is older (`Apply`).

`config_store` (146,671 states, three scopes: two writers with sessions that last, one
writer with sessions that close or are cut off unnoticed, and one writer that restates a
key, with sessions that last): `Coherent` (a cache is the store after some commit),
`AcceptedEditIsCurrent`, `EditIsWhole`, `EditEnds` (the lock order of edits and `set`
does not deadlock) and `Fresh` (with a socket that dies silently, the poll alone makes
every cache fresh). Each writer transaction has one statement; several hand-written
statements in one `psql` transaction can deadlock and are outside. A snapshot that is
older than the cache never arrives: the callback lock lets one refresh of a process run
at a time. The instance has one setting, so no edit of two rows; the theorems have no
such bound. Running steps are weakly fair, because the tasks loop with timeouts; the
edit's table lock and the poll's callback lock are queues, so waiting for them is
strongly fair; `Calm` says failures end.

Proof: a revision names one state of the store (`IHistory`), everything read comes from
it (`IReads`), the revision row has one holder (`ILocks`), and an edit that writes
nothing leaves the revision alone (`IWrites`). `ServesLoaded` (a started process never
serves the empty cache it was born with) is proved without a run of its own.

## 6. Mail

`Enqueue` is `enqueue_tx`; its other verdicts leave no trace, so they are the operator
`Classify_existing` that `VerdictIsRight` compares with the original request: recipient,
subject and kind (`Header`) in every state of the row, the body until it is sent. A drain claims
one row per transaction (`Claim_due`), talks to the relay without one (`Attempt`), writes the
outcome by compare-and-set on id, state and generation (`Finish`). `PassDies` is a failed
checkout or statement, an abort at the stop grace, a panic, a crash (after the last two the
drain is back when its process is started again). Durations are
integers; `Becomes_due` is the passing of a lease or backoff, and a lease runs out under an
attempt only when the budgets allow it (`LeaseTooShort`). The relay may accept a message
although the send timed out.

`mail_outbox` (3,475,832 states; send timeout below the checkout deadline, so leases do
run out; passes do not die here, the theorem of `NoMailIsLost` has no such bound):
`SentWasAccepted`, `NoMailIsLost`, `VerdictIsRight`, `FinalIsFinal`. `mail_settles`
(296,628): every pending row is settled, under weak fairness of the drain's steps and
strong fairness of claiming a due row (`ORDER BY next_attempt_at`). Deadlock is not
checked: at the bounds on rows and generations the model stops.

Proof: rows have distinct ids, keep their header for ever and their body until sent
(`IRows`); an "ok" a drain holds is an accepted attempt of the generation it claimed
(`IDrain`). `LeaseCoversAttempt` proves what `worker.rs` says of its budgets: the lease
covers an attempt and its status write whenever the send timeout is at least the
checkout deadline.

## 7. Accounts

A request is taken apart wherever another transaction can get in between: after an
advisory lock, after a read, and while it holds a row lock that somebody else wants. So
a login of a new identity verifies, locks the identity, looks it up and provisions; a
link locks the player, then the identity, then reads what the player has; a rotation
locks the token row, a replay reads its successor, a late presentation takes a snapshot
of the family, deletes its token rows and then waits for its sessions; a deletion
confirms its ticket, locks the player, and deletes everything in one commit. A password
login that finds its player stale, a link that loses a race, a deadlock that the database
breaks, and a lost connection end a request where it stands.

A deletion can be in two lock cycles, and the model has both. A rotation holds a token row
and its insert waits for the player row. A revocation (`kill_family_tx`) holds token rows
and its second DELETE waits for the family's sessions, which the cascade takes before the
refresh tokens (the order in which the schema creates the tables). `Deadlock_victim` ends
either side; without it for one of the cycles, `RequestsEnd` fails.

`accounts` (149,974 states, three scopes: one guest with its refresh families and its
deletion; one guest with two federated identities; two players by password or
federated): `HandlesAreForever`, `DeletedIsGone`, `PromotedOnce`, `FamilyIsALine`, and
`RequestsEnd` under strong fairness of each request's steps: row and advisory locks are
queues, and the two cycles are broken by the deadlock detector. `Left` and `Room` bound the
tokens of an instance such that no request in flight waits for one.

Proof: `AccountsInv` says of the tables that handles, tickets and events agree with who
exists (`PeopleInv`), that everybody who is not a guest has a real identity
(`PromotionInv`) and that token rows only point forward inside one family of one player
(`TokenInv`); of the requests that what each one has read under a lock is still true
(`Recalls`: the link's list of identities, the rotation's fresh token, the snapshot of a
family that is being revoked); and that two requests never hold the same lock
(`LocksApart`). Without `Recalls` none of the properties is inductive: `PromotedOnce` needs
that nobody else links to the player between the read and the event, `FamilyIsALine` that
the token a rotation consumes is still unused. Each action is shown to keep what every
other request remembers (`Keeps`).

## 8. Deletion of an account across modules

`Characters` and `Inventory` see the event plane as what `EventLog` promises: a
committed event waits for each subscription until one of its deliveries commits. `Purge`
composes them. A create locks, counts and inserts; a sweep selects a batch of
tombstones, deletes player by player and commits them with its checkpoint; starter item
and wipe lock the character and look at `wiped_characters`. A grant that commits between
the sweep's DELETE and its commit survives the sweep, because the DELETE did not see its
row.

`purge` (170,534 states, three scopes: two creates race for the cap; grants race with
the deletion of two players while a batch holds one; creates and the owner's delete race
with a deletion while deliveries fail): `StarterOnce`, `UnderCap` (creates that race
never pass the cap, which is fixed here: lowering the setting removes nobody's
characters), `CascadeReaches`, `SweptIsEmpty`, and `DeletionCompletes` under weak
fairness of deliveries (`Progress` of the event plane, so as long as no transaction
holds its events back for ever) and of the schedule. The instance has one failed
delivery, and fairness supposes that a sweep's DELETE of one player fits into its
timeout; `projection.rs` says itself that one that does not fails on every retry and
pauses the subscription.

Proof: `PurgeInv` adds that the deliveries of starter item and wipe exclude each other
on one character (`DeliveriesApart`), that a request which has looked before the
tombstone was planted is known as late (`LateIsKnown`), and that a sweep which has
passed a player has all of the player's rows in hand (`SweepsReach`). `CapInv`, for
`UnderCap`, adds that two creates of one player are never both past the advisory lock,
so that a create that has counted below the cap still has room when it inserts.

## 9. Friends, Wallet, Party

All three are tables worked on by READ COMMITTED transactions; their models keep the
waits on unique indexes, row locks and advisory locks, and let a transaction fail at any
point. They share the players and no table, so one run, `domains` (348,359 states),
plays one scope of one of them at a time: for Friends the cap on pending requests and the
purge of a player whose requests cross; for Wallet a credit, a debit, a reused key and a starter grant under two
settings of its knob; for Party the race for the last place, everything members can do,
moves between two parties, leases that run out, and deletions.

`EventsTellTheGraph` (Friends): the events of an edge tell one request by its author, at
most one acceptance by the other player and one removal with the right reason. The cap
on pending requests is modelled and has no property of its own. `LedgerRunsToBalance`
(Wallet): a key moves money once, each row's `balance_after` is its delta added to that
of the row before it in seq order, and the last one is the balance. `ReplayAnswersAlike`
(Wallet): a repeated call is answered as the first was. `PartyIsWhole` (Party): leaders,
members and invites agree and no race fills a party beyond its limit.
`RevisionOrdersViews` (Party): what a player is shown never changes without a larger
revision, so a client that drops older views is right.

Proofs. All five hold for any players and any number of concurrent transactions.
- Wallet (`WalletInv`): keys and numbers are unique over committed rows and running
  transactions together; no two running transactions have moved the same balance; what
  a transaction wrote under the row lock is the next entry of the ledger (`Extends`), which
  is what its commit needs; an answer is what the row with its key says, also after the
  sweep has re-owned rows of others. The property is stated as a chain, entry by entry,
  because a sum over the ledger would need an induction over data. `WalletConstants` (in
  `DomainsAssumption`) says that a movement names a player and a currency, and that the
  sentinel is nobody.
- Friends (`FriendsInv`): a row relates its author and one other player; its events tell
  its state (`Tells`, the property with its sequences taken apart); whoever has a tombstone
  is unknown to the directory; and a row the sweep has deleted stays as it is until the
  sweep commits, since every statement on it waits. `MaxEdge` is any natural number.
- Party (`PartyInv`): the tables agree with each other (`Tables`), what a transaction has
  read or written under its locks is still so (`Recalls`), and two transactions in flight
  never hold the same party or the same member row (`Isolated`). A removal recounts and
  chooses the heir from rows nobody else can touch, which is why a leader is always a
  member; the revision is drawn under the party's lock, after the members' rows, which is
  why a player who moves between parties never sees a smaller one.

## 10. Where code and comments disagree

- `event_retired` (`RetiredStaysRetired`): a late failure record compares cursor and count but
  not the state, and can turn a retired subscription into a paused one.
- `config_replicas` (`EditIsWhole`): an admin edit is diffed against the cache of the process
  that handles it, which may be older than the revision the edit is checked against; a
  field the operator changed is then left out of an accepted edit.
- `mail_resend` (`ResendsAreBounded`): the claim does not look at the attempt count; attempts
  that die before their status write are repeated without limit.

## 11. What is proved and what is only checked

Proved for all constants: the theorems in `PROJECT.json`, among them every
safety invariant and action property that a passing run checks of `EventPlane`,
`Scheduler`, `Mail`, `Accounts`, `Purge`, `Party`, `Wallet` and `Friends`, the refinement of
`EventLog`, and all but one of `Config`. They assume only the named `ASSUME`s on constants,
which TLC evaluates in the runs.

Only model-checked:
- all liveness (`Progress`, `RowIsReleased`, `Attended`, `EditEnds`, `Fresh`, `Settles`,
  `RequestsEnd`, `DeletionCompletes`): the prover has neither ENABLED nor fairness;
- `EditIsWhole`, which holds for one process only (section 10).

## 12. Not modelled

Wire formats, TLS and QUIC, HTTP routing, HTML rendering, SMTP dialogue, argument and
environment parsing, metrics: no state the properties could be about. Groups, storage,
notifications, match, rating, leaderboard, audit, admin portal and API keys are ordinary
tables behind locks or single statements; gateway, transport, lifecycle and the process
supervisors are mostly I/O. The models therefore stand for a small part of the lines of
the repository, the part in which concurrent transactions, messages and failures meet.
