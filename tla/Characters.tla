----------------------------- MODULE Characters -----------------------------
(***************************************************************************)
(* The characters module (modules/characters): creation under a cap, the   *)
(* owner's delete, the tombstone that a deleted account leaves, and the    *)
(* scheduled sweep behind it.                                              *)
(*                                                                         *)
(* The event plane appears as what EventLog promises: an event that        *)
(* committed waits for each subscription until one of its deliveries       *)
(* commits.  Events about different characters or players may be handled   *)
(* in any order.                                                           *)
(***************************************************************************)
EXTENDS Integers, FiniteSets, FiniteSetsExt

CONSTANTS
  Player,      \* player ids: positive numbers, in the order of their uuids
  Character,   \* character ids, each used at most once
  Cap,         \* characters/max_per_player
  PurgeBatch,  \* PURGE_BATCH
  Creator,     \* create requests that may be in flight at the same time
  MaxFailed,   \* bound: deliveries that fail
  Nobody

ASSUME CharactersAssumption ==
  /\ Player \subseteq Nat \ {0} /\ Nobody \notin Player \cup Character
  /\ Cap \in Nat

Subscriber == {"characters", "inventory"}

VARIABLES
  account,  \* players whose account exists
  gone,     \* player.deleted events a module has not handled: per subscriber
  fired,    \* a scheduler.fired{player-purge} a module has not handled
  created,  \* character.created events inventory has not handled
  removed,  \* character.deleted events inventory has not handled
  failed,   \* deliveries that failed so far
  row,      \* committed rows of characters.characters
  of,       \* the player of every character ever inserted
  grave,    \* characters.purged_players: none, planted, swept
  creator,  \* create requests
  sweep     \* the delivery of the sweep

\* Observation: rows inserted by a transaction that was past its look at the
\* tombstones when the tombstone committed.
VARIABLE slipped

events == <<account, gone, fired, created, removed, failed>>
chars  == <<row, of, grave, creator, sweep, slipped>>

Owned(p) == {c \in row : of[c] = p}

\* "late": the tombstone was planted after this request had looked for it.
NoCreate == [pc |-> "idle", p |-> 0, late |-> FALSE]

NoSweep == [pc |-> "idle", todo |-> {}, done |-> {}, mark |-> 0, rows |-> {}]

CharactersInit ==
  /\ account = Player
  /\ gone = [m \in Subscriber |-> {}]
  /\ fired = [m \in Subscriber |-> FALSE]
  /\ created = {} /\ removed = {} /\ failed = 0 /\ row = {} /\ slipped = {}
  /\ of = [c \in Character |-> Nobody]
  /\ grave = [p \in Player |-> "none"]
  /\ creator = [r \in Creator |-> NoCreate]
  /\ sweep = NoSweep

-------------------------------------------------------------------------------
(* What the other modules do *)

\* accounts: the player row, its sessions and player.deleted commit together.
Delete_player(p) ==
  /\ p \in account
  /\ account' = account \ {p}
  /\ gone' = [m \in Subscriber |-> gone[m] \cup {p}]
  /\ UNCHANGED <<fired, created, removed, failed, chars>>

\* scheduler: the daily player-purge reaches every subscription.
Fire ==
  /\ \E m \in Subscriber : ~fired[m]
  /\ fired' = [m \in Subscriber |-> TRUE]
  /\ UNCHANGED <<account, gone, created, removed, failed, chars>>

\* A delivery that fails is repeated; twenty failures in a row would pause the
\* subscription, which is an operator's business.
Fail == failed < MaxFailed /\ failed' = failed + 1

-------------------------------------------------------------------------------
(* create *)

CreateFrame == UNCHANGED <<events, row, of, grave, sweep, slipped>>

\* The gateway verified the caller's session while the account existed.
Create(r, p) ==
  /\ creator[r].pc = "idle" /\ p \in account
  /\ creator' = [creator EXCEPT ![r] = [pc |-> "verified", p |-> p, late |-> FALSE]]
  /\ CreateFrame

\* Slip: the player is not locked.
CreateLock_None(r) ==
  /\ creator[r].pc = "verified"
  /\ creator' = [creator EXCEPT ![r].pc = "locked"]
  /\ CreateFrame

\* pg_advisory_xact_lock(player_lock_key).
CreateLock(r) ==
  /\ creator[r].pc = "verified"
  /\ \A q \in Creator : creator[q].p = creator[r].p => creator[q].pc \in {"idle", "verified"}
  /\ creator' = [creator EXCEPT ![r].pc = "locked"]
  /\ CreateFrame

\* Slip: the tombstone is not consulted.
Is_player_purged_Never(p) == FALSE

\* is_player_purged_tx.
Is_player_purged(p) == grave[p] # "none"

CreateGuard(r) ==
  /\ creator[r].pc = "locked"
  /\ creator' = [creator EXCEPT ![r] =
       IF Is_player_purged(@.p) THEN NoCreate ELSE [@ EXCEPT !.pc = "guarded"]]
  /\ CreateFrame

\* count_owned_tx against the clamped cap.
CreateCount(r) ==
  /\ creator[r].pc = "guarded"
  /\ creator' = [creator EXCEPT ![r] =
       IF Cardinality(Owned(@.p)) >= Cap THEN NoCreate ELSE [@ EXCEPT !.pc = "counted"]]
  /\ CreateFrame

\* create_tx, character.created and the commit.
CreateInsert(r) ==
  LET p == creator[r].p IN
  /\ creator[r].pc = "counted"
  /\ \E c \in Character :
       /\ of[c] = Nobody
       /\ row' = row \cup {c}
       /\ of' = [of EXCEPT ![c] = p]
       /\ created' = created \cup {c}
       /\ slipped' = IF creator[r].late THEN slipped \cup {c} ELSE slipped
  /\ creator' = [creator EXCEPT ![r] = NoCreate]
  /\ UNCHANGED <<account, gone, fired, removed, failed, grave, sweep>>

\* A failure, or a lost connection, rolls back.  Also the bound: no id is left.
CreateFails(r) ==
  /\ creator[r].pc # "idle"
  /\ creator' = [creator EXCEPT ![r] = NoCreate]
  /\ CreateFrame

-------------------------------------------------------------------------------
(* delete *)

\* delete_owned_tx and character.deleted.  A row that the sweep has deleted and
\* not yet committed is waited for, and then is not found.
Delete(c) ==
  /\ c \in row /\ c \notin sweep.rows
  /\ row' = row \ {c}
  /\ removed' = removed \cup {c}
  /\ UNCHANGED <<account, gone, fired, created, failed, of, grave, creator, sweep, slipped>>

-------------------------------------------------------------------------------
(* The tombstone and the sweep *)

\* ON CONFLICT DO NOTHING: a redelivery never resets swept_at.
Plant(g, p) == [g EXCEPT ![p] = IF @ = "none" THEN "planted" ELSE @]

\* The requests for p that are past their look at the tombstones.
Overtaken(reqs, p) ==
  [r \in DOMAIN reqs |-> [reqs[r] EXCEPT
     !.late = @ \/ (reqs[r].p = p /\ reqs[r].pc \in {"guarded", "counted"})]]

Plant_purged_player(p) ==
  /\ p \in gone["characters"]
  /\ grave' = Plant(grave, p)
  /\ gone' = [gone EXCEPT !["characters"] = @ \ {p}]
  /\ creator' = Overtaken(creator, p)
  /\ UNCHANGED <<account, fired, created, removed, failed, row, of, sweep, slipped>>

\* Slip: the next batch starts past the first row of the previous one.
Due_Skips(g, s) == {p \in Player : g[p] = "planted" /\ p \notin s.done /\ p > s.mark + 1}

\* The tombstones a batch selects from: not stamped, from the watermark on.
Due(g, s) == {p \in Player : g[p] = "planted" /\ p \notin s.done /\ p >= s.mark}

\* ORDER BY player_id LIMIT PURGE_BATCH; a short batch is the last one.
Select(g, s) ==
  LET due   == Due(g, s)
      batch == {p \in due : Cardinality({q \in due : q < p}) < PurgeBatch} IN
  [s EXCEPT !.todo = batch,
            !.mark = IF batch = {} THEN @ ELSE Max(batch),
            !.pc = IF Cardinality(batch) < PurgeBatch THEN "last" ELSE "more"]

\* The sweep's next move, in either module: a batch when the last is used up.
Selects(s) == s.todo = {} /\ s.pc = "more"

\* ... its end: a short batch used up, or the budget spent after some player.
Ends(s) == (s.pc = "last" /\ s.todo = {}) \/ s.done # {}

\* One player: its rows go, and its tombstone is stamped, in the transaction.
Swept(s, rows) == [s EXCEPT !.todo = @ \ {Min(s.todo)}, !.done = @ \cup {Min(s.todo)},
                            !.rows = @ \cup rows]

Stamp(g, s) == [p \in Player |-> IF p \in s.done THEN "swept" ELSE g[p]]

SweepFrame == UNCHANGED <<events, row, of, grave, creator, slipped>>

SweepStart ==
  /\ fired["characters"] /\ sweep.pc = "idle"
  /\ sweep' = [NoSweep EXCEPT !.pc = "more"]
  /\ SweepFrame

SweepSelect ==
  /\ Selects(sweep)
  /\ sweep' = Select(grave, sweep)
  /\ SweepFrame

SweepPlayer ==
  /\ sweep.todo # {}
  /\ sweep' = Swept(sweep, Owned(Min(sweep.todo)))
  /\ SweepFrame

\* Slip: rows go without the event that cascades them.
SweepCommit_NoEvent ==
  /\ Ends(sweep)
  /\ row' = row \ sweep.rows
  /\ grave' = Stamp(grave, sweep)
  /\ fired' = [fired EXCEPT !["characters"] = FALSE]
  /\ sweep' = NoSweep
  /\ UNCHANGED <<account, gone, created, removed, failed, of, creator, slipped>>

\* One character.deleted per row, the stamps and the checkpoint.
SweepCommit ==
  /\ Ends(sweep)
  /\ row' = row \ sweep.rows
  /\ removed' = removed \cup sweep.rows
  /\ grave' = Stamp(grave, sweep)
  /\ fired' = [fired EXCEPT !["characters"] = FALSE]
  /\ sweep' = NoSweep
  /\ UNCHANGED <<account, gone, created, failed, of, creator, slipped>>

\* The handler errs, times out or loses its backend: all of it is undone.
SweepFails ==
  /\ sweep.pc # "idle" /\ Fail
  /\ sweep' = NoSweep
  /\ UNCHANGED <<account, gone, fired, created, removed, row, of, grave, creator, slipped>>

-------------------------------------------------------------------------------
CreateStep(r) ==
  CreateLock(r) \/ CreateGuard(r) \/ CreateCount(r) \/ CreateInsert(r)

Sweep_purged_players == SweepStart \/ SweepSelect \/ SweepPlayer \/ SweepCommit

CharactersNext ==
  \/ Fire
  \/ \E p \in Player : Delete_player(p) \/ Plant_purged_player(p)
  \/ \E r \in Creator : \/ \E p \in Player : Create(r, p)
                        \/ CreateStep(r) \/ CreateFails(r)
  \/ \E c \in Character : Delete(c)
  \/ Sweep_purged_players \/ SweepFails
=============================================================================
