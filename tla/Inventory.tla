------------------------------ MODULE Inventory ------------------------------
(***************************************************************************)
(* The inventory module (modules/inventory) next to characters: the        *)
(* starter item of a created character, the wipe of a deleted one, a       *)
(* player's own holdings, and the purge of a deleted account.  Its five    *)
(* subscriptions run independently of each other; one delivery of each is  *)
(* in flight at a time (the row lock of the event plane).                  *)
(***************************************************************************)
EXTENDS Characters

CONSTANT Granter  \* grant requests that may be in flight at the same time

VARIABLES
  holding,  \* starter items of each character
  mine,     \* players with holdings of their own
  wiped,    \* inventory.wiped_characters
  tomb,     \* inventory.purged_players
  starter,  \* the delivery of inventory.character-created.v1
  wiper,    \* the delivery of inventory.character-deleted.v1
  granter,  \* grant requests
  drain     \* the delivery of inventory.purge-on-scheduler.v1

\* Observation: players granted something by a request that was past its look at
\* the tombstones when the tombstone committed.
VARIABLE excused

inv == <<holding, mine, wiped, tomb, starter, wiper, granter, drain, excused>>

NoDelivery == [pc |-> "idle", c |-> Nobody]

NoGrant == [pc |-> "idle", p |-> 0, late |-> FALSE]

InventoryInit ==
  /\ holding = [c \in Character |-> 0]
  /\ mine = {} /\ wiped = {} /\ excused = {}
  /\ tomb = [p \in Player |-> "none"]
  /\ starter = NoDelivery /\ wiper = NoDelivery
  /\ granter = [r \in Granter |-> NoGrant]
  /\ drain = NoSweep

-------------------------------------------------------------------------------
(* grant_starter and wipe_character share a lock per character *)

DeliveryFrame == UNCHANGED <<account, gone, fired, created, removed, chars, holding, mine, wiped, tomb, granter, drain, excused>>

\* Slip: the lock is not taken.
StarterLock_None(c) ==
  /\ c \in created /\ starter.pc = "idle"
  /\ starter' = [pc |-> "locked", c |-> c]
  /\ UNCHANGED <<wiper, failed>> /\ DeliveryFrame

StarterLock(c) ==
  /\ c \in created /\ starter.pc = "idle" /\ wiper.c # c
  /\ starter' = [pc |-> "locked", c |-> c]
  /\ UNCHANGED <<wiper, failed>> /\ DeliveryFrame

\* The tombstone read, and the skip that still commits the checkpoint.
StarterRead ==
  /\ starter.pc = "locked"
  /\ IF starter.c \in wiped
     THEN /\ created' = created \ {starter.c}
          /\ starter' = NoDelivery
     ELSE /\ starter' = [starter EXCEPT !.pc = "absent"]
          /\ UNCHANGED created
  /\ UNCHANGED <<account, gone, fired, removed, failed, chars, holding, mine, wiped, tomb, wiper,
                 granter, drain, excused>>

\* A bad starter item or quantity falls back to the default: it never fails.
Grant_starter ==
  /\ starter.pc = "absent"
  /\ holding' = [holding EXCEPT ![starter.c] = @ + 1]
  /\ created' = created \ {starter.c}
  /\ starter' = NoDelivery
  /\ UNCHANGED <<account, gone, fired, removed, failed, chars, mine, wiped, tomb, wiper, granter,
                 drain, excused>>

StarterFails ==
  /\ starter.pc # "idle" /\ Fail
  /\ starter' = NoDelivery
  /\ UNCHANGED wiper /\ DeliveryFrame

WipeLock(c) ==
  /\ c \in removed /\ wiper.pc = "idle" /\ starter.c # c
  /\ wiper' = [pc |-> "locked", c |-> c]
  /\ UNCHANGED <<starter, failed>> /\ DeliveryFrame

\* The tombstone, then the holdings.
Wipe_character ==
  /\ wiper.pc = "locked"
  /\ wiped' = wiped \cup {wiper.c}
  /\ holding' = [holding EXCEPT ![wiper.c] = 0]
  /\ removed' = removed \ {wiper.c}
  /\ wiper' = NoDelivery
  /\ UNCHANGED <<account, gone, fired, created, failed, chars, mine, tomb, starter, granter, drain,
                 excused>>

WipeFails ==
  /\ wiper.pc # "idle" /\ Fail
  /\ wiper' = NoDelivery
  /\ UNCHANGED starter /\ DeliveryFrame

-------------------------------------------------------------------------------
(* grant: the tombstone read and the insert are two statements *)

GrantFrame == UNCHANGED <<events, chars, holding, wiped, tomb, starter, wiper>>

Grant(r, p) ==
  /\ granter[r].pc = "idle" /\ p \in account
  /\ granter' = [granter EXCEPT ![r] = [pc |-> "verified", p |-> p, late |-> FALSE]]
  /\ UNCHANGED <<mine, drain, excused>> /\ GrantFrame

GrantGuard(r) ==
  /\ granter[r].pc = "verified"
  /\ granter' = [granter EXCEPT ![r] =
       IF tomb[@.p] # "none" THEN NoGrant ELSE [@ EXCEPT !.pc = "guarded"]]
  /\ UNCHANGED <<mine, drain, excused>> /\ GrantFrame

\* A row that the sweep's DELETE has not seen outlives it.
GrantInsert(r) ==
  LET p == granter[r].p IN
  /\ granter[r].pc = "guarded"
  /\ mine' = mine \cup {p}
  /\ drain' = [drain EXCEPT !.rows = @ \ {p}]
  /\ excused' = IF granter[r].late THEN excused \cup {p} ELSE excused
  /\ granter' = [granter EXCEPT ![r] = NoGrant]
  /\ GrantFrame

GrantFails(r) ==
  /\ granter[r].pc # "idle"
  /\ granter' = [granter EXCEPT ![r] = NoGrant]
  /\ UNCHANGED <<mine, drain, excused>> /\ GrantFrame

-------------------------------------------------------------------------------
(* The tombstone and the sweep of a player's own holdings *)

PlantTomb(p) ==
  /\ p \in gone["inventory"]
  /\ tomb' = Plant(tomb, p)
  /\ gone' = [gone EXCEPT !["inventory"] = @ \ {p}]
  /\ granter' = Overtaken(granter, p)
  /\ UNCHANGED <<account, fired, created, removed, failed, chars, holding, mine, wiped, starter,
                 wiper, drain, excused>>

DrainFrame ==
  UNCHANGED <<account, gone, created, removed, chars, holding, wiped, starter, wiper, granter,
              excused>>

DrainStart ==
  /\ fired["inventory"] /\ drain.pc = "idle"
  /\ drain' = [NoSweep EXCEPT !.pc = "more"]
  /\ UNCHANGED <<fired, mine, tomb, failed>> /\ DrainFrame

DrainSelect ==
  /\ Selects(drain)
  /\ drain' = Select(tomb, drain)
  /\ UNCHANGED <<fired, mine, tomb, failed>> /\ DrainFrame

\* drain.rows: the players who keep nothing once the sweep commits.
DrainPlayer ==
  /\ drain.todo # {}
  /\ drain' = Swept(drain, {Min(drain.todo)} \cap mine)
  /\ UNCHANGED <<fired, mine, tomb, failed>> /\ DrainFrame

DrainCommit ==
  /\ Ends(drain)
  /\ mine' = mine \ drain.rows
  /\ tomb' = Stamp(tomb, drain)
  /\ fired' = [fired EXCEPT !["inventory"] = FALSE]
  /\ drain' = NoSweep
  /\ UNCHANGED failed /\ DrainFrame

DrainFails ==
  /\ drain.pc # "idle" /\ Fail
  /\ drain' = NoSweep
  /\ UNCHANGED <<fired, mine, tomb>> /\ DrainFrame

-------------------------------------------------------------------------------
StarterStep == (\E c \in created : StarterLock(c)) \/ StarterRead \/ Grant_starter

WipeStep == (\E c \in removed : WipeLock(c)) \/ Wipe_character

DrainStep == DrainStart \/ DrainSelect \/ DrainPlayer \/ DrainCommit

InventoryNext ==
  \/ StarterStep \/ StarterFails \/ WipeStep \/ WipeFails
  \/ \E p \in Player : PlantTomb(p)
  \/ \E r \in Granter : \/ \E p \in Player : Grant(r, p)
                        \/ GrantGuard(r) \/ GrantInsert(r) \/ GrantFails(r)
  \/ DrainStep \/ DrainFails
=============================================================================
