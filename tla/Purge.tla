-------------------------------- MODULE Purge --------------------------------
(***************************************************************************)
(* What is left of a player once the account is deleted: accounts,         *)
(* scheduler, characters and inventory composed over the event plane.      *)
(***************************************************************************)
EXTENDS Inventory

vars == <<events, chars, inv>>

Init == CharactersInit /\ InventoryInit

Next == (CharactersNext /\ UNCHANGED inv) \/ InventoryNext

Spec == Init /\ [][Next]_vars

\* The event plane keeps delivering (Progress of EventPlane) and the schedule
\* keeps firing.
Fairness ==
  /\ WF_vars(Fire /\ UNCHANGED inv)
  /\ \A p \in Player : /\ WF_vars(Plant_purged_player(p) /\ UNCHANGED inv)
                       /\ WF_vars(PlantTomb(p))
  /\ WF_vars(Sweep_purged_players /\ UNCHANGED inv) /\ WF_vars(DrainStep)
  /\ WF_vars(StarterStep) /\ WF_vars(WipeStep)

-------------------------------------------------------------------------------
(* Properties *)

\* A character has its starter item exactly once when character.created has been
\* handled and the wipe has not, and never again after the wipe: created and
\* deleted are delivered in either order, and either may be redelivered.
StarterOnce ==
  \A c \in Character :
    holding[c] = IF of[c] # Nobody /\ c \notin created /\ c \notin wiped THEN 1 ELSE 0

\* The "per-player cap gate, race-safe by construction" of create: however creates,
\* the owner's deletes and the sweep interleave, a player never has more characters than
\* the cap (which an operator does not lower meanwhile).
UnderCap == \A p \in Player : Cardinality(Owned(p)) <= Cap

\* The cascade: a character whose row is gone has been wiped, or the event that
\* will wipe it is waiting.  Neither the owner's delete nor the sweep loses one.
CascadeReaches ==
  \A c \in Character : of[c] # Nobody /\ c \notin row => c \in removed \cup wiped

\* Once a module has stamped a player as swept, what it still holds of the player
\* was written by a transaction that read the tombstone before it was planted:
\* the window that step 7 of the deletion plan leaves open, and no other.
SweptIsEmpty ==
  \A p \in Player :
    /\ grave[p] = "swept" => Owned(p) \subseteq slipped
    /\ tomb[p] = "swept" /\ p \in mine => p \in excused

\* A deleted account is purged from both modules in the end.
Erased(p) ==
  /\ grave[p] = "swept" /\ tomb[p] = "swept"
  /\ p \in mine => p \in excused
  /\ \A c \in Character : of[c] = p /\ c \notin slipped => c \notin row /\ holding[c] = 0

\* Every deletion completes: tombstones are planted, both sweeps reach the player
\* however large the backlog and however often a delivery fails or runs out of
\* budget, and the wipes that the sweep of characters triggers all happen.
DeletionCompletes == \A p \in Player : p \notin account ~> Erased(p)
=============================================================================
