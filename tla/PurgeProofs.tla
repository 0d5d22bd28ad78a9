---------------------------- MODULE PurgeProofs ----------------------------
(***************************************************************************)
(* Purge for every number of players, characters and requests: what is     *)
(* left of a deleted account and of a deleted character, in every          *)
(* reachable state.                                                        *)
(***************************************************************************)
EXTENDS Purge, TLAPS, FiniteSetTheorems, WellFoundedInduction

Used == {c \in Character : of[c] # Nobody}

Grave == [Player -> {"none", "planted", "swept"}]

CreateRequest ==
  [pc: {"idle", "verified", "locked", "guarded", "counted"},
   p: Player \cup {0}, late: BOOLEAN]

GrantRequest == [pc: {"idle", "verified", "guarded"}, p: Player \cup {0}, late: BOOLEAN]

\* The watermark only steers the order of batches: its value plays no part here.
Mark == {0} \cup {Max(B) : B \in (SUBSET Player) \ {{}}}

SweepOf(R) ==
  [pc: {"idle", "more", "last"}, todo: SUBSET Player, done: SUBSET Player, mark: Mark,
   rows: SUBSET R]

\* Every variable has its type, and the events and rows are about characters that exist.
EventsType ==
  /\ account \subseteq Player
  /\ gone \in [Subscriber -> SUBSET Player] /\ fired \in [Subscriber -> BOOLEAN]
  /\ created \subseteq Used /\ removed \subseteq Used
  /\ failed \in Nat

CharactersType ==
  /\ of \in [Character -> Player \cup {Nobody}]
  /\ row \subseteq Used
  /\ grave \in Grave
  /\ creator \in [Creator -> CreateRequest]
  /\ \A r \in Creator : creator[r].pc # "idle" => creator[r].p \in Player
  /\ sweep \in SweepOf(Character) /\ sweep.rows \subseteq Used

InventoryType ==
  /\ holding \in [Character -> Nat] /\ mine \subseteq Player /\ wiped \subseteq Used
  /\ tomb \in Grave
  /\ starter \in [pc: {"idle", "locked", "absent"}, c: Character \cup {Nobody}]
  /\ wiper \in [pc: {"idle", "locked"}, c: Character \cup {Nobody}]
  /\ granter \in [Granter -> GrantRequest]
  /\ \A r \in Granter : granter[r].pc # "idle" => granter[r].p \in Player
  /\ drain \in SweepOf(Player)

\* The two deliveries that may work on a character: each on an event that is still
\* waiting, never on the same character, and a grant in progress is not too late.
DeliveriesApart ==
  /\ starter.pc # "idle" => starter.c \in created
  /\ wiper.pc # "idle" => wiper.c \in removed
  /\ starter.pc = "idle" => starter.c = Nobody
  /\ wiper.pc = "idle" => wiper.c = Nobody
  /\ starter.c # Nobody => starter.c # wiper.c
  /\ starter.pc = "absent" => starter.c \notin wiped

\* A request that has passed its look at a tombstone now planted is known to be late.
LateIsKnown ==
  /\ \A r \in Creator :
       creator[r].pc \in {"guarded", "counted"} /\ grave[creator[r].p] # "none"
         => creator[r].late
  /\ \A r \in Granter :
       granter[r].pc = "guarded" /\ tomb[granter[r].p] # "none" => granter[r].late

\* A sweep in flight works on planted tombstones, and what it leaves of a player it is
\* done with was written late.
SweepsReach ==
  /\ \A p \in sweep.todo \cup sweep.done : grave[p] = "planted"
  /\ \A p \in sweep.done : Owned(p) \ sweep.rows \subseteq slipped
  /\ \A p \in drain.todo \cup drain.done : tomb[p] = "planted"
  /\ \A p \in drain.done : p \in mine \ drain.rows => p \in excused

Types == EventsType /\ CharactersType /\ InventoryType

PurgeInv ==
  /\ Types
  /\ DeliveriesApart /\ StarterOnce /\ CascadeReaches
  /\ LateIsKnown /\ SweepsReach /\ SweptIsEmpty

-------------------------------------------------------------------------------
(* Lemmas about the operators *)

\* A set of numbers has a least one, so Min of a batch is a player of the batch.
LEMMA MinIsIn ==
  ASSUME NEW S \in SUBSET Nat, S # {}
  PROVE  Min(S) \in S
<1>1. PICK n \in S : \A m \in S : ~ (<<m, n>> \in OpToRel(<, Nat))
  BY WFMin, NatLessThanWellFounded
<1>2. \A m \in S : ~ (m < n)
  BY Zenon, <1>1 DEF OpToRel
<1>3. \A m \in S : n <= m
  BY <1>2
<1>4. QED
  BY Zenon, <1>3 DEF Min

\* What a batch selects is planted, and nothing else of a sweep changes but its place.
LEMMA SelectIsPlanted ==
  ASSUME NEW R, NEW g \in Grave, NEW s \in SweepOf(R)
  PROVE  /\ Select(g, s) \in SweepOf(R)
         /\ Select(g, s).done = s.done /\ Select(g, s).rows = s.rows
         /\ \A p \in Select(g, s).todo : g[p] = "planted"
<1> DEFINE batch == {p \in Due(g, s) : Cardinality({q \in Due(g, s) : q < p}) < PurgeBatch}
           mark  == IF batch = {} THEN s.mark ELSE Max(batch)
           pc    == IF Cardinality(batch) < PurgeBatch THEN "last" ELSE "more"
<1>1. batch \in SUBSET Player /\ \A p \in batch : g[p] = "planted"
  BY Zenon DEF Due
<1>2. mark \in Mark
  BY Zenon, <1>1 DEF SweepOf, Mark
<1>3. pc \in {"idle", "more", "last"}
  BY Zenon
<1>4. Select(g, s) = [s EXCEPT !.todo = batch, !.mark = mark, !.pc = pc]
  BY Zenon DEF Select
<1> HIDE DEF batch, mark, pc
<1>5. QED
  BY <1>1, <1>2, <1>3, <1>4 DEF SweepOf

\* One player of a batch: the least one moves from todo to done.
LEMMA SweptMovesOne ==
  ASSUME NEW R, NEW s \in SweepOf(R), s.todo # {}, NEW rows \in SUBSET R
  PROVE  /\ Swept(s, rows) \in SweepOf(R)
         /\ Min(s.todo) \in s.todo
         /\ Swept(s, rows).todo = s.todo \ {Min(s.todo)}
         /\ Swept(s, rows).done = s.done \cup {Min(s.todo)}
         /\ Swept(s, rows).rows = s.rows \cup rows
<1>1. Min(s.todo) \in s.todo
  BY Zenon, MinIsIn, CharactersAssumption DEF SweepOf
<1>2. QED
  BY Zenon, <1>1 DEF Swept, SweepOf

-------------------------------------------------------------------------------
(* What a step changes *)

life == <<of, row, created, removed, wiped, holding, starter, wiper>>

\* The life of a character: only these actions touch it.
LEMMA LifeSteps ==
  ASSUME [Next]_vars
  PROVE  \/ UNCHANGED life
         \/ \E r \in Creator : CreateInsert(r) /\ UNCHANGED inv
         \/ \E c \in Character : Delete(c) /\ UNCHANGED inv
         \/ SweepCommit /\ UNCHANGED inv
         \/ \E c \in created : StarterLock(c)
         \/ StarterRead \/ Grant_starter \/ StarterFails
         \/ \E c \in removed : WipeLock(c)
         \/ Wipe_character \/ WipeFails
<1>1. CASE UNCHANGED vars
  BY Zenon, <1>1 DEF vars, events, chars, inv, life
<1>2. CASE CharactersNext /\ UNCHANGED inv
  BY Zenon, <1>2 DEF CharactersNext, CreateStep, Sweep_purged_players, Fire, Delete_player,
     Plant_purged_player, Create, CreateLock, CreateGuard, CreateCount, CreateFails,
     SweepStart, SweepSelect, SweepPlayer, SweepFails, CreateFrame, SweepFrame,
     events, chars, inv, life
<1>3. CASE InventoryNext
  BY Zenon, <1>3 DEF InventoryNext, StarterStep, WipeStep, DrainStep, PlantTomb, Grant, GrantGuard,
     GrantInsert, GrantFails, DrainStart, DrainSelect, DrainPlayer, DrainCommit, DrainFails,
     GrantFrame, DrainFrame, events, chars, life
<1>4. QED
  BY Zenon, <1>1, <1>2, <1>3 DEF Next

guards == <<creator, grave, granter, tomb>>

\* The requests and the tombstones they look at.
LEMMA GuardSteps ==
  ASSUME [Next]_vars
  PROVE  \/ UNCHANGED guards
         \/ \E p \in Player : Plant_purged_player(p) /\ UNCHANGED inv
         \/ \E r \in Creator :
              /\ \/ \E p \in Player : Create(r, p)
                 \/ CreateStep(r) \/ CreateFails(r)
              /\ UNCHANGED inv
         \/ SweepCommit /\ UNCHANGED inv
         \/ \E p \in Player : PlantTomb(p)
         \/ \E r \in Granter : \/ \E p \in Player : Grant(r, p)
                               \/ GrantGuard(r) \/ GrantInsert(r) \/ GrantFails(r)
         \/ DrainCommit
<1>1. CASE UNCHANGED vars
  BY Zenon, <1>1 DEF vars, chars, inv, guards
<1>2. CASE CharactersNext /\ UNCHANGED inv
  BY Zenon, <1>2 DEF CharactersNext, Sweep_purged_players, Fire, Delete_player, Delete,
     SweepStart, SweepSelect, SweepPlayer, SweepFails, SweepFrame, chars, inv, guards
<1>3. CASE InventoryNext
  BY Zenon, <1>3 DEF InventoryNext, StarterStep, WipeStep, DrainStep, StarterLock, StarterRead,
     Grant_starter, StarterFails, WipeLock, Wipe_character, WipeFails, DeliveryFrame,
     DrainStart, DrainSelect, DrainPlayer, DrainFails, DrainFrame, chars, guards
<1>4. QED
  BY Zenon, <1>1, <1>2, <1>3 DEF Next

reach == <<row, of, grave, sweep, slipped, mine, tomb, drain, excused>>

\* What the sweeps work on.
LEMMA ReachSteps ==
  ASSUME [Next]_vars
  PROVE  \/ UNCHANGED reach
         \/ \E p \in Player : Plant_purged_player(p) /\ UNCHANGED inv
         \/ \E r \in Creator : CreateInsert(r) /\ UNCHANGED inv
         \/ \E c \in Character : Delete(c) /\ UNCHANGED inv
         \/ (Sweep_purged_players \/ SweepFails) /\ UNCHANGED inv
         \/ \E p \in Player : PlantTomb(p)
         \/ \E r \in Granter : GrantInsert(r)
         \/ DrainStep \/ DrainFails
<1>1. CASE UNCHANGED vars
  BY Zenon, <1>1 DEF vars, chars, inv, reach
<1>2. CASE CharactersNext /\ UNCHANGED inv
  BY Zenon, <1>2 DEF CharactersNext, CreateStep, Fire, Delete_player, Create, CreateLock,
     CreateGuard, CreateCount, CreateFails, CreateFrame, chars, inv, reach
<1>3. CASE InventoryNext
  BY Zenon, <1>3 DEF InventoryNext, StarterStep, WipeStep, StarterLock, StarterRead,
     Grant_starter, StarterFails, WipeLock, Wipe_character, WipeFails, DeliveryFrame,
     Grant, GrantGuard, GrantFails, GrantFrame, chars, reach
<1>4. QED
  BY Zenon, <1>1, <1>2, <1>3 DEF Next
-------------------------------------------------------------------------------
(* The invariant is inductive *)

\* Creation, deletion, the starter grant and the wipe: what is known of one character.
LEMMA LifeInv ==
  ASSUME PurgeInv, [Next]_vars
  PROVE  DeliveriesApart' /\ StarterOnce' /\ CascadeReaches'
<1> USE DEF PurgeInv, Types, EventsType, Used
<1>1. CASE UNCHANGED life
  BY Zenon, <1>1 DEF life, DeliveriesApart, StarterOnce, CascadeReaches
<1>2. ASSUME NEW r \in Creator, CreateInsert(r), UNCHANGED inv
      PROVE  DeliveriesApart' /\ StarterOnce' /\ CascadeReaches'
  <2>1. PICK c \in Character : /\ of[c] = Nobody /\ row' = row \cup {c}
                               /\ of' = [of EXCEPT ![c] = creator[r].p]
                               /\ created' = created \cup {c}
    BY Zenon, <1>2 DEF CreateInsert
  <2>2. creator[r].p \in Player
    BY Zenon, <1>2 DEF CreateInsert, CharactersType
  <2>3. UNCHANGED <<removed, wiped, holding, starter, wiper>>
    BY Zenon, <1>2 DEF CreateInsert, inv
  <2>4. c \notin created /\ c \notin wiped /\ holding[c] = 0 /\ c # Nobody
    BY Zenon, <2>1, CharactersAssumption DEF StarterOnce, InventoryType
  <2>5. QED
    BY Zenon, <2>1, <2>2, <2>3, <2>4, CharactersAssumption
       DEF DeliveriesApart, StarterOnce, CascadeReaches, CharactersType
<1>3. ASSUME NEW c \in Character, Delete(c), UNCHANGED inv
      PROVE  DeliveriesApart' /\ StarterOnce' /\ CascadeReaches'
  BY Zenon, <1>3 DEF Delete, inv, DeliveriesApart, StarterOnce, CascadeReaches
<1>4. CASE SweepCommit /\ UNCHANGED inv
  BY Zenon, <1>4 DEF SweepCommit, inv, DeliveriesApart, StarterOnce, CascadeReaches
<1>5. ASSUME NEW c \in created, StarterLock(c)
      PROVE  DeliveriesApart' /\ StarterOnce' /\ CascadeReaches'
  BY Zenon, <1>5 DEF StarterLock, DeliveryFrame, chars, DeliveriesApart, StarterOnce,
     CascadeReaches
<1>6. CASE StarterRead
  BY <1>6, CharactersAssumption DEF StarterRead, chars, NoDelivery, DeliveriesApart,
     StarterOnce, CascadeReaches, InventoryType
<1>7. CASE Grant_starter
  BY <1>7, CharactersAssumption DEF Grant_starter, chars, NoDelivery, DeliveriesApart,
     StarterOnce, CascadeReaches, InventoryType
<1>8. CASE StarterFails
  BY Zenon, <1>8 DEF StarterFails, DeliveryFrame, chars, NoDelivery, DeliveriesApart,
     StarterOnce, CascadeReaches
<1>9. ASSUME NEW c \in removed, WipeLock(c)
      PROVE  DeliveriesApart' /\ StarterOnce' /\ CascadeReaches'
  BY Zenon, <1>9, CharactersAssumption DEF WipeLock, DeliveryFrame, chars, DeliveriesApart,
     StarterOnce, CascadeReaches
<1>10. CASE Wipe_character
  BY Zenon, <1>10, CharactersAssumption DEF Wipe_character, chars, NoDelivery, DeliveriesApart,
     StarterOnce, CascadeReaches, InventoryType
<1>11. CASE WipeFails
  BY Zenon, <1>11 DEF WipeFails, DeliveryFrame, chars, NoDelivery, DeliveriesApart,
     StarterOnce, CascadeReaches
<1>12. QED
  BY Zenon, <1>1, <1>2, <1>3, <1>4, <1>5, <1>6, <1>7, <1>8, <1>9, <1>10, <1>11, LifeSteps

\* A tombstone planted after a request looked makes the request late.
LEMMA LateInv ==
  ASSUME PurgeInv, [Next]_vars
  PROVE  LateIsKnown'
<1> USE DEF PurgeInv, Types, LateIsKnown
<1>1. CASE UNCHANGED guards
  BY Zenon, <1>1 DEF guards
<1>2. ASSUME NEW p \in Player, Plant_purged_player(p), UNCHANGED inv
      PROVE  LateIsKnown'
  <2>1. \A q \in Player : grave'[q] # "none" => q = p \/ grave[q] # "none"
    BY Zenon, <1>2 DEF Plant_purged_player, Plant, Grave, CharactersType
  <2>2. \A r \in Creator :
          /\ creator'[r].p = creator[r].p /\ creator'[r].pc = creator[r].pc
          /\ creator'[r].late = (creator[r].late \/ (creator[r].p = p
                                   /\ creator[r].pc \in {"guarded", "counted"}))
    BY Zenon, <1>2 DEF Plant_purged_player, Overtaken, CharactersType, CreateRequest
  <2>3. UNCHANGED <<granter, tomb>>
    BY Zenon, <1>2 DEF inv
  <2>4. QED
    BY <2>1, <2>2, <2>3 DEF CharactersType
<1>3. ASSUME NEW r \in Creator,
             (\E p \in Player : Create(r, p)) \/ CreateStep(r) \/ CreateFails(r),
             UNCHANGED inv
      PROVE  LateIsKnown'
  <2>1. UNCHANGED <<grave, granter, tomb>>
    BY Zenon, <1>3 DEF Create, CreateStep, CreateLock, CreateGuard, CreateCount, CreateInsert,
       CreateFails, CreateFrame, inv
  <2>2. \A q \in Creator \ {r} : creator'[q] = creator[q]
    BY Zenon, <1>3 DEF Create, CreateStep, CreateLock, CreateGuard, CreateCount, CreateInsert,
       CreateFails, CharactersType
  <2>3. creator'[r].pc \in {"guarded", "counted"} /\ grave[creator'[r].p] # "none"
          => creator'[r].late
    <3>1. CASE \E p \in Player : Create(r, p)
      BY <3>1 DEF Create, CharactersType
    <3>2. CASE CreateLock(r)
      BY Zenon, <3>2 DEF CreateLock, CharactersType, CreateRequest
    <3>3. CASE CreateGuard(r)
      BY Zenon, <3>3 DEF CreateGuard, Is_player_purged, NoCreate, CharactersType, CreateRequest
    <3>4. CASE CreateCount(r)
      BY Zenon, <3>4 DEF CreateCount, NoCreate, CharactersType, CreateRequest
    <3>5. CASE CreateInsert(r) \/ CreateFails(r)
      BY <3>5 DEF CreateInsert, CreateFails, NoCreate, CharactersType
    <3>6. QED
      BY Zenon, <1>3, <3>1, <3>2, <3>3, <3>4, <3>5 DEF CreateStep
  <2>4. QED
    BY Zenon, <2>1, <2>2, <2>3
<1>4. CASE SweepCommit /\ UNCHANGED inv
  <2>1. \A p \in Player : grave[p] = "none" => grave'[p] = "none"
    BY Zenon, <1>4 DEF SweepCommit, Stamp, Grave, SweepsReach, CharactersType, SweepOf
  <2>2. UNCHANGED <<creator, granter, tomb>>
    BY Zenon, <1>4 DEF SweepCommit, inv
  <2>3. QED
    BY Zenon, <2>1, <2>2 DEF CharactersType
<1>5. ASSUME NEW p \in Player, PlantTomb(p)
      PROVE  LateIsKnown'
  <2>1. \A q \in Player : tomb'[q] # "none" => q = p \/ tomb[q] # "none"
    BY Zenon, <1>5 DEF PlantTomb, Plant, Grave, InventoryType
  <2>2. \A r \in Granter :
          /\ granter'[r].p = granter[r].p /\ granter'[r].pc = granter[r].pc
          /\ granter'[r].late = (granter[r].late \/ (granter[r].p = p
                                   /\ granter[r].pc \in {"guarded", "counted"}))
    BY Zenon, <1>5 DEF PlantTomb, Overtaken, InventoryType, GrantRequest
  <2>3. UNCHANGED <<creator, grave>>
    BY Zenon, <1>5 DEF PlantTomb, chars
  <2>4. \A r \in Granter : granter[r].pc = "guarded" => granter[r].p \in Player
    BY Zenon DEF InventoryType
  <2>5. QED
    BY <2>1, <2>2, <2>3, <2>4
<1>6. ASSUME NEW r \in Granter,
             \/ \E p \in Player : Grant(r, p)
             \/ GrantGuard(r) \/ GrantInsert(r) \/ GrantFails(r)
      PROVE  LateIsKnown'
  <2>1. UNCHANGED <<creator, grave, tomb>>
    BY Zenon, <1>6 DEF Grant, GrantGuard, GrantInsert, GrantFails, GrantFrame, chars
  <2>2. \A q \in Granter \ {r} : granter'[q] = granter[q]
    BY Zenon, <1>6 DEF Grant, GrantGuard, GrantInsert, GrantFails, InventoryType
  <2>3. granter'[r].pc = "guarded" /\ tomb[granter'[r].p] # "none" => granter'[r].late
    <3>1. CASE \E p \in Player : Grant(r, p)
      BY <3>1 DEF Grant, InventoryType
    <3>2. CASE GrantGuard(r)
      BY Zenon, <3>2 DEF GrantGuard, NoGrant, InventoryType, GrantRequest
    <3>3. CASE GrantInsert(r) \/ GrantFails(r)
      BY <3>3 DEF GrantInsert, GrantFails, NoGrant, InventoryType
    <3>4. QED
      BY Zenon, <1>6, <3>1, <3>2, <3>3
  <2>4. QED
    BY Zenon, <2>1, <2>2, <2>3
<1>7. CASE DrainCommit
  <2>1. \A p \in Player : tomb[p] = "none" => tomb'[p] = "none"
    BY Zenon, <1>7 DEF DrainCommit, Stamp, Grave, SweepsReach, InventoryType, SweepOf
  <2>2. UNCHANGED <<creator, grave, granter>>
    BY Zenon, <1>7 DEF DrainCommit, DrainFrame, chars
  <2>3. QED
    BY Zenon, <2>1, <2>2 DEF InventoryType
<1>8. QED
  BY Zenon, <1>1, <1>2, <1>3, <1>4, <1>5, <1>6, <1>7, GuardSteps
\* The two halves of what the sweeps promise, one per module.
CharactersSwept ==
  /\ \A p \in sweep.todo \cup sweep.done : grave[p] = "planted"
  /\ \A p \in sweep.done : Owned(p) \ sweep.rows \subseteq slipped
  /\ \A p \in Player : grave[p] = "swept" => Owned(p) \subseteq slipped

InventorySwept ==
  /\ \A p \in drain.todo \cup drain.done : tomb[p] = "planted"
  /\ \A p \in drain.done : p \in mine \ drain.rows => p \in excused
  /\ \A p \in Player : tomb[p] = "swept" /\ p \in mine => p \in excused

\* The sweep of characters leaves only what was written late.
LEMMA CharactersSweptInv ==
  ASSUME PurgeInv, [Next]_vars
  PROVE  CharactersSwept'
<1>0. CharactersSwept /\ CharactersType
  BY Zenon DEF PurgeInv, Types, SweepsReach, SweptIsEmpty, CharactersSwept
<1> USE <1>0
<1>1. CASE UNCHANGED <<row, of, grave, sweep, slipped>>
  BY Zenon, <1>1 DEF CharactersSwept, Owned
<1>2. ASSUME NEW p \in Player, Plant_purged_player(p)
      PROVE  CharactersSwept'
  <2>1. \A q \in Player : /\ grave[q] # "none" => grave'[q] = grave[q]
                          /\ grave[q] = "none" => grave'[q] \in {"none", "planted"}
    BY Zenon, <1>2 DEF Plant_purged_player, Plant, CharactersType, Grave
  <2>2. UNCHANGED <<row, of, sweep, slipped>>
    BY Zenon, <1>2 DEF Plant_purged_player
  <2>3. QED
    BY <2>1, <2>2 DEF CharactersSwept, Owned, CharactersType, SweepOf, Grave
<1>3. ASSUME NEW r \in Creator, CreateInsert(r)
      PROVE  CharactersSwept'
  <2>1. PICK c \in Character :
          /\ of[c] = Nobody /\ row' = row \cup {c}
          /\ of' = [of EXCEPT ![c] = creator[r].p]
          /\ slipped' = IF creator[r].late THEN slipped \cup {c} ELSE slipped
    BY Zenon, <1>3 DEF CreateInsert
  <2>2. UNCHANGED <<grave, sweep>> /\ creator[r].p \in Player
    BY Zenon, <1>3 DEF CreateInsert, CharactersType
  <2>3. grave[creator[r].p] # "none" => c \in slipped'
    BY Zenon, <1>3, <2>1 DEF CreateInsert, PurgeInv, LateIsKnown
  <2>4. \A p \in Player : Owned(p)' \subseteq Owned(p) \cup {c}
    BY <2>1 DEF Owned, CharactersType
  <2>5. \A p \in Player : p # creator[r].p => c \notin Owned(p)'
    BY Zenon, <2>1, <2>2 DEF Owned, CharactersType
  <2>6. slipped \subseteq slipped'
    BY Zenon, <2>1
  <2>7. QED
    BY <2>2, <2>3, <2>4, <2>5, <2>6 DEF CharactersSwept, CharactersType, SweepOf
<1>4. ASSUME NEW c \in Character, Delete(c)
      PROVE  CharactersSwept'
  BY Zenon, <1>4 DEF Delete, CharactersSwept, Owned
<1>5. CASE SweepStart \/ SweepFails
  BY <1>5 DEF SweepStart, SweepFails, SweepFrame, NoSweep, CharactersSwept, Owned
<1>6. CASE SweepSelect
  <2>1. /\ sweep'.done = sweep.done /\ sweep'.rows = sweep.rows
        /\ \A p \in sweep'.todo : grave[p] = "planted"
    BY Zenon, <1>6, SelectIsPlanted DEF SweepSelect, CharactersType
  <2>2. UNCHANGED <<row, of, grave, slipped>>
    BY Zenon, <1>6 DEF SweepSelect, SweepFrame
  <2>3. QED
    BY Zenon, <2>1, <2>2 DEF CharactersSwept, Owned
<1>7. CASE SweepPlayer
  <2> DEFINE p == Min(sweep.todo)
  <2>0. Owned(p) \in SUBSET Character
    BY Zenon DEF Owned, CharactersType, Used
  <2>1. /\ p \in sweep.todo
        /\ sweep'.todo = sweep.todo \ {p} /\ sweep'.done = sweep.done \cup {p}
        /\ sweep'.rows = sweep.rows \cup Owned(p)
    BY <1>7, <2>0, SweptMovesOne DEF SweepPlayer, CharactersType
  <2>2. UNCHANGED <<row, of, grave, slipped>>
    BY Zenon, <1>7 DEF SweepPlayer, SweepFrame
  <2> HIDE DEF p
  <2>3. QED
    BY Zenon, <2>1, <2>2 DEF CharactersSwept, Owned
<1>8. CASE SweepCommit
  <2>1. UNCHANGED <<of, slipped>> /\ row' = row \ sweep.rows /\ sweep' = NoSweep
    BY Zenon, <1>8 DEF SweepCommit
  <2>2. \A p \in Player : grave'[p] = IF p \in sweep.done THEN "swept" ELSE grave[p]
    BY Zenon, <1>8 DEF SweepCommit, Stamp
  <2>3. \A p \in Player : Owned(p)' = Owned(p) \ sweep.rows
    BY Zenon, <2>1 DEF Owned
  <2>4. QED
    BY Zenon, <2>1, <2>2, <2>3 DEF CharactersSwept, NoSweep
<1>9. CASE \/ \E p \in Player : PlantTomb(p)
           \/ \E r \in Granter : GrantInsert(r)
           \/ DrainStep \/ DrainFails
  BY Zenon, <1>1, <1>9 DEF PlantTomb, GrantInsert, DrainStep, DrainStart, DrainSelect, DrainPlayer,
     DrainCommit, DrainFails, GrantFrame, DrainFrame, chars
<1>10. QED
  BY Zenon, <1>1, <1>2, <1>3, <1>4, <1>5, <1>6, <1>7, <1>8, <1>9, ReachSteps
     DEF reach, Sweep_purged_players

\* The sweep of inventories leaves only what was written late.
LEMMA InventorySweptInv ==
  ASSUME PurgeInv, [Next]_vars
  PROVE  InventorySwept'
<1>0. InventorySwept /\ InventoryType
  BY Zenon DEF PurgeInv, Types, SweepsReach, SweptIsEmpty, InventorySwept
<1> USE <1>0
<1>1. CASE UNCHANGED <<mine, tomb, drain, excused>>
  BY Zenon, <1>1 DEF InventorySwept
<1>2. ASSUME NEW p \in Player, PlantTomb(p)
      PROVE  InventorySwept'
  <2>1. \A q \in Player : /\ tomb[q] # "none" => tomb'[q] = tomb[q]
                          /\ tomb[q] = "none" => tomb'[q] \in {"none", "planted"}
    BY Zenon, <1>2 DEF PlantTomb, Plant, InventoryType, Grave
  <2>2. UNCHANGED <<mine, drain, excused>>
    BY Zenon, <1>2 DEF PlantTomb
  <2>3. QED
    BY Zenon, <2>1, <2>2 DEF InventorySwept, InventoryType, SweepOf, Grave
<1>3. ASSUME NEW r \in Granter, GrantInsert(r)
      PROVE  InventorySwept'
  <2>1. tomb[granter[r].p] # "none" => granter[r].late
    BY Zenon, <1>3 DEF GrantInsert, PurgeInv, LateIsKnown
  <2>2. QED
    BY Zenon, <1>3, <2>1 DEF GrantInsert, GrantFrame, InventorySwept, InventoryType, SweepOf
<1>4. CASE DrainStart \/ DrainFails
  BY <1>4 DEF DrainStart, DrainFails, DrainFrame, NoSweep, InventorySwept
<1>5. CASE DrainSelect
  <2>1. /\ drain'.done = drain.done /\ drain'.rows = drain.rows
        /\ \A p \in drain'.todo : tomb[p] = "planted"
    BY <1>5, SelectIsPlanted DEF DrainSelect, InventoryType
  <2>2. QED
    BY Zenon, <1>5, <2>1 DEF DrainSelect, DrainFrame, InventorySwept
<1>6. CASE DrainPlayer
  <2> DEFINE p == Min(drain.todo)
  <2>0. {p} \cap mine \in SUBSET Player
    BY Zenon DEF InventoryType
  <2>1. /\ p \in drain.todo
        /\ drain'.todo = drain.todo \ {p} /\ drain'.done = drain.done \cup {p}
        /\ drain'.rows = drain.rows \cup ({p} \cap mine)
    BY <1>6, <2>0, SweptMovesOne DEF DrainPlayer, InventoryType
  <2>2. UNCHANGED <<mine, tomb, excused>>
    BY Zenon, <1>6 DEF DrainPlayer, DrainFrame
  <2> HIDE DEF p
  <2>3. QED
    BY Zenon, <2>1, <2>2 DEF InventorySwept
<1>7. CASE DrainCommit
  <2>1. \A p \in Player : tomb'[p] = IF p \in drain.done THEN "swept" ELSE tomb[p]
    BY Zenon, <1>7 DEF DrainCommit, Stamp
  <2>2. mine' = mine \ drain.rows /\ drain' = NoSweep /\ UNCHANGED excused
    BY Zenon, <1>7 DEF DrainCommit, DrainFrame
  <2>3. QED
    BY Zenon, <2>1, <2>2 DEF InventorySwept, NoSweep
<1>8. CASE UNCHANGED inv
  BY Zenon, <1>1, <1>8 DEF inv
<1>9. QED
  BY Zenon, <1>1, <1>2, <1>3, <1>4, <1>5, <1>6, <1>7, <1>8, ReachSteps DEF reach, DrainStep
\* A character, once used, stays used.
LEMMA UsedGrows ==
  ASSUME PurgeInv, [Next]_vars
  PROVE  Used \subseteq Used'
<1>1. ASSUME NEW r \in Creator, CreateInsert(r)
      PROVE  Used \subseteq Used'
  BY Zenon, <1>1, CharactersAssumption DEF CreateInsert, Used, PurgeInv, Types, CharactersType
<1>2. CASE UNCHANGED of
  BY Zenon, <1>2 DEF Used
<1>3. QED
  BY Zenon, <1>1, <1>2, LifeSteps DEF life, Delete, SweepCommit, StarterLock, StarterRead,
     Grant_starter, StarterFails, WipeLock, Wipe_character, WipeFails, DeliveryFrame, chars

\* Steps of the characters module keep every type.
LEMMA TypesOfCharacters ==
  ASSUME PurgeInv, CharactersNext, UNCHANGED inv
  PROVE  Types'
<1>0. Types /\ Used \subseteq Used'
  BY Zenon, UsedGrows DEF PurgeInv, Next
<1>1. InventoryType'
  BY Zenon, <1>0 DEF Types, InventoryType, inv
<1> USE <1>0, <1>1 DEF Types, EventsType, CharactersType
<1>1a. CASE Fire
  BY Zenon, <1>1a DEF Fire, chars
<1>2. ASSUME NEW p \in Player, Delete_player(p)
      PROVE  Types'
  BY Zenon, <1>2 DEF Delete_player, chars
<1>3. ASSUME NEW p \in Player, Plant_purged_player(p)
      PROVE  Types'
  <2>1. grave' \in Grave
    BY Zenon, <1>3 DEF Plant_purged_player, Plant, Grave
  <2>2. creator' \in [Creator -> CreateRequest]
        /\ \A r \in Creator : creator'[r].pc = creator[r].pc /\ creator'[r].p = creator[r].p
    BY <1>3 DEF Plant_purged_player, Overtaken, CreateRequest
  <2>3. QED
    BY Zenon, <1>3, <2>1, <2>2 DEF Plant_purged_player, Subscriber
<1>4. ASSUME NEW r \in Creator, NEW p \in Player, Create(r, p)
      PROVE  Types'
  BY Zenon, <1>4 DEF Create, CreateFrame, CreateRequest, events
<1>5. ASSUME NEW r \in Creator, CreateLock(r)
      PROVE  Types'
  BY Zenon, <1>5 DEF CreateLock, CreateFrame, CreateRequest, events
<1>6. ASSUME NEW r \in Creator, CreateGuard(r) \/ CreateCount(r) \/ CreateFails(r)
      PROVE  Types'
  <2>1. UNCHANGED <<events, row, of, grave, sweep>>
    BY Zenon, <1>6 DEF CreateGuard, CreateCount, CreateFails, CreateFrame
  <2>2. /\ creator' \in [Creator -> CreateRequest]
        /\ \A q \in Creator : creator'[q].pc # "idle" => creator'[q].p \in Player
    <3>1. CASE CreateGuard(r)
      BY <3>1 DEF CreateGuard, NoCreate, CreateRequest
    <3>2. CASE CreateCount(r)
      BY <3>2 DEF CreateCount, NoCreate, CreateRequest
    <3>3. CASE CreateFails(r)
      BY Zenon, <3>3 DEF CreateFails, NoCreate, CreateRequest
    <3>4. QED
      BY Zenon, <1>6, <3>1, <3>2, <3>3
  <2>3. QED
    BY Zenon, <2>1, <2>2 DEF events
<1>7. ASSUME NEW r \in Creator, CreateInsert(r)
      PROVE  Types'
  <2>1. PICK c \in Character :
          /\ of[c] = Nobody /\ row' = row \cup {c}
          /\ of' = [of EXCEPT ![c] = creator[r].p] /\ created' = created \cup {c}
    BY Zenon, <1>7 DEF CreateInsert
  <2>2. creator[r].p \in Player /\ c \in Used'
    BY <1>7, <2>1, CharactersAssumption DEF CreateInsert, Used
  <2>3. creator' \in [Creator -> CreateRequest]
        /\ \A q \in Creator : creator'[q].pc # "idle" => creator'[q].p \in Player
    BY Zenon, <1>7 DEF CreateInsert, NoCreate, CreateRequest
  <2>4. QED
    BY Zenon, <1>7, <2>1, <2>2, <2>3 DEF CreateInsert
<1>8. ASSUME NEW c \in Character, Delete(c)
      PROVE  Types'
  BY Zenon, <1>8 DEF Delete
<1>9. CASE SweepStart \/ SweepFails
  BY <1>9 DEF SweepStart, SweepFails, SweepFrame, NoSweep, SweepOf, Mark, Fail, events
<1>10. CASE SweepSelect
  BY SMTT(30), <1>10, SelectIsPlanted DEF SweepSelect, SweepFrame, events
<1>11. CASE SweepPlayer
  <2>1. Owned(Min(sweep.todo)) \in SUBSET Character /\ Owned(Min(sweep.todo)) \subseteq Used
    BY Zenon DEF Owned, Used
  <2>2. sweep' \in SweepOf(Character) /\ sweep'.rows \subseteq Used
    BY <1>11, <2>1, SweptMovesOne DEF SweepPlayer
  <2>3. QED
    BY Zenon, <1>11, <2>2 DEF SweepPlayer, SweepFrame, events
<1>12. CASE SweepCommit
  <2>1. grave' \in Grave /\ sweep' \in SweepOf(Character)
    BY Zenon, <1>12 DEF SweepCommit, Stamp, Grave, NoSweep, SweepOf, Mark
  <2>2. row' \subseteq Used' /\ removed' \subseteq Used' /\ sweep'.rows = {}
    BY Zenon, <1>12 DEF SweepCommit, NoSweep
  <2>3. QED
    BY Zenon, <1>12, <2>1, <2>2 DEF SweepCommit, Subscriber
<1>13. QED
  BY Zenon, <1>1a, <1>2, <1>3, <1>4, <1>5, <1>6, <1>7, <1>8, <1>9, <1>10, <1>11, <1>12
     DEF CharactersNext, CreateStep, Sweep_purged_players

\* Steps of the inventory module keep every type.
LEMMA TypesOfInventory ==
  ASSUME PurgeInv, InventoryNext
  PROVE  Types'
<1>0. Types /\ UNCHANGED chars /\ Used' = Used
  <2>1. UNCHANGED chars
    BY Zenon DEF InventoryNext, StarterStep, WipeStep, DrainStep, StarterLock, StarterRead,
       Grant_starter, StarterFails, WipeLock, Wipe_character, WipeFails, PlantTomb, Grant,
       GrantGuard, GrantInsert, GrantFails, DrainStart, DrainSelect, DrainPlayer,
       DrainCommit, DrainFails, DeliveryFrame, GrantFrame, DrainFrame
  <2>2. QED
    BY Zenon, <2>1 DEF PurgeInv, Used, chars
<1>1. CharactersType'
  BY Zenon, <1>0 DEF Types, CharactersType, chars
<1> USE <1>0, <1>1 DEF Types, EventsType, InventoryType
<1>2. ASSUME NEW c \in created, StarterLock(c)
      PROVE  Types'
  BY Zenon, <1>2 DEF StarterLock, DeliveryFrame, Used
<1>3. CASE StarterRead
  BY <1>3 DEF StarterRead, NoDelivery
<1>4. CASE Grant_starter
  <2>1. starter.c \in Character
    BY Zenon, <1>4 DEF Grant_starter, PurgeInv, DeliveriesApart, Used
  <2>2. holding' \in [Character -> Nat]
    BY <1>4, <2>1 DEF Grant_starter
  <2>3. QED
    BY Zenon, <1>4, <2>2 DEF Grant_starter, NoDelivery
<1>5. CASE StarterFails
  BY <1>5 DEF StarterFails, Fail, DeliveryFrame, NoDelivery
<1>6. ASSUME NEW c \in removed, WipeLock(c)
      PROVE  Types'
  BY Zenon, <1>6 DEF WipeLock, DeliveryFrame, Used
<1>7. CASE Wipe_character
  <2>1. wiper.c \in Used
    BY Zenon, <1>7 DEF Wipe_character, PurgeInv, DeliveriesApart
  <2>2. QED
    BY Zenon, <1>7, <2>1 DEF Wipe_character, NoDelivery
<1>8. CASE WipeFails
  BY <1>8 DEF WipeFails, Fail, DeliveryFrame, NoDelivery
<1>9. ASSUME NEW p \in Player, PlantTomb(p)
      PROVE  Types'
  <2>1. tomb' \in Grave
    BY Zenon, <1>9 DEF PlantTomb, Plant, Grave
  <2>2. granter' \in [Granter -> GrantRequest]
    <3> DEFINE over(r) == granter[r].late
                            \/ (granter[r].p = p /\ granter[r].pc \in {"guarded", "counted"})
    <3>1. granter' = [r \in Granter |-> [granter[r] EXCEPT !.late = over(r)]]
      BY Zenon, <1>9 DEF PlantTomb, Overtaken
    <3>2. \A r \in Granter : over(r) \in BOOLEAN
      BY Zenon
    <3> HIDE DEF over
    <3>3. QED
      BY <3>1, <3>2 DEF GrantRequest
  <2>3. \A r \in Granter : granter'[r].pc = granter[r].pc /\ granter'[r].p = granter[r].p
    BY Zenon, <1>9 DEF PlantTomb, Overtaken, GrantRequest
  <2>4. QED
    BY Zenon, <1>9, <2>1, <2>2, <2>3 DEF PlantTomb, Subscriber
<1>10. ASSUME NEW r \in Granter, NEW p \in Player, Grant(r, p)
       PROVE  Types'
  BY Zenon, <1>10 DEF Grant, GrantFrame, GrantRequest, events
<1>11. ASSUME NEW r \in Granter, GrantGuard(r) \/ GrantInsert(r) \/ GrantFails(r)
       PROVE  Types'
  <2>1. UNCHANGED <<events, holding, wiped, tomb, starter, wiper>>
    BY Zenon, <1>11 DEF GrantGuard, GrantInsert, GrantFails, GrantFrame
  <2>5. drain' \in SweepOf(Player)
    <3>1. CASE GrantInsert(r)
      <4> PICK R : R = drain.rows \ {granter[r].p}
        BY Zenon
      <4>1. drain' = [drain EXCEPT !.rows = R]
        BY Zenon, <3>1 DEF GrantInsert
      <4>2. R \in SUBSET Player
        BY Zenon DEF SweepOf
      <4>3. QED
        BY <4>1, <4>2 DEF SweepOf
    <3>2. QED
      BY Zenon, <1>11, <3>1 DEF GrantGuard, GrantFails
  <2>2. mine' \subseteq Player
    BY Zenon, <1>11 DEF GrantGuard, GrantInsert, GrantFails
  <2>3. /\ granter' \in [Granter -> GrantRequest]
        /\ \A q \in Granter : granter'[q].pc # "idle" => granter'[q].p \in Player
    <3>1. CASE GrantGuard(r)
      BY <3>1 DEF GrantGuard, NoGrant, GrantRequest
    <3>2. CASE GrantInsert(r)
      BY Zenon, <3>2 DEF GrantInsert, NoGrant, GrantRequest
    <3>3. CASE GrantFails(r)
      BY Zenon, <3>3 DEF GrantFails, NoGrant, GrantRequest
    <3>4. QED
      BY Zenon, <1>11, <3>1, <3>2, <3>3
  <2>4. QED
    BY Zenon, <2>1, <2>2, <2>3, <2>5 DEF events
<1>12. CASE DrainStart \/ DrainFails
  BY <1>12 DEF DrainStart, DrainFails, DrainFrame, NoSweep, SweepOf, Mark, Fail
<1>13. CASE DrainSelect
  BY Zenon, <1>13, SelectIsPlanted DEF DrainSelect, DrainFrame
<1>14. CASE DrainPlayer
  <2>1. {Min(drain.todo)} \cap mine \in SUBSET Player
    BY Zenon
  <2>2. drain' \in SweepOf(Player)
    BY Zenon, <1>14, <2>1, SweptMovesOne DEF DrainPlayer
  <2>3. QED
    BY Zenon, <1>14, <2>2 DEF DrainPlayer, DrainFrame
<1>15. CASE DrainCommit
  <2>1. tomb' \in Grave /\ drain' \in SweepOf(Player)
    BY Zenon, <1>15 DEF DrainCommit, Stamp, Grave, NoSweep, SweepOf, Mark
  <2>2. QED
    BY Zenon, <1>15, <2>1 DEF DrainCommit, DrainFrame, Subscriber
<1>16. QED
  BY Zenon, <1>2, <1>3, <1>4, <1>5, <1>6, <1>7, <1>8, <1>9, <1>10, <1>11, <1>12, <1>13, <1>14,
     <1>15 DEF InventoryNext, StarterStep, WipeStep, DrainStep

\* The initial state, and every step, satisfy the invariant: the types, the deliveries
\* and locks that keep starter and wipe apart, and what each sweep has reached so far.
THEOREM PurgeInvariant == Spec => []PurgeInv
<1>1. Init => PurgeInv
  <2> SUFFICES ASSUME Init PROVE PurgeInv
    BY Zenon
  <2>1. EventsType
    BY Zenon DEF Init, CharactersInit, InventoryInit, EventsType, Used, NoDelivery
  <2>2. CharactersType
    BY Zenon DEF Init, CharactersInit, CharactersType, Used, Grave, CreateRequest, SweepOf, Mark,
       NoCreate, NoSweep
  <2>3. InventoryType
    BY Zenon
       DEF Init, CharactersInit, InventoryInit, InventoryType, Used, Grave, GrantRequest, SweepOf,
       Mark, NoGrant, NoSweep, NoDelivery
  <2>4. DeliveriesApart /\ StarterOnce /\ CascadeReaches /\ LateIsKnown /\ SweepsReach
          /\ SweptIsEmpty
    BY Zenon DEF Init, CharactersInit, InventoryInit, NoCreate, NoGrant, NoSweep, NoDelivery,
       DeliveriesApart, StarterOnce, CascadeReaches, LateIsKnown, SweepsReach, SweptIsEmpty,
       Owned
  <2> QED
    BY Zenon, <2>1, <2>2, <2>3, <2>4 DEF PurgeInv, Types
<1>2. PurgeInv /\ [Next]_vars => PurgeInv'
  <2> SUFFICES ASSUME PurgeInv, [Next]_vars
               PROVE  PurgeInv'
    BY Zenon
  <2>1. Types'
    <3>1. CASE UNCHANGED vars
      BY Zenon, <3>1 DEF vars, events, chars, inv, PurgeInv, Types, EventsType, CharactersType,
         InventoryType, Used
    <3>2. QED
      BY Zenon, <3>1, TypesOfCharacters, TypesOfInventory DEF Next
  <2>2. SweepsReach' /\ SweptIsEmpty'
    BY Zenon, CharactersSweptInv, InventorySweptInv
       DEF CharactersSwept, InventorySwept, SweepsReach, SweptIsEmpty
  <2>3. QED
    BY Zenon, <2>1, <2>2, LifeInv, LateInv DEF PurgeInv
<1>3. QED
  BY <1>1, <1>2, PTL DEF Spec

\* grant_starter and wipe_character: whatever the order and the number of their
\* deliveries, a character holds its starter item exactly once between the two.
THEOREM StarterOnceHolds == Spec => []StarterOnce
<1>1. PurgeInv => StarterOnce
  BY Zenon DEF PurgeInv
<1>2. QED
  BY <1>1, PurgeInvariant, PTL

\* Neither the owner's delete nor the sweep takes a character's row away without the
\* character.deleted that wipes its holdings.
THEOREM CascadeReachesHolds == Spec => []CascadeReaches
<1>1. PurgeInv => CascadeReaches
  BY Zenon DEF PurgeInv
<1>2. QED
  BY <1>1, PurgeInvariant, PTL

\* Behind the stamp of a sweep there is only what a transaction wrote that had read
\* the tombstone table before the tombstone was in it.
THEOREM SweptIsEmptyHolds == Spec => []SweptIsEmpty
<1>1. PurgeInv => SweptIsEmpty
  BY Zenon DEF PurgeInv
<1>2. QED
  BY <1>1, PurgeInvariant, PTL
-------------------------------------------------------------------------------
(* The cap *)

\* Creates hold the advisory lock of their player in these states.
Holding == {"locked", "guarded", "counted"}

\* A create that has counted still has room for its row: nobody else can have inserted.
CapInv ==
  /\ IsFiniteSet(row) /\ UnderCap
  /\ \A r, q \in Creator : r # q /\ creator[r].pc \in Holding /\ creator[q].pc \in Holding
       => creator[r].p # creator[q].p
  /\ \A r \in Creator : creator[r].pc = "counted" => Cardinality(Owned(creator[r].p)) < Cap

\* Fewer rows, fewer of each player.
LEMMA FewerRows ==
  ASSUME IsFiniteSet(row), row' \subseteq row, UNCHANGED of, NEW p
  PROVE  /\ IsFiniteSet(row') /\ Cardinality(Owned(p)') <= Cardinality(Owned(p))
         /\ Cardinality(Owned(p)) \in Nat /\ Cardinality(Owned(p)') \in Nat
<1>1. Owned(p) \subseteq row /\ Owned(p)' \subseteq Owned(p)
  BY Zenon DEF Owned
<1>2. IsFiniteSet(Owned(p)) /\ IsFiniteSet(row')
  BY Zenon, <1>1, FS_Subset
<1>3. QED
  BY Zenon, <1>1, <1>2, FS_Subset, FS_CardinalityType

\* What a step does to the rows and to the creates.
LEMMA CapSteps ==
  ASSUME [Next]_vars
  PROVE  \/ UNCHANGED creator /\ UNCHANGED of /\ row' \subseteq row
         \/ UNCHANGED <<row, of>> /\ \E p \in Player : creator' = Overtaken(creator, p)
         \/ \E r \in Creator, p \in Player : Create(r, p)
         \/ \E r \in Creator : CreateStep(r) \/ CreateFails(r)
<1>1. CASE UNCHANGED vars
  BY Zenon, <1>1 DEF vars, chars
<1>2. CASE CharactersNext
  BY Zenon, <1>2 DEF CharactersNext, Fire, Delete_player, Plant_purged_player, Delete, chars,
     Sweep_purged_players, SweepStart, SweepSelect, SweepPlayer, SweepCommit, SweepFails,
     SweepFrame
<1>3. CASE InventoryNext
  BY Zenon, <1>3 DEF InventoryNext, StarterStep, WipeStep, StarterLock, StarterRead,
     Grant_starter, StarterFails, WipeLock, Wipe_character, WipeFails, DeliveryFrame,
     Grant, GrantGuard, GrantInsert, GrantFails, GrantFrame, PlantTomb, DrainStep, DrainStart,
     DrainSelect, DrainPlayer, DrainCommit, DrainFails, DrainFrame, chars
<1>4. QED
  BY Zenon, <1>1, <1>2, <1>3 DEF Next

\* One request moves and the tables stay: it takes a free lock, or has counted.
LEMMA CreateMoves ==
  ASSUME CapInv, NEW r \in Creator, NEW rec, UNCHANGED <<row, of>>,
         creator \in [Creator -> CreateRequest],
         creator' = [creator EXCEPT ![r] = rec],
         rec.pc \in Holding =>
           \/ creator[r].pc \in Holding /\ rec.p = creator[r].p
           \/ \A q \in Creator \ {r} : creator[q].pc \in Holding => creator[q].p # rec.p,
         rec.pc = "counted" => Cardinality(Owned(rec.p)) < Cap
  PROVE  CapInv'
<1>1. creator'[r] = rec /\ \A q \in Creator \ {r} : creator'[q] = creator[q]
  BY Zenon
<1>2. \A p : Owned(p)' = Owned(p)
  BY Zenon DEF Owned
<1>3. \A q \in Creator \ {r} : rec.pc \in Holding /\ creator[q].pc \in Holding
        => rec.p # creator[q].p
  BY Zenon DEF CapInv
<1>4. \A q, o \in Creator : q # o /\ creator'[q].pc \in Holding /\ creator'[o].pc \in Holding
        => creator'[q].p # creator'[o].p
  BY Zenon, <1>1, <1>3 DEF CapInv
<1>5. QED
  BY Zenon, <1>1, <1>2, <1>4 DEF CapInv, UnderCap

\* A create inserts its row: it had counted, and its player is its own.
LEMMA InsertInv ==
  ASSUME PurgeInv, CapInv, NEW r \in Creator, CreateInsert(r)
  PROVE  CapInv'
<1> PICK p : p = creator[r].p
  BY Zenon
<1> PICK c \in Character : /\ of[c] = Nobody /\ row' = row \cup {c}
                           /\ of' = [of EXCEPT ![c] = p]
  BY Zenon DEF CreateInsert
<1>1. /\ CharactersType /\ row \subseteq Used /\ creator[r].pc = "counted"
      /\ p \in Player /\ c \notin row
  BY Zenon DEF PurgeInv, Types, CharactersType, Used, CreateInsert
<1>2. /\ creator'[r] = NoCreate /\ \A q \in Creator \ {r} : creator'[q] = creator[q]
  BY Zenon, <1>1 DEF CharactersType, CreateInsert
<1>3. /\ of'[c] = p /\ \A d \in row : of'[d] = of[d]
  BY Zenon, <1>1 DEF CharactersType, Used
<1>4. /\ Owned(p)' = Owned(p) \cup {c} /\ c \notin Owned(p)
      /\ \A q \in Player \ {p} : Owned(q)' = Owned(q)
  BY Zenon, <1>1, <1>3 DEF Owned
<1>5. /\ IsFiniteSet(row') /\ IsFiniteSet(Owned(p)) /\ Cardinality(Owned(p)) \in Nat
      /\ Cardinality(Owned(p)') = Cardinality(Owned(p)) + 1
  <2>1. IsFiniteSet(row) /\ Owned(p) \subseteq row
    BY Zenon DEF CapInv, Owned
  <2>2. IsFiniteSet(Owned(p))
    BY Zenon, <2>1, FS_Subset
  <2>3. QED
    BY Zenon, <1>4, <2>1, <2>2, FS_AddElement, FS_CardinalityType
<1>6. Cardinality(Owned(p)') <= Cap
  <2>1. Cardinality(Owned(p)) < Cap /\ Cap \in Nat
    BY Zenon, <1>1, CharactersAssumption DEF CapInv
  <2>2. QED
    BY <1>5, <2>1
<1>7. UnderCap'
  BY Zenon, <1>4, <1>6 DEF CapInv, UnderCap
<1>8. \A q \in Creator : creator'[q].pc \in Holding =>
        q # r /\ creator'[q] = creator[q] /\ creator[q].p \in Player \ {p}
  <2>1. \A q \in Creator \ {r} : creator[q].pc \in Holding => creator[q].p \in Player \ {p}
    BY Zenon, <1>1 DEF CapInv, Holding, CharactersType
  <2>2. creator'[r].pc \notin Holding
    BY <1>2 DEF NoCreate, Holding
  <2>3. QED
    BY Zenon, <1>2, <2>1, <2>2
<1>9. QED
  BY Zenon, <1>4, <1>5, <1>7, <1>8 DEF CapInv, Holding

\* Every step of a create keeps the cap.
LEMMA CreateInv ==
  ASSUME PurgeInv, CapInv, NEW r \in Creator,
         (\E p \in Player : Create(r, p)) \/ CreateStep(r) \/ CreateFails(r)
  PROVE  CapInv'
<1>0. creator \in [Creator -> CreateRequest] /\ creator[r] \in CreateRequest
  BY Zenon DEF PurgeInv, Types, CharactersType
<1>1. CASE CreateInsert(r)
  BY Zenon, <1>1, InsertInv
<1>2. CASE ~CreateInsert(r)
  <2>1. UNCHANGED <<row, of>>
    BY Zenon, <1>2 DEF Create, CreateStep, CreateLock, CreateGuard, CreateCount, CreateFails,
       CreateFrame
  <2>2. ASSUME NEW p \in Player, Create(r, p)
        PROVE  CapInv'
    <3> PICK rec : rec = [pc |-> "verified", p |-> p, late |-> FALSE]
      BY Zenon
    <3>1. creator' = [creator EXCEPT ![r] = rec] /\ rec.pc = "verified"
      BY Zenon, <2>2 DEF Create
    <3>2. QED
      BY Zenon, <1>0, <2>1, <3>1, CreateMoves DEF Holding
  <2>3. CASE creator' = [creator EXCEPT ![r] = NoCreate]
    BY Zenon, <1>0, <2>1, <2>3, CreateMoves DEF Holding, NoCreate
  <2>4. CASE CreateLock(r)
    <3> PICK rec : rec = [creator[r] EXCEPT !.pc = "locked"]
      BY Zenon
    <3>1. /\ creator' = [creator EXCEPT ![r] = rec]
          /\ \A q \in Creator : creator[q].p = creator[r].p => creator[q].pc \notin Holding
      BY Zenon, <2>4 DEF CreateLock, Holding
    <3>2. rec.pc = "locked" /\ rec.p = creator[r].p
      BY <1>0 DEF CreateRequest
    <3>3. QED
      BY Zenon, <1>0, <2>1, <3>1, <3>2, CreateMoves
  <2>5. CASE CreateGuard(r) /\ ~(creator' = [creator EXCEPT ![r] = NoCreate])
    <3> PICK rec : rec = [creator[r] EXCEPT !.pc = "guarded"]
      BY Zenon
    <3>1. creator' = [creator EXCEPT ![r] = rec] /\ creator[r].pc = "locked"
      BY Zenon, <2>5 DEF CreateGuard
    <3>2. rec.pc = "guarded" /\ rec.p = creator[r].p
      BY <1>0 DEF CreateRequest
    <3>3. QED
      BY Zenon, <1>0, <2>1, <3>1, <3>2, CreateMoves DEF Holding
  <2>6. CASE CreateCount(r) /\ ~(creator' = [creator EXCEPT ![r] = NoCreate])
    <3> PICK rec : rec = [creator[r] EXCEPT !.pc = "counted"]
      BY Zenon
    <3>1. /\ creator' = [creator EXCEPT ![r] = rec] /\ creator[r].pc = "guarded"
          /\ ~(Cardinality(Owned(creator[r].p)) >= Cap)
      BY Zenon, <2>6 DEF CreateCount
    <3>2. rec.pc = "counted" /\ rec.p = creator[r].p
      BY <1>0 DEF CreateRequest
    <3>3. Cardinality(Owned(rec.p)) < Cap
      <4>1. Cardinality(Owned(rec.p)) \in Nat /\ Cap \in Nat
        BY Zenon, <2>1, FewerRows, CharactersAssumption DEF CapInv
      <4>2. QED
        BY <3>1, <3>2, <4>1
    <3>4. QED
      BY Zenon, <1>0, <2>1, <3>1, <3>2, <3>3, CreateMoves DEF Holding
  <2>7. QED
    BY Zenon, <1>2, <2>2, <2>3, <2>4, <2>5, <2>6 DEF CreateStep, CreateFails
<1>3. QED
  BY Zenon, <1>1, <1>2

\* Rows go, or a tombstone overtakes the creates: neither takes a lock.
LEMMA OtherInv ==
  ASSUME PurgeInv, CapInv,
         \/ UNCHANGED creator /\ UNCHANGED of /\ row' \subseteq row
         \/ UNCHANGED <<row, of>> /\ \E p \in Player : creator' = Overtaken(creator, p)
  PROVE  CapInv'
<1>1. /\ row' \subseteq row /\ UNCHANGED of /\ IsFiniteSet(row) /\ Cap \in Nat
  BY Zenon, CharactersAssumption DEF CapInv
<1>2. \A r \in Creator : creator'[r].pc = creator[r].pc /\ creator'[r].p = creator[r].p
  <2>1. creator \in [Creator -> CreateRequest]
    BY Zenon DEF PurgeInv, Types, CharactersType
  <2>2. ASSUME NEW p \in Player, creator' = Overtaken(creator, p), NEW r \in Creator
        PROVE  creator'[r].pc = creator[r].pc /\ creator'[r].p = creator[r].p
    BY Zenon, <2>1, <2>2 DEF Overtaken, CreateRequest
  <2>3. QED
    BY Zenon, <2>2
<1>3. \A p : /\ Cardinality(Owned(p)') <= Cardinality(Owned(p))
             /\ Cardinality(Owned(p)) \in Nat /\ Cardinality(Owned(p)') \in Nat
  BY Zenon, <1>1, FewerRows
<1>4. IsFiniteSet(row')
  BY Zenon, <1>1, FewerRows
<1>5. UnderCap'
  BY <1>1, <1>3 DEF CapInv, UnderCap
<1>6. ASSUME NEW r \in Creator, creator'[r].pc = "counted"
      PROVE  Cardinality(Owned(creator[r].p))' < Cap
  <2> PICK p : p = creator[r].p
    BY Zenon
  <2>1. creator'[r].p = p /\ Cardinality(Owned(p)) < Cap
    BY Zenon, <1>2, <1>6 DEF CapInv
  <2>2. Cardinality(Owned(p)') < Cap
    BY <1>1, <1>3, <2>1
  <2>3. QED
    BY Zenon, <2>1, <2>2 DEF Owned
<1>7. QED
  BY Zenon, <1>2, <1>4, <1>5, <1>6 DEF CapInv

\* create's gate holds for every number of players, characters and requests, and every
\* cap: locked, guarded and counted, a create still has room when it inserts.
THEOREM UnderCapHolds == Spec => []UnderCap
<1>1. Init => CapInv
  <2> SUFFICES ASSUME Init PROVE CapInv
    BY Zenon
  <2>1. row = {} /\ \A r \in Creator : creator[r].pc = "idle"
    BY Zenon DEF Init, CharactersInit, NoCreate
  <2>2. IsFiniteSet(row) /\ \A p \in Player : Owned(p) = {} /\ Cardinality(Owned(p)) = 0
    BY Zenon, <2>1, FS_EmptySet DEF Owned
  <2>3. UnderCap
    BY <2>2, CharactersAssumption DEF UnderCap
  <2>4. QED
    BY Zenon, <2>1, <2>2, <2>3 DEF CapInv, Holding
<1>2. PurgeInv /\ CapInv /\ [Next]_vars => CapInv'
  BY Zenon, CapSteps, CreateInv, OtherInv
<1>3. CapInv => UnderCap
  BY Zenon DEF CapInv
<1>4. QED
  BY <1>1, <1>2, <1>3, PurgeInvariant, PTL DEF Spec
=============================================================================
