---------------------------- MODULE PartyProofs ----------------------------
(***************************************************************************)
(* Party for every number of players, parties and concurrent transactions. *)
(***************************************************************************)
EXTENDS Party, TLAPS, FiniteSetTheorems, NaturalsInduction, WellFoundedInduction

Stage == {"idle", "read", "lock", "write", "draw", "commit"}

\* Past the first statement under the lock, and past its own writes.
Under == {"write", "draw", "commit"}
Done == {"draw", "commit"}

Txn == [op: Op \union {"none"}, pc: Stage, me: Player \union {None},
        target: Player \union {None}, party: PartyId \union {None}, tries: Nat,
        rows: SUBSET Player, rev: Nat]

Types ==
    /\ member \in [Player -> PartyId \union {None}]
    /\ joined \in [Player -> Nat]
    /\ ready \in [Player -> BOOLEAN]
    /\ leased \in [Player -> BOOLEAN]
    /\ leader \in [PartyId -> Player \union {None}]
    /\ rev \in [PartyId -> Nat]
    /\ inviter \in [PartyId -> [Player -> Player \union {None}]]
    /\ prev \in [Player -> Nat]
    /\ seq \in Nat
    /\ made \subseteq PartyId
    /\ deleted \subseteq Player

\* The rows of a party's tables, and the sequence the revisions come from.
Tables ==
    /\ Types
    /\ PartyIsWhole
    /\ \A c \in PartyId \ made : leader[c] = None
    /\ \A c \in PartyId : rev[c] <= seq
    /\ \A p \in Player : prev[p] <= seq

\* What the first statement under the lock found (Confirmed).
Finds(x) ==
    /\ x.op \in OfMember \union {"invite"} => member[x.me] = x.party
    /\ x.op \in Leading \union {"invite"} => leader[x.party] = x.me
    /\ x.op = "accept" => /\ inviter[x.party][x.me] # None
                          /\ Cardinality(Members(x.party)) < MaxMembers

\* What a transaction has written, and what its rows were before.
Wrote(x) ==
    /\ x.op \in Joining => x.rows = {x.me} /\ member[x.me] = None
    /\ x.op = "create" => leader[x.party] = None
    /\ x.op \in Removing => x.rows \subseteq Members(x.party)
    /\ x.op = "purge" => x.rows \subseteq {x.me}
    /\ x.op \notin Joining \union Removing => x.rows = {}
    /\ x.op = "promote" => member[x.target] = x.party

\* The revision a transaction has drawn is past the ones it replaces.
Drew(x) ==
    /\ x.party # None => rev[x.party] < x.rev
    /\ \A p \in x.rows : prev[p] < x.rev

\* The purge of a player without a party.
Partyless(x) == x.op = "purge" /\ x.pc = "commit" /\ x.rows = {} /\ x.party = None

Knows(x) ==
    /\ x.rev <= seq
    /\ x.pc \notin Done => x.rows = {}
    /\ x.op = "purge" => x.me \in Player \ deleted
    /\ x.op \in Leading \union {"invite"} => x.target \in Player
    /\ x.pc = "read" => x.op \in OfMember
    /\ x.pc # "idle" /\ x.op # "sweep" => x.me \in Player
    /\ x.party \in made \union {None}
    /\ x.pc \in {"lock"} \union Under =>
         x.party # None \/ (x.op = "create" /\ x.pc = "write") \/ Partyless(x)
    /\ x.pc \in Under => Finds(x)
    /\ x.pc \in Done => Wrote(x)
    /\ x.pc = "commit" => Drew(x)

\* A transaction holds the lock of its party, or has made it and not committed.
Owns(x) == x.pc \in Under /\ x.op # "create" /\ x.party # None
Makes(x) == x.pc \in Done /\ x.op = "create" /\ x.party # None

\* Two transactions hold different locks and rows, nobody names a party that is
\* being made, and there is one purge at a time.
Apart(x, y) ==
    /\ x.rows \intersect y.rows = {}
    /\ ~(x.op = "purge" /\ y.op = "purge")
    /\ Owns(x) /\ Owns(y) => x.party # y.party
    /\ Makes(x) \/ Makes(y) => x.party # y.party

Fits == tx \in [Slot -> Txn]
Recalls == \A s \in Slot : Knows(tx[s])
Isolated == \A s, t \in Slot : s # t => Apart(tx[s], tx[t])

PartyInv == Tables /\ Fits /\ Recalls /\ Isolated

-----------------------------------------------------------------------------
(* Transactions *)

\* The fields of a transaction.
LEMMA Fields ==
    ASSUME NEW x \in Txn
    PROVE  /\ x.op \in Op \union {"none"} /\ x.pc \in Stage
           /\ x.me \in Player \union {None} /\ x.target \in Player \union {None}
           /\ x.party \in PartyId \union {None} /\ x.tries \in Nat
           /\ x.rows \subseteq Player /\ x.rev \in Nat
  BY Zenon DEF Txn

\* A slot without a request is apart from every transaction.
LEMMA IdleIsApart ==
    /\ Idle \in Txn /\ Idle.pc = "idle" /\ Idle.op = "none" /\ Idle.party = None
    /\ Idle.rows = {} /\ Idle.rev = 0
    /\ \A x \in Txn : Apart(x, Idle) /\ Apart(Idle, x)
<1>1. /\ Idle \in Txn /\ Idle.pc = "idle" /\ Idle.op = "none" /\ Idle.party = None
      /\ Idle.rows = {} /\ Idle.rev = 0
  BY Zenon DEF Idle, Txn, Stage
<1>2. ~Owns(Idle) /\ ~Makes(Idle)
  BY Zenon, <1>1 DEF Owns, Makes, Under, Done
<1>3. \A x : Makes(x) => x.party # None
  BY Zenon DEF Makes
<1>4. QED
  BY Zenon, <1>1, <1>2, <1>3 DEF Apart

\* One transaction moves and no table changes, but for the counters.
LEMMA OneMoves ==
    ASSUME PartyInv, NEW s \in Slot, NEW y \in Txn, tx' = [tx EXCEPT ![s] = y],
           UNCHANGED <<roster, leader, rev, inviter, prev, deleted>>,
           made \subseteq made', made' \subseteq PartyId, seq' \in Nat, seq <= seq',
           Knows(y)', \A q \in Slot \ {s} : Apart(y, tx[q]) /\ Apart(tx[q], y)
    PROVE  PartyInv'
<1>1. /\ tx'[s] = y /\ \A q \in Slot \ {s} : tx'[q] = tx[q]
      /\ Fits'
  BY Zenon DEF PartyInv, Fits
<1>2. Tables'
  <2>1. Types' /\ PartyIsWhole' /\ \A c \in PartyId \ made' : leader'[c] = None
    BY DEF PartyInv, Tables, Types, PartyIsWhole, Members, roster
  <2>2. (\A c \in PartyId : rev'[c] <= seq') /\ \A p \in Player : prev'[p] <= seq'
    BY DEF PartyInv, Tables, Types
  <2>3. QED
    BY Zenon, <2>1, <2>2 DEF Tables
<1>3. ASSUME NEW x \in Txn, Knows(x)
      PROVE  Knows(x)'
  <2>1. x.rev <= seq'
    BY <1>3 DEF PartyInv, Tables, Types, Knows, Txn
  <2>2. Finds(x) => Finds(x)'
    BY Zenon DEF Finds, Members, roster
  <2>3. Wrote(x) => Wrote(x)'
    BY Zenon DEF Wrote, Members, roster
  <2>4. QED
    BY Zenon, <1>3, <2>1, <2>2, <2>3 DEF Knows, Drew, Partyless
<1>4. Recalls'
  BY Zenon, <1>1, <1>3 DEF PartyInv, Recalls, Fits
<1>5. Isolated'
  BY <1>1 DEF PartyInv, Isolated
<1>6. QED
  BY Zenon, <1>1, <1>2, <1>4, <1>5 DEF PartyInv

\* The request is answered, or its transaction rolled back.
LEMMA EndKeeps ==
    ASSUME PartyInv, NEW s \in Slot, End(s),
           UNCHANGED <<roster, leader, rev, inviter, prev, seq, made, deleted>>
    PROVE  PartyInv'
<1>1. PICK y : y = Idle
  BY Zenon
<1>2. /\ y \in Txn /\ y.pc = "idle" /\ y.op = "none" /\ y.rows = {} /\ y.rev = 0
      /\ y.party = None
  BY Zenon, <1>1, IdleIsApart
<1>3. Knows(y)'
  <2>1. y.rev <= seq'
    BY <1>2 DEF PartyInv, Tables, Types
  <2>2. QED
    BY Zenon, <1>2, <2>1 DEF Knows, Under, Done, Leading
<1>4. \A q \in Slot \ {s} : Apart(y, tx[q]) /\ Apart(tx[q], y)
  BY Zenon, <1>1, IdleIsApart DEF PartyInv, Fits
<1>5. made \subseteq PartyId /\ seq \in Nat /\ seq <= seq'
  BY DEF PartyInv, Tables, Types
<1>6. QED
  BY Zenon, <1>1, <1>2, <1>3, <1>4, <1>5, OneMoves DEF End

-----------------------------------------------------------------------------
(* Steps that write no table *)

\* A party somebody is in, leads or is invited to has been made, and by a transaction
\* that has committed.
LEMMA LedIsMade ==
    ASSUME PartyInv, NEW c \in PartyId, leader[c] # None
    PROVE  /\ c \in made
           /\ \A q \in Slot : Makes(tx[q]) => tx[q].party # c
<1>1. c \in made
  BY Zenon DEF PartyInv, Tables
<1>2. ASSUME NEW q \in Slot, Makes(tx[q])
      PROVE  leader[tx[q].party] = None
  BY Zenon, <1>2 DEF PartyInv, Recalls, Knows, Wrote, Makes
<1>3. QED
  BY Zenon, <1>1, <1>2

\* What the first read of an operation finds.
LEMMA FoundIsLed ==
    ASSUME PartyInv, NEW op, NEW me, op = "sweep" \/ me \in Player, NEW c \in Found(op, me)
    PROVE  c \in PartyId /\ leader[c] # None
<1>1. PartyIsWhole /\ Types
  BY Zenon DEF PartyInv, Tables
<1>2. CASE op = "accept"
  BY Zenon, <1>1, <1>2 DEF Found, PartyIsWhole
<1>3. CASE op = "sweep"
  BY Zenon, <1>1, <1>3, PartyAssumption DEF Found, PartyIsWhole, Members
<1>4. CASE op = "invite"
  BY Zenon, <1>1, <1>4, PartyAssumption DEF Found, PartyIsWhole
<1>5. CASE op \notin {"accept", "sweep", "invite"}
  <2>1. c = member[me] /\ c # None
    BY Zenon, <1>5 DEF Found
  <2>2. QED
    BY <1>1, <1>5, <2>1 DEF PartyIsWhole, Types
<1>6. QED
  BY Zenon, <1>2, <1>3, <1>4, <1>5

\* A transaction that sets out to lock a party holds nothing yet.
LEMMA SettingOut ==
    ASSUME PartyInv, NEW s \in Slot, NEW y \in Txn, tx' = [tx EXCEPT ![s] = y],
           UNCHANGED <<roster, leader, rev, inviter, prev, seq, made, deleted>>,
           y.pc \in {"lock", "read"}, y.rows = {}, y.rev <= seq,
           y.op # "sweep" => y.me \in Player,
           y.op = "purge" => /\ y.me \notin deleted
                             /\ \A q \in Slot \ {s} : tx[q].op # "purge",
           y.op \in Leading \union {"invite"} => y.target \in Player,
           y.pc = "read" => y.op \in OfMember /\ y.party = None,
           y.pc = "lock" => y.party \in PartyId /\ leader[y.party] # None
    PROVE  PartyInv'
<1>1. seq \in Nat /\ made \subseteq PartyId /\ Fits
  BY Zenon DEF PartyInv, Tables, Types
<1>2. y.pc = "lock" => y.party \in made
  BY Zenon, LedIsMade
<1>3. Knows(y)'
  <2>1. seq' = seq /\ made' = made /\ deleted' = deleted
    BY Zenon
  <2>2. y.pc \notin Under /\ y.pc \notin Done /\ y.pc # "idle"
    BY Zenon DEF Under, Done
  <2>3. y.party \in made \union {None} /\ (y.pc = "lock" => y.party # None)
    BY Zenon, <1>2, PartyAssumption
  <2>4. QED
    BY Zenon, <2>1, <2>2, <2>3 DEF Knows
<1>4. ASSUME NEW q \in Slot \ {s}
      PROVE  Apart(y, tx[q]) /\ Apart(tx[q], y)
  <2>1. ~Owns(y) /\ ~Makes(y)
    BY Zenon DEF Owns, Makes, Under, Done
  <2>2. Makes(tx[q]) => tx[q].party # y.party
    <3>1. CASE y.pc = "lock"
      BY Zenon, <3>1, LedIsMade
    <3>2. CASE y.pc = "read"
      BY Zenon, <3>2 DEF Makes
    <3>3. QED
      BY Zenon, <3>1, <3>2
  <2>3. QED
    BY Zenon, <2>1, <2>2 DEF Apart
<1>5. made \subseteq made' /\ made' \subseteq PartyId /\ seq' \in Nat /\ seq <= seq'
  BY <1>1
<1>6. QED
  BY Zenon, <1>3, <1>4, <1>5, OneMoves

\* party_of, led_party or a look at the invites, before the lock.
LEMMA BeginKeeps ==
    ASSUME PartyInv, NEW s \in Slot, Begin(s)
    PROVE  PartyInv'
<1>1. PICK op \in Op \ {"sweep"}, me, target \in Player :
        /\ op \in Leading \union {"invite"} <=> target # me
        /\ op = "purge" => /\ me \notin deleted
                           /\ \A t \in Slot : tx[t].op # "purge"
        /\ \/ /\ op = "create"
              /\ RoomToCreate
              /\ tx' = [tx EXCEPT ![s] = [Idle EXCEPT !.op = op, !.me = me,
                                                      !.pc = "write"]]
           \/ /\ op = "purge"
              /\ member[me] = None
              /\ tx' = [tx EXCEPT ![s] = [Idle EXCEPT !.op = op, !.me = me,
                                                      !.pc = "commit"]]
           \/ /\ op # "create"
              /\ \E c \in Found(op, me) :
                   tx' = [tx EXCEPT ![s] =
                            [Idle EXCEPT !.op = op, !.me = me, !.party = c,
                                         !.target = target, !.pc = "lock"]]
  BY Zenon DEF Begin
<1>2. UNCHANGED <<roster, leader, rev, inviter, prev, seq, made, deleted>>
  BY Zenon DEF Begin
<1>3. seq \in Nat /\ made \subseteq PartyId /\ Fits
  BY Zenon DEF PartyInv, Tables, Types
<1>4. made \subseteq made' /\ made' \subseteq PartyId /\ seq' \in Nat /\ seq <= seq'
  BY <1>2, <1>3
<1>5. ASSUME NEW y, y.op = op, y.op \in {"create", "purge"},
             y \in Txn, y.me = me, y.party = None, y.rows = {}, y.rev = 0,
             y.pc = IF op = "create" THEN "write" ELSE "commit",
             tx' = [tx EXCEPT ![s] = y]
      PROVE  PartyInv'
  <2>1. Knows(y)'
    <3>1. seq' = seq /\ made' = made /\ deleted' = deleted /\ 0 <= seq
      BY <1>2, <1>3
    <3>2. Finds(y)'
      BY Zenon, <1>5 DEF Finds, OfMember, Leading, Readying
    <3>3. CASE op = "create"
      BY Zenon, <1>5, <3>1, <3>2, <3>3 DEF Knows, Under, Done, OfMember, Leading, Readying
    <3>4. CASE op = "purge"
      <4>1. Wrote(y)' /\ Drew(y)' /\ Partyless(y)
        BY Zenon, <1>5, <3>4 DEF Wrote, Drew, Partyless, Joining
      <4>2. QED
        BY Zenon, <1>1, <1>5, <3>1, <3>2, <3>4, <4>1 DEF Knows, Under, Done, Leading
    <3>5. QED
      BY Zenon, <1>5, <3>3, <3>4
  <2>2. ASSUME NEW q \in Slot \ {s}
        PROVE  Apart(y, tx[q]) /\ Apart(tx[q], y)
    <3>1. ~Owns(y) /\ ~Makes(y)
      BY Zenon, <1>5 DEF Owns, Makes, Done
    <3>2. Makes(tx[q]) => tx[q].party # None
      BY Zenon DEF Makes
    <3>3. QED
      BY Zenon, <1>1, <1>5, <3>1, <3>2 DEF Apart
  <2>3. QED
    BY Zenon, <1>2, <1>4, <1>5, <2>1, <2>2, OneMoves
<1>6. CASE op \in {"create", "purge"} /\
           tx' = [tx EXCEPT ![s] = [Idle EXCEPT !.op = op, !.me = me,
                                     !.pc = IF op = "create" THEN "write" ELSE "commit"]]
  <2>1. PICK y : y = [Idle EXCEPT !.op = op, !.me = me,
                                  !.pc = IF op = "create" THEN "write" ELSE "commit"]
    BY Zenon
  <2>2. /\ y \in Txn /\ y.op = op /\ y.me = me /\ y.party = None /\ y.rows = {} /\ y.rev = 0
        /\ y.pc = IF op = "create" THEN "write" ELSE "commit"
    BY Zenon, <2>1 DEF Idle, Txn, Stage
  <2>3. QED
    BY Zenon, <1>5, <1>6, <2>1, <2>2
<1>7. ASSUME NEW c \in Found(op, me),
             tx' = [tx EXCEPT ![s] = [Idle EXCEPT !.op = op, !.me = me, !.party = c,
                                                  !.target = target, !.pc = "lock"]]
      PROVE  PartyInv'
  <2>1. PICK y : y = [Idle EXCEPT !.op = op, !.me = me, !.party = c,
                                  !.target = target, !.pc = "lock"]
    BY Zenon
  <2>2. c \in PartyId /\ leader[c] # None
    BY Zenon, <1>7, FoundIsLed
  <2>3. /\ y \in Txn /\ y.op = op /\ y.me = me /\ y.party = c /\ y.target = target
        /\ y.rows = {} /\ y.rev = 0 /\ y.pc = "lock"
    BY Zenon, <2>1, <2>2 DEF Idle, Txn, Stage
  <2>4. tx' = [tx EXCEPT ![s] = y] /\ y.rev <= seq
    BY <1>3, <1>7, <2>1, <2>3
  <2>5. op = "purge" => \A q \in Slot \ {s} : tx[q].op # "purge"
    BY Zenon, <1>1
  <2>6. op # "sweep" /\ me \in Player /\ target \in Player /\ (op = "purge" => me \notin deleted)
    BY Zenon, <1>1
  <2>7. QED
    BY Zenon, <1>2, <2>2, <2>3, <2>4, <2>5, <2>6, SettingOut
<1>8. QED
  BY Zenon, <1>1, <1>6, <1>7

\* sweep_pass takes up a party.
LEMMA BeginSweepKeeps ==
    ASSUME PartyInv, BeginSweep
    PROVE  PartyInv'
<1>1. PICK c \in Found("sweep", None) :
        tx' = [tx EXCEPT ![Sweeper] = [Idle EXCEPT !.op = "sweep", !.party = c,
                                                   !.pc = "lock"]]
  BY Zenon DEF BeginSweep
<1>2. c \in PartyId /\ leader[c] # None /\ seq \in Nat
  BY Zenon, FoundIsLed DEF PartyInv, Tables, Types
<1>3. PICK y : y = [Idle EXCEPT !.op = "sweep", !.party = c, !.pc = "lock"]
  BY Zenon
<1>4. y \in Txn /\ y.op = "sweep" /\ y.party = c /\ y.rows = {} /\ y.rev = 0 /\ y.pc = "lock"
  BY Zenon, <1>2, <1>3 DEF Idle, Txn, Stage, Op, Removing
<1>5. Sweeper \in Slot /\ tx' = [tx EXCEPT ![Sweeper] = y]
  BY Zenon, <1>1, <1>3 DEF Slot
<1>6. y.rev <= seq /\ y.op \notin Leading \union {"invite"}
  BY <1>2, <1>4 DEF Leading
<1>7. UNCHANGED <<roster, leader, rev, inviter, prev, seq, made, deleted>>
  BY Zenon DEF BeginSweep
<1>8. QED
  BY Zenon, <1>2, <1>4, <1>5, <1>6, <1>7, SettingOut

\* begin_locked reads again.
LEMMA RereadKeeps ==
    ASSUME PartyInv, NEW s \in Slot, Reread(s)
    PROVE  PartyInv'
<1> DEFINE t == tx[s]
<1>1. t \in Txn /\ Knows(t) /\ t.pc = "read" /\ t.op \in OfMember /\ t.me \in Player
  BY Zenon DEF PartyInv, Fits, Recalls, Knows, Reread, OfMember, Leading, Readying
<1>2. UNCHANGED <<roster, leader, rev, inviter, prev, seq, made, deleted>>
  BY Zenon DEF Reread
<1>3. CASE member[t.me] = None
  BY Zenon, <1>2, <1>3, EndKeeps DEF Reread
<1>4. CASE member[t.me] # None
  <2>1. PICK y : y = [t EXCEPT !.party = member[t.me], !.pc = "lock"]
    BY Zenon
  <2>2. member[t.me] \in PartyId /\ leader[member[t.me]] # None
    BY <1>1, <1>4 DEF PartyInv, Tables, Types, PartyIsWhole
  <2>3. /\ y \in Txn /\ y.op = t.op /\ y.me = t.me /\ y.target = t.target /\ y.rows = t.rows
        /\ y.rev = t.rev /\ y.pc = "lock" /\ y.party = member[t.me]
    BY Zenon, <1>1, <2>1, <2>2 DEF Txn, Stage
  <2>4. tx' = [tx EXCEPT ![s] = y]
    BY Zenon, <1>4, <2>1 DEF Reread
  <2>5. y.op # "purge" /\ y.rows = {} /\ y.rev <= seq
        /\ (y.op \in Leading \union {"invite"} => y.target \in Player)
    BY Zenon, <1>1, <2>3 DEF Knows, Done, OfMember, Leading, Readying
  <2>6. QED
    BY Zenon, <1>1, <1>2, <2>2, <2>3, <2>4, <2>5, SettingOut
<1>5. QED
  BY Zenon, <1>3, <1>4

\* lock_party_tx, and the first statement under the lock.
LEMMA LockKeeps ==
    ASSUME PartyInv, NEW s \in Slot, Lock(s)
    PROVE  PartyInv'
<1> DEFINE t == tx[s]
<1>1. t \in Txn /\ Knows(t) /\ t.pc = "lock" /\ t.rows = {}
  BY Zenon DEF PartyInv, Fits, Recalls, Knows, Lock, Done
<1>2. UNCHANGED <<roster, leader, rev, inviter, prev, seq, made, deleted>>
  BY Zenon DEF Lock
<1>3. seq \in Nat /\ made \subseteq PartyId /\ Fits
  BY Zenon DEF PartyInv, Tables, Types
<1>4. CASE Confirmed(s) /\ Go(s, "write")
  <2>1. PICK y : y = [t EXCEPT !.pc = "write"]
    BY Zenon
  <2>2. /\ y \in Txn /\ y.op = t.op /\ y.me = t.me /\ y.target = t.target /\ y.rows = t.rows
        /\ y.rev = t.rev /\ y.pc = "write" /\ y.party = t.party
    BY Zenon, <1>1, <2>1 DEF Txn, Stage
  <2>3. tx' = [tx EXCEPT ![s] = y]
    BY Zenon, <1>3, <1>4, <2>1 DEF Go, Fits
  <2>4. Finds(y)'
    BY Zenon, <1>2, <1>4, <2>2 DEF Confirmed, Finds, Members, roster
  <2>5. Knows(y)'
    BY Zenon, <1>1, <1>2, <2>2, <2>4 DEF Knows, Under, Done, Partyless
  <2>6. ASSUME NEW q \in Slot \ {s}
        PROVE  Apart(y, tx[q]) /\ Apart(tx[q], y)
    <3>1. Apart(t, tx[q]) /\ Apart(tx[q], t)
      BY Zenon DEF PartyInv, Isolated
    <3>2. Owns(tx[q]) => tx[q].party # y.party
      BY Zenon, <2>2 DEF Lock, HoldsLock, Owns, Under
    <3>3. ~Makes(y)
      BY Zenon, <2>2 DEF Makes, Done
    <3>4. QED
      BY Zenon, <2>2, <3>1, <3>2, <3>3 DEF Apart
  <2>7. made \subseteq made' /\ made' \subseteq PartyId /\ seq' \in Nat /\ seq <= seq'
    BY <1>2, <1>3
  <2>8. QED
    BY Zenon, <1>2, <2>2, <2>3, <2>5, <2>6, <2>7, OneMoves
<1>5. CASE /\ t.op \in OfMember
           /\ tx' = [tx EXCEPT ![s] = [t EXCEPT !.pc = "read", !.party = None,
                                                !.tries = @ + 1]]
  <2>1. PICK y : y = [t EXCEPT !.pc = "read", !.party = None, !.tries = @ + 1]
    BY Zenon
  <2>2. /\ y \in Txn /\ y.op = t.op /\ y.me = t.me /\ y.target = t.target /\ y.rows = t.rows
        /\ y.rev = t.rev /\ y.pc = "read" /\ y.party = None
    <3>1. PICK u : u = [t EXCEPT !.pc = "read"]
      BY Zenon
    <3>2. u \in Txn /\ u.pc = "read" /\ u.op = t.op /\ u.me = t.me /\ u.target = t.target
          /\ u.rows = t.rows /\ u.rev = t.rev
      BY Zenon, <1>1, <3>1 DEF Txn, Stage
    <3>3. PICK v : v = [u EXCEPT !.party = None]
      BY Zenon
    <3>4. v \in Txn /\ v.pc = "read" /\ v.op = t.op /\ v.me = t.me /\ v.target = t.target
          /\ v.rows = t.rows /\ v.rev = t.rev /\ v.party = None
      BY Zenon, <3>2, <3>3 DEF Txn
    <3>5. y = [v EXCEPT !.tries = @ + 1]
      BY Zenon, <2>1, <3>1, <3>3
    <3>6. QED
      BY <3>4, <3>5 DEF Txn
  <2>3. /\ y.op # "purge" /\ y.op # "sweep" /\ y.rows = {} /\ y.rev <= seq
        /\ y.me \in Player
        /\ (y.op \in Leading \union {"invite"} => y.target \in Player)
    BY Zenon, <1>1, <1>5, <2>2 DEF Knows, OfMember, Leading, Readying
  <2>4. QED
    BY Zenon, <1>2, <1>5, <2>1, <2>2, <2>3, SettingOut
<1>6. CASE End(s)
  BY Zenon, <1>2, <1>6, EndKeeps
<1>7. QED
  BY Zenon, <1>4, <1>5, <1>6 DEF Lock

\* A transaction under its lock goes on: it keeps its party, and takes rows that nobody
\* else has.
LEMMA GoesOn ==
    ASSUME PartyInv, NEW s \in Slot, NEW y \in Txn, tx' = [tx EXCEPT ![s] = y],
           UNCHANGED <<roster, leader, rev, inviter, prev, made, deleted>>,
           seq' \in Nat, seq <= seq', y.rev <= seq',
           tx[s].pc \in Under, y.pc \in Done, tx[s].party # None,
           tx[s].pc = "write" => y.op # "create",
           y.op = tx[s].op, y.me = tx[s].me, y.target = tx[s].target,
           y.party = tx[s].party,
           Wrote(y), y.pc = "commit" => Drew(y),
           \A q \in Slot \ {s} : y.rows \intersect tx[q].rows = {}
    PROVE  PartyInv'
<1> DEFINE t == tx[s]
<1>1. t \in Txn /\ Knows(t) /\ made \subseteq PartyId
  BY Zenon DEF PartyInv, Fits, Recalls, Tables, Types
<1>2. Finds(y)' /\ Wrote(y)' /\ (y.pc = "commit" => Drew(y)')
  BY <1>1 DEF Knows, Finds, Wrote, Drew, Members, roster
<1>3. Knows(y)'
  BY Zenon, <1>1, <1>2 DEF Knows, Under, Done
<1>4. ASSUME NEW q \in Slot \ {s}
      PROVE  Apart(y, tx[q]) /\ Apart(tx[q], y)
  <2>1. Apart(t, tx[q]) /\ Apart(tx[q], t)
    BY Zenon DEF PartyInv, Isolated
  <2>2. (Owns(y) => Owns(t)) /\ (Makes(y) => Makes(t))
    BY Zenon DEF Owns, Makes, Under, Done
  <2>3. QED
    BY Zenon, <2>1, <2>2 DEF Apart
<1>5. QED
  BY Zenon, <1>1, <1>3, <1>4, OneMoves

\* insert_member_tx.
LEMMA InsertKeeps ==
    ASSUME PartyInv, NEW s \in Slot, Insert(s)
    PROVE  PartyInv'
<1> DEFINE t == tx[s]
<1>1. /\ t \in Txn /\ Knows(t) /\ t.pc = "write" /\ t.op \in Joining /\ t.me \in Player
      /\ seq \in Nat /\ made \subseteq PartyId /\ Fits
  BY Zenon DEF PartyInv, Fits, Recalls, Knows, Insert, Joining, Tables, Types
<1>2. UNCHANGED <<roster, leader, rev, inviter, prev, seq, deleted>>
  BY Zenon DEF Insert
<1>3. CASE End(s) /\ UNCHANGED made
  BY Zenon, <1>2, <1>3, EndKeeps
<1>4. ASSUME NEW c \in PartyId, member[t.me] = None,
             IF t.op = "create" THEN c \notin made ELSE c = t.party,
             made' = made \union {c},
             tx' = [tx EXCEPT ![s] = [t EXCEPT !.party = c, !.rows = {t.me}, !.pc = "draw"]]
      PROVE  PartyInv'
  <2>1. PICK y : y = [t EXCEPT !.party = c, !.rows = {t.me}, !.pc = "draw"]
    BY Zenon
  <2>2. /\ y \in Txn /\ y.op = t.op /\ y.me = t.me /\ y.target = t.target /\ y.rows = {t.me}
        /\ y.rev = t.rev /\ y.pc = "draw" /\ y.party = c
    BY Zenon, <1>1, <1>4, <2>1 DEF Txn, Stage
  <2>3. tx' = [tx EXCEPT ![s] = y]
    BY Zenon, <1>4, <2>1
  <2>4. \A q \in Slot \ {s} : y.rows \intersect tx[q].rows = {}
    <3>1. \A q \in Slot \ {s} : t.me \notin tx[q].rows
      BY Zenon DEF Insert, HeldRows
    <3>2. QED
      BY Zenon, <2>2, <3>1
  <2>5. t.op = "create" => leader[c] = None
    BY Zenon, <1>4 DEF PartyInv, Tables
  <2>6. Wrote(y)
    BY Zenon, <1>1, <1>4, <2>2, <2>5 DEF Wrote, Joining, Removing
  <2>7. CASE t.op = "accept"
    <3>1. c = t.party /\ made' = made /\ t.party # None
      BY Zenon, <1>1, <1>4, <2>7 DEF Knows, Under, Partyless
    <3>2. y.rev <= seq' /\ seq' \in Nat /\ seq <= seq'
      BY <1>1, <1>2, <2>2 DEF Knows
    <3>3. UNCHANGED <<roster, leader, rev, inviter, prev, made, deleted>>
      BY Zenon, <1>2, <3>1
    <3>4. t.pc \in Under /\ y.pc \in Done /\ y.op # "create" /\ y.pc # "commit" /\ y.party = t.party
      BY Zenon, <1>1, <2>2, <2>7, <3>1 DEF Under, Done
    <3>5. QED
      BY Zenon, <2>2, <2>3, <2>4, <2>6, <3>1, <3>2, <3>3, <3>4, GoesOn
  <2>8. CASE t.op = "create"
    <3>1. Knows(y)'
      <4>1. Wrote(y)'
        BY Zenon, <1>2, <2>6 DEF Wrote, Members, roster
      <4>2. Finds(y)'
        BY Zenon, <2>2, <2>8 DEF Finds, OfMember, Leading, Readying
      <4>3. QED
        BY Zenon, <1>1, <1>2, <1>4, <2>2, <2>8, <4>1, <4>2, PartyAssumption
           DEF Knows, Under, Done, Leading
    <3>2. ASSUME NEW q \in Slot \ {s}
          PROVE  Apart(y, tx[q]) /\ Apart(tx[q], y)
      <4>1. tx[q].party # c
        BY Zenon, <1>4, <2>8, PartyAssumption DEF PartyInv, Recalls, Knows
      <4>2. ~Owns(y)
        BY Zenon, <2>2, <2>8 DEF Owns
      <4>3. QED
        BY Zenon, <2>2, <2>4, <2>8, <4>1, <4>2 DEF Apart
    <3>3. made \subseteq made' /\ made' \subseteq PartyId /\ seq' \in Nat /\ seq <= seq'
      BY <1>1, <1>2, <1>4
    <3>4. UNCHANGED <<roster, leader, rev, inviter, prev, deleted>>
      BY Zenon, <1>2
    <3>5. QED
      BY Zenon, <2>2, <2>3, <3>1, <3>2, <3>3, <3>4, OneMoves
  <2>9. QED
    BY Zenon, <1>1, <2>7, <2>8 DEF Joining
<1>5. QED
  BY Zenon, <1>3, <1>4 DEF Insert

\* remove_member_tx, remove_expired_tx: the rows of another removal are of another party,
\* and the rows of a join of nobody's.
LEMMA DeleteKeeps ==
    ASSUME PartyInv, NEW s \in Slot, Delete(s)
    PROVE  PartyInv'
<1> DEFINE t == tx[s]
<1>1. /\ t \in Txn /\ Knows(t) /\ t.pc = "write" /\ t.op \in Removing
      /\ seq \in Nat /\ seq <= seq' /\ Fits
      /\ UNCHANGED <<roster, leader, rev, inviter, prev, seq, made, deleted>>
  BY DEF PartyInv, Fits, Recalls, Delete, Tables, Types
<1>2. t.party # None /\ t.rev <= seq /\ t.op # "create" /\ Owns(t)
  BY Zenon, <1>1 DEF Knows, Under, Partyless, Removing, Owns
<1>3. CASE End(s)
  BY Zenon, <1>1, <1>3, EndKeeps
<1>4. CASE tx' = [tx EXCEPT ![s] = [@ EXCEPT !.rows = Doomed(s), !.pc = "draw"]]
  <2>1. PICK y : y = [t EXCEPT !.rows = Doomed(s), !.pc = "draw"]
    BY Zenon
  <2>2. /\ Doomed(s) \subseteq Members(t.party)
        /\ t.op = "purge" => Doomed(s) \subseteq {t.me}
    BY Zenon DEF Doomed
  <2>3. /\ y \in Txn /\ y.op = t.op /\ y.me = t.me /\ y.target = t.target
        /\ y.rows = Doomed(s) /\ y.rev = t.rev /\ y.pc = "draw" /\ y.party = t.party
    BY Zenon, <1>1, <2>1, <2>2 DEF Txn, Stage, Members
  <2>4. tx' = [tx EXCEPT ![s] = y]
    BY Zenon, <1>1, <1>4, <2>1 DEF Fits
  <2>5. Wrote(y)
    BY Zenon, <1>1, <2>2, <2>3 DEF Wrote, Joining, Removing
  <2>6. ASSUME NEW q \in Slot \ {s}, NEW p \in y.rows, p \in tx[q].rows
        PROVE  FALSE
    <3>1. Knows(tx[q]) /\ Apart(t, tx[q])
      BY Zenon DEF PartyInv, Recalls, Isolated
    <3>2. tx[q].pc \in Done /\ Wrote(tx[q])
      BY Zenon, <2>6, <3>1 DEF Knows
    <3>3. member[p] = t.party
      BY Zenon, <2>2, <2>3, <2>6 DEF Members
    <3>4. tx[q].op \in Removing /\ tx[q].party = t.party
      BY Zenon, <1>2, <2>6, <3>2, <3>3 DEF Wrote, Members
    <3>5. QED
      BY Zenon, <1>2, <3>1, <3>2, <3>4 DEF Apart, Owns, Under, Done, Removing
  <2>7. QED
    BY Zenon, <1>1, <1>2, <2>3, <2>4, <2>5, <2>6, GoesOn DEF Under, Done
<1>5. QED
  BY Zenon, <1>3, <1>4 DEF Delete

\* promote and set_ready touch no membership row.
LEMMA StampKeeps ==
    ASSUME PartyInv, NEW s \in Slot, Stamp(s)
    PROVE  PartyInv'
<1> DEFINE t == tx[s]
<1>1. /\ t \in Txn /\ Knows(t) /\ t.pc = "write" /\ t.op \in Readying \union {"promote"}
      /\ seq \in Nat /\ seq <= seq' /\ Fits
      /\ UNCHANGED <<roster, leader, rev, inviter, prev, seq, made, deleted>>
  BY DEF PartyInv, Fits, Recalls, Stamp, Tables, Types
<1>2. t.party # None /\ t.rev <= seq /\ t.op # "create" /\ t.rows = {}
  BY Zenon, <1>1 DEF Knows, Under, Done, Partyless, Readying
<1>3. CASE End(s)
  BY Zenon, <1>1, <1>3, EndKeeps
<1>4. CASE Go(s, "draw") /\ ~(t.op = "promote" /\ member[t.target] # t.party)
  <2>1. PICK y : y = [t EXCEPT !.pc = "draw"]
    BY Zenon
  <2>2. /\ y \in Txn /\ y.op = t.op /\ y.me = t.me /\ y.target = t.target
        /\ y.rows = {} /\ y.rev = t.rev /\ y.pc = "draw" /\ y.party = t.party
    BY Zenon, <1>1, <1>2, <2>1 DEF Txn, Stage
  <2>3. tx' = [tx EXCEPT ![s] = y]
    BY Zenon, <1>1, <1>4, <2>1 DEF Go, Fits
  <2>4. Wrote(y)
    BY Zenon, <1>1, <1>4, <2>2 DEF Wrote, Joining, Removing, Readying
  <2>5. QED
    BY Zenon, <1>1, <1>2, <2>2, <2>3, <2>4, GoesOn DEF Under, Done
<1>5. QED
  BY Zenon, <1>3, <1>4 DEF Stamp

\* next_revision_tx: the number is past every revision a row has.
LEMMA DrawKeeps ==
    ASSUME PartyInv, NEW s \in Slot, Draw(s)
    PROVE  PartyInv'
<1> DEFINE t == tx[s]
<1>1. /\ t \in Txn /\ Knows(t) /\ t.pc = "draw" /\ Fits
      /\ UNCHANGED <<roster, leader, rev, inviter, prev, made, deleted>>
  BY Zenon DEF PartyInv, Fits, Recalls, Draw
<1>2. seq \in Nat /\ seq' = seq + 1 /\ seq' \in Nat /\ seq <= seq'
  BY DEF PartyInv, Tables, Types, Draw
<1>3. t.party # None /\ t.party \in PartyId /\ t.rows \subseteq Player /\ Wrote(t)
  BY Zenon, <1>1 DEF Knows, Under, Done, Partyless, Txn
<1>4. PICK y : y = [t EXCEPT !.rev = seq + 1, !.pc = "commit"]
  BY Zenon
<1>5. /\ y \in Txn /\ y.op = t.op /\ y.me = t.me /\ y.target = t.target
      /\ y.rows = t.rows /\ y.rev = seq' /\ y.pc = "commit" /\ y.party = t.party
  BY Zenon, <1>1, <1>2, <1>4 DEF Txn, Stage
<1>6. tx' = [tx EXCEPT ![s] = y]
  BY Zenon, <1>1, <1>4 DEF Draw, Fits
<1>7. Wrote(y)
  BY Zenon, <1>3, <1>5 DEF Wrote
<1>8. Drew(y)
  BY <1>2, <1>3, <1>5 DEF Drew, PartyInv, Tables, Types
<1>9. \A q \in Slot \ {s} : y.rows \intersect tx[q].rows = {}
  BY Zenon, <1>5 DEF PartyInv, Isolated, Apart
<1>10. y.rev <= seq'
  BY <1>2, <1>5
<1>11. QED
  BY Zenon, <1>1, <1>2, <1>3, <1>5, <1>6, <1>7, <1>8, <1>9, <1>10, GoesOn DEF Under, Done

-----------------------------------------------------------------------------
(* Steps that write the tables *)

\* What a commit leaves alone: the members, leaders and revisions of other parties, and
\* the players that are not among its rows.
Elsewhere(t) ==
    /\ \A p \in Player : member'[p] = member[p]
                         \/ (p \in t.rows /\ member'[p] \in {None, t.party})
    /\ \A c \in PartyId \ {t.party} : leader'[c] = leader[c] /\ rev'[c] = rev[c]
    /\ \A p \in Player : prev'[p] = prev[p] \/ p \in t.rows \/ prev'[p] = 0
    /\ deleted' = deleted \/ t.op = "purge"

\* The rows of a transaction are of its party or of none.
LEMMA RowsAreNear ==
    ASSUME PartyInv, NEW s \in Slot, NEW p \in tx[s].rows
    PROVE  member[p] \in {None, tx[s].party}
<1>1. Knows(tx[s])
  BY Zenon DEF PartyInv, Recalls
<1>2. Wrote(tx[s])
  BY Zenon, <1>1 DEF Knows
<1>3. QED
  BY Zenon, <1>2 DEF Wrote, Members

\* So a party other than the committed one keeps its members.
LEMMA OthersKeepMembers ==
    ASSUME PartyInv, NEW s \in Slot, Elsewhere(tx[s]), NEW c \in PartyId, c # tx[s].party
    PROVE  /\ \A p \in Player : member'[p] = c <=> member[p] = c
           /\ \A p \in Player : member[p] = c => p \notin tx[s].rows
           /\ Members(c)' = Members(c)
<1>1. c # None
  BY Zenon, PartyAssumption
<1>2. \A p \in Player : member'[p] = c <=> member[p] = c
  BY Zenon, <1>1, RowsAreNear DEF Elsewhere
<1>3. \A p \in Player : member[p] = c => p \notin tx[s].rows
  BY Zenon, <1>1, RowsAreNear
<1>4. QED
  BY Zenon, <1>2, <1>3 DEF Members

\* A commit shows its revision to the members of its party and to its rows, and nothing
\* to anybody else.
LEMMA CommitShows ==
    ASSUME PartyInv, NEW s \in Slot, tx[s].pc = "commit", Elsewhere(tx[s]),
           \A p \in Player \ tx[s].rows :
             /\ joined'[p] = joined[p]
             /\ ready'[p] = ready[p] \/ member[p] = tx[s].party
             /\ prev'[p] = prev[p] \/ p \in deleted' \ deleted,
           \A p \in tx[s].rows :
             member'[p] = None => prev'[p] = tx[s].rev \/ p \in deleted' \ deleted,
           \A p \in Player : member'[p] = tx[s].party /\ tx[s].party # None
                               => rev'[tx[s].party] = tx[s].rev
    PROVE  ViewChangesWithRevision
<1> DEFINE t == tx[s]
<1>1. t \in Txn /\ Knows(t) /\ Drew(t) /\ Types /\ t.rev \in Nat /\ t.party \in PartyId \union {None}
  BY Zenon DEF PartyInv, Fits, Recalls, Knows, Tables, Txn
<1> SUFFICES ASSUME NEW p \in Player, p \notin deleted' \ deleted
             PROVE  View(p)' = View(p) \/ View(p)'.revision > View(p).revision
  BY Zenon DEF ViewChangesWithRevision
<1>2. ASSUME member[p] \in {None, t.party}, member[p] = None => p \in t.rows
      PROVE  View(p).revision \in Nat /\ View(p).revision < t.rev
  <2>1. CASE member[p] = None
    BY Zenon, <1>1, <1>2, <2>1 DEF View, Drew, Types
  <2>2. CASE member[p] # None
    BY Zenon, <1>1, <1>2, <2>2 DEF View, Drew, Types
  <2>3. QED
    BY Zenon, <2>1, <2>2
<1>3. CASE p \in t.rows
  <2>1. member[p] \in {None, t.party} /\ member'[p] \in {None, t.party}
    BY Zenon, <1>3, RowsAreNear DEF Elsewhere
  <2>2. View(p)'.revision = t.rev
    <3>1. CASE member'[p] = None
      BY Zenon, <1>3, <3>1 DEF View
    <3>2. CASE member'[p] # None
      BY Zenon, <2>1, <3>2 DEF View
    <3>3. QED
      BY Zenon, <3>1, <3>2
  <2>3. QED
    BY Zenon, <1>1, <1>2, <1>3, <2>1, <2>2
<1>4. CASE p \notin t.rows /\ member[p] = None
  <2>1. member'[p] = None /\ prev'[p] = prev[p]
    BY Zenon, <1>4 DEF Elsewhere
  <2>2. QED
    BY Zenon, <1>4, <2>1 DEF View
<1>5. CASE p \notin t.rows /\ member[p] # None /\ member[p] = t.party
  <2>1. member'[p] = t.party /\ t.party # None
    BY Zenon, <1>5 DEF Elsewhere
  <2>2. View(p)'.revision = t.rev
    BY Zenon, <2>1 DEF View
  <2>3. QED
    BY Zenon, <1>1, <1>2, <1>5, <2>2
<1>6. CASE p \notin t.rows /\ member[p] # None /\ member[p] # t.party
  <2>1. PICK c : c = member[p]
    BY Zenon
  <2>2. c \in PartyId /\ c # t.party /\ c # None
    BY Zenon, <1>1, <1>6, <2>1 DEF Types
  <2>3. /\ \A q \in Player : member'[q] = c <=> member[q] = c
        /\ \A q \in Player : member[q] = c => q \notin t.rows
    BY Zenon, <2>2, OthersKeepMembers
  <2>4. /\ \A q \in Player : member[q] = c => joined'[q] = joined[q] /\ ready'[q] = ready[q]
        /\ leader'[c] = leader[c] /\ rev'[c] = rev[c]
    BY Zenon, <2>2, <2>3 DEF Elsewhere
  <2>5. {<<q, joined'[q], ready'[q]>> : q \in Members(c)'}
          = {<<q, joined[q], ready[q]>> : q \in Members(c)}
    BY <2>3, <2>4 DEF Members
  <2>6. member'[p] = c
    BY Zenon, <2>1, <2>3
  <2>7. QED
    BY Zenon, <2>1, <2>2, <2>4, <2>5, <2>6 DEF View
<1>7. QED
  BY Zenon, <1>3, <1>4, <1>5, <1>6

\* A commit leaves what the other transactions know as it is.
LEMMA OthersKnow ==
    ASSUME PartyInv, NEW s \in Slot, tx[s].pc = "commit" \/ Owns(tx[s]),
           End(s), UNCHANGED <<seq, made>>, Elsewhere(tx[s]),
           \A q \in Slot \ {s} : tx[q].op = "accept" /\ tx[q].pc \in Under
                                   => inviter'[tx[q].party][tx[q].me] # None
    PROVE  Fits' /\ Recalls' /\ Isolated'
<1> DEFINE t == tx[s]
<1>1. /\ tx'[s] = Idle /\ \A q \in Slot \ {s} : tx'[q] = tx[q]
      /\ Fits'
  BY Zenon, IdleIsApart DEF PartyInv, Fits, End
<1>2. Isolated'
  <2>1. \A q \in Slot : tx[q] \in Txn
    BY Zenon DEF PartyInv, Fits
  <2>2. QED
    BY Zenon, <1>1, <2>1, IdleIsApart DEF PartyInv, Isolated
<1>3. ASSUME NEW q \in Slot \ {s}
      PROVE  Knows(tx[q])'
  <2>1. PICK x : x = tx[q]
    BY Zenon
  <2>2. /\ x \in Txn /\ Knows(x) /\ Apart(t, x) /\ Knows(t) /\ t \in Txn
        /\ made \subseteq PartyId /\ Types
    BY Zenon, <2>1 DEF PartyInv, Fits, Recalls, Isolated, Tables, Types
  <2>3. x.pc \in Under /\ x.party # None /\ ~(x.op = "create" /\ x.pc = "write")
          => x.party \in PartyId \ {t.party}
    <3>1. x.party # None => x.party \in PartyId
      BY Zenon, <2>2 DEF Knows
    <3>2. t.op = "create" /\ t.party # None => Makes(t)
      BY Zenon DEF Makes, Owns, Done
    <3>3. t.op # "create" /\ t.party # None => Owns(t)
      BY Zenon DEF Owns, Under
    <3>4. x.pc \in Under /\ x.op = "create" /\ x.pc # "write" /\ x.party # None => Makes(x)
      BY Zenon DEF Makes, Under, Done
    <3>5. x.pc \in Under /\ x.op # "create" /\ x.party # None => Owns(x)
      BY Zenon DEF Owns
    <3>6. QED
      BY Zenon, <2>2, <3>1, <3>2, <3>3, <3>4, <3>5 DEF Apart
  <2>4. x.pc \in Under /\ x.party # None /\ ~(x.op = "create" /\ x.pc = "write")
          => /\ \A p \in Player : member'[p] = x.party <=> member[p] = x.party
             /\ Members(x.party)' = Members(x.party)
             /\ leader'[x.party] = leader[x.party] /\ rev'[x.party] = rev[x.party]
    BY Zenon, <2>3, OthersKeepMembers DEF Elsewhere
  <2>5. x.op = "purge" => x.me \in Player \ deleted'
    BY Zenon, <2>2 DEF Knows, Apart, Elsewhere
  <2>6. ASSUME x.pc \in Under
        PROVE  Finds(x)'
    <3>1. Finds(x)
      BY Zenon, <2>2, <2>6 DEF Knows
    <3>2. CASE x.op \in OfMember \union {"invite", "accept"}
      <4>1. /\ x.op # "create" /\ x.op # "purge" /\ x.op # "sweep" /\ x.me \in Player
            /\ x.party # None
        BY Zenon, <2>2, <2>6, <3>2 DEF Knows, Partyless, OfMember, Leading, Readying, Under
      <4>2. /\ member'[x.me] = x.party <=> member[x.me] = x.party
            /\ Members(x.party)' = Members(x.party)
            /\ leader'[x.party] = leader[x.party]
        BY Zenon, <2>4, <2>6, <4>1
      <4>3. x.op = "accept" => inviter'[x.party][x.me] # None
        BY Zenon, <2>1, <2>6
      <4>4. QED
        BY Zenon, <3>1, <4>2, <4>3 DEF Finds
    <3>3. CASE x.op \notin OfMember \union {"invite", "accept"}
      BY Zenon, <3>3 DEF Finds, OfMember
    <3>4. QED
      BY Zenon, <3>2, <3>3
  <2>7. x.pc \in Done => Wrote(x)'
    <3>1. \A p \in x.rows : p \in Player /\ member'[p] = member[p]
      BY Zenon, <2>2 DEF Elsewhere, Apart, Txn
    <3>2. QED
      BY Zenon, <2>2, <2>4, <3>1 DEF Knows, Wrote, Partyless, Done, Under, Removing, Joining, Leading
  <2>8. x.pc = "commit" => Drew(x)'
    <3>1. ASSUME x.pc = "commit", NEW p \in x.rows
          PROVE  prev'[p] < x.rev
      <4>1. p \in Player /\ p \notin t.rows /\ prev[p] < x.rev /\ prev[p] \in Nat /\ x.rev \in Nat
        BY Zenon, <2>2, <3>1 DEF Apart, Knows, Drew, Types, Txn
      <4>2. prev'[p] = prev[p] \/ prev'[p] = 0
        BY Zenon, <4>1 DEF Elsewhere
      <4>3. QED
        BY <4>1, <4>2
    <3>2. QED
      BY Zenon, <2>2, <2>4, <3>1 DEF Knows, Drew, Under
  <2>9. Knows(x)'
    BY Zenon, <2>2, <2>5, <2>6, <2>7, <2>8 DEF Knows, Partyless
  <2>10. QED
    BY Zenon, <1>1, <2>1, <2>9
<1>4. Knows(tx[s])'
  <2>1. PICK y : y = Idle
    BY Zenon
  <2>2. /\ y.pc = "idle" /\ y.op = "none" /\ y.rows = {} /\ y.party = None
        /\ y.rev <= seq'
    BY <2>1, IdleIsApart DEF PartyInv, Tables, Types
  <2>3. Knows(y)'
    BY Zenon, <2>2 DEF Knows, Under, Done, Leading
  <2>4. QED
    BY Zenon, <1>1, <2>1, <2>3
<1>5. QED
  BY Zenon, <1>1, <1>2, <1>3, <1>4 DEF Recalls

\* The invite an accept has consumed stays while another transaction commits.
LEMMA AcceptsKeepInvites ==
    ASSUME PartyInv, NEW s \in Slot, tx[s].pc = "commit" \/ Owns(tx[s]),
           NEW q \in Slot \ {s}, tx[q].op = "accept", tx[q].pc \in Under
    PROVE  /\ tx[q].party \in PartyId \ {tx[s].party} /\ tx[q].me \in Player
           /\ inviter[tx[q].party][tx[q].me] # None
<1>1. Knows(tx[q]) /\ Apart(tx[s], tx[q]) /\ made \subseteq PartyId
  BY Zenon DEF PartyInv, Recalls, Isolated, Tables, Types
<1>2. tx[q].party \in PartyId /\ tx[q].me \in Player /\ Owns(tx[q]) /\ Finds(tx[q])
  BY Zenon, <1>1, PartyAssumption DEF Knows, Owns, Under, Partyless
<1>3. tx[s].party # None => Owns(tx[s]) \/ Makes(tx[s])
  BY Zenon DEF Owns, Makes, Under, Done
<1>4. QED
  BY Zenon, <1>1, <1>2, <1>3, PartyAssumption DEF Apart, Finds

\* create_tx, join_tx.
LEMMA JoinKeeps ==
    ASSUME PartyInv, NEW s \in Slot, CommitJoin(s)
    PROVE  PartyInv' /\ ViewChangesWithRevision
<1> DEFINE t == tx[s]
           c == t.party
<1>1. /\ t \in Txn /\ Knows(t) /\ t.pc = "commit" /\ t.op \in Joining
      /\ Types /\ PartyIsWhole /\ Tables
  BY Zenon DEF PartyInv, Fits, Recalls, CommitJoin, Tables
<1>2. /\ t.me \in Player /\ c \in PartyId /\ c \in made /\ c # None /\ t.rows = {t.me}
      /\ member[t.me] = None
      /\ t.rev \in Nat /\ t.rev <= seq
      /\ t.op = "create" => leader[c] = None
      /\ t.op = "accept" => /\ inviter[c][t.me] # None
                            /\ Cardinality(Members(c)) < MaxMembers
  BY Zenon, <1>1 DEF Knows, Wrote, Finds, Partyless, Under, Done, Txn, Types, Joining
<1>3. /\ member' = [member EXCEPT ![t.me] = c]
      /\ joined' = [joined EXCEPT ![t.me] = t.rev]
      /\ ready' = [ready EXCEPT ![t.me] = FALSE]
      /\ leased' = [leased EXCEPT ![t.me] = TRUE]
      /\ leader' = [leader EXCEPT ![c] = IF t.op = "create" THEN t.me ELSE @]
      /\ rev' = [rev EXCEPT ![c] = t.rev]
      /\ inviter' = [inviter EXCEPT ![c][t.me] = None]
      /\ prev' = [prev EXCEPT ![t.me] = t.rev]
      /\ End(s) /\ UNCHANGED <<seq, made, deleted>>
  BY Zenon DEF CommitJoin
<1>4. Types'
  BY Zenon, <1>1, <1>2, <1>3 DEF Types
<1>5. /\ member'[t.me] = c /\ \A p \in Player \ {t.me} : member'[p] = member[p]
      /\ leader'[c] = (IF t.op = "create" THEN t.me ELSE leader[c])
      /\ \A d \in PartyId \ {c} : leader'[d] = leader[d] /\ rev'[d] = rev[d]
      /\ inviter'[c][t.me] = None
      /\ \A d \in PartyId, p \in Player : d # c \/ p # t.me => inviter'[d][p] = inviter[d][p]
      /\ rev'[c] = t.rev /\ prev'[t.me] = t.rev
      /\ \A p \in Player \ {t.me} : prev'[p] = prev[p]
  BY Zenon, <1>1, <1>2, <1>3 DEF Types
<1>6. leader'[c] # None
  <2>1. t.op = "accept" => leader[c] # None
    BY Zenon, <1>1, <1>2 DEF PartyIsWhole
  <2>2. t.me # None
    BY Zenon, <1>2, PartyAssumption
  <2>3. QED
    BY Zenon, <1>1, <1>5, <2>1, <2>2 DEF Joining
<1>7. ASSUME NEW d \in PartyId, leader'[d] # None
      PROVE  member'[leader'[d]] = d
  <2>1. CASE d = c /\ t.op = "create"
    BY Zenon, <1>2, <1>5, <2>1
  <2>2. CASE ~(d = c /\ t.op = "create")
    <3>1. leader'[d] = leader[d]
      BY Zenon, <1>5, <2>2
    <3>2. leader[d] \in Player /\ member[leader[d]] = d
      BY <1>1, <1>7, <3>1 DEF Types, PartyIsWhole
    <3>3. leader[d] # t.me
      BY Zenon, <1>2, <3>2, PartyAssumption
    <3>4. QED
      BY <1>5, <3>1, <3>2, <3>3
  <2>3. QED
    BY Zenon, <2>1, <2>2
<1>8. ASSUME NEW p \in Player, member'[p] # None
      PROVE  leader'[member'[p]] # None
  <2>1. CASE p = t.me
    BY Zenon, <1>5, <1>6, <2>1
  <2>2. CASE p # t.me
    <3>1. member'[p] = member[p] /\ member[p] \in PartyId /\ leader[member[p]] # None
      BY <1>1, <1>5, <1>8, <2>2 DEF PartyIsWhole, Types
    <3>2. QED
      BY <1>5, <1>6, <3>1
  <2>3. QED
    BY Zenon, <2>1, <2>2
<1>9. ASSUME NEW d \in PartyId
      PROVE  Cardinality(Members(d)') <= MaxMembers
  <2>1. CASE d # c
    <3>1. Members(d)' = Members(d)
      BY <1>2, <1>5, <2>1, PartyAssumption DEF Members
    <3>2. QED
      BY Zenon, <1>1, <3>1 DEF PartyIsWhole
  <2>2. CASE d = c
    <3>1. Members(d)' = Members(d) \union {t.me} /\ t.me \notin Members(d)
      BY <1>2, <1>5, <2>2 DEF Members
    <3>2. IsFiniteSet(Members(d))
      BY FS_Subset, PartyAssumption DEF Members
    <3>3. /\ Cardinality(Members(d)') = Cardinality(Members(d)) + 1
          /\ Cardinality(Members(d)) \in Nat
      BY <3>1, <3>2, FS_AddElement, FS_CardinalityType
    <3>4. CASE t.op = "create"
      <4>1. Members(d) = {}
        BY <1>1, <1>2, <2>2, <3>4 DEF PartyIsWhole, Members
      <4>2. Cardinality(Members(d)) = 0
        BY <4>1, FS_EmptySet
      <4>3. QED
        BY <2>2, <3>3, <4>2, PartyAssumption
    <3>5. CASE t.op = "accept"
      BY <1>2, <2>2, <3>3, <3>5, PartyAssumption
    <3>6. QED
      BY Zenon, <1>1, <3>4, <3>5 DEF Joining
  <2>3. QED
    BY Zenon, <2>1, <2>2
<1>10. ASSUME NEW d \in PartyId, NEW p \in Player, inviter'[d][p] # None
       PROVE  leader'[d] # None /\ member'[p] # d
  <2>1. inviter[d][p] # None /\ (d # c \/ p # t.me)
    BY Zenon, <1>2, <1>5, <1>10
  <2>2. leader[d] # None /\ member[p] # d
    BY Zenon, <1>1, <2>1 DEF PartyIsWhole
  <2>3. QED
    BY Zenon, <1>2, <1>5, <1>6, <2>1, <2>2
<1>11. PartyIsWhole'
  BY Zenon, <1>7, <1>8, <1>9, <1>10 DEF PartyIsWhole
<1>12. Tables'
  <2>1. (\A d \in PartyId : rev'[d] <= seq') /\ \A p \in Player : prev'[p] <= seq'
    BY <1>1, <1>2, <1>3, <1>5 DEF Tables
  <2>2. \A d \in PartyId \ made' : leader'[d] = None
    BY Zenon, <1>1, <1>2, <1>3, <1>5 DEF Tables
  <2>3. QED
    BY Zenon, <1>4, <1>11, <2>1, <2>2 DEF Tables
<1>13. Elsewhere(t)
  BY Zenon, <1>2, <1>3, <1>5 DEF Elsewhere
<1>14. \A q \in Slot \ {s} : tx[q].op = "accept" /\ tx[q].pc \in Under
                               => inviter'[tx[q].party][tx[q].me] # None
  BY <1>1, <1>5, AcceptsKeepInvites
<1>15. Fits' /\ Recalls' /\ Isolated'
  BY Zenon, <1>1, <1>3, <1>13, <1>14, OthersKnow
<1>16. ViewChangesWithRevision
  <2>1. \A p \in Player \ t.rows : joined'[p] = joined[p] /\ ready'[p] = ready[p] /\ prev'[p] = prev[p]
    BY Zenon, <1>1, <1>2, <1>3 DEF Types
  <2>2. QED
    BY Zenon, <1>1, <1>2, <1>5, <1>13, <2>1, CommitShows
<1>17. QED
  BY Zenon, <1>12, <1>15, <1>16 DEF PartyInv

\* The leave rule leaves the lead to a member that stays, if there is one.
LEMMA HeirStays ==
    ASSUME Types, NEW c, NEW gone
    PROVE  /\ Members(c) \ gone = {} => Heir(c, gone) = None
           /\ Members(c) \ gone # {} => Heir(c, gone) \in Members(c) \ gone
<1> DEFINE left == Members(c) \ gone
<1>1. CASE left = {}
  BY Zenon, <1>1 DEF Heir
<1>2. CASE left # {}
  <2>1. left \subseteq Player /\ \A p \in left : joined[p] \in Nat
    BY Zenon DEF Members, Types
  <2>2. PICK n \in {joined[p] : p \in left} :
          \A m \in {joined[p] : p \in left} : ~(<<m, n>> \in OpToRel(<, Nat))
    <3>1. {joined[p] : p \in left} \in SUBSET Nat /\ {joined[p] : p \in left} # {}
      BY Zenon, <1>2, <2>1
    <3>2. QED
      BY <3>1, WFMin, NatLessThanWellFounded
  <2>3. PICK p \in left : joined[p] = n
    BY Zenon, <2>2
  <2>4. \A q \in left : ~(joined[q] < joined[p])
    BY Zenon, <2>1, <2>2, <2>3 DEF OpToRel
  <2>5. \A q \in left : joined[p] <= joined[q]
    BY <2>1, <2>3, <2>4
  <2>6. QED
    BY Zenon, <1>2, <2>3, <2>5 DEF Heir
<1>3. QED
  BY Zenon, <1>1, <1>2

\* settle_removal_tx: the rows of t go, heir leads its party and the invites of a party
\* without one go.
Settles(t, heir) ==
    /\ member' = [p \in Player |-> IF p \in t.rows THEN None ELSE member[p]]
    /\ joined' \in [Player -> Nat]
    /\ ready' \in [Player -> BOOLEAN]
    /\ leased' \in [Player -> BOOLEAN]
    /\ leader' = [c \in PartyId |-> IF c = t.party THEN heir ELSE leader[c]]
    /\ rev' \in [PartyId -> Nat]
    /\ \A c \in PartyId : rev'[c] \in {rev[c], t.rev, 0}
    /\ inviter' \in [PartyId -> [Player -> Player \union {None}]]
    /\ \A c \in PartyId, p \in Player : inviter'[c][p] # None =>
         inviter[c][p] # None /\ ~(c = t.party /\ heir = None)
    /\ prev' \in [Player -> Nat]
    /\ \A p \in Player : prev'[p] \in {prev[p], t.rev, 0}
    /\ UNCHANGED <<seq, made>>
    /\ deleted' \subseteq Player

\* Whoever leads the party afterwards is a member of it, and a party without members is
\* gone with its invites.
LEMMA RemovalTables ==
    ASSUME PartyInv, NEW s \in Slot, tx[s].pc = "commit", tx[s].op \in Removing,
           NEW heir, heir = Heir(tx[s].party, tx[s].rows), Settles(tx[s], heir)
    PROVE  Tables'
<1> DEFINE t == tx[s]
           left == Members(t.party) \ t.rows
<1>1. /\ t \in Txn /\ Knows(t) /\ Types /\ PartyIsWhole /\ Tables
      /\ t.rows \subseteq Members(t.party) /\ t.rev \in Nat /\ t.rev <= seq
  BY Zenon DEF PartyInv, Fits, Recalls, Tables, Knows, Wrote, Done, Txn
<1>2. /\ left = {} => heir = None
      /\ left # {} => heir \in left
  BY <1>1, HeirStays
<1>3. heir \in Player \union {None} /\ (heir # None => heir \in left)
  BY Zenon, <1>2 DEF Members
<1>4. Types'
  BY Zenon, <1>1, <1>3 DEF Types, Settles
<1>5. ASSUME NEW c \in PartyId, leader'[c] # None
      PROVE  member'[leader'[c]] = c
  <2>1. CASE c = t.party
    <3>1. leader'[c] = heir /\ heir \in left
      BY Zenon, <1>3, <1>5, <2>1 DEF Settles
    <3>2. QED
      BY Zenon, <2>1, <3>1 DEF Members, Settles
  <2>2. CASE c # t.party
    <3>1. leader'[c] = leader[c] /\ leader[c] \in Player /\ member[leader[c]] = c
      BY <1>1, <1>5, <2>2 DEF PartyIsWhole, Types, Settles
    <3>2. leader[c] \notin t.rows
      BY Zenon, <1>1, <2>2, <3>1 DEF Members
    <3>3. QED
      BY Zenon, <3>1, <3>2 DEF Settles
  <2>3. QED
    BY Zenon, <2>1, <2>2
<1>6. ASSUME NEW p \in Player, member'[p] # None
      PROVE  leader'[member'[p]] # None
  <2>1. p \notin t.rows /\ member'[p] = member[p] /\ member[p] \in PartyId
    BY Zenon, <1>1, <1>6 DEF Types, Settles
  <2>2. CASE member[p] = t.party
    <3>1. p \in left
      BY Zenon, <2>1, <2>2 DEF Members
    <3>2. heir \in Player
      BY Zenon, <1>2, <3>1 DEF Members
    <3>3. QED
      BY Zenon, <2>1, <2>2, <3>2, PartyAssumption DEF Settles
  <2>3. CASE member[p] # t.party
    <3>1. leader'[member[p]] = leader[member[p]]
      BY Zenon, <2>1, <2>3 DEF Settles
    <3>2. leader[member[p]] # None
      BY Zenon, <1>1, <1>6, <2>1 DEF PartyIsWhole
    <3>3. QED
      BY Zenon, <2>1, <3>1, <3>2
  <2>4. QED
    BY Zenon, <2>2, <2>3
<1>7. ASSUME NEW c \in PartyId
      PROVE  Cardinality(Members(c)') <= MaxMembers
  <2>1. Members(c)' \subseteq Members(c)
    BY Zenon, PartyAssumption DEF Members, Settles
  <2>2. IsFiniteSet(Members(c))
    BY FS_Subset, PartyAssumption DEF Members
  <2>3. /\ Cardinality(Members(c)') <= Cardinality(Members(c))
        /\ Cardinality(Members(c)) \in Nat /\ Cardinality(Members(c)') \in Nat
    BY <2>1, <2>2, FS_Subset, FS_CardinalityType
  <2>4. Cardinality(Members(c)) <= MaxMembers
    BY Zenon, <1>1 DEF PartyIsWhole
  <2>5. QED
    BY <2>3, <2>4, PartyAssumption
<1>8. ASSUME NEW c \in PartyId, NEW p \in Player, inviter'[c][p] # None
      PROVE  leader'[c] # None /\ member'[p] # c
  <2>1. leader[c] # None /\ member[p] # c /\ ~(c = t.party /\ heir = None)
    BY Zenon, <1>1, <1>8 DEF PartyIsWhole, Settles
  <2>2. QED
    BY Zenon, <2>1, PartyAssumption DEF Settles
<1>9. PartyIsWhole'
  BY Zenon, <1>5, <1>6, <1>7, <1>8 DEF PartyIsWhole
<1>10. (\A c \in PartyId : rev'[c] <= seq') /\ \A p \in Player : prev'[p] <= seq'
  <2>1. seq' = seq /\ seq \in Nat /\ 0 <= seq
    BY <1>1 DEF Types, Settles
  <2>2. (\A c \in PartyId : rev[c] <= seq) /\ \A p \in Player : prev[p] <= seq
    BY Zenon, <1>1 DEF Tables
  <2>3. QED
    BY Zenon, <1>1, <2>1, <2>2 DEF Settles
<1>11. ASSUME NEW c \in PartyId \ made'
       PROVE  leader'[c] = None
  BY <1>1, PartyAssumption DEF Tables, Knows, Settles
<1>12. QED
  BY Zenon, <1>4, <1>9, <1>10, <1>11 DEF Tables

\* leave, kick and the lease sweep.
LEMMA RemovalKeeps ==
    ASSUME PartyInv, NEW s \in Slot, CommitRemoval(s)
    PROVE  PartyInv' /\ ViewChangesWithRevision
<1> DEFINE t == tx[s]
<1>1. PICK heir : heir = Heir(t.party, t.rows)
  BY Zenon
<1>2. /\ t \in Txn /\ Knows(t) /\ t.pc = "commit" /\ t.op \in Removing /\ Types
      /\ t.op # "purge" /\ t.party \in PartyId /\ t.rev \in Nat /\ t.rows \subseteq Player
  BY Zenon DEF PartyInv, Fits, Recalls, Tables, CommitRemoval, Knows, Under, Partyless, Txn, Removing
<1>3. /\ member' = [p \in Player |-> IF p \in t.rows THEN None ELSE member[p]]
      /\ joined' = [p \in Player |-> IF p \in t.rows THEN 0 ELSE joined[p]]
      /\ ready' = [p \in Player |-> p \notin t.rows /\ ready[p]]
      /\ leased' = [p \in Player |-> /\ p \notin t.rows
                                     /\ leased[p] \/ (t.op = "kick" /\ p = t.me)]
      /\ leader' = [leader EXCEPT ![t.party] = heir]
      /\ rev' = [rev EXCEPT ![t.party] = IF heir = None THEN 0 ELSE t.rev]
      /\ inviter' = [inviter EXCEPT ![t.party] =
                       [p \in Player |-> IF heir = None THEN None ELSE @[p]]]
      /\ prev' = [p \in Player |-> IF p \in t.rows THEN t.rev ELSE prev[p]]
      /\ End(s) /\ UNCHANGED <<seq, made, deleted>>
  BY Zenon, <1>1 DEF CommitRemoval
<1>4. /\ joined' \in [Player -> Nat] /\ prev' \in [Player -> Nat]
      /\ ready' \in [Player -> BOOLEAN] /\ leased' \in [Player -> BOOLEAN]
      /\ \A p \in Player : prev'[p] \in {prev[p], t.rev, 0}
  BY Zenon, <1>2, <1>3 DEF Types
<1>5. /\ leader' = [c \in PartyId |-> IF c = t.party THEN heir ELSE leader[c]]
      /\ rev' \in [PartyId -> Nat]
      /\ rev'[t.party] = (IF heir = None THEN 0 ELSE t.rev)
      /\ \A c \in PartyId \ {t.party} : rev'[c] = rev[c]
  BY Zenon, <1>2, <1>3 DEF Types
<1>6. /\ inviter' \in [PartyId -> [Player -> Player \union {None}]]
      /\ \A c \in PartyId \ {t.party} : inviter'[c] = inviter[c]
      /\ \A p \in Player : inviter'[t.party][p] = IF heir = None THEN None ELSE inviter[t.party][p]
  BY <1>2, <1>3 DEF Types
<1>7. deleted' \subseteq Player
  BY Zenon, <1>2, <1>3 DEF Types
<1>8. Tables'
  <2>1. \A c \in PartyId : rev'[c] \in {rev[c], t.rev, 0}
    BY Zenon, <1>5
  <2>2. \A c \in PartyId, p \in Player : inviter'[c][p] # None =>
          inviter[c][p] # None /\ ~(c = t.party /\ heir = None)
    BY Zenon, <1>6
  <2>3. /\ member' = [p \in Player |-> IF p \in t.rows THEN None ELSE member[p]]
        /\ UNCHANGED <<seq, made>>
    BY Zenon, <1>3
  <2>4. Settles(t, heir)
    BY Zenon, <1>4, <1>5, <1>6, <1>7, <2>1, <2>2, <2>3 DEF Settles
  <2>5. QED
    BY Zenon, <1>1, <1>2, <2>4, RemovalTables
<1>9. Elsewhere(t)
  BY Zenon, <1>3, <1>5 DEF Elsewhere
<1>10. \A q \in Slot \ {s} : tx[q].op = "accept" /\ tx[q].pc \in Under
                               => inviter'[tx[q].party][tx[q].me] # None
  BY Zenon, <1>2, <1>6, AcceptsKeepInvites
<1>11. Fits' /\ Recalls' /\ Isolated'
  BY Zenon, <1>2, <1>3, <1>9, <1>10, OthersKnow
<1>12. ViewChangesWithRevision
  <2>1. /\ \A p \in Player \ t.rows : joined'[p] = joined[p] /\ ready'[p] = ready[p] /\ prev'[p] = prev[p]
        /\ \A p \in t.rows : prev'[p] = t.rev
    BY Zenon, <1>2, <1>3 DEF Types
  <2>2. ASSUME NEW p \in Player, member'[p] = t.party
        PROVE  rev'[t.party] = t.rev
    <3>1. p \in Members(t.party) \ t.rows
      BY Zenon, <1>2, <1>3, <2>2, PartyAssumption DEF Members
    <3>2. heir # None
      BY <1>1, <1>2, <3>1, HeirStays, PartyAssumption DEF Members
    <3>3. QED
      BY Zenon, <1>5, <3>2
  <2>3. QED
    BY Zenon, <1>2, <1>9, <2>1, <2>2, CommitShows
<1>13. QED
  BY Zenon, <1>8, <1>11, <1>12 DEF PartyInv

\* purge_player_tx waits for the accepts whose invite it would delete.
LEMMA PurgeKeeps ==
    ASSUME PartyInv, NEW s \in Slot, CommitPurge(s)
    PROVE  PartyInv' /\ ViewChangesWithRevision
<1> DEFINE t == tx[s]
<1>1. PICK heir : heir = Heir(t.party, t.rows)
  BY Zenon
<1>2. /\ t \in Txn /\ Knows(t) /\ t.pc = "commit" /\ t.op \in Removing /\ Types
      /\ t.op = "purge" /\ t.me \in Player /\ t.rev \in Nat /\ t.rows \subseteq Player
  BY Zenon DEF PartyInv, Fits, Recalls, Tables, CommitPurge, Knows, Txn, Removing
<1>3. /\ member' = [p \in Player |-> IF p \in t.rows THEN None ELSE member[p]]
      /\ joined' = [p \in Player |-> IF p \in t.rows THEN 0 ELSE joined[p]]
      /\ ready' = [p \in Player |-> p \notin t.rows /\ ready[p]]
      /\ leased' = [p \in Player |-> p \notin t.rows /\ leased[p]]
      /\ leader' = [c \in PartyId |-> IF c = t.party THEN heir ELSE leader[c]]
      /\ rev' = [c \in PartyId |-> IF c = t.party /\ heir = None THEN 0
                                   ELSE IF c = t.party THEN t.rev ELSE rev[c]]
      /\ inviter' = [c \in PartyId |-> [p \in Player |->
                       IF (c = t.party /\ heir = None) \/ t.me \in {p, inviter[c][p]}
                         THEN None ELSE inviter[c][p]]]
      /\ prev' = [prev EXCEPT ![t.me] = 0]
      /\ deleted' = deleted \union {t.me}
      /\ End(s) /\ UNCHANGED <<seq, made>>
  BY Zenon, <1>1 DEF CommitPurge
<1>4. /\ joined' \in [Player -> Nat] /\ prev' \in [Player -> Nat]
      /\ ready' \in [Player -> BOOLEAN] /\ leased' \in [Player -> BOOLEAN]
      /\ \A p \in Player : prev'[p] = prev[p] \/ prev'[p] = 0
  BY Zenon, <1>2, <1>3 DEF Types
<1>5. /\ rev' \in [PartyId -> Nat] /\ \A c \in PartyId : rev'[c] \in {rev[c], t.rev, 0}
      /\ \A c \in PartyId \ {t.party} : leader'[c] = leader[c] /\ rev'[c] = rev[c]
  BY Zenon, <1>2, <1>3 DEF Types
<1>6. /\ inviter' \in [PartyId -> [Player -> Player \union {None}]]
      /\ \A c \in PartyId, p \in Player :
           inviter'[c][p] = IF (c = t.party /\ heir = None) \/ t.me \in {p, inviter[c][p]}
                              THEN None ELSE inviter[c][p]
  BY <1>2, <1>3 DEF Types
<1>7. deleted' \subseteq Player
  BY Zenon, <1>2, <1>3 DEF Types
<1>8. Tables'
  <2>1. /\ member' = [p \in Player |-> IF p \in t.rows THEN None ELSE member[p]]
        /\ leader' = [c \in PartyId |-> IF c = t.party THEN heir ELSE leader[c]]
        /\ UNCHANGED <<seq, made>>
    BY Zenon, <1>3
  <2>2. \A p \in Player : prev'[p] \in {prev[p], t.rev, 0}
    BY Zenon, <1>4
  <2>3. \A c \in PartyId, p \in Player : inviter'[c][p] # None =>
          inviter[c][p] # None /\ ~(c = t.party /\ heir = None)
    BY Zenon, <1>6
  <2>4. Settles(t, heir)
    BY Zenon, <1>4, <1>5, <1>6, <1>7, <2>1, <2>2, <2>3 DEF Settles
  <2>5. QED
    BY Zenon, <1>1, <1>2, <2>4, RemovalTables
<1>9. Elsewhere(t)
  BY Zenon, <1>2, <1>3, <1>4, <1>5 DEF Elsewhere
<1>10. ASSUME NEW q \in Slot \ {s}, tx[q].op = "accept", tx[q].pc \in Under
       PROVE  inviter'[tx[q].party][tx[q].me] # None
  <2>1. /\ tx[q].party \in PartyId \ {t.party} /\ tx[q].me \in Player
        /\ inviter[tx[q].party][tx[q].me] # None
    BY Zenon, <1>2, <1>10, AcceptsKeepInvites
  <2>2. t.me \notin {tx[q].me, inviter[tx[q].party][tx[q].me]}
    BY Zenon, <1>10 DEF CommitPurge, HoldsInvite, Under
  <2>3. QED
    BY <1>6, <2>1, <2>2
<1>11. Fits' /\ Recalls' /\ Isolated'
  BY Zenon, <1>2, <1>3, <1>9, <1>10, OthersKnow
<1>12. ViewChangesWithRevision
  <2>1. /\ \A p \in Player \ t.rows : joined'[p] = joined[p] /\ ready'[p] = ready[p]
        /\ \A p \in Player \ {t.me} : prev'[p] = prev[p]
    BY Zenon, <1>2, <1>3 DEF Types
  <2>2. t.me \in deleted' \ deleted /\ t.rows \subseteq {t.me}
    BY Zenon, <1>2, <1>3 DEF Knows, Wrote, Done
  <2>3. ASSUME NEW p \in Player, member'[p] = t.party, t.party # None
        PROVE  rev'[t.party] = t.rev
    <3>1. p \in Members(t.party) \ t.rows /\ t.party \in PartyId
      BY Zenon, <1>2, <1>3, <2>3, PartyAssumption DEF Members, Types
    <3>2. heir # None
      BY <1>1, <1>2, <3>1, HeirStays, PartyAssumption DEF Members
    <3>3. QED
      BY Zenon, <1>3, <3>1, <3>2
  <2>4. QED
    BY Zenon, <1>2, <1>9, <2>1, <2>2, <2>3, CommitShows
<1>13. QED
  BY Zenon, <1>8, <1>11, <1>12 DEF PartyInv

\* stamp_tx after promote or set_ready.
LEMMA CommitStampKeeps ==
    ASSUME PartyInv, NEW s \in Slot, CommitStamp(s)
    PROVE  PartyInv' /\ ViewChangesWithRevision
<1> DEFINE t == tx[s]
           c == t.party
<1>1. /\ t \in Txn /\ Knows(t) /\ t.pc = "commit" /\ t.op \in Readying \union {"promote"}
      /\ Types /\ PartyIsWhole /\ Tables
  BY Zenon DEF PartyInv, Fits, Recalls, CommitStamp, Tables
<1>2. /\ t.me \in Player /\ c \in PartyId /\ c \in made /\ t.rev \in Nat /\ t.rev <= seq
      /\ member[t.me] = c
      /\ t.op = "promote" => t.target \in Player /\ member[t.target] = c
  BY Zenon, <1>1 DEF Knows, Wrote, Finds, Partyless, Under, Done, Txn, Types, Readying, OfMember,
              Leading
<1>3. /\ leader' = [leader EXCEPT ![c] = IF t.op = "promote" THEN t.target ELSE @]
      /\ ready' = [ready EXCEPT ![t.me] = IF t.op = "promote" THEN @ ELSE t.op = "ready"]
      /\ leased' = [leased EXCEPT ![t.me] = TRUE]
      /\ rev' = [rev EXCEPT ![c] = t.rev]
      /\ End(s) /\ UNCHANGED <<member, joined, inviter, prev, seq, made, deleted>>
  BY Zenon DEF CommitStamp
<1>4. Types'
  BY Zenon, <1>1, <1>2, <1>3 DEF Types
<1>5. /\ leader'[c] = (IF t.op = "promote" THEN t.target ELSE leader[c])
      /\ rev'[c] = t.rev
      /\ \A d \in PartyId \ {c} : leader'[d] = leader[d] /\ rev'[d] = rev[d]
  BY Zenon, <1>1, <1>2, <1>3 DEF Types
<1>6. leader[c] # None /\ leader'[c] # None
  BY <1>1, <1>2, <1>5, PartyAssumption DEF PartyIsWhole
<1>7. \A d \in PartyId : leader'[d] # None <=> leader[d] # None
  BY Zenon, <1>5, <1>6
<1>8. ASSUME NEW d \in PartyId, leader'[d] # None
      PROVE  member'[leader'[d]] = d
  <2>1. CASE d = c /\ t.op = "promote"
    BY Zenon, <1>2, <1>3, <1>5, <2>1
  <2>2. CASE ~(d = c /\ t.op = "promote")
    <3>1. leader'[d] = leader[d]
      BY Zenon, <1>5, <2>2
    <3>2. QED
      BY Zenon, <1>1, <1>3, <1>8, <3>1 DEF PartyIsWhole
  <2>3. QED
    BY Zenon, <2>1, <2>2
<1>9. PartyIsWhole'
  BY <1>1, <1>3, <1>7, <1>8 DEF PartyIsWhole, Types, Members
<1>10. Tables'
  <2>1. (\A d \in PartyId : rev'[d] <= seq') /\ \A p \in Player : prev'[p] <= seq'
    BY Zenon, <1>1, <1>2, <1>3, <1>5 DEF Tables
  <2>2. \A d \in PartyId \ made' : leader'[d] = None
    BY Zenon, <1>1, <1>2, <1>3, <1>5 DEF Tables
  <2>3. QED
    BY Zenon, <1>4, <1>9, <2>1, <2>2 DEF Tables
<1>11. Elsewhere(t)
  BY Zenon, <1>3, <1>5 DEF Elsewhere
<1>12. \A q \in Slot \ {s} : tx[q].op = "accept" /\ tx[q].pc \in Under
                               => inviter'[tx[q].party][tx[q].me] # None
  BY Zenon, <1>1, <1>3, AcceptsKeepInvites
<1>13. Fits' /\ Recalls' /\ Isolated'
  BY Zenon, <1>1, <1>3, <1>11, <1>12, OthersKnow
<1>14. ViewChangesWithRevision
  <2>1. \A p \in Player \ {t.me} : ready'[p] = ready[p]
    BY Zenon, <1>1, <1>3 DEF Types
  <2>2. t.rows = {}
    BY Zenon, <1>1 DEF Knows, Wrote, Done, Joining, Removing, Readying
  <2>3. QED
    BY Zenon, <1>1, <1>2, <1>3, <1>5, <1>11, <2>1, <2>2, CommitShows
<1>15. QED
  BY Zenon, <1>10, <1>13, <1>14 DEF PartyInv

\* upsert_invite_tx: the leader, still under the lock, invites a player outside.
LEMMA InviteKeeps ==
    ASSUME PartyInv, NEW s \in Slot, Invite(s)
    PROVE  PartyInv'
<1> DEFINE t == tx[s]
           c == t.party
<1>1. /\ t \in Txn /\ Knows(t) /\ t.pc = "write" /\ t.op = "invite"
      /\ Types /\ PartyIsWhole /\ Tables
  BY Zenon DEF PartyInv, Fits, Recalls, Invite, Tables
<1>2. /\ t.me \in Player /\ t.target \in Player /\ c \in PartyId /\ c # None
      /\ leader[c] = t.me /\ Owns(t)
  BY Zenon, <1>1 DEF Knows, Finds, Partyless, Under, Types, Owns
<1>3. CASE member[t.target] = c
  BY Zenon, <1>3, EndKeeps DEF Invite, roster
<1>4. CASE member[t.target] # c
  <2>1. /\ inviter' = [inviter EXCEPT ![c][t.target] = t.me]
        /\ leased' = [leased EXCEPT ![t.me] = TRUE]
        /\ End(s)
        /\ UNCHANGED <<member, joined, ready, leader, rev, prev, seq, made, deleted>>
    BY Zenon, <1>4 DEF Invite
  <2>2. Types'
    BY Zenon, <1>1, <1>2, <2>1 DEF Types
  <2>3. /\ \A d \in PartyId, p \in Player :
             d # c \/ p # t.target => inviter'[d][p] = inviter[d][p]
        /\ inviter'[c][t.target] = t.me
    BY Zenon, <1>1, <1>2, <2>1 DEF Types
  <2>4. \A d \in PartyId, p \in Player :
          inviter'[d][p] # None => leader[d] # None /\ member[p] # d
    BY <1>1, <1>2, <1>4, <2>3, PartyAssumption DEF PartyIsWhole
  <2>5. PartyIsWhole'
    BY Zenon, <1>1, <2>1, <2>4 DEF PartyIsWhole, Members
  <2>6. Tables'
    BY Zenon, <1>1, <2>1, <2>2, <2>5 DEF Tables
  <2>7. Elsewhere(t)
    BY Zenon, <2>1 DEF Elsewhere
  <2>8. \A q \in Slot \ {s} : tx[q].op = "accept" /\ tx[q].pc \in Under
                                => inviter'[tx[q].party][tx[q].me] # None
    BY <1>2, <2>3, AcceptsKeepInvites
  <2>9. Fits' /\ Recalls' /\ Isolated'
    BY Zenon, <1>2, <2>1, <2>7, <2>8, OthersKnow
  <2>10. QED
    BY Zenon, <2>6, <2>9 DEF PartyInv
<1>5. QED
  BY Zenon, <1>3, <1>4

\* A lease that is renewed or runs out, and an invite that goes away.
LEMMA MinorKeeps ==
    ASSUME PartyInv,
           UNCHANGED <<member, joined, ready, leader, rev, prev, seq, made, deleted, tx>>,
           leased' \in [Player -> BOOLEAN],
           inviter' \in [PartyId -> [Player -> Player \union {None}]],
           \A c \in PartyId, p \in Player : inviter'[c][p] # None => inviter[c][p] # None,
           \A q \in Slot : tx[q].op = "accept" /\ tx[q].pc \in Under
                             => inviter'[tx[q].party][tx[q].me] # None
    PROVE  PartyInv'
<1>1. Types'
  BY Zenon DEF PartyInv, Tables, Types
<1>2. PartyIsWhole'
  BY DEF PartyInv, Tables, PartyIsWhole, Members
<1>3. Tables'
  BY Zenon, <1>1, <1>2 DEF PartyInv, Tables
<1>4. Fits' /\ Isolated'
  BY Zenon DEF PartyInv, Fits, Isolated
<1>5. ASSUME NEW q \in Slot
      PROVE  Knows(tx[q])'
  <2>1. PICK x : x = tx[q]
    BY Zenon
  <2>2. Knows(x) /\ (x.op = "accept" /\ x.pc \in Under => inviter'[x.party][x.me] # None)
    BY Zenon, <2>1 DEF PartyInv, Recalls
  <2>3. x.pc \in Under => Finds(x)'
    BY Zenon, <2>2 DEF Knows, Finds, Members
  <2>4. x.pc \in Done => Wrote(x)'
    BY Zenon, <2>2 DEF Knows, Wrote, Members
  <2>5. Knows(x)'
    BY Zenon, <2>2, <2>3, <2>4 DEF Knows, Drew, Partyless
  <2>6. QED
    BY Zenon, <2>1, <2>5
<1>6. QED
  BY Zenon, <1>3, <1>4, <1>5 DEF PartyInv, Recalls

\* Heartbeats, and the time between them.
LEMMA LeaseKeeps ==
    ASSUME PartyInv, NEW p \in Player, Renew(p) \/ Lapse(p)
    PROVE  PartyInv'
<1>1. /\ leased' \in [Player -> BOOLEAN]
      /\ UNCHANGED <<member, joined, ready, leader, rev, inviter, prev, seq, made, deleted, tx>>
  BY Zenon DEF PartyInv, Tables, Types, Renew, Lapse
<1>2. inviter' \in [PartyId -> [Player -> Player \union {None}]]
  BY Zenon, <1>1 DEF PartyInv, Tables, Types
<1>3. \A q \in Slot : tx[q].op = "accept" /\ tx[q].pc \in Under
                        => inviter'[tx[q].party][tx[q].me] # None
  BY Zenon, <1>1 DEF PartyInv, Recalls, Knows, Finds
<1>4. QED
  BY Zenon, <1>1, <1>2, <1>3, MinorKeeps

\* decline, and the sweep of expired invites, wait for an accept that has consumed one.
LEMMA DropKeeps ==
    ASSUME PartyInv, NEW c \in PartyId, NEW p \in Player, DropInvite(c, p)
    PROVE  PartyInv'
<1>1. /\ inviter' = [inviter EXCEPT ![c][p] = None] /\ Types
      /\ UNCHANGED <<member, joined, ready, leased, leader, rev, prev, seq, made, deleted, tx>>
  BY Zenon DEF PartyInv, Tables, DropInvite, roster
<1>2. /\ inviter' \in [PartyId -> [Player -> Player \union {None}]]
      /\ leased' \in [Player -> BOOLEAN]
      /\ inviter'[c][p] = None
      /\ \A d \in PartyId, q \in Player : d # c \/ q # p => inviter'[d][q] = inviter[d][q]
  BY Zenon, <1>1 DEF Types
<1>3. ASSUME NEW q \in Slot, tx[q].op = "accept", tx[q].pc \in Under
      PROVE  inviter'[tx[q].party][tx[q].me] # None
  <2>1. Knows(tx[q]) /\ made \subseteq PartyId
    BY Zenon DEF PartyInv, Recalls, Tables, Types
  <2>2. /\ tx[q].party \in PartyId /\ tx[q].me \in Player
        /\ inviter[tx[q].party][tx[q].me] # None
    BY Zenon, <1>3, <2>1, PartyAssumption DEF Knows, Finds, Partyless, Under
  <2>3. tx[q].party # c \/ tx[q].me # p
    BY Zenon, <1>3 DEF DropInvite, HoldsInvite, Under
  <2>4. QED
    BY Zenon, <1>2, <2>2, <2>3
<1>4. QED
  BY Zenon, <1>1, <1>2, <1>3, MinorKeeps

-----------------------------------------------------------------------------
(* The invariant *)

\* Nobody is in a party and no request is under way.
LEMMA PartyInitially == Init => PartyInv
<1> SUFFICES ASSUME Init PROVE PartyInv
  BY Zenon
<1>1. Types
  BY Zenon DEF Init, Types
<1>2. \A c \in PartyId : Members(c) = {}
  BY Zenon, PartyAssumption DEF Init, Members
<1>3. \A c \in PartyId : Cardinality(Members(c)) = 0
  BY <1>2, FS_EmptySet
<1>4. PartyIsWhole
  BY <1>3, PartyAssumption DEF Init, PartyIsWhole
<1>5. Tables
  BY <1>1, <1>4 DEF Init, Tables
<1>6. \A s \in Slot : tx[s] = Idle
  BY Zenon DEF Init
<1>7. Fits
  BY Zenon, IdleIsApart DEF Init, Fits
<1>8. Knows(Idle)
  <2>1. Idle.rev <= seq
    BY IdleIsApart DEF Init
  <2>2. QED
    BY Zenon, <2>1, IdleIsApart DEF Knows, Under, Done, Leading
<1>9. Recalls /\ Isolated
  BY Zenon, <1>6, <1>8, IdleIsApart DEF Recalls, Isolated
<1>10. QED
  BY Zenon, <1>5, <1>7, <1>9 DEF PartyInv

\* Every step keeps the tables whole and the transactions apart.
LEMMA PartyStep == PartyInv /\ [Next]_vars => PartyInv'
<1> SUFFICES ASSUME PartyInv, [Next]_vars PROVE PartyInv'
  BY Zenon
<1>1. ASSUME NEW s \in Request, Begin(s)
      PROVE  PartyInv'
  BY Zenon, <1>1, BeginKeeps DEF Slot
<1>2. CASE BeginSweep
  BY Zenon, <1>2, BeginSweepKeeps
<1>3. ASSUME NEW s \in Slot, Lock(s) \/ Abort(s)
      PROVE  PartyInv'
  BY Zenon, <1>3, LockKeeps, EndKeeps DEF Abort
<1>4. ASSUME NEW s \in Slot, Reread(s) \/ Insert(s) \/ Delete(s) \/ Stamp(s)
      PROVE  PartyInv'
  BY Zenon, <1>4, RereadKeeps, InsertKeeps, DeleteKeeps, StampKeeps
<1>5. ASSUME NEW s \in Slot, Invite(s) \/ Draw(s) \/ Commit(s)
      PROVE  PartyInv'
  BY Zenon, <1>5, InviteKeeps, DrawKeeps, JoinKeeps, RemovalKeeps, PurgeKeeps, CommitStampKeeps
     DEF Commit
<1>6. ASSUME NEW p \in Player, Renew(p) \/ Lapse(p)
      PROVE  PartyInv'
  BY Zenon, <1>6, LeaseKeeps
<1>7. ASSUME NEW c \in PartyId, NEW p \in Player, DropInvite(c, p)
      PROVE  PartyInv'
  BY Zenon, <1>7, DropKeeps
<1>8. CASE UNCHANGED vars
  <2>1. \A q \in Slot : tx[q].op = "accept" /\ tx[q].pc \in Under
                          => inviter'[tx[q].party][tx[q].me] # None
    BY Zenon, <1>8 DEF vars, PartyInv, Recalls, Knows, Finds
  <2>2. QED
    BY Zenon, <1>8, <2>1, MinorKeeps DEF vars, PartyInv, Tables, Types
<1>9. QED
  BY Zenon, <1>1, <1>2, <1>3, <1>4, <1>5, <1>6, <1>7, <1>8 DEF Next, Advance

\* Committed rows and the transactions under way fit together, for every number of
\* players, parties and requests.
THEOREM PartyInvariant == Spec => []PartyInv
<1>1. QED
  BY PartyInitially, PartyStep, PTL DEF Spec

\* A party's leader is a member, a member's party exists, invites are to existing parties
\* and to outsiders, and no party outgrows MAX_MEMBERS, whatever joins, leaves, kicks,
\* sweeps and purges race (modules/party).
THEOREM PartyStaysWhole == Spec => []PartyIsWhole
<1>1. PartyInv => PartyIsWhole
  BY Zenon DEF PartyInv, Tables
<1>2. QED
  BY <1>1, PartyInvariant, PTL

-----------------------------------------------------------------------------
(* Revisions *)

\* What a player is shown comes from these rows.
LEMMA SameView ==
    ASSUME UNCHANGED <<member, joined, ready, leader, rev, prev>>
    PROVE  ViewChangesWithRevision
  BY Zenon DEF ViewChangesWithRevision, View, Members

\* Only a commit changes what players are shown.
LEMMA StepShows == PartyInv /\ [Next]_vars => [ViewChangesWithRevision]_vars
<1> SUFFICES ASSUME PartyInv, Next PROVE ViewChangesWithRevision
  BY Zenon
<1>1. ASSUME NEW s \in Slot, Commit(s)
      PROVE  ViewChangesWithRevision
  BY Zenon, <1>1, JoinKeeps, RemovalKeeps, PurgeKeeps, CommitStampKeeps DEF Commit
<1>2. CASE (\E s \in Request : Begin(s)) \/ BeginSweep
  BY Zenon, <1>2, SameView DEF Begin, BeginSweep, roster
<1>3. ASSUME NEW s \in Slot, Lock(s) \/ Abort(s) \/ Reread(s) \/ Delete(s) \/ Stamp(s)
      PROVE  ViewChangesWithRevision
  <2>1. UNCHANGED <<roster, leader, rev, prev>>
    BY Zenon, <1>3 DEF Lock, Abort, Reread, Delete, Stamp
  <2>2. QED
    BY Zenon, <2>1, SameView DEF roster
<1>4. ASSUME NEW s \in Slot, Insert(s) \/ Draw(s) \/ Invite(s)
      PROVE  ViewChangesWithRevision
  BY Zenon, <1>4, SameView DEF Insert, Draw, Invite, roster
<1>5. CASE \E p \in Player : Renew(p) \/ Lapse(p)
  BY Zenon, <1>5, SameView DEF Renew, Lapse
<1>6. CASE \E c \in PartyId, p \in Player : DropInvite(c, p)
  BY Zenon, <1>6, SameView DEF DropInvite, roster
<1>7. QED
  BY Zenon, <1>1, <1>2, <1>3, <1>4, <1>5, <1>6 DEF Next, Advance

\* What a player is shown never changes without its revision growing, from one party to
\* none and to the next, until a purge forgets the player (PLAYER_VIEW_SQL, no_party).
THEOREM RevisionsOrderViews == Spec => RevisionOrdersViews
<1>1. QED
  BY PartyInvariant, StepShows, PTL DEF Spec, RevisionOrdersViews
=============================================================================
