---------------------------- MODULE DomainProofs ----------------------------
(***************************************************************************)
(* Wallet and Friends for every set of players, currencies and movements   *)
(* and every number of concurrent transactions.  The two share nothing but *)
(* the players.                                                            *)
(***************************************************************************)
EXTENDS Domains, Sequences, TLAPS, NaturalsInduction, WellFoundedInduction

LedgerRow ==
  [seq: Nat, key: {m.key : m \in Movement}, player: Holder \cup {W!Sentinel},
   currency: Currency, delta: Int, reason: {m.reason : m \in Movement}, after: Nat]

Calls ==
  {W!NoCall} \cup [pc: {"checked", "claimed"}, m: Movement]
             \cup [pc: {"moved"}, m: Movement, after: Nat, seq: Nat]

Types ==
  /\ balance \in [Holder \X Currency -> Int]
  /\ ledger \subseteq LedgerRow
  /\ purged \in [Holder -> {"none", "planted", "swept"}]
  /\ call \in [Call -> Calls]
  /\ sweep \in [pc: {"idle", "delete", "reown"}, p: Holder \cup {W!Sentinel},
                done: SUBSET Holder, gone: SUBSET (Holder \X Currency),
                owned: SUBSET LedgerRow]
  /\ answers \in [Movement -> SUBSET Int]

\* A transaction that has inserted its ledger row.
Claiming(y) == y.pc \in {"claimed", "moved"}

\* The numbers drawn so far are bounded, and no two rows have the same one, nor do
\* two rows, committed or not, have the same key.
Numbered ==
  \E n \in Nat : /\ \A r \in ledger : r.seq <= n
                 /\ \A c \in Call : call[c].pc = "moved" => call[c].seq <= n

Unique ==
  /\ \A r, q \in ledger : r.key = q.key \/ r.seq = q.seq => r = q
  /\ \A c \in Call : Claiming(call[c]) => \A r \in ledger : r.key # call[c].m.key
  /\ \A c \in Call : call[c].pc = "moved" => \A r \in ledger : r.seq # call[c].seq
  /\ \A c, d \in Call : c # d /\ Claiming(call[c]) /\ Claiming(call[d])
                          => call[c].m.key # call[d].m.key
  /\ \A c, d \in Call : c # d /\ call[c].pc = "moved" /\ call[d].pc = "moved"
                          => call[c].seq # call[d].seq

\* What a transaction y wrote under the lock of its balance row is the next entry.
Extends(y) ==
  purged[y.m.player] # "swept" =>
    /\ y.after = W!RunsTo(W!Rows(W!Pair(y.m))) + y.m.delta
    /\ \A r \in W!Rows(W!Pair(y.m)) : r.seq < y.seq

Moves ==
  /\ \A c \in Call : call[c].pc = "moved" => Extends(call[c])
  /\ \A c, d \in Call : c # d /\ call[c].pc = "moved" /\ call[d].pc = "moved"
                          /\ purged[call[c].m.player] # "swept"
                          => W!Pair(call[c].m) # W!Pair(call[d].m)

History ==
  \A x \in Holder \X Currency : purged[x[1]] # "swept" =>
    /\ \A r \in W!Rows(x) : r.after = W!RunsTo({q \in W!Rows(x) : q.seq < r.seq}) + r.delta
    /\ W!Rows(x) = {} <=> balance[x] = W!Absent
    /\ W!Rows(x) # {} => balance[x] = W!RunsTo(W!Rows(x))

\* The sweep works on players with a tombstone.
Sweeps ==
  /\ \A p \in sweep.done : purged[p] = "planted"
  /\ sweep.pc # "idle" => sweep.p \in Holder /\ purged[sweep.p] = "planted"
  /\ \A x \in sweep.gone : x[1] \in sweep.done \/ (sweep.pc = "reown" /\ x[1] = sweep.p)
  /\ sweep.owned \subseteq ledger
  /\ \A r \in sweep.owned : r.player \in sweep.done

\* An answer is what the row with the movement's key says.
Answered(m) == \A a \in answers[m] : \E r \in ledger : r.key = m.key /\ a = W!Replayed(r, m)

Answers == \A m \in Movement : purged[m.player] = "none" => Answered(m)

WalletInv == Types /\ Numbered /\ Unique /\ Moves /\ History /\ Sweeps /\ Answers

-----------------------------------------------------------------------------
(* Numbers and records *)

\* A bounded set of numbers has a largest one.
LEMMA BoundedMax ==
  ASSUME NEW S \in SUBSET Nat, S # {}, NEW n \in Nat, \A s \in S : s <= n
  PROVE  W!Max(S) \in S /\ \A s \in S : W!Max(S) >= s
<1> DEFINE U == {u \in Nat : \A s \in S : s <= u}
<1>1. U \subseteq Nat /\ U # {}
  BY Zenon
<1>2. PICK u \in U : \A v \in U : ~(<<v, u>> \in OpToRel(<, Nat))
  BY <1>1, WFMin, NatLessThanWellFounded
<1>3. u \in Nat /\ \A s \in S : s <= u
  BY Zenon, <1>2
<1>4. u \in S
  <2> SUFFICES ASSUME u \notin S PROVE FALSE
    BY Zenon
  <2>1. \A s \in S : s \in Nat /\ s < u
    BY <1>3
  <2>2. PICK s \in S : TRUE
    BY Zenon
  <2>3. u - 1 \in Nat /\ u - 1 < u /\ \A z \in S : z <= u - 1
    BY <1>3, <2>1, <2>2
  <2>4. u - 1 \in U
    BY Zenon, <2>3
  <2>5. <<u - 1, u>> \in OpToRel(<, Nat)
    BY Zenon, <1>3, <2>3 DEF OpToRel
  <2>6. QED
    BY Zenon, <1>2, <2>4, <2>5
<1>5. \A s \in S : u >= s
  BY Zenon, <1>3
<1>6. QED
  BY Zenon, <1>4, <1>5 DEF W!Max

\* nextval: past every number drawn before.
LEMMA DrawIsNew ==
  ASSUME Types, Numbered
  PROVE  /\ W!Draw \in Nat
         /\ \A r \in ledger : r.seq < W!Draw
         /\ \A c \in Call : call[c].pc = "moved" => call[c].seq < W!Draw
<1> DEFINE S == {0} \cup {r.seq : r \in ledger}
                    \cup {call[d].seq : d \in {e \in Call : call[e].pc = "moved"}}
<1>1. (\A r \in ledger : r.seq \in Nat) /\ \A c \in Call : call[c].pc = "moved" => call[c].seq \in Nat
  BY DEF Types, LedgerRow, Calls, W!NoCall
<1>2. S \in SUBSET Nat /\ S # {}
  BY <1>1
<1>3. PICK n \in Nat : /\ \A r \in ledger : r.seq <= n
                       /\ \A c \in Call : call[c].pc = "moved" => call[c].seq <= n
  BY Zenon DEF Numbered
<1>4. \A s \in S : s <= n
  BY <1>3
<1>5. W!Max(S) \in S /\ \A s \in S : W!Max(S) >= s
  BY Zenon, <1>2, <1>3, <1>4, BoundedMax
<1>6. PICK k : k = W!Max(S)
  BY Zenon
<1>7. k \in Nat /\ W!Draw = 1 + k /\ \A s \in S : k >= s
  BY Zenon, <1>2, <1>5, <1>6 DEF W!Draw
<1>8. /\ \A r \in ledger : r.seq \in S
      /\ \A c \in Call : call[c].pc = "moved" => call[c].seq \in S
  BY Zenon
<1> HIDE DEF S
<1>9. \A s \in S : s \in Nat /\ s < 1 + k
  BY <1>2, <1>7
<1>10. W!Draw \in Nat
  BY <1>7
<1>11. QED
  BY Zenon, <1>7, <1>8, <1>9, <1>10

\* The fields of a transaction.
LEMMA CallFields ==
  /\ W!NoCall \in Calls /\ W!NoCall.pc = "idle"
  /\ \A y \in Calls : /\ y.pc \in {"idle", "checked", "claimed", "moved"}
                      /\ y.pc # "idle" => y.m \in Movement
                      /\ y.pc = "moved" => y.after \in Nat /\ y.seq \in Nat
  BY DEF Calls, W!NoCall

\* A row that comes after the others is the one they run to.
LEMMA LastRuns ==
  ASSUME NEW rows, NEW r, r.seq \in Nat, \A q \in rows : q.seq \in Nat /\ q.seq < r.seq
  PROVE  W!RunsTo(rows \cup {r}) = r.after
<1>1. r \in rows \cup {r} /\ \A q \in rows \cup {r} : q.seq <= r.seq
  OBVIOUS
<1>2. ASSUME NEW z \in rows \cup {r}, \A q \in rows \cup {r} : q.seq <= z.seq
      PROVE  z = r
  BY <1>1, <1>2
<1>3. (CHOOSE z \in rows \cup {r} : \A q \in rows \cup {r} : q.seq <= z.seq) = r
  BY Zenon, <1>1, <1>2
<1>4. QED
  BY Zenon, <1>3 DEF W!RunsTo

-----------------------------------------------------------------------------
(* Transactions before their commit *)

\* Steps that leave the ledger and the tombstones alone leave what hangs on them.
LEMMA SameRows ==
  ASSUME UNCHANGED <<ledger, purged>>
  PROVE  /\ \A x : W!Rows(x)' = W!Rows(x)
         /\ \A y : Extends(y)' <=> Extends(y)
<1>1. \A x : W!Rows(x)' = W!Rows(x)
  BY Zenon DEF W!Rows
<1>2. QED
  BY Zenon, <1>1 DEF Extends

\* One transaction moves, or ends.
LEMMA CallMoves ==
  ASSUME WalletInv, NEW c \in Call, NEW y \in Calls, call' = [call EXCEPT ![c] = y],
         UNCHANGED <<balance, ledger, purged, sweep>>,
         answers' \in [Movement -> SUBSET Int], Answers',
         Claiming(y) =>
           /\ \A r \in ledger : r.key # y.m.key
           /\ \A d \in Call \ {c} : Claiming(call[d]) => call[d].m.key # y.m.key,
         y.pc = "moved" =>
           /\ \A r \in ledger : r.seq < y.seq
           /\ \A d \in Call \ {c} : call[d].pc = "moved" =>
                call[d].seq < y.seq /\ W!Pair(call[d].m) # W!Pair(y.m)
           /\ purged[y.m.player] # "swept" => y.after = W!RunsTo(W!Rows(W!Pair(y.m))) + y.m.delta
  PROVE  WalletInv'
<1>1. Types /\ call'[c] = y /\ \A d \in Call \ {c} : call'[d] = call[d]
  BY Zenon DEF WalletInv, Types
<1>2. /\ \A r \in ledger : r.seq \in Nat
      /\ \A d \in Call : call[d].pc = "moved" => call[d].seq \in Nat
      /\ y.pc = "moved" => y.seq \in Nat
  BY Zenon, <1>1, CallFields DEF Types, LedgerRow
<1>3. Types'
  BY Zenon, <1>1 DEF Types
<1>4. Numbered'
  <2>1. PICK n \in Nat : /\ \A r \in ledger : r.seq <= n
                         /\ \A d \in Call : call[d].pc = "moved" => call[d].seq <= n
    BY Zenon DEF WalletInv, Numbered
  <2>2. CASE y.pc = "moved"
    <3>1. /\ \A r \in ledger : r.seq <= y.seq
          /\ \A d \in Call : call'[d].pc = "moved" => call'[d].seq <= y.seq
      BY <1>1, <1>2, <2>2
    <3>2. QED
      BY Zenon, <1>2, <2>2, <3>1 DEF Numbered
  <2>3. CASE y.pc # "moved"
    BY Zenon, <1>1, <2>1, <2>3 DEF Numbered
  <2>4. QED
    BY Zenon, <2>2, <2>3
<1>5. y.pc = "moved" =>
        /\ \A r \in ledger : r.seq # y.seq
        /\ \A d \in Call \ {c} : call[d].pc = "moved" => call[d].seq # y.seq
  BY <1>2
<1>6. Unique'
  BY <1>1, <1>5 DEF WalletInv, Unique
<1>7. ASSUME NEW d \in Call, call'[d].pc = "moved"
      PROVE  Extends(call[d])'
  <2>1. PICK z : z = call'[d]
    BY Zenon
  <2>2. CASE d = c
    <3>1. z = y /\ y.pc = "moved"
      BY Zenon, <1>1, <1>7, <2>1, <2>2
    <3>2. Extends(z)
      BY Zenon, <3>1 DEF Extends, W!Rows
    <3>3. QED
      BY Zenon, <2>1, <3>2, SameRows
  <2>3. CASE d # c
    <3>1. z = call[d] /\ z.pc = "moved"
      BY Zenon, <1>1, <1>7, <2>1, <2>3
    <3>2. Extends(z)
      BY Zenon, <3>1 DEF WalletInv, Moves
    <3>3. QED
      BY Zenon, <2>1, <3>2, SameRows
  <2>4. QED
    BY Zenon, <2>2, <2>3
<1>8. \A d, e \in Call : d # e /\ call'[d].pc = "moved" /\ call'[e].pc = "moved"
                          /\ purged'[call'[d].m.player] # "swept"
                          => W!Pair(call'[d].m) # W!Pair(call'[e].m)
  BY <1>1 DEF WalletInv, Moves
<1>9. Moves'
  BY Zenon, <1>7, <1>8 DEF Moves, W!Pair
<1>10. History' /\ Sweeps'
  BY SameRows DEF WalletInv, History, Sweeps
<1>11. QED
  BY Zenon, <1>3, <1>4, <1>6, <1>9, <1>10 DEF WalletInv

\* Answers stay as long as the rows and the tombstones do.
LEMMA SameAnswers ==
  ASSUME WalletInv, UNCHANGED <<ledger, purged, answers>>
  PROVE  answers' \in [Movement -> SUBSET Int] /\ Answers'
  BY Zenon DEF WalletInv, Types, Answers, Answered

\* A transaction ends and leaves nothing.
LEMMA EndKeeps ==
  ASSUME WalletInv, NEW c \in Call, call' = [call EXCEPT ![c] = W!NoCall],
         UNCHANGED <<balance, ledger, purged, sweep, answers>>
  PROVE  WalletInv'
<1>1. PICK y : y = W!NoCall
  BY Zenon
<1>2. y \in Calls /\ y.pc = "idle" /\ call' = [call EXCEPT ![c] = y]
  BY Zenon, <1>1, CallFields
<1>3. QED
  BY Zenon, <1>2, CallMoves, SameAnswers DEF Claiming

\* apply_on begins.
LEMMA BeginKeeps ==
  ASSUME WalletInv, NEW c \in Call, NEW m \in Movement, W!Begin(c, m)
  PROVE  WalletInv'
<1>1. PICK y : y = [pc |-> "checked", m |-> m]
  BY Zenon
<1>2. y \in Calls /\ y.pc = "checked" /\ call' = [call EXCEPT ![c] = y]
  BY Zenon, <1>1 DEF Calls, W!Begin
<1>3. UNCHANGED <<balance, ledger, purged, sweep, answers>>
  BY Zenon DEF W!Begin, W!CallFrame
<1>4. QED
  BY Zenon, <1>2, <1>3, CallMoves, SameAnswers DEF Claiming

\* insert_ledger_tx: the key is claimed, or its row decides the answer.
LEMMA InsertLedgerKeeps ==
  ASSUME WalletInv, NEW c \in Call, W!Insert_ledger(c)
  PROVE  WalletInv'
<1> DEFINE t == call[c]
<1>1. /\ t \in Calls /\ t.pc = "checked" /\ t.m \in Movement /\ Types
      /\ UNCHANGED <<balance, ledger, purged, sweep>>
  BY Zenon, CallFields DEF WalletInv, Types, W!Insert_ledger, W!CallFrame
<1>2. CASE /\ \A r \in ledger : r.key # t.m.key
           /\ call' = [call EXCEPT ![c].pc = "claimed"]
           /\ UNCHANGED answers
  <2>1. PICK y : y = [t EXCEPT !.pc = "claimed"]
    BY Zenon
  <2>2. t \in [pc: {"checked", "claimed"}, m: Movement]
    BY <1>1 DEF Calls, W!NoCall
  <2>3. y \in Calls /\ y.pc = "claimed" /\ y.m = t.m
    BY Zenon, <2>1, <2>2 DEF Calls
  <2>4. call' = [call EXCEPT ![c] = y]
    BY Zenon, <1>1, <1>2, <2>1 DEF Types
  <2>5. \A d \in Call \ {c} : Claiming(call[d]) => call[d].m.key # t.m.key
    BY Zenon DEF W!Insert_ledger, W!Claims, W!Busy, Claiming
  <2>6. /\ \A r \in ledger : r.key # y.m.key
        /\ \A d \in Call \ {c} : Claiming(call[d]) => call[d].m.key # y.m.key
    BY Zenon, <1>2, <2>3, <2>5
  <2>7. answers' \in [Movement -> SUBSET Int] /\ Answers'
    BY Zenon, <1>1, <1>2, SameAnswers
  <2>8. QED
    BY Zenon, <1>1, <2>3, <2>4, <2>6, <2>7, CallMoves
<1>3. ASSUME NEW r \in ledger, r.key = t.m.key, W!Answer(t.m, W!Replayed(r, t.m)),
             call' = [call EXCEPT ![c] = W!NoCall]
      PROVE  WalletInv'
  <2>1. CASE UNCHANGED answers
    BY Zenon, <1>1, <1>3, <2>1, EndKeeps
  <2>2. CASE answers' = [answers EXCEPT ![t.m] = @ \cup {W!Replayed(r, t.m)}]
    <3>1. W!Replayed(r, t.m) \in Int
      BY <1>1, <1>3 DEF W!Replayed, W!Conflict, Types, LedgerRow
    <3>2. answers' \in [Movement -> SUBSET Int]
      BY Zenon, <1>1, <2>2, <3>1 DEF Types
    <3>3. Answers'
      BY <1>1, <1>3, <2>2 DEF WalletInv, Answers, Answered, Types
    <3>4. PICK y : y = W!NoCall
      BY Zenon
    <3>5. y \in Calls /\ y.pc = "idle" /\ call' = [call EXCEPT ![c] = y]
      BY Zenon, <1>3, <3>4, CallFields
    <3>6. QED
      BY Zenon, <1>1, <3>2, <3>3, <3>5, CallMoves DEF Claiming
  <2>3. QED
    BY Zenon, <1>3, <2>1, <2>2 DEF W!Answer
<1>4. QED
  BY Zenon, <1>2, <1>3 DEF W!Insert_ledger

\* apply_balance_tx under the lock of the row: the amount it writes, and the number it
\* draws, are the next.
LEMMA MovedKeeps ==
  ASSUME W!WalletConstants, WalletInv, NEW c \in Call, call[c].pc = "claimed",
         NEW amount \in Nat, W!Moved(c, amount),
         \A d \in Call : ~W!Moving(d, W!Pair(call[c].m)),
         purged[call[c].m.player] # "swept" =>
           amount = W!RunsTo(W!Rows(W!Pair(call[c].m))) + call[c].m.delta,
         UNCHANGED <<balance, ledger, purged, sweep, answers>>
  PROVE  WalletInv'
<1> DEFINE t == call[c]
<1>1. t \in Calls /\ t.m \in Movement /\ Types /\ Numbered
  BY Zenon, CallFields DEF WalletInv, Types
<1>2. PICK n : n = W!Draw
  BY Zenon
<1>3. /\ n \in Nat
      /\ \A r \in ledger : r.seq < n
      /\ \A d \in Call : call[d].pc = "moved" => call[d].seq < n
  BY Zenon, <1>1, <1>2, DrawIsNew
<1>4. PICK y : y = [pc |-> "moved", m |-> t.m, after |-> amount, seq |-> n]
  BY Zenon
<1>5. y \in Calls /\ y.pc = "moved" /\ y.m = t.m /\ y.after = amount /\ y.seq = n
  BY Zenon, <1>1, <1>3, <1>4 DEF Calls
<1>6. call' = [call EXCEPT ![c] = y]
  BY Zenon, <1>2, <1>4 DEF W!Moved
<1>7. /\ \A r \in ledger : r.key # t.m.key
      /\ \A d \in Call \ {c} : Claiming(call[d]) => call[d].m.key # t.m.key
  BY Zenon DEF WalletInv, Unique, Claiming
<1>8. \A d \in Call : call[d].pc = "moved" => W!Pair(call[d].m) # W!Pair(t.m)
  BY Zenon DEF W!Moving
<1>9. QED
  BY Zenon, <1>3, <1>5, <1>6, <1>7, <1>8, CallMoves, SameAnswers

\* The row exists: UPDATE ... RETURNING.
LEMMA UpdateKeeps ==
  ASSUME W!WalletConstants, WalletInv, NEW c \in Call, W!Update_balance(c)
  PROVE  WalletInv'
<1> DEFINE t == call[c]
           x == W!Pair(t.m)
           amount == balance[x] + t.m.delta
<1>1. /\ t \in Calls /\ t.pc = "claimed" /\ t.m \in Movement /\ Types
      /\ UNCHANGED <<balance, ledger, purged, sweep, answers>>
  BY Zenon, CallFields DEF WalletInv, Types, W!Update_balance, W!CallFrame
<1>2. x \in Holder \X Currency /\ x[1] = t.m.player /\ t.m.delta \in Int
  BY Zenon, <1>1 DEF W!WalletConstants, W!Pair
<1>3. amount \in Int
  BY <1>1, <1>2 DEF Types
<1>4. CASE call' = [call EXCEPT ![c] = W!NoCall]
  BY Zenon, <1>1, <1>4, EndKeeps
<1>5. CASE W!InRange(amount) /\ W!Moved(c, amount)
  <2>1. amount \in Nat
    BY <1>3, <1>5 DEF W!InRange
  <2>2. purged[t.m.player] # "swept" => balance[x] = W!RunsTo(W!Rows(x))
    BY Zenon, <1>2 DEF WalletInv, History, W!Update_balance
  <2>3. \A d \in Call : ~W!Moving(d, x)
    BY Zenon DEF W!Update_balance
  <2>4. PICK a : a = amount
    BY Zenon
  <2>5. QED
    BY Zenon, <1>1, <1>5, <2>1, <2>2, <2>3, <2>4, MovedKeeps
<1>6. QED
  BY Zenon, <1>4, <1>5 DEF W!Update_balance

\* The first credit of a currency.
LEMMA InsertKeeps ==
  ASSUME W!WalletConstants, WalletInv, NEW c \in Call, W!Insert_balance(c)
  PROVE  WalletInv'
<1> DEFINE t == call[c]
           x == W!Pair(t.m)
<1>1. /\ t \in Calls /\ t.pc = "claimed" /\ t.m \in Movement /\ Types
      /\ UNCHANGED <<balance, ledger, purged, sweep, answers>>
  BY Zenon, CallFields DEF WalletInv, Types, W!Insert_balance, W!CallFrame
<1>2. x \in Holder \X Currency /\ x[1] = t.m.player /\ t.m.delta \in Int
  BY Zenon, <1>1 DEF W!WalletConstants, W!Pair
<1>3. CASE call' = [call EXCEPT ![c] = W!NoCall]
  BY Zenon, <1>1, <1>3, EndKeeps
<1>4. CASE t.m.delta > 0 /\ W!Moved(c, t.m.delta)
  <2>1. t.m.delta \in Nat
    BY <1>2, <1>4
  <2>2. purged[t.m.player] # "swept" => W!Rows(x) = {}
    BY Zenon, <1>2 DEF WalletInv, History, W!Insert_balance
  <2>3. purged[t.m.player] # "swept" => t.m.delta = W!RunsTo(W!Rows(x)) + t.m.delta
    BY <1>2, <2>2 DEF W!RunsTo
  <2>4. \A d \in Call : ~W!Moving(d, x)
    BY Zenon, <1>4 DEF W!Insert_balance
  <2>5. QED
    BY Zenon, <1>1, <1>4, <2>1, <2>3, <2>4, MovedKeeps
<1>5. QED
  BY Zenon, <1>3, <1>4 DEF W!Insert_balance

-----------------------------------------------------------------------------
(* The commit *)

\* The row is the next entry of the history of its balance.
LEMMA CommitHistory ==
  ASSUME W!WalletConstants, WalletInv, NEW c \in Call, NEW t, t = call[c], t.pc = "moved",
         NEW row \in LedgerRow,
         row.player = t.m.player, row.currency = t.m.currency, row.delta = t.m.delta,
         row.after = t.after, row.seq = t.seq,
         ledger' = ledger \cup {row}, balance' = [balance EXCEPT ![W!Pair(t.m)] = t.after],
         UNCHANGED purged
  PROVE  /\ \A x : x # W!Pair(t.m) /\ x \in Holder \X Currency => W!Rows(x)' = W!Rows(x)
         /\ History'
<1>1. Types /\ History /\ Extends(t) /\ t.m \in Movement
  BY Zenon, CallFields DEF WalletInv, Types, Moves
<1>2. PICK p : p = W!Pair(t.m)
  BY Zenon
<1>3. p \in Holder \X Currency /\ p[1] = row.player /\ p[2] = row.currency /\ p[1] = t.m.player
  BY Zenon, <1>1, <1>2 DEF W!WalletConstants, W!Pair
<1>4. W!Rows(p)' = W!Rows(p) \cup {row}
  BY Zenon, <1>3 DEF W!Rows
<1>5. \A x \in Holder \X Currency : x # p => W!Rows(x)' = W!Rows(x) /\ balance'[x] = balance[x]
  <2> SUFFICES ASSUME NEW x \in Holder \X Currency, x # p
               PROVE  W!Rows(x)' = W!Rows(x) /\ balance'[x] = balance[x]
    BY Zenon
  <2>1. ~(row.player = x[1] /\ row.currency = x[2])
    BY <1>3
  <2>2. QED
    BY Zenon, <1>1, <1>2, <2>1 DEF W!Rows, Types
<1>6. balance'[p] = t.after /\ t.after \in Nat
  BY Zenon, <1>1, <1>2, <1>3 DEF Types, LedgerRow
<1>7. ASSUME purged[p[1]] # "swept"
      PROVE  /\ \A r \in W!Rows(p)' : r.after = W!RunsTo({q \in W!Rows(p)' : q.seq < r.seq}) + r.delta
             /\ balance'[p] = W!RunsTo(W!Rows(p)')
  <2>1. /\ row.after = W!RunsTo(W!Rows(p)) + row.delta
        /\ \A r \in W!Rows(p) : r.seq < row.seq
    BY Zenon, <1>1, <1>2, <1>3, <1>7 DEF Extends
  <2>2. row.seq \in Nat /\ \A r \in W!Rows(p) : r.seq \in Nat
    BY Zenon, <1>1 DEF Types, LedgerRow, W!Rows
  <2>3. {q \in W!Rows(p)' : q.seq < row.seq} = W!Rows(p)
    BY <1>4, <2>1, <2>2
  <2>4. \A r \in W!Rows(p) : {q \in W!Rows(p)' : q.seq < r.seq} = {q \in W!Rows(p) : q.seq < r.seq}
    BY <1>4, <2>1, <2>2
  <2>5. \A r \in W!Rows(p) : r.after = W!RunsTo({q \in W!Rows(p) : q.seq < r.seq}) + r.delta
    BY Zenon, <1>1, <1>3, <1>7 DEF History
  <2>6. W!RunsTo(W!Rows(p)') = row.after
    <3>1. PICK S : S = W!Rows(p)
      BY Zenon
    <3>2. row.seq \in Nat /\ \A q \in S : q.seq \in Nat /\ q.seq < row.seq
      BY Zenon, <2>1, <2>2, <3>1
    <3>3. W!RunsTo(S \cup {row}) = row.after
      BY Zenon, <3>2, LastRuns
    <3>4. QED
      BY Zenon, <1>4, <3>1, <3>3
  <2>7. QED
    BY Zenon, <1>4, <1>6, <2>1, <2>3, <2>4, <2>5, <2>6
<1>8. History'
  <2> SUFFICES ASSUME NEW x \in Holder \X Currency, purged[x[1]] # "swept"
               PROVE  /\ \A r \in W!Rows(x)' :
                           r.after = W!RunsTo({q \in W!Rows(x)' : q.seq < r.seq}) + r.delta
                      /\ W!Rows(x)' = {} <=> balance'[x] = W!Absent
                      /\ W!Rows(x)' # {} => balance'[x] = W!RunsTo(W!Rows(x)')
    BY Zenon DEF History, W!RunsTo, W!Rows
  <2>1. CASE x = p
    <3>1. W!Rows(p)' # {} /\ balance'[p] # W!Absent
      BY <1>4, <1>6 DEF W!Absent
    <3>2. QED
      BY Zenon, <1>7, <2>1, <3>1
  <2>2. CASE x # p
    BY <1>1, <1>5, <2>2 DEF History
  <2>3. QED
    BY Zenon, <2>1, <2>2
<1>9. QED
  BY Zenon, <1>2, <1>5, <1>8

\* wallet.changed is appended and the transaction commits.
LEMMA CommitKeeps ==
  ASSUME W!WalletConstants, WalletInv, NEW c \in Call, W!Commit(c)
  PROVE  WalletInv'
<1>1. PICK t : t = call[c]
  BY Zenon
<1>2. PICK row : row = W!Row(c)
  BY Zenon
<1>3. /\ t \in Calls /\ t.pc = "moved" /\ t.m \in Movement
      /\ t.after \in Nat /\ t.seq \in Nat /\ Types
  BY Zenon, <1>1, CallFields DEF WalletInv, Types, W!Commit
<1>4. /\ row.seq = t.seq /\ row.key = t.m.key /\ row.player = t.m.player
      /\ row.currency = t.m.currency /\ row.delta = t.m.delta
      /\ row.reason = t.m.reason /\ row.after = t.after
  BY Zenon, <1>1, <1>2 DEF W!Row
<1>5. row \in LedgerRow
  BY Zenon, <1>1, <1>2, <1>3 DEF W!Row, LedgerRow, W!WalletConstants
<1>6. /\ ledger' = ledger \cup {row} /\ balance' = [balance EXCEPT ![W!Pair(t.m)] = t.after]
      /\ W!Answer(t.m, t.after) /\ call' = [call EXCEPT ![c] = W!NoCall]
      /\ UNCHANGED <<purged, sweep>>
  BY Zenon, <1>1, <1>2 DEF W!Commit
<1>7. /\ W!NoCall \in Calls /\ ~Claiming(call'[c]) /\ call'[c].pc # "moved"
      /\ \A d \in Call \ {c} : call'[d] = call[d]
  BY Zenon, <1>3, <1>6, CallFields DEF Types, Claiming
<1>8. answers' \in [Movement -> SUBSET Int]
  BY <1>3, <1>6 DEF Types, W!Answer
<1>9. Types'
  <2>1. W!Pair(t.m) \in Holder \X Currency /\ t.after \in Int
    BY <1>3 DEF W!WalletConstants, W!Pair
  <2>2. balance' \in [Holder \X Currency -> Int]
    BY Zenon, <1>3, <1>6, <2>1 DEF Types
  <2>3. call' \in [Call -> Calls]
    BY Zenon, <1>3, <1>6, <1>7 DEF Types
  <2>4. QED
    BY Zenon, <1>3, <1>5, <1>6, <1>8, <2>2, <2>3 DEF Types
<1>10. Numbered'
  <2>1. PICK n \in Nat : /\ \A r \in ledger : r.seq <= n
                         /\ \A d \in Call : call[d].pc = "moved" => call[d].seq <= n
    BY Zenon DEF WalletInv, Numbered
  <2>2. QED
    BY <1>1, <1>3, <1>4, <1>6, <1>7, <2>1 DEF Numbered
<1>11. Unique'
  <2>1. \A r \in ledger : r.key # row.key /\ r.seq # row.seq
    BY <1>1, <1>3, <1>4 DEF WalletInv, Unique, Claiming
  <2>2. \A d \in Call \ {c} : /\ Claiming(call[d]) => call[d].m.key # row.key
                              /\ call[d].pc = "moved" => call[d].seq # row.seq
    BY <1>1, <1>3, <1>4 DEF WalletInv, Unique, Claiming
  <2>3. \A r, q \in ledger' : r.key = q.key \/ r.seq = q.seq => r = q
    BY Zenon, <1>6, <2>1 DEF WalletInv, Unique
  <2>4. \A d \in Call : /\ Claiming(call'[d]) => \A r \in ledger' : r.key # call'[d].m.key
                        /\ call'[d].pc = "moved" => \A r \in ledger' : r.seq # call'[d].seq
    BY <1>6, <1>7, <2>2 DEF WalletInv, Unique
  <2>5. \A d, e \in Call :
          /\ d # e /\ Claiming(call'[d]) /\ Claiming(call'[e]) => call'[d].m.key # call'[e].m.key
          /\ d # e /\ call'[d].pc = "moved" /\ call'[e].pc = "moved" => call'[d].seq # call'[e].seq
    BY <1>7 DEF WalletInv, Unique
  <2>6. QED
    BY Zenon, <2>3, <2>4, <2>5 DEF Unique, Claiming
<1>12. /\ \A x : x # W!Pair(t.m) /\ x \in Holder \X Currency => W!Rows(x)' = W!Rows(x)
       /\ History'
  BY Zenon, <1>1, <1>3, <1>4, <1>5, <1>6, CommitHistory
<1>13. Moves'
  <2>1. ASSUME NEW d \in Call, call'[d].pc = "moved"
        PROVE  Extends(call[d])'
    <3>1. PICK z : z = call'[d]
      BY Zenon
    <3>2. d # c /\ z = call[d] /\ z.pc = "moved"
      BY Zenon, <1>7, <2>1, <3>1
    <3>3. Extends(z) /\ z.m \in Movement
      BY Zenon, <1>3, <3>2, CallFields DEF WalletInv, Moves, Types
    <3>4. W!Pair(z.m) \in Holder \X Currency
      BY Zenon, <3>3 DEF W!WalletConstants, W!Pair
    <3>5. purged[z.m.player] # "swept" => W!Pair(z.m) # W!Pair(t.m)
      BY Zenon, <1>1, <1>3, <3>2 DEF WalletInv, Moves
    <3>6. Extends(z)'
      BY Zenon, <1>6, <1>12, <3>3, <3>4, <3>5 DEF Extends
    <3>7. QED
      BY Zenon, <3>1, <3>6
  <2>2. QED
    BY <1>6, <1>7, <2>1 DEF WalletInv, Moves, W!Pair
<1>14. Sweeps'
  BY Zenon, <1>6 DEF WalletInv, Sweeps
<1>15. Answers'
  <2>1. W!Replayed(row, t.m) = t.after
    BY Zenon, <1>4 DEF W!Replayed, W!Same_movement
  <2>2. \A m \in Movement : answers'[m] = answers[m] \/ (m = t.m /\ answers'[m] = answers[m] \cup {t.after})
    BY Zenon, <1>3, <1>6 DEF W!Answer, Types
  <2>3. QED
    BY <1>4, <1>6, <2>1, <2>2 DEF WalletInv, Answers, Answered
<1>16. QED
  BY Zenon, <1>9, <1>10, <1>11, <1>12, <1>13, <1>14, <1>15 DEF WalletInv

-----------------------------------------------------------------------------
(* Deletion *)

\* Nothing but the sweep's own working state moves.
LEMMA SweepMoves ==
  ASSUME WalletInv, UNCHANGED <<balance, ledger, purged, call, answers>>,
         sweep' \in [pc: {"idle", "delete", "reown"}, p: Holder \cup {W!Sentinel},
                     done: SUBSET Holder, gone: SUBSET (Holder \X Currency),
                     owned: SUBSET LedgerRow],
         Sweeps'
  PROVE  WalletInv'
<1>1. Types' /\ Numbered' /\ Unique' /\ Answers'
  BY DEF WalletInv, Types, Numbered, Unique, Answers, Answered
<1>2. Moves' /\ History'
  BY SameRows DEF WalletInv, Moves, History
<1>3. QED
  BY Zenon, <1>1, <1>2 DEF WalletInv

\* The sweep between its transactions.
LEMMA NoSweepKeeps ==
  ASSUME sweep' = W!NoSweep
  PROVE  /\ sweep' \in [pc: {"idle", "delete", "reown"}, p: Holder \cup {W!Sentinel},
                        done: SUBSET Holder, gone: SUBSET (Holder \X Currency),
                        owned: SUBSET LedgerRow]
         /\ Sweeps'
  BY Zenon DEF W!NoSweep, Sweeps

\* A tombstone is planted.
LEMMA PlantKeeps ==
  ASSUME WalletInv, NEW p \in Holder, W!Plant_purged_player(p)
  PROVE  WalletInv'
<1>1. /\ Types /\ purged[p] = "none" /\ purged' = [purged EXCEPT ![p] = "planted"]
      /\ UNCHANGED <<balance, ledger, call, sweep, answers>>
  BY Zenon DEF WalletInv, W!Plant_purged_player
<1>2. /\ purged'[p] = "planted" /\ \A q \in Holder \ {p} : purged'[q] = purged[q]
      /\ purged' \in [Holder -> {"none", "planted", "swept"}]
  BY Zenon, <1>1 DEF Types
<1>3. \A q : purged'[q] = "swept" <=> purged[q] = "swept"
  BY <1>1 DEF Types
<1>4. \A x : W!Rows(x)' = W!Rows(x)
  BY Zenon, <1>1 DEF W!Rows
<1>5. \A y : Extends(y)' <=> Extends(y)
  BY Zenon, <1>3, <1>4 DEF Extends
<1>6. Types' /\ Numbered' /\ Unique'
  BY <1>1, <1>2 DEF WalletInv, Types, Numbered, Unique
<1>7. Moves' /\ History'
  BY Zenon, <1>1, <1>3, <1>4, <1>5 DEF WalletInv, Moves, History
<1>8. Sweeps'
  BY Zenon, <1>1, <1>2 DEF WalletInv, Sweeps, Types
<1>9. Answers'
  BY <1>1, <1>2 DEF WalletInv, Answers, Answered
<1>10. QED
  BY Zenon, <1>6, <1>7, <1>8, <1>9 DEF WalletInv

\* The sweep takes the next player.
LEMMA SelectKeeps ==
  ASSUME WalletInv, W!Select
  PROVE  WalletInv'
<1>1. PICK p \in W!Due : sweep' = [sweep EXCEPT !.pc = "delete", !.p = p]
  BY Zenon DEF W!Select
<1>2. /\ Types /\ p \in Holder /\ purged[p] = "planted" /\ sweep.pc = "idle"
      /\ UNCHANGED <<balance, ledger, purged, call, answers>>
  BY Zenon DEF WalletInv, W!Due, W!Select, W!SweepFrame
<1>3. /\ sweep' \in [pc: {"idle", "delete", "reown"}, p: Holder \cup {W!Sentinel},
                     done: SUBSET Holder, gone: SUBSET (Holder \X Currency),
                     owned: SUBSET LedgerRow]
      /\ sweep'.pc = "delete" /\ sweep'.p = p
      /\ sweep'.done = sweep.done /\ sweep'.gone = sweep.gone /\ sweep'.owned = sweep.owned
  BY Zenon, <1>1, <1>2 DEF Types
<1>4. Sweeps'
  BY Zenon, <1>2, <1>3 DEF WalletInv, Sweeps
<1>5. QED
  BY Zenon, <1>2, <1>3, <1>4, SweepMoves

\* DELETE FROM balances.
LEMMA DeleteKeeps ==
  ASSUME WalletInv, W!Delete_balances
  PROVE  WalletInv'
<1>1. PICK rows : rows = {x \in DOMAIN balance : x[1] = sweep.p /\ balance[x] # W!Absent}
  BY Zenon
<1>2. /\ Types /\ sweep.pc = "delete"
      /\ sweep' = [sweep EXCEPT !.pc = "reown", !.gone = @ \cup rows]
      /\ UNCHANGED <<balance, ledger, purged, call, answers>>
  BY Zenon, <1>1 DEF WalletInv, W!Delete_balances, W!SweepFrame
<1>3. rows \subseteq Holder \X Currency /\ \A x \in rows : x[1] = sweep.p
  BY Zenon, <1>1, <1>2 DEF Types
<1>4. /\ sweep' \in [pc: {"idle", "delete", "reown"}, p: Holder \cup {W!Sentinel},
                     done: SUBSET Holder, gone: SUBSET (Holder \X Currency),
                     owned: SUBSET LedgerRow]
      /\ sweep'.pc = "reown" /\ sweep'.gone = sweep.gone \cup rows
      /\ sweep'.done = sweep.done /\ sweep'.p = sweep.p /\ sweep'.owned = sweep.owned
  BY Zenon, <1>2, <1>3 DEF Types
<1>5. Sweeps'
  BY Zenon, <1>2, <1>3, <1>4 DEF WalletInv, Sweeps
<1>6. QED
  BY Zenon, <1>2, <1>4, <1>5, SweepMoves

\* UPDATE ledger and the stamp.
LEMMA ReownKeeps ==
  ASSUME WalletInv, W!Reown_ledger
  PROVE  WalletInv'
<1>1. PICK rows : rows = {r \in ledger : r.player = sweep.p}
  BY Zenon
<1>2. /\ Types /\ sweep.pc = "reown" /\ sweep.p \in Holder /\ purged[sweep.p] = "planted"
      /\ sweep' = [sweep EXCEPT !.pc = "idle", !.done = @ \cup {sweep.p},
                                !.owned = @ \cup rows]
      /\ UNCHANGED <<balance, ledger, purged, call, answers>>
  BY Zenon, <1>1 DEF WalletInv, Sweeps, W!Reown_ledger, W!SweepFrame
<1>3. rows \subseteq ledger /\ rows \subseteq LedgerRow /\ \A r \in rows : r.player = sweep.p
  BY Zenon, <1>1, <1>2 DEF Types
<1>4. /\ sweep' \in [pc: {"idle", "delete", "reown"}, p: Holder \cup {W!Sentinel},
                     done: SUBSET Holder, gone: SUBSET (Holder \X Currency),
                     owned: SUBSET LedgerRow]
      /\ sweep'.pc = "idle" /\ sweep'.done = sweep.done \cup {sweep.p}
      /\ sweep'.gone = sweep.gone /\ sweep'.owned = sweep.owned \cup rows
  BY Zenon, <1>2, <1>3 DEF Types
<1>5. Sweeps'
  BY Zenon, <1>2, <1>3, <1>4 DEF WalletInv, Sweeps
<1>6. QED
  BY Zenon, <1>2, <1>4, <1>5, SweepMoves

\* The sweep's transaction commits: its players' rows change owner and nothing else.
LEMMA SweepCommitKeeps ==
  ASSUME W!WalletConstants, WalletInv, W!SweepCommit
  PROVE  WalletInv'
<1> DEFINE Owned(r) == [r EXCEPT !.player = W!Sentinel]
<1>1. /\ Types /\ Sweeps /\ sweep.pc = "idle" /\ sweep' = W!NoSweep
      /\ UNCHANGED <<call, answers>>
  BY Zenon DEF WalletInv, W!SweepCommit, W!SweepFrame
<1>2. /\ purged' \in [Holder -> {"none", "planted", "swept"}]
      /\ \A p \in Holder : purged'[p] # "swept" => p \notin sweep.done /\ purged'[p] = purged[p]
  BY Zenon, <1>1 DEF Types, W!SweepCommit
<1>3. /\ balance' \in [Holder \X Currency -> Int]
      /\ \A x \in Holder \X Currency : x \notin sweep.gone => balance'[x] = balance[x]
  BY <1>1 DEF Types, W!SweepCommit, W!Absent
<1>4. \A r \in LedgerRow : /\ Owned(r) \in LedgerRow
                           /\ Owned(r).seq = r.seq /\ Owned(r).key = r.key
                           /\ Owned(r).player = W!Sentinel
  BY Zenon DEF LedgerRow
<1>5. /\ sweep.owned \subseteq ledger /\ ledger \subseteq LedgerRow
      /\ \A r \in sweep.owned : r.player \in sweep.done
      /\ \A x \in sweep.gone : x[1] \in sweep.done
  BY Zenon, <1>1 DEF Types, Sweeps
<1>6. ledger' = (ledger \ sweep.owned) \cup {Owned(r) : r \in sweep.owned}
  BY Zenon DEF W!SweepCommit
<1> HIDE DEF Owned
<1>7. \A r \in ledger' : \E q \in ledger :
        /\ r.seq = q.seq /\ r.key = q.key /\ r \in LedgerRow
        /\ r = IF q \in sweep.owned THEN Owned(q) ELSE q
  BY Zenon, <1>4, <1>5, <1>6
<1>8. Types'
  BY Zenon, <1>1, <1>2, <1>3, <1>7, NoSweepKeeps DEF Types
<1>9. Numbered'
  <2>1. PICK n \in Nat : /\ \A r \in ledger : r.seq <= n
                         /\ \A c \in Call : call[c].pc = "moved" => call[c].seq <= n
    BY Zenon DEF WalletInv, Numbered
  <2>2. \A r \in ledger' : r.seq <= n
    BY Zenon, <1>7, <2>1
  <2>3. QED
    BY Zenon, <1>1, <2>1, <2>2 DEF Numbered
<1>10. Unique'
  <2>1. \A r, q \in ledger' : r.key = q.key \/ r.seq = q.seq => r = q
    BY <1>7 DEF WalletInv, Unique
  <2>2. \A c \in Call : /\ Claiming(call[c]) => \A r \in ledger' : r.key # call[c].m.key
                        /\ call[c].pc = "moved" => \A r \in ledger' : r.seq # call[c].seq
    BY <1>7 DEF WalletInv, Unique
  <2>3. QED
    BY Zenon, <1>1, <2>1, <2>2 DEF WalletInv, Unique, Claiming
<1>11. \A x \in Holder \X Currency : purged'[x[1]] # "swept" =>
         W!Rows(x)' = W!Rows(x) /\ balance'[x] = balance[x] /\ purged[x[1]] # "swept"
  <2> SUFFICES ASSUME NEW x \in Holder \X Currency, purged'[x[1]] # "swept"
               PROVE  W!Rows(x)' = W!Rows(x) /\ balance'[x] = balance[x] /\ purged[x[1]] # "swept"
    BY Zenon
  <2>1. x[1] \in Holder /\ x[1] \notin sweep.done /\ purged[x[1]] # "swept" /\ x[1] # W!Sentinel
    BY Zenon, <1>2 DEF W!WalletConstants
  <2>2. balance'[x] = balance[x]
    BY Zenon, <1>3, <1>5, <2>1
  <2>3. ASSUME NEW r, r.player = x[1]
        PROVE  r \in ledger' <=> r \in ledger
    BY <1>4, <1>5, <1>6, <2>1, <2>3
  <2>4. W!Rows(x)' = W!Rows(x)
    BY Zenon, <2>3 DEF W!Rows
  <2>5. QED
    BY Zenon, <2>1, <2>2, <2>4
<1>12. Moves'
  <2>1. ASSUME NEW c \in Call, call'[c].pc = "moved"
        PROVE  Extends(call[c])'
    <3>1. PICK z : z = call'[c]
      BY Zenon
    <3>2. Extends(z) /\ z.m \in Movement
      BY Zenon, <1>1, <2>1, <3>1, CallFields DEF WalletInv, Moves, Types
    <3>3. W!Pair(z.m) \in Holder \X Currency /\ W!Pair(z.m)[1] = z.m.player
      BY Zenon, <3>2 DEF W!WalletConstants, W!Pair
    <3>4. Extends(z)'
      BY Zenon, <1>11, <3>2, <3>3 DEF Extends
    <3>5. QED
      BY Zenon, <3>1, <3>4
  <2>2. \A c \in Call : call[c].pc = "moved" /\ purged'[call[c].m.player] # "swept"
                        => purged[call[c].m.player] # "swept"
    BY Zenon, <1>1, <1>2, CallFields DEF Types, W!WalletConstants
  <2>3. QED
    BY Zenon, <1>1, <2>1, <2>2 DEF WalletInv, Moves, W!Pair
<1>13. History'
  BY <1>11 DEF WalletInv, History
<1>14. Answers'
  <2> SUFFICES ASSUME NEW m \in Movement, purged'[m.player] = "none",
                      NEW a \in answers[m]
               PROVE  \E r \in ledger' : r.key = m.key /\ a = W!Replayed(r, m)
    BY Zenon, <1>1 DEF Answers, Answered
  <2>1. m.player \in Holder /\ m.player \notin sweep.done /\ purged[m.player] = "none"
    BY Zenon, <1>2 DEF W!WalletConstants
  <2>2. PICK r \in ledger : r.key = m.key /\ a = W!Replayed(r, m)
    BY Zenon, <2>1 DEF WalletInv, Answers, Answered
  <2>3. CASE r \notin sweep.owned
    BY Zenon, <1>6, <2>2, <2>3
  <2>4. CASE r \in sweep.owned
    <3>1. Owned(r) \in ledger' /\ Owned(r).key = m.key /\ Owned(r).player = W!Sentinel
      BY Zenon, <1>4, <1>5, <1>6, <2>2, <2>4
    <3>2. W!Replayed(r, m) = W!Conflict
      BY Zenon, <1>5, <2>1, <2>4 DEF W!Replayed, W!Same_movement
    <3>3. W!Replayed(Owned(r), m) = W!Conflict
      BY Zenon, <2>1, <3>1 DEF W!Replayed, W!Same_movement, W!WalletConstants
    <3>4. QED
      BY Zenon, <2>2, <3>1, <3>2, <3>3
  <2>5. QED
    BY Zenon, <2>3, <2>4
<1>15. QED
  BY Zenon, <1>1, <1>8, <1>9, <1>10, <1>12, <1>13, <1>14, NoSweepKeeps DEF WalletInv

-----------------------------------------------------------------------------
(* Theorems *)

\* The empty tables.
LEMMA InitHolds ==
  ASSUME W!Init
  PROVE  WalletInv
<1>1. Types
  BY CallFields DEF W!Init, Types, W!NoSweep, W!Absent
<1>2. \A c \in Call : call[c].pc = "idle"
  BY Zenon, CallFields DEF W!Init
<1>3. ledger = {} /\ \A x : W!Rows(x) = {}
  BY Zenon DEF W!Init, W!Rows
<1>4. Numbered /\ Unique /\ Moves
  BY Zenon, <1>2, <1>3 DEF Numbered, Unique, Moves, Claiming
<1>5. History
  BY Zenon, <1>3 DEF W!Init, History
<1>6. Sweeps /\ Answers
  BY Zenon DEF W!Init, Sweeps, W!NoSweep, Answers, Answered
<1>7. QED
  BY Zenon, <1>1, <1>4, <1>5, <1>6 DEF WalletInv

\* One step, whichever it is.
LEMMA StepKeeps ==
  ASSUME W!WalletConstants, WalletInv, [W!Next]_W!vars
  PROVE  WalletInv'
<1>1. ASSUME NEW cur \in Currency, W!Write_currency(cur) PROVE WalletInv'
  <2>1. UNCHANGED <<balance, ledger, purged, call, answers>> /\ UNCHANGED sweep
    BY Zenon, <1>1 DEF W!Write_currency
  <2>2. QED
    BY Zenon, <2>1, SweepMoves DEF WalletInv, Types, Sweeps
<1>2. ASSUME NEW c \in Call, NEW m \in Movement, W!Apply(c, m) \/ W!Grant_starter(c, m)
      PROVE  WalletInv'
  BY Zenon, <1>2, BeginKeeps DEF W!Apply, W!Grant_starter
<1>3. ASSUME NEW c \in Call, W!CallStep(c) PROVE WalletInv'
  BY Zenon, <1>3, InsertLedgerKeeps, UpdateKeeps, InsertKeeps, CommitKeeps DEF W!CallStep
<1>4. ASSUME NEW c \in Call, W!Rollback(c) PROVE WalletInv'
  BY Zenon, <1>4, EndKeeps DEF W!Rollback, W!CallFrame
<1>5. ASSUME NEW p \in Holder, W!Plant_purged_player(p) PROVE WalletInv'
  BY Zenon, <1>5, PlantKeeps
<1>6. ASSUME W!SweepStep PROVE WalletInv'
  BY Zenon, <1>6, SelectKeeps, DeleteKeeps, ReownKeeps, SweepCommitKeeps DEF W!SweepStep
<1>7. ASSUME W!SweepFails PROVE WalletInv'
  BY Zenon, <1>7, SweepMoves, NoSweepKeeps DEF W!SweepFails, W!SweepFrame
<1>8. ASSUME UNCHANGED W!vars PROVE WalletInv'
  <2>1. UNCHANGED <<balance, ledger, purged, call, answers>> /\ UNCHANGED sweep
    BY Zenon, <1>8 DEF W!vars
  <2>2. QED
    BY Zenon, <2>1, SweepMoves DEF WalletInv, Types, Sweeps
<1>9. QED
  BY Zenon, <1>1, <1>2, <1>3, <1>4, <1>5, <1>6, <1>7, <1>8 DEF W!Next

\* The inductive invariant of the wallet: keys and numbers are unique among the rows
\* of committed and of running transactions, one transaction at a time moves a
\* balance, what it wrote is the next entry of the ledger's history, and every answer
\* is what the row with the movement's key says.
THEOREM WalletInvariant ==
  W!Spec => []WalletInv
<1>1. W!Init => WalletInv
  BY Zenon, InitHolds
<1>2. WalletInv /\ [W!Next]_W!vars => WalletInv'
  BY Zenon, StepKeeps, DomainsAssumption
<1>3. QED
  BY <1>1, <1>2, PTL DEF W!Spec

\* A key moves money once, and the ledger of a player who is not purged is the
\* history of the balance (apply_on, purge_player_tx).
THEOREM LedgerIsHistory ==
  W!Spec => []LedgerRunsToBalance
<1>1. ASSUME WalletInv PROVE LedgerRunsToBalance
  <2>1. DOMAIN balance = Holder \X Currency
    BY Zenon, <1>1 DEF WalletInv, Types
  <2>2. QED
    BY Zenon, <1>1, <2>1
       DEF WalletInv, Unique, History, LedgerRunsToBalance, W!LedgerRunsToBalance
<1>2. W!Spec => []WalletInv
  BY Zenon, WalletInvariant
<1>3. QED
  BY <1>1, <1>2, PTL

\* Every answer to a movement that was applied is the one the original call gave,
\* until the player is deleted (the replay arm of apply_on).
THEOREM ReplaysAgree ==
  W!Spec => []ReplayAnswersAlike
<1>1. ASSUME WalletInv PROVE ReplayAnswersAlike
  <2> SUFFICES ASSUME NEW m \in Movement, purged[m.player] = "none"
               PROVE  /\ \A a, b \in answers[m] : a = b
                      /\ \A r \in ledger : r.key = m.key /\ W!Same_movement(r, m)
                                           => W!Conflict \notin answers[m]
    BY Zenon DEF ReplayAnswersAlike, W!ReplayAnswersAlike
  <2>1. \A a \in answers[m] : \E r \in ledger : r.key = m.key /\ a = W!Replayed(r, m)
    BY Zenon, <1>1 DEF WalletInv, Answers, Answered
  <2>2. \A r, q \in ledger : r.key = q.key => r = q
    BY Zenon, <1>1 DEF WalletInv, Unique
  <2>3. \A a, b \in answers[m] : a = b
    BY Zenon, <2>1, <2>2
  <2>4. ASSUME NEW r \in ledger, r.key = m.key, W!Same_movement(r, m)
        PROVE  W!Conflict \notin answers[m]
    <3>1. \A a \in answers[m] : a = r.after
      BY <2>1, <2>2, <2>4 DEF W!Replayed
    <3>2. r.after \in Nat
      BY Zenon, <1>1 DEF WalletInv, Types, LedgerRow
    <3>3. QED
      BY <3>1, <3>2 DEF W!Conflict
  <2>5. QED
    BY Zenon, <2>3, <2>4
<1>2. W!Spec => []WalletInv
  BY Zenon, WalletInvariant
<1>3. QED
  BY <1>1, <1>2, PTL

-----------------------------------------------------------------------------
(* The friend graph *)

EdgeRow == [pair: SUBSET Player, by: Player \cup {0},
            state: {"none", "pending", "accepted", "removed"}]

AskState ==
  [pc: {"idle", "found", "locked", "guarded", "inserted", "conflict", "missed", "gone"},
   me: Player \cup {0}, you: Player \cup {0}]

GraphTypes ==
  /\ known \subseteq Player
  /\ edge \in [F!Edge -> EdgeRow]
  /\ edges \in Nat /\ edges <= MaxEdge
  /\ grave \in [Player -> {"none", "planted", "swept"}]
  /\ ask \in [Ask -> AskState]
  /\ broom \in [done: SUBSET Player, rows: SUBSET (F!Edge \X Player)]
  /\ told = [e \in F!Edge |-> told[e]]

\* A row that was inserted relates its author and another player.
Couple(x) == x.by \in Player /\ \E q \in Player \ {x.by} : x.pair = {x.by, q}

Rowed ==
  \A e \in F!Edge : /\ e > edges => edge[e].state = "none"
                    /\ edge[e].state # "none" => Couple(edge[e])

\* A call asks for a player other than the one who makes it.
Asking == \A a \in Ask : ask[a].pc # "idle" =>
            ask[a].me \in Player /\ ask[a].you \in Player /\ ask[a].me # ask[a].you

\* Tombstones are of players who are gone, and the rows the sweep has deleted are
\* there until it commits.
Graves ==
  /\ \A p \in Player : grave[p] # "none" \/ p \in broom.done => p \notin known
  /\ \A r \in broom.rows : /\ F!There(r[1])
                           /\ r[2] \in edge[r[1]].pair \ known

\* The events s tell the row x, players other than known being deleted.
Asked(x) == <<"requested", x.by>>

Gone(x, s) == {<<"account_deleted", p>> : p \in x.pair \ s}

Tells(x, kn, s) ==
  /\ x.state = "none" => s = <<>>
  /\ x.state = "pending" => s = <<Asked(x)>>
  /\ x.state = "accepted" =>
       \E p \in x.pair \ {x.by} : s = Append(<<Asked(x)>>, <<"accepted", p>>)
  /\ x.state = "removed" =>
       \/ \E w \in Gone(x, kn) \cup {<<"withdrawn", x.by>>} \cup ({"declined"} \X (x.pair \ {x.by})) :
            s = Append(<<Asked(x)>>, w)
       \/ \E p \in x.pair \ {x.by}, w \in Gone(x, kn) \cup ({"unfriended"} \X x.pair) :
            s = <<Asked(x)>> \o <<<<"accepted", p>>, w>>

Telling == \A e \in F!Edge : Tells(edge[e], known, told[e])

FriendsInv == GraphTypes /\ Rowed /\ Asking /\ Graves /\ Telling

-----------------------------------------------------------------------------
(* Its events and its steps *)

\* A row changes its state and nothing else.
LEMMA Restated ==
  ASSUME NEW x \in EdgeRow, NEW y, NEW k \in {"pending", "accepted", "removed"},
         y = [x EXCEPT !.state = k]
  PROVE  /\ y \in EdgeRow /\ y.state = k /\ y.by = x.by /\ y.pair = x.pair
         /\ Couple(x) => Couple(y)
         /\ Asked(y) = Asked(x) /\ \A s : Gone(y, s) = Gone(x, s)
<1>1. y \in EdgeRow /\ y.state = k /\ y.by = x.by /\ y.pair = x.pair
  BY Zenon DEF EdgeRow
<1>2. QED
  BY Zenon, <1>1 DEF Couple, Asked, Gone

\* An acceptance by the other player is told.
LEMMA AcceptanceTells ==
  ASSUME NEW x \in EdgeRow, NEW y, y = [x EXCEPT !.state = "accepted"],
         NEW kn, NEW s, Tells(x, kn, s), x.state = "pending",
         NEW p \in x.pair \ {x.by}
  PROVE  Tells(y, kn, Append(s, <<"accepted", p>>))
<1>1. y.state = "accepted" /\ y.by = x.by /\ y.pair = x.pair /\ Asked(y) = Asked(x)
  BY Zenon, Restated
<1>2. s = <<Asked(x)>>
  BY Zenon DEF Tells
<1>3. QED
  BY Zenon, <1>1, <1>2 DEF Tells

\* An end is told after the offer, or after the offer and its acceptance.
LEMMA EndTells ==
  ASSUME NEW x \in EdgeRow, NEW y, y = [x EXCEPT !.state = "removed"],
         NEW kn, NEW s, Tells(x, kn, s), NEW w,
         \/ x.state = "pending" /\ w \in Gone(x, kn) \cup {<<"withdrawn", x.by>>}
                                           \cup ({"declined"} \X (x.pair \ {x.by}))
         \/ x.state = "accepted" /\ w \in Gone(x, kn) \cup ({"unfriended"} \X x.pair)
  PROVE  Tells(y, kn, Append(s, w))
<1>1. /\ y.state = "removed" /\ y.by = x.by /\ y.pair = x.pair
      /\ Asked(y) = Asked(x) /\ Gone(y, kn) = Gone(x, kn)
  BY Restated
<1>2. CASE x.state = "pending"
  <2>1. s = <<Asked(x)>>
    BY Zenon, <1>2 DEF Tells
  <2>2. w \in Gone(y, kn) \cup {<<"withdrawn", y.by>>} \cup ({"declined"} \X (y.pair \ {y.by}))
    BY Zenon, <1>1, <1>2
  <2>3. QED
    BY Zenon, <1>1, <2>1, <2>2 DEF Tells
<1>3. CASE x.state = "accepted"
  <2>1. PICK p \in x.pair \ {x.by} : s = Append(<<Asked(x)>>, <<"accepted", p>>)
    BY Zenon, <1>3 DEF Tells
  <2>2. PICK u, v : u = Asked(x) /\ v = <<"accepted", p>>
    BY Zenon
  <2>3. Append(Append(<<u>>, v), w) = <<u>> \o <<v, w>>
    OBVIOUS
  <2>4. Append(s, w) = <<Asked(y)>> \o <<<<"accepted", p>>, w>>
    BY Zenon, <1>1, <2>1, <2>2, <2>3
  <2>5. p \in y.pair \ {y.by} /\ w \in Gone(y, kn) \cup ({"unfriended"} \X y.pair)
    BY Zenon, <1>1, <1>3, <2>1
  <2>6. QED
    BY Zenon, <1>1, <2>4, <2>5 DEF Tells
<1>4. QED
  BY Zenon, <1>2, <1>3

\* Deletions only add to what may be told.
LEMMA TellsWithFewer ==
  ASSUME NEW x, NEW kn, NEW fewer \in SUBSET kn, NEW s, Tells(x, kn, s)
  PROVE  Tells(x, fewer, s)
<1>1. Gone(x, kn) \subseteq Gone(x, fewer)
  BY Zenon DEF Gone
<1>2. QED
  BY Zenon, <1>1 DEF Tells

\* Nothing but a call of request moves.
LEMMA AskMoves ==
  ASSUME FriendsInv, UNCHANGED <<known, edge, edges, grave, broom, told>>,
         ask' \in [Ask -> AskState], Asking'
  PROVE  FriendsInv'
<1>1. GraphTypes' /\ Rowed'
  BY Zenon DEF FriendsInv, GraphTypes, Rowed, F!Edge
<1>2. Graves' /\ Telling'
  BY Zenon DEF FriendsInv, Graves, F!There, Telling, F!Edge
<1>3. QED
  BY Zenon, <1>1, <1>2 DEF FriendsInv

\* One call of request moves to pc, or ends.
LEMMA CallGoes ==
  ASSUME FriendsInv, NEW a \in Ask
  PROVE  /\ F!End(a) => ask' \in [Ask -> AskState] /\ Asking'
         /\ \A pc \in {"locked", "guarded", "inserted", "conflict", "missed", "gone"} :
              ask[a].pc # "idle" /\ F!Goto(a, pc) => ask' \in [Ask -> AskState] /\ Asking'
<1>1. ask \in [Ask -> AskState] /\ Asking
  BY Zenon DEF FriendsInv, GraphTypes
<1>2. ASSUME F!End(a) PROVE ask' \in [Ask -> AskState] /\ Asking'
  <2>1. F!NoAsk \in AskState /\ F!NoAsk.pc = "idle"
    BY Zenon DEF AskState, F!NoAsk
  <2>2. ask' = [ask EXCEPT ![a] = F!NoAsk]
    BY Zenon, <1>2 DEF F!End
  <2>3. QED
    BY Zenon, <1>1, <2>1, <2>2 DEF Asking
<1>3. ASSUME NEW pc \in {"locked", "guarded", "inserted", "conflict", "missed", "gone"},
             ask[a].pc # "idle", F!Goto(a, pc)
      PROVE  ask' \in [Ask -> AskState] /\ Asking'
  <2>1. PICK y : y = [ask[a] EXCEPT !.pc = pc]
    BY Zenon
  <2>2. y \in AskState /\ y.me = ask[a].me /\ y.you = ask[a].you
    BY Zenon, <1>1, <2>1 DEF AskState
  <2>3. ask' = [ask EXCEPT ![a] = y]
    BY Zenon, <1>1, <1>3, <2>1 DEF F!Goto
  <2>4. QED
    BY Zenon, <1>1, <1>3, <2>2, <2>3 DEF Asking
<1>4. QED
  BY Zenon, <1>2, <1>3

\* One row is inserted or changes, and its event is told.
LEMMA EdgeMoves ==
  ASSUME FriendsInv, NEW e \in F!Edge, e \notin F!Swept, NEW y \in EdgeRow, Couple(y),
         edge' = [edge EXCEPT ![e] = y], NEW s, told' = [told EXCEPT ![e] = s],
         Tells(y, known, s), y.state # "none",
         edges' \in Nat, edges' <= MaxEdge, edges <= edges', e <= edges',
         UNCHANGED <<known, grave, broom>>, ask' \in [Ask -> AskState], Asking'
  PROVE  FriendsInv'
<1>1. GraphTypes /\ Rowed /\ Graves /\ Telling
  BY Zenon DEF FriendsInv
<1>2. /\ edge'[e] = y /\ told'[e] = s
      /\ \A d \in F!Edge \ {e} : edge'[d] = edge[d] /\ told'[d] = told[d]
  BY Zenon, <1>1 DEF GraphTypes
<1>3. told' = [d \in F!Edge |-> told'[d]]
  BY Zenon, <1>1 DEF GraphTypes
<1>4. edge' \in [F!Edge -> EdgeRow]
  BY Zenon, <1>1 DEF GraphTypes
<1>5. GraphTypes'
  BY Zenon, <1>1, <1>3, <1>4 DEF GraphTypes, F!Edge
<1>6. \A d \in F!Edge : d \in Int
  BY DEF F!Edge
<1>7. ASSUME NEW d \in F!Edge
      PROVE  /\ d > edges' => edge'[d].state = "none"
             /\ edge'[d].state # "none" => Couple(edge'[d])
  <2>1. CASE d = e
    BY <1>2, <1>6, <2>1
  <2>2. CASE d # e
    <3>1. d > edges' => d > edges
      BY <1>1, <1>6 DEF GraphTypes
    <3>2. QED
      BY Zenon, <1>1, <1>2, <2>2, <3>1 DEF Rowed
  <2>3. QED
    BY Zenon, <2>1, <2>2
<1>8. Rowed'
  BY Zenon, <1>7 DEF Rowed, Couple, F!Edge
<1>9. \A r \in broom.rows : r[1] \in F!Edge \ {e}
  BY Zenon, <1>1 DEF GraphTypes, F!Swept
<1>10. Graves'
  BY Zenon, <1>1, <1>2, <1>9 DEF Graves, F!There
<1>11. \A d \in F!Edge : Tells(edge'[d], known', told'[d])
  BY Zenon, <1>1, <1>2 DEF Telling
<1>12. Telling'
  BY Zenon, <1>11 DEF Telling, F!Edge
<1>13. QED
  BY Zenon, <1>5, <1>8, <1>10, <1>12 DEF FriendsInv

\* request before its last statement: the calls that only move.
LEMMA AskStepKeeps ==
  ASSUME FriendsInv, NEW a \in Ask,
         \/ F!Lock_requester(a) \/ F!Guard(a) \/ F!Insert_pending(a) \/ F!Find_pair(a)
         \/ F!Rollback(a)
  PROVE  FriendsInv'
<1>1. UNCHANGED <<known, edge, edges, grave, broom, told>>
  BY Zenon DEF F!Lock_requester, F!Guard, F!Insert_pending, F!Find_pair, F!Rollback, F!AskFrame
<1>2. \/ F!End(a)
      \/ /\ ask[a].pc # "idle"
         /\ \E pc \in {"locked", "guarded", "inserted", "conflict", "missed", "gone"} : F!Goto(a, pc)
  BY Zenon DEF F!Lock_requester, F!Guard, F!Insert_pending, F!Find_pair, F!Rollback
<1>3. ask' \in [Ask -> AskState] /\ Asking'
  BY Zenon, <1>2, CallGoes
<1>4. QED
  BY Zenon, <1>1, <1>3, AskMoves

\* request begins.
LEMMA RequestKeeps ==
  ASSUME FriendsInv, NEW a \in Ask, NEW me \in Player, NEW you \in Player, F!Begin_request(a, me, you)
  PROVE  FriendsInv'
<1>1. PICK y : y = [pc |-> "found", me |-> me, you |-> you]
  BY Zenon
<1>2. y \in AskState /\ y.me = me /\ y.you = you
  BY Zenon, <1>1 DEF AskState
<1>3. /\ me # you /\ ask' = [ask EXCEPT ![a] = y]
      /\ UNCHANGED <<known, edge, edges, grave, broom, told>>
  BY Zenon, <1>1 DEF F!Begin_request, F!AskFrame
<1>4. ask \in [Ask -> AskState] /\ Asking
  BY Zenon DEF FriendsInv, GraphTypes
<1>5. ask' \in [Ask -> AskState] /\ Asking'
  BY Zenon, <1>2, <1>3, <1>4 DEF Asking
<1>6. QED
  BY Zenon, <1>3, <1>5, AskMoves

\* commit_new_request: a row and its friend.requested.
LEMMA CommitRequestKeeps ==
  ASSUME MaxEdge \in Nat, FriendsInv, NEW a \in Ask, F!Commit_new_request(a)
  PROVE  FriendsInv'
<1> DEFINE e == edges + 1
<1>1. /\ ask[a].pc = "inserted" /\ F!End(a) /\ edges < MaxEdge
      /\ UNCHANGED <<known, grave, broom>>
  BY Zenon DEF F!Commit_new_request
<1>2. ask' \in [Ask -> AskState] /\ Asking'
  BY Zenon, <1>1, CallGoes
<1>3. CASE UNCHANGED <<edge, edges, told>>
  BY Zenon, <1>1, <1>2, <1>3, AskMoves
<1>4. CASE /\ edge' = [edge EXCEPT ![e] = [pair |-> F!Pair(a), by |-> ask[a].me, state |-> "pending"]]
           /\ edges' = e
           /\ F!Tell(e, "requested", ask[a].me)
  <2>1. GraphTypes /\ Rowed /\ Graves /\ Telling
    BY Zenon DEF FriendsInv
  <2>2. e \in F!Edge /\ e > edges /\ e \in Nat /\ e <= MaxEdge /\ edges <= e
    BY <1>1, <2>1 DEF GraphTypes, F!Edge
  <2>3. edge[e].state = "none"
    BY Zenon, <2>1, <2>2 DEF Rowed
  <2>4. e \notin F!Swept
    BY Zenon, <2>1, <2>3 DEF Graves, F!There, F!Swept
  <2>5. told[e] = <<>>
    BY Zenon, <2>1, <2>2, <2>3 DEF Telling, Tells
  <2>6. PICK y : y = [pair |-> F!Pair(a), by |-> ask[a].me, state |-> "pending"]
    BY Zenon
  <2>7. ask[a].me \in Player /\ ask[a].you \in Player /\ ask[a].me # ask[a].you
    BY Zenon, <1>1 DEF FriendsInv, Asking
  <2>8. /\ y \in EdgeRow /\ y.state = "pending" /\ y.by = ask[a].me
        /\ y.pair = {ask[a].me, ask[a].you}
    BY Zenon, <2>6, <2>7 DEF EdgeRow, F!Pair
  <2>9. Couple(y)
    BY Zenon, <2>7, <2>8 DEF Couple
  <2>10. told' = [told EXCEPT ![e] = <<Asked(y)>>]
    <3>1. PICK u : u = <<"requested", ask[a].me>>
      BY Zenon
    <3>2. Append(<<>>, u) = <<u>>
      OBVIOUS
    <3>3. Asked(y) = u
      BY Zenon, <2>8, <3>1 DEF Asked
    <3>4. told' = [told EXCEPT ![e] = Append(told[e], u)]
      BY Zenon, <1>4, <2>1, <2>2, <3>1 DEF F!Tell, GraphTypes
    <3>5. QED
      BY Zenon, <2>5, <3>2, <3>3, <3>4
  <2>11. Tells(y, known, <<Asked(y)>>)
    BY Zenon, <2>8 DEF Tells
  <2>12. /\ edge' = [edge EXCEPT ![e] = y] /\ y.state # "none"
         /\ edges' \in Nat /\ edges' <= MaxEdge /\ edges <= edges' /\ e <= edges'
    BY <1>4, <2>2, <2>6, <2>8
  <2>13. QED
    BY Zenon, <1>1, <1>2, <2>2, <2>4, <2>8, <2>9, <2>10, <2>11, <2>12, EdgeMoves
<1>5. QED
  BY Zenon, <1>3, <1>4 DEF F!Commit_new_request

\* A row that is there changes its state, and the event that says so is told.
LEMMA RowChanges ==
  ASSUME FriendsInv, NEW e \in F!Edge, e \notin F!Swept, F!There(e),
         NEW k \in {"accepted", "removed"}, NEW w,
         edge' = [edge EXCEPT ![e].state = k], told' = [told EXCEPT ![e] = Append(@, w)],
         Tells([edge[e] EXCEPT !.state = k], known, Append(told[e], w)),
         UNCHANGED <<known, edges, grave, broom>>, ask' \in [Ask -> AskState], Asking'
  PROVE  FriendsInv'
<1>1. GraphTypes /\ Rowed
  BY Zenon DEF FriendsInv
<1>2. PICK y : y = [edge[e] EXCEPT !.state = k]
  BY Zenon
<1>3. edge[e] \in EdgeRow /\ Couple(edge[e])
  BY Zenon, <1>1 DEF GraphTypes, Rowed, F!There
<1>4. y \in EdgeRow /\ y.state = k /\ Couple(y)
  BY <1>2, <1>3, Restated
<1>5. /\ edge' = [edge EXCEPT ![e] = y]
      /\ told' = [told EXCEPT ![e] = Append(told[e], w)]
  BY Zenon, <1>1, <1>2 DEF GraphTypes
<1>6. Tells(y, known, Append(told[e], w))
  BY Zenon, <1>2
<1>7. /\ edges' \in Nat /\ edges' <= MaxEdge /\ edges <= edges' /\ e <= edges'
  <2>1. ~(e > edges)
    BY Zenon, <1>1 DEF Rowed, F!There
  <2>2. e \in Int
    BY DEF F!Edge
  <2>3. edges \in Nat /\ edges' = edges /\ edges <= MaxEdge
    BY Zenon, <1>1 DEF GraphTypes
  <2>4. QED
    BY <2>1, <2>2, <2>3
<1>8. PICK s : s = Append(told[e], w)
  BY Zenon
<1>9. y.state # "none"
  BY Zenon, <1>4
<1>10. QED
  BY Zenon, <1>4, <1>5, <1>6, <1>7, <1>8, <1>9, EdgeMoves

\* An acceptance, whichever statement makes it.
LEMMA AcceptanceKeeps ==
  ASSUME FriendsInv, NEW e \in F!Edge, e \notin F!Swept, edge[e].state = "pending",
         NEW me \in edge[e].pair \ {edge[e].by},
         edge' = [edge EXCEPT ![e].state = "accepted"], F!Tell(e, "accepted", me),
         UNCHANGED <<known, edges, grave, broom>>, ask' \in [Ask -> AskState], Asking'
  PROVE  FriendsInv'
<1>1. PICK y : y = [edge[e] EXCEPT !.state = "accepted"]
  BY Zenon
<1>2. edge[e] \in EdgeRow /\ Tells(edge[e], known, told[e])
  BY Zenon DEF FriendsInv, GraphTypes, Telling
<1>3. PICK w : w = <<"accepted", me>>
  BY Zenon
<1>4. Tells(y, known, Append(told[e], w))
  BY Zenon, <1>1, <1>2, <1>3, AcceptanceTells
<1>5. F!There(e) /\ told' = [told EXCEPT ![e] = Append(@, w)]
  BY Zenon, <1>3 DEF F!There, F!Tell
<1>6. Tells([edge[e] EXCEPT !.state = "accepted"], known, Append(told[e], w))
  BY Zenon, <1>1, <1>4
<1>7. QED
  BY Zenon, <1>5, <1>6, RowChanges

\* accept_crossing_tx: the row of the pair is the other player's request, or the call
\* goes on.
LEMMA CrossingKeeps ==
  ASSUME FriendsInv, NEW a \in Ask, F!Accept_crossing(a)
  PROVE  FriendsInv'
<1>1. /\ ask[a].pc = "conflict" /\ ~F!Sweeping(a) /\ UNCHANGED <<known, edges, grave, broom>>
  BY Zenon DEF F!Accept_crossing
<1>2. CASE F!Goto(a, "missed") /\ UNCHANGED <<edge, told>>
  BY Zenon, <1>1, <1>2, CallGoes, AskMoves
<1>3. ASSUME NEW e \in F!Between(ask[a].me, ask[a].you), F!Crosses(a, e),
             edge' = [edge EXCEPT ![e].state = "accepted"],
             F!Tell(e, "accepted", ask[a].me), F!End(a)
      PROVE  FriendsInv'
  <2>1. e \in F!Edge /\ edge[e].pair = {ask[a].me, ask[a].you}
    BY Zenon DEF F!Between
  <2>2. e \notin F!Swept
    BY Zenon, <1>1, <2>1 DEF F!Sweeping, F!Pair
  <2>3. edge[e].state = "pending" /\ ask[a].me \in edge[e].pair \ {edge[e].by}
    BY Zenon, <1>3, <2>1 DEF F!Crosses
  <2>4. ask' \in [Ask -> AskState] /\ Asking'
    BY Zenon, <1>3, CallGoes
  <2>5. PICK me : me = ask[a].me
    BY Zenon
  <2>6. QED
    BY Zenon, <1>1, <1>3, <2>1, <2>2, <2>3, <2>4, <2>5, AcceptanceKeeps
<1>4. QED
  BY Zenon, <1>2, <1>3 DEF F!Accept_crossing

\* accept.
LEMMA AcceptKeeps ==
  ASSUME FriendsInv, NEW me \in Player, NEW e \in F!Edge, F!Accept(me, e)
  PROVE  FriendsInv'
<1>1. /\ e \notin F!Swept /\ edge[e].state = "pending" /\ me \in edge[e].pair \ {edge[e].by}
      /\ edge' = [edge EXCEPT ![e].state = "accepted"] /\ F!Tell(e, "accepted", me)
      /\ UNCHANGED <<known, edges, grave, broom>> /\ UNCHANGED ask
  BY Zenon DEF F!Accept, F!Consents, F!Held
<1>2. ask' \in [Ask -> AskState] /\ Asking'
  BY Zenon, <1>1 DEF FriendsInv, GraphTypes, Asking
<1>3. QED
  BY Zenon, <1>1, <1>2, AcceptanceKeeps

\* A row is deleted for a reason that its state allows.
LEMMA DropKeeps ==
  ASSUME FriendsInv, NEW me, NEW e \in F!Edge, NEW why, F!Held(e), F!Drop(e, me, why),
         \/ edge[e].state = "pending" /\ <<why, me>> \in {<<"withdrawn", edge[e].by>>}
                                            \cup ({"declined"} \X (edge[e].pair \ {edge[e].by}))
         \/ edge[e].state = "accepted" /\ <<why, me>> \in {"unfriended"} \X edge[e].pair
  PROVE  FriendsInv'
<1>1. /\ e \notin F!Swept /\ F!There(e)
      /\ edge' = [edge EXCEPT ![e].state = "removed"] /\ F!Tell(e, why, me)
      /\ UNCHANGED <<known, edges, grave, broom>> /\ UNCHANGED ask
  BY Zenon DEF F!Held, F!Drop
<1>2. ask' \in [Ask -> AskState] /\ Asking'
  BY Zenon, <1>1 DEF FriendsInv, GraphTypes, Asking
<1>3. edge[e] \in EdgeRow /\ Tells(edge[e], known, told[e])
  BY Zenon DEF FriendsInv, GraphTypes, Telling
<1>4. PICK w : w = <<why, me>>
  BY Zenon
<1>5. PICK y : y = [edge[e] EXCEPT !.state = "removed"]
  BY Zenon
<1>6. \/ edge[e].state = "pending" /\ w \in Gone(edge[e], known) \cup {<<"withdrawn", edge[e].by>>}
                                           \cup ({"declined"} \X (edge[e].pair \ {edge[e].by}))
      \/ edge[e].state = "accepted" /\ w \in Gone(edge[e], known) \cup ({"unfriended"} \X edge[e].pair)
  BY Zenon, <1>4
<1>7. Tells(y, known, Append(told[e], w))
  BY Zenon, <1>3, <1>5, <1>6, EndTells
<1>8. Tells([edge[e] EXCEPT !.state = "removed"], known, Append(told[e], w))
  BY Zenon, <1>5, <1>7
<1>9. told' = [told EXCEPT ![e] = Append(@, w)]
  BY Zenon, <1>1, <1>4 DEF F!Tell
<1>10. QED
  BY Zenon, <1>1, <1>2, <1>8, <1>9, RowChanges

\* decline and remove.
LEMMA RemovalKeeps ==
  ASSUME FriendsInv, NEW me \in Player, NEW e \in F!Edge, F!Decline(me, e) \/ F!Remove(me, e)
  PROVE  FriendsInv'
<1>1. CASE F!Decline(me, e)
  <2>1. /\ F!Held(e) /\ F!Drop(e, me, "declined") /\ edge[e].state = "pending"
        /\ <<"declined", me>> \in {"declined"} \X (edge[e].pair \ {edge[e].by})
    BY Zenon, <1>1 DEF F!Decline, F!Consents
  <2>2. QED
    BY Zenon, <2>1, DropKeeps
<1>2. CASE F!Remove(me, e)
  <2>1. PICK why : why = F!Reason(me, e)
    BY Zenon
  <2>2. F!Held(e) /\ me \in edge[e].pair /\ F!Drop(e, me, why)
    BY Zenon, <1>2, <2>1 DEF F!Remove
  <2>3. CASE edge[e].state = "accepted"
    <3>1. <<why, me>> \in {"unfriended"} \X edge[e].pair
      BY Zenon, <2>1, <2>2, <2>3 DEF F!Reason
    <3>2. QED
      BY Zenon, <2>2, <2>3, <3>1, DropKeeps
  <2>4. CASE edge[e].state = "pending"
    <3>1. <<why, me>> \in {<<"withdrawn", edge[e].by>>}
                             \cup ({"declined"} \X (edge[e].pair \ {edge[e].by}))
      BY Zenon, <2>1, <2>2, <2>4 DEF F!Reason
    <3>2. QED
      BY Zenon, <2>2, <2>4, <3>1, DropKeeps
  <2>5. QED
    BY Zenon, <2>2, <2>3, <2>4 DEF F!Held, F!There
<1>3. QED
  BY Zenon, <1>1, <1>2

\* A player is deleted, and the tombstone planted.
LEMMA DeletionKeeps ==
  ASSUME FriendsInv, NEW p \in Player, F!Delete_player(p) \/ F!Plant_purged_player(p)
  PROVE  FriendsInv'
<1>1. /\ known' \subseteq known
      /\ grave' \in [Player -> {"none", "planted", "swept"}]
      /\ \A q \in Player : grave'[q] # "none" => grave[q] # "none" \/ q \notin known'
      /\ UNCHANGED <<edge, edges, ask, broom, told>>
  BY Zenon DEF FriendsInv, GraphTypes, F!Delete_player, F!Plant_purged_player
<1>2. GraphTypes' /\ Rowed' /\ Asking'
  BY Zenon, <1>1 DEF FriendsInv, GraphTypes, Rowed, Asking, F!Edge
<1>3. Graves'
  BY Zenon, <1>1 DEF FriendsInv, Graves, F!There
<1>4. \A e \in F!Edge : Tells(edge[e], known', told[e])
  BY Zenon, <1>1, TellsWithFewer DEF FriendsInv, Telling
<1>5. Telling'
  BY Zenon, <1>1, <1>4 DEF Telling, F!Edge
<1>6. QED
  BY Zenon, <1>2, <1>3, <1>5 DEF FriendsInv

\* Nothing but the sweep's working state moves.
LEMMA BroomMoves ==
  ASSUME FriendsInv, UNCHANGED <<known, edge, edges, grave, ask, told>>,
         broom' \in [done: SUBSET Player, rows: SUBSET (F!Edge \X Player)],
         \A p \in broom'.done : p \notin known,
         \A r \in broom'.rows : F!There(r[1]) /\ r[2] \in edge[r[1]].pair \ known
  PROVE  FriendsInv'
<1>1. GraphTypes' /\ Rowed' /\ Asking'
  BY Zenon DEF FriendsInv, GraphTypes, Rowed, Asking, F!Edge
<1>2. Graves'
  BY Zenon DEF FriendsInv, Graves, F!There
<1>3. Telling'
  BY Zenon DEF FriendsInv, Telling, F!Edge
<1>4. QED
  BY Zenon, <1>1, <1>2, <1>3 DEF FriendsInv

\* purge_edges_tx for one player.
LEMMA PurgeEdgesKeeps ==
  ASSUME FriendsInv, NEW p \in Player, F!Purge_edges(p)
  PROVE  FriendsInv'
<1>1. PICK rows : rows = broom.rows \cup ((F!Of(p) \ F!Swept) \X {p})
  BY Zenon
<1>2. /\ grave[p] = "planted" /\ broom' = [done |-> broom.done \cup {p}, rows |-> rows]
      /\ UNCHANGED <<known, edge, edges, grave, ask, told>>
  BY Zenon, <1>1 DEF F!Purge_edges
<1>3. GraphTypes /\ Graves /\ p \notin known
  BY Zenon, <1>2 DEF FriendsInv, Graves
<1>4. \A e \in F!Of(p) : e \in F!Edge /\ F!There(e) /\ p \in edge[e].pair
  BY Zenon DEF F!Of
<1>5. broom.rows \subseteq F!Edge \X Player /\ broom.done \subseteq Player
  BY Zenon, <1>3 DEF GraphTypes
<1>6. \A r \in rows : /\ r \in F!Edge \X Player
                      /\ F!There(r[1]) /\ r[2] \in edge[r[1]].pair \ known
  BY Zenon, <1>1, <1>3, <1>4, <1>5 DEF Graves
<1>7. /\ broom' \in [done: SUBSET Player, rows: SUBSET (F!Edge \X Player)]
      /\ broom'.done = broom.done \cup {p} /\ broom'.rows = rows
  BY Zenon, <1>2, <1>5, <1>6
<1>8. \A q \in broom'.done : q \notin known
  BY Zenon, <1>3, <1>5, <1>7 DEF Graves
<1>9. QED
  BY Zenon, <1>2, <1>6, <1>7, <1>8, BroomMoves

\* The sweep gives up.
LEMMA FriendsSweepFails ==
  ASSUME FriendsInv, F!SweepFails
  PROVE  FriendsInv'
<1>1. /\ broom' \in [done: SUBSET Player, rows: SUBSET (F!Edge \X Player)]
      /\ broom'.done = {} /\ broom'.rows = {}
      /\ UNCHANGED <<known, edge, edges, grave, ask, told>>
  BY Zenon DEF F!SweepFails, F!NoBroom
<1>2. QED
  BY Zenon, <1>1, BroomMoves

\* The sweep commits: every row it deleted is told once, of a player who is gone.
LEMMA FriendsSweepKeeps ==
  ASSUME FriendsInv, F!SweepCommit
  PROVE  FriendsInv'
<1>1. GraphTypes /\ Rowed /\ Asking /\ Graves /\ Telling
  BY Zenon DEF FriendsInv
<1>2. /\ broom' \in [done: SUBSET Player, rows: SUBSET (F!Edge \X Player)]
      /\ broom'.done = {} /\ broom'.rows = {}
      /\ UNCHANGED <<known, edges, ask>>
  BY Zenon DEF F!SweepCommit, F!NoBroom
<1>3. /\ grave' \in [Player -> {"none", "planted", "swept"}]
      /\ \A p \in Player : grave'[p] # "none" => grave[p] # "none" \/ p \in broom.done
  BY Zenon, <1>1 DEF F!SweepCommit, GraphTypes
<1>4. ASSUME NEW e \in F!Edge
      PROVE  /\ edge'[e] \in EdgeRow
             /\ e > edges => edge'[e].state = "none"
             /\ edge'[e].state # "none" => Couple(edge'[e])
             /\ Tells(edge'[e], known', told'[e])
  <2>1. edge[e] \in EdgeRow /\ Tells(edge[e], known, told[e])
    BY Zenon, <1>1 DEF GraphTypes, Telling
  <2>2. CASE e \notin F!Swept
    <3>1. edge'[e] = edge[e] /\ told'[e] = told[e]
      BY Zenon, <2>2 DEF F!SweepCommit
    <3>2. QED
      BY Zenon, <1>1, <1>2, <2>1, <3>1 DEF Rowed
  <2>3. CASE e \in F!Swept
    <3>1. PICK p : p = CHOOSE q \in Player : <<e, q>> \in broom.rows
      BY Zenon
    <3>2. \E q \in Player : <<e, q>> \in broom.rows
      <4>1. PICK r \in broom.rows : r[1] = e
        BY Zenon, <2>3 DEF F!Swept
      <4>2. r \in F!Edge \X Player
        BY Zenon, <1>1 DEF GraphTypes
      <4>3. r[2] \in Player /\ r = <<e, r[2]>>
        BY <4>1, <4>2
      <4>4. QED
        BY Zenon, <4>1, <4>3
    <3>3. p \in Player /\ <<e, p>> \in broom.rows
      BY Zenon, <3>1, <3>2
    <3>4. F!There(e) /\ p \in edge[e].pair \ known
      BY Zenon, <1>1, <3>3 DEF Graves
    <3>5. PICK w : w = <<"account_deleted", p>>
      BY Zenon
    <3>6. PICK y : y = [edge[e] EXCEPT !.state = "removed"]
      BY Zenon
    <3>7. edge'[e] = y /\ told'[e] = Append(told[e], w)
      BY Zenon, <2>3, <3>1, <3>5, <3>6 DEF F!SweepCommit
    <3>8. w \in Gone(edge[e], known) /\ edge[e].state \in {"pending", "accepted"}
      BY Zenon, <3>4, <3>5 DEF Gone, F!There
    <3>9. Tells(y, known, Append(told[e], w))
      BY Zenon, <2>1, <3>6, <3>8, EndTells
    <3>10. y \in EdgeRow /\ (Couple(edge[e]) => Couple(y))
      BY <2>1, <3>6, Restated
    <3>11. Couple(edge[e]) /\ ~(e > edges)
      BY Zenon, <1>1, <3>8 DEF Rowed
    <3>12. QED
      BY Zenon, <1>2, <3>7, <3>9, <3>10, <3>11
  <2>4. QED
    BY Zenon, <2>2, <2>3
<1>5. edge' \in [F!Edge -> EdgeRow] /\ told' = [e \in F!Edge |-> told'[e]]
  <2> DEFINE X(e) == IF e \in F!Swept THEN [edge[e] EXCEPT !.state = "removed"] ELSE edge[e]
             T(e) == IF e \in F!Swept
                       THEN Append(told[e], <<"account_deleted",
                                              CHOOSE p \in Player : <<e, p>> \in broom.rows>>)
                       ELSE told[e]
  <2>1. edge' = [e \in F!Edge |-> X(e)] /\ told' = [e \in F!Edge |-> T(e)]
    BY Zenon DEF F!SweepCommit
  <2> HIDE DEF X, T
  <2>2. told' = [e \in F!Edge |-> told'[e]]
    BY Zenon, <2>1
  <2>3. edge' \in [F!Edge -> EdgeRow]
    BY Zenon, <1>4, <2>1
  <2>4. QED
    BY Zenon, <2>2, <2>3
<1>6. GraphTypes'
  BY Zenon, <1>1, <1>2, <1>3, <1>5 DEF GraphTypes, F!Edge
<1>7. Rowed' /\ Asking'
  BY Zenon, <1>1, <1>2, <1>4 DEF Rowed, Asking, Couple, F!Edge
<1>8. Graves'
  BY Zenon, <1>1, <1>2, <1>3 DEF Graves
<1>9. Telling'
  BY Zenon, <1>4 DEF Telling, F!Edge
<1>10. QED
  BY Zenon, <1>6, <1>7, <1>8, <1>9 DEF FriendsInv

\* No relation, no event.
LEMMA FriendsInitHolds ==
  ASSUME MaxEdge \in Nat, F!Init
  PROVE  FriendsInv
<1>1. F!NoEdge \in EdgeRow /\ F!NoEdge.state = "none"
  BY Zenon DEF F!NoEdge, EdgeRow
<1>2. F!NoAsk \in AskState /\ F!NoAsk.pc = "idle"
  BY Zenon DEF F!NoAsk, AskState
<1>3. GraphTypes
  BY <1>1, <1>2 DEF F!Init, GraphTypes, F!NoBroom
<1>4. Rowed /\ Asking
  BY Zenon, <1>1, <1>2 DEF F!Init, Rowed, Asking
<1>5. Graves
  BY Zenon DEF F!Init, Graves, F!NoBroom
<1>6. Telling
  BY Zenon, <1>1 DEF F!Init, Telling, Tells
<1>7. QED
  BY Zenon, <1>3, <1>4, <1>5, <1>6 DEF FriendsInv

\* One step, whichever it is.
LEMMA FriendsStepKeeps ==
  ASSUME MaxEdge \in Nat, FriendsInv, [F!Next]_F!vars
  PROVE  FriendsInv'
<1>1. ASSUME NEW a \in Ask, NEW me \in Player, NEW you \in Player, F!Begin_request(a, me, you)
      PROVE  FriendsInv'
  BY Zenon, <1>1, RequestKeeps
<1>2. ASSUME NEW a \in Ask, F!AskStep(a) \/ F!Rollback(a) PROVE FriendsInv'
  BY Zenon, <1>2, AskStepKeeps, CommitRequestKeeps, CrossingKeeps DEF F!AskStep
<1>3. ASSUME NEW me \in Player, NEW e \in F!Edge,
             F!Accept(me, e) \/ F!Decline(me, e) \/ F!Remove(me, e)
      PROVE  FriendsInv'
  BY Zenon, <1>3, AcceptKeeps, RemovalKeeps
<1>4. ASSUME NEW p \in Player,
             F!Delete_player(p) \/ F!Plant_purged_player(p) \/ F!Purge_edges(p)
      PROVE  FriendsInv'
  BY Zenon, <1>4, DeletionKeeps, PurgeEdgesKeeps
<1>5. ASSUME F!SweepCommit \/ F!SweepFails PROVE FriendsInv'
  BY Zenon, <1>5, FriendsSweepKeeps, FriendsSweepFails
<1>6. ASSUME UNCHANGED F!vars PROVE FriendsInv'
  <2>1. UNCHANGED <<known, edge, edges, grave, broom, told>> /\ UNCHANGED ask
    BY Zenon, <1>6 DEF F!vars
  <2>2. ask' \in [Ask -> AskState] /\ Asking'
    BY Zenon, <2>1 DEF FriendsInv, GraphTypes, Asking
  <2>3. QED
    BY Zenon, <2>1, <2>2, AskMoves
<1>7. QED
  BY Zenon, <1>1, <1>2, <1>3, <1>4, <1>5, <1>6 DEF F!Next

\* The inductive invariant of the friend graph: a row relates its author and another
\* player, the events of each edge tell its row, and a row that the sweep has deleted
\* stays as it is until the sweep commits.
THEOREM FriendsInvariant ==
  F!Spec => []FriendsInv
<1>1. F!Init => FriendsInv
  BY Zenon, FriendsInitHolds, DomainsAssumption
<1>2. FriendsInv /\ [F!Next]_F!vars => FriendsInv'
  BY Zenon, FriendsStepKeeps, DomainsAssumption
<1>3. QED
  BY <1>1, <1>2, PTL DEF F!Spec

\* The events alone tell the friend graph (request, accept, decline, remove and
\* sweep_purged_players): one request by its author, at most one acceptance, by the
\* other player, and one removal with its reason.
THEOREM EventsTellGraph ==
  F!Spec => []EventsTellTheGraph
<1>1. ASSUME FriendsInv PROVE EventsTellTheGraph
  <2> SUFFICES ASSUME NEW e \in F!Edge PROVE told[e] \in F!Story(e)
    BY Zenon DEF EventsTellTheGraph, F!EventsTellTheGraph
  <2>1. Tells(edge[e], known, told[e])
    BY Zenon, <1>1 DEF FriendsInv, Telling
  <2>2. edge[e].state \in {"none", "pending", "accepted", "removed"}
    BY Zenon, <1>1 DEF FriendsInv, GraphTypes, EdgeRow
  <2>3. CASE edge[e].state = "none"
    BY Zenon, <2>1, <2>3 DEF Tells, F!Story
  <2>4. CASE edge[e].state = "pending"
    BY Zenon, <2>1, <2>4 DEF Tells, Asked, F!Story
  <2>5. CASE edge[e].state = "accepted"
    BY Zenon, <2>1, <2>5 DEF Tells, Asked, F!Story
  <2>6. CASE edge[e].state = "removed"
    <3>1. CASE \E w \in Gone(edge[e], known) \cup {<<"withdrawn", edge[e].by>>}
                           \cup ({"declined"} \X (edge[e].pair \ {edge[e].by})) :
                 told[e] = Append(<<Asked(edge[e])>>, w)
      BY Zenon, <2>6, <3>1 DEF Asked, Gone, F!Story
    <3>2. CASE \E p \in edge[e].pair \ {edge[e].by},
                  w \in Gone(edge[e], known) \cup ({"unfriended"} \X edge[e].pair) :
                 told[e] = <<Asked(edge[e])>> \o <<<<"accepted", p>>, w>>
      <4>1. PICK p \in edge[e].pair \ {edge[e].by},
                 w \in Gone(edge[e], known) \cup ({"unfriended"} \X edge[e].pair) :
                   told[e] = <<Asked(edge[e])>> \o <<<<"accepted", p>>, w>>
        BY Zenon, <3>2
      <4>2. PICK y : y = <<<<"accepted", p>>, w>>
        BY Zenon
      <4>3. /\ told[e] = <<Asked(edge[e])>> \o y
            /\ y \in ({"accepted"} \X (edge[e].pair \ {edge[e].by}))
                      \X (Gone(edge[e], known) \cup ({"unfriended"} \X edge[e].pair))
        BY Zenon, <4>1, <4>2
      <4>4. QED
        BY Zenon, <2>6, <4>3 DEF Asked, Gone, F!Story
    <3>3. QED
      BY Zenon, <2>1, <2>6, <3>1, <3>2 DEF Tells
  <2>7. QED
    BY Zenon, <2>2, <2>3, <2>4, <2>5, <2>6
<1>2. F!Spec => []FriendsInv
  BY Zenon, FriendsInvariant
<1>3. QED
  BY <1>1, <1>2, PTL
=============================================================================
