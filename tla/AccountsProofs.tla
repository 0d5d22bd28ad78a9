--------------------------- MODULE AccountsProofs ---------------------------
(***************************************************************************)
(* Accounts for every number of players, handles, identities, tokens and   *)
(* concurrent requests.                                                    *)
(***************************************************************************)
EXTENDS Accounts, TLAPS

\* The player's advisory lock is held in these states.
Locking == {"linkp", "linki", "link", "delete", "deleting"}

Stage == {"idle", "known", "verified", "locked", "new", "linking", "rotating", "replay",
          "kill", "killing", "confirmed"} \cup Locking

Request ==
  [pc: Stage, p: Player \cup {None}, i: Identity \cup {None},
   t: 0..(MaxToken + MaxTicket), seen: SUBSET (Identity \cup Tok)]

\* Requests have their type.
RequestsFit == req \in [Req -> Request]

\* What a request remembers of the tables it has read, or has locked.
Recalls(x) ==
  /\ x.pc \in {"known", "linking", "confirmed"} \cup Locking => x.p \in minted
  /\ x.pc \in {"verified", "locked", "new", "linking", "linkp", "linki", "link"}
       => x.i \in Identity
  /\ x.pc \in {"confirmed", "delete", "deleting"} => x.t \in 1..MaxTicket
  /\ x.pc = "deleting" => x.p \in alive
  /\ x.pc = "link" => x.seen = Real(x.p)
  /\ x.pc = "replay" => x.p \in Player /\ x.t \in Tok
  /\ x.pc = "rotating" => x.t \in Tok /\ token[x.t].state = "fresh"
  /\ x.pc \in {"kill", "killing"} =>
       /\ x.t \in Tok /\ x.seen \subseteq 1..issued
       /\ \A v \in x.seen : token[v].family \in {0, x.t}
       /\ \A u \in Family(x.t) \ x.seen, v \in x.seen : v < u

Remembers(r) == Recalls(req[r])

RequestsRemember == \A r \in Req : Remembers(r)

\* The advisory lock of a player and the row lock of a token have one holder.
LocksApart ==
  \A r, q \in Req : r # q =>
    /\ req[r].pc \in Locking /\ req[q].pc \in Locking => req[r].p # req[q].p
    /\ \A t \in Tok : ~(HoldsToken(req[r], t) /\ HoldsToken(req[q], t))

\* Who exists: the handles, the tickets and the events of each player.
PeopleInv ==
  /\ HandlesAreForever
  /\ \A p \in minted : handle[p] \in Handle
  /\ live \subseteq alive
  /\ \A p \in Player : ticket[p] # 0 => p \in alive
  /\ \A p \in minted : /\ deleted[p] = IF p \in alive THEN 0 ELSE 1
                       /\ p \notin alive => receipt[p] # 0
  /\ \A p \in Player \ minted : deleted[p] = 0 /\ promoted[p] = 0

\* Who is a guest: everybody else has a real identity from the start.
PromotionInv ==
  /\ PromotedOnce
  /\ \A p \in alive \ guests : Real(p) # {}

\* A refresh token is part of a line that grows at its end.
TokenInv ==
  /\ \A t \in Tok :
       /\ token[t].state = "none" => token[t] = NoToken
       /\ token[t].state # "none" => /\ t <= issued /\ token[t].of \in alive
                                     /\ token[t].family \in 1..t
       /\ token[t].state \in {"used", "late"} => token[t].next \in (t + 1)..issued
  /\ \A t, u \in Tok : token[t].family # 0 /\ token[u].family = token[t].family
                         => token[u].of = token[t].of
  /\ FamilyIsALine

\* TypeOK, table by table.
PeopleType ==
  /\ alive \subseteq minted /\ minted \subseteq Player /\ guests \subseteq minted
  /\ handle \in [Player -> Handle \cup {None}]
  /\ claim \in [Handle -> Player \cup {None, Reserved}]
  /\ owner \in [Identity -> alive \cup {None}]
  /\ drawn \subseteq Guest
  /\ promoted \in [Player -> Nat]

Refresh == [family: 0..MaxToken, of: Player \cup {None},
            state: {"none", "fresh", "used", "late"}, next: 0..MaxToken]

TokenType ==
  /\ token \in [Tok -> Refresh] /\ \A t \in Tok : token[t].of \in alive \cup {None}
  /\ issued \in 0..MaxToken /\ session \subseteq Tok \X alive /\ lapsed \subseteq Tok

ExitType ==
  /\ ticket \in [Player -> 0..MaxTicket] /\ receipt \in [Player -> 0..MaxTicket]
  /\ tickets \in 0..MaxTicket /\ live \subseteq Player
  /\ deleted \in [Player -> Nat]

Tables == /\ PeopleType /\ TokenType /\ ExitType
          /\ PeopleInv /\ PromotionInv /\ TokenInv

AccountsInv == Tables /\ RequestsFit /\ RequestsRemember /\ LocksApart

\* A step leaves what request q remembers as it is.
Keeps(q) ==
  /\ minted \subseteq minted' /\ issued <= issued'
  /\ req[q].pc = "deleting" => req[q].p \in alive'
  /\ req[q].pc = "link" => \A i \in Identity : owner'[i] = req[q].p <=> owner[i] = req[q].p
  /\ req[q].pc = "rotating" => token'[req[q].t].state = "fresh"
  /\ \A u \in Tok : token'[u].family = token[u].family \/ token'[u].family = 0 \/ u > issued

USE AccountsAssumption

\* Arithmetic of the counters.
LEMMA Counting ==
  /\ \A n \in Nat : n <= n /\ n <= n + 1 /\ n + 1 \in Nat /\ n + 1 # n /\ ~(n + 1 <= n)
  /\ \A m, n \in Nat : m <= n \/ m > n
  /\ 0..MaxToken \subseteq Nat /\ Tok \subseteq Nat /\ Tok \subseteq 0..MaxToken
  /\ \A t \in Tok : 1..t \subseteq Tok
  /\ \A n \in Nat : n < MaxToken => n + 1 \in Tok /\ n + 1 \in 0..MaxToken
  /\ Tok \subseteq 0..(MaxToken + MaxTicket) /\ 1..MaxTicket \subseteq 0..(MaxToken + MaxTicket)
  /\ 0 \in 0..(MaxToken + MaxTicket) /\ 0 \in 0..MaxToken /\ 0 \in 0..MaxTicket
  /\ 1..MaxTicket \subseteq 0..MaxTicket
  /\ 0 # 1 /\ 0 \in Nat /\ 1 \in Nat
  /\ \A t \in Tok : t # 0
BY DEF Tok

-------------------------------------------------------------------------------
(* Requests *)

\* What a request remembers stays true.
LEMMA KeptIsRemembered ==
  ASSUME AccountsInv, NEW q \in Req, Keeps(q), req'[q] = req[q], issued' \in Nat
  PROVE  Remembers(q)'
<1> DEFINE x == req[q]
<1>1. Remembers(q) /\ x \in Request /\ issued \in Nat
  BY Zenon, Counting DEF AccountsInv, RequestsRemember, RequestsFit, Tables, TokenType
<1>2. req[q].pc \in {"kill", "killing"} =>
       /\ req[q].t \in Tok /\ req[q].seen \subseteq 1..issued'
       /\ \A v \in req[q].seen : token'[v].family \in {0, req[q].t}
       /\ \A u \in (Family(req[q].t))' \ req[q].seen, v \in req[q].seen : v < u
  <2> SUFFICES ASSUME x.pc \in {"kill", "killing"}
               PROVE  /\ x.t \in Tok /\ x.seen \subseteq 1..issued'
                      /\ \A v \in x.seen : token'[v].family \in {0, x.t}
                      /\ \A u \in (Family(x.t))' \ x.seen, v \in x.seen : v < u
    BY Zenon
  <2>1. /\ x.t \in Tok /\ x.seen \subseteq 1..issued
        /\ \A v \in x.seen : token[v].family \in {0, x.t}
        /\ \A u \in Family(x.t) \ x.seen, v \in x.seen : v < u
    BY Zenon, <1>1 DEF Remembers, Recalls
  <2>2. \A u \in (Family(x.t))' : u \in Family(x.t) \/ u > issued
    BY Zenon DEF Keeps, Family
  <2>3. \A v \in x.seen : v \in Tok /\ ~(v > issued)
    BY <1>1, <2>1 DEF AccountsInv, Tables, TokenType, Tok
  <2>4. \A v \in x.seen : token'[v].family \in {0, x.t}
    BY Zenon, <2>1, <2>3 DEF Keeps
  <2>5. \A u \in (Family(x.t))' \ x.seen, v \in x.seen : v < u
    BY <1>1, <2>1, <2>2, <2>3 DEF Tok, Family
  <2>6. QED
    BY <1>1, <2>1, <2>4, <2>5 DEF Keeps
<1>3. x.pc = "link" => x.seen = {i \in Identity \ Guest : owner'[i] = x.p}
  BY Zenon, <1>1 DEF Remembers, Recalls, Keeps, Real
<1>4. QED
  BY <1>1, <1>2, <1>3 DEF Remembers, Recalls, Keeps, Real

\* One request moves, the step keeps what the others remember, and a lock it takes is
\* free.
LEMMA OneMoves ==
  ASSUME AccountsInv, NEW r \in Req, NEW rec \in Request,
         req' = [req EXCEPT ![r] = rec], issued' \in Nat,
         Remembers(r)', \A q \in Req \ {r} : Keeps(q),
         rec.pc \in Locking =>
           (req[r].pc \in Locking /\ req[r].p = rec.p) \/ ~PlayerLocked(rec.p),
         \A t \in Tok : HoldsToken(rec, t) => ~TokenLocked(t)
  PROVE  RequestsFit' /\ RequestsRemember' /\ LocksApart'
<1>1. req \in [Req -> Request] /\ LocksApart
  BY Zenon DEF AccountsInv, RequestsFit
<1>2. RequestsFit' /\ req'[r] = rec /\ \A q \in Req \ {r} : req'[q] = req[q]
  BY Zenon, <1>1 DEF RequestsFit
<1>3. RequestsRemember'
  BY Zenon, <1>2, KeptIsRemembered DEF RequestsRemember
<1>4. \A q \in Req \ {r} :
        /\ rec.pc \in Locking /\ req[q].pc \in Locking => rec.p # req[q].p
        /\ \A t \in Tok : ~(HoldsToken(rec, t) /\ HoldsToken(req[q], t))
  BY Zenon, <1>1 DEF LocksApart, PlayerLocked, TokenLocked, Locking
<1>5. QED
  BY Zenon, Counting, <1>1, <1>2, <1>3, <1>4 DEF LocksApart

\* No request moves.
LEMMA NoneMoves ==
  ASSUME AccountsInv, UNCHANGED req, issued' \in Nat, \A q \in Req : Keeps(q)
  PROVE  RequestsFit' /\ RequestsRemember' /\ LocksApart'
  BY Zenon, KeptIsRemembered DEF RequestsFit, RequestsRemember, LocksApart, AccountsInv

\* A step that writes no table.
LEMMA QuietTables ==
  ASSUME AccountsInv, UNCHANGED <<people, tokens, exits, promoted>>, drawn' \subseteq Guest
  PROVE  Tables' /\ (\A q \in Req : Keeps(q)) /\ issued' \in Nat
<1> USE DEF AccountsInv, people, tokens, exits
<1>1. PeopleType' /\ TokenType' /\ ExitType'
  BY Zenon DEF Tables, PeopleType, TokenType, ExitType
<1>2. PeopleInv' /\ PromotionInv'
  BY DEF Tables, PeopleInv, HandlesAreForever, PromotionInv, PromotedOnce, Real
<1>3. TokenInv'
  BY Zenon DEF Tables, TokenInv, FamilyIsALine, Family
<1>4. ASSUME NEW q \in Req
      PROVE  Keeps(q)
  <2>1. Remembers(q) /\ issued \in Nat
    BY Zenon, Counting DEF RequestsRemember, Tables, TokenType
  <2>2. QED
    BY Zenon, Counting, <2>1 DEF Keeps, Remembers, Recalls
<1>5. QED
  BY Zenon, Counting, <1>1, <1>2, <1>3, <1>4 DEF Tables, TokenType

-------------------------------------------------------------------------------
(* Tokens *)

\* issue_session_tx starts a line of its own.
LEMMA IssueTokens ==
  ASSUME TokenType, TokenInv, NEW p \in alive', alive \subseteq alive',
         alive' \subseteq Player, Issue_session(p)
  PROVE  /\ TokenType' /\ TokenInv' /\ issued' = issued + 1
         /\ \A u \in Tok : u <= issued => token'[u] = token[u]
<1> DEFINE n == issued + 1
           new == [family |-> n, of |-> p, state |-> "fresh", next |-> 0]
<1> n \in Tok /\ new \in Refresh /\ issued \in Nat
  BY Zenon, Counting DEF Issue_session, Left, TokenType, Tok, Refresh
<1>2. token' = [token EXCEPT ![n] = new] /\ issued' = n
  BY Zenon DEF Issue_session, Row
<1> /\ token'[n] = new /\ \A u \in Tok \ {n} : token'[u] = token[u]
    /\ token' \in [Tok -> Refresh] /\ issued' = n
  BY Zenon, <1>2 DEF TokenType
<1>4. TokenType'
  <2>1. \A t \in Tok : token'[t].of \in alive' \cup {None}
    BY DEF TokenType
  <2>2. session' \subseteq Tok \X alive' /\ UNCHANGED lapsed
    BY DEF TokenType, Issue_session
  <2>3. QED
    BY Zenon, Counting, <2>1, <2>2 DEF TokenType, Tok
<1>5. token[n] = NoToken
  BY Zenon, Counting DEF TokenInv
<1>6. \A u \in Tok \ {n} : token[u].family # n
  BY DEF TokenInv, NoToken, Row, Tok
<1>7. \A t \in Tok :
        /\ token'[t].state = "none" => token'[t] = NoToken
        /\ token'[t].state # "none" => /\ t <= issued' /\ token'[t].of \in alive'
                                       /\ token'[t].family \in 1..t
        /\ token'[t].state \in {"used", "late"} => token'[t].next \in (t + 1)..issued'
  BY DEF TokenInv, Tok
<1>8. \A t, u \in Tok : token'[t].family # 0 /\ token'[u].family = token'[t].family
                          => token'[u].of = token'[t].of
  BY <1>6 DEF TokenInv
<1>9. FamilyIsALine'
  <2>1. ASSUME NEW t \in Tok, token'[t].state = "fresh", NEW u \in Tok \ {t},
               token'[u].family = token'[t].family, token'[t].family # 0
        PROVE  token'[u].state # "fresh"
    BY <1>6, <2>1 DEF TokenInv, FamilyIsALine, Family
  <2>2. ASSUME NEW t \in Tok, token'[t].state \in {"used", "late"}
        PROVE  /\ token'[t].next # 0
               /\ token'[token'[t].next].family = token'[t].family
    <3>1. t # n /\ token'[t] = token[t]
      BY <2>2
    <3>2. token[t].next \in (t + 1)..issued
      BY Zenon, <2>2, <3>1 DEF TokenInv
    <3>3. token[t].next \in Tok /\ token[t].next # n
      BY <3>2 DEF Tok
    <3>4. QED
      BY <2>2, <3>1, <3>3 DEF TokenInv, FamilyIsALine
  <2>3. QED
    BY Zenon, Counting, <2>1, <2>2 DEF FamilyIsALine, Family
<1>10. QED
  BY Zenon, Counting, <1>4, <1>7, <1>8, <1>9 DEF TokenInv, Tok
\* Rows go: the line of each token that stays keeps its end.
LEMMA RemoveTokens ==
  ASSUME TokenType, TokenInv, NEW G \in SUBSET Tok,
         token' = [t \in Tok |-> IF t \in G THEN NoToken ELSE token[t]],
         UNCHANGED <<issued, lapsed>>, session' \subseteq Tok \X alive',
         \A t \in Tok \ G : token[t].state # "none" => token[t].of \in alive',
         \A t \in Tok \ G : token[t].state \in {"used", "late"} => token[t].next \notin G
  PROVE  TokenType' /\ TokenInv'
<1>1. NoToken \in Refresh
  BY Zenon, Counting DEF NoToken, Row, Refresh
<1> \A t \in Tok : token'[t] = IF t \in G THEN NoToken ELSE token[t]
  BY Zenon
<1>3. \A t \in Tok : token[t].state = "none" => token[t] = NoToken
  BY Zenon DEF TokenInv
<1>4. TokenType'
  <2>1. token' \in [Tok -> Refresh]
    BY Zenon, <1>1 DEF TokenType
  <2>2. \A t \in Tok : token'[t].of \in alive' \cup {None}
    BY <1>3 DEF NoToken, Row
  <2>3. QED
    BY Zenon, <2>1, <2>2 DEF TokenType
<1>5. \A t \in Tok :
        /\ token'[t].state = "none" => token'[t] = NoToken
        /\ token'[t].state # "none" => /\ t <= issued' /\ token'[t].of \in alive'
                                       /\ token'[t].family \in 1..t
        /\ token'[t].state \in {"used", "late"} => token'[t].next \in (t + 1)..issued'
  BY Zenon DEF TokenInv, NoToken, Row
<1>6. \A t, u \in Tok : token'[t].family # 0 /\ token'[u].family = token'[t].family
                          => token'[u].of = token'[t].of
  BY Zenon DEF TokenInv, NoToken, Row
<1>7. FamilyIsALine'
  <2>1. ASSUME NEW t \in Tok, token'[t].state = "fresh", NEW u \in Tok \ {t},
               token'[u].family = token'[t].family, token'[t].family # 0
        PROVE  token'[u].state # "fresh"
    BY Zenon, <2>1 DEF TokenInv, FamilyIsALine, Family, NoToken, Row
  <2>2. ASSUME NEW t \in Tok, token'[t].state \in {"used", "late"}
        PROVE  /\ token'[t].next # 0
               /\ token'[token'[t].next].family = token'[t].family
    <3>1. t \notin G /\ token'[t] = token[t]
      BY Zenon, <2>2 DEF NoToken, Row
    <3>2. token[t].next \in (t + 1)..issued
      BY Zenon, <2>2, <3>1 DEF TokenInv
    <3>3. token[t].next \in Tok \ G
      BY <2>2, <3>1, <3>2 DEF Tok, TokenType
    <3>4. QED
      BY Zenon, <2>2, <3>1, <3>3 DEF TokenInv, FamilyIsALine
  <2>3. QED
    BY <2>1, <2>2 DEF FamilyIsALine, Family
<1>8. QED
  BY Zenon, <1>4, <1>5, <1>6, <1>7 DEF TokenInv

\* The end of a line belongs to the owner of the line.
LEMMA NextIsAlike ==
  ASSUME TokenType, TokenInv, NEW t \in Tok, token[t].state \in {"used", "late"}
  PROVE  /\ token[t].next \in Tok /\ token[t].next > t
         /\ token[token[t].next].family = token[t].family /\ token[t].family # 0
         /\ token[token[t].next].of = token[t].of
<1>1. token[t].next \in (t + 1)..issued /\ token[t].family \in 1..t
  BY Zenon DEF TokenInv
<1>2. token[t].next \in Tok /\ token[t].next > t
  BY <1>1 DEF Tok, TokenType
<1>3. token[token[t].next].family = token[t].family
  BY Zenon DEF TokenInv, FamilyIsALine
<1>4. QED
  BY Zenon, Counting, <1>1, <1>2, <1>3 DEF TokenInv

\* complete_rotation_tx adds to the end of a line.
LEMMA RotateTokens ==
  ASSUME TokenType, TokenInv, issued < MaxToken, UNCHANGED <<alive, lapsed>>,
         alive \subseteq Player, NEW t \in Tok, token[t].state = "fresh",
         issued' = issued + 1, TokenType',
         token'[t] = [family |-> token[t].family, of |-> token[t].of, state |-> "used",
                      next |-> issued + 1],
         token'[issued + 1] = [family |-> token[t].family, of |-> token[t].of,
                               state |-> "fresh", next |-> 0],
         \A u \in Tok \ {t, issued + 1} : token'[u] = token[u]
  PROVE  /\ TokenInv'
         /\ \A u \in Tok : u # t /\ u <= issued => token'[u] = token[u]
         /\ token'[t].family = token[t].family
<1> DEFINE n == issued + 1
           f == token[t].family
           o == token[t].of
<1> n \in Tok /\ issued \in Nat /\ Tok \subseteq Nat
  BY Zenon, Counting DEF TokenType, Tok
<1>1. t <= issued /\ t # n /\ o \in alive /\ f \in 1..t /\ f \in Tok
  BY Zenon, Counting DEF TokenInv, Tok
<1>3. \A u \in Tok :
        /\ token'[u].state = "none" => token'[u] = NoToken
        /\ token'[u].state # "none" => /\ u <= issued' /\ token'[u].of \in alive'
                                       /\ token'[u].family \in 1..u
        /\ token'[u].state \in {"used", "late"} => token'[u].next \in (u + 1)..issued'
  <2>1. ASSUME NEW u \in Tok \ {t, n}, token'[u] = token[u]
        PROVE  /\ token'[u].state = "none" => token'[u] = NoToken
               /\ token'[u].state # "none" => /\ u <= issued' /\ token'[u].of \in alive'
                                              /\ token'[u].family \in 1..u
               /\ token'[u].state \in {"used", "late"} => token'[u].next \in (u + 1)..issued'
    BY <2>1 DEF TokenInv
  <2>2. QED
    BY <1>1, <2>1
<1>4. \A u \in Tok \ {n} : token'[u].family = token[u].family /\ token'[u].of = token[u].of
  BY <1>1
<1>5. \A u \in Tok \ {n} : token[u].family = f => token[u].of = o
  BY Zenon, Counting, <1>1 DEF TokenInv
<1>6. \A u, v \in Tok : token'[u].family # 0 /\ token'[v].family = token'[u].family
                          => token'[v].of = token'[u].of
  BY <1>4, <1>5 DEF TokenInv
<1>7. \A u \in Tok \ {t} : token[u].family = f => token[u].state # "fresh"
  BY Zenon, Counting, <1>1 DEF TokenInv, FamilyIsALine, Family
<1>8. FamilyIsALine'
  <2>1. ASSUME NEW u \in Tok, token'[u].state = "fresh", NEW v \in Tok \ {u},
               token'[v].family = token'[u].family, token'[u].family # 0
        PROVE  token'[v].state # "fresh"
    BY <1>7, <2>1 DEF TokenInv, FamilyIsALine, Family
  <2>2. ASSUME NEW u \in Tok, token'[u].state \in {"used", "late"}
        PROVE  /\ token'[u].next # 0
               /\ token'[token'[u].next].family = token'[u].family
    <3>1. CASE u = t
      BY <3>1
    <3>2. CASE u # t
      <4>1. u # n /\ token'[u] = token[u] /\ token[u].next \in (u + 1)..issued
        BY <2>2, <3>2 DEF TokenInv
      <4>2. token[u].next \in Tok \ {n}
        BY <4>1 DEF Tok
      <4>3. QED
        BY <1>4, <4>1, <4>2, NextIsAlike, <2>2
    <3>3. QED
      BY Zenon, <3>1, <3>2
  <2>3. QED
    BY Zenon, <2>1, <2>2 DEF FamilyIsALine, Family
<1>9. QED
  BY <1>1, <1>3, <1>6, <1>8 DEF TokenInv
-------------------------------------------------------------------------------
(* People *)

\* insert_player_with_identity_tx: a new player with a free pair and a free identity.
LEMMA ProvisionTables ==
  ASSUME AccountsInv,
         NEW i \in Identity, NEW p \in Player \ minted, NEW h \in Handle,
         claim[h] = None, owner[i] = None,
         claim' = [claim EXCEPT ![h] = p], handle' = [handle EXCEPT ![p] = h],
         alive' = alive \cup {p}, minted' = minted \cup {p},
         owner' = [owner EXCEPT ![i] = p],
         guests' = IF i \in Guest THEN guests \cup {p} ELSE guests,
         Issue_session(p), UNCHANGED <<exits, promoted, drawn>>
  PROVE  Tables' /\ (\A q \in Req : Keeps(q)) /\ issued' \in Nat
<1> PeopleType /\ TokenType /\ ExitType /\ PeopleInv /\ PromotionInv /\ TokenInv
  BY Zenon DEF AccountsInv, Tables
<1>1. PeopleType' /\ ExitType'
  BY Zenon DEF PeopleType, ExitType, exits
<1>2. /\ TokenType' /\ TokenInv' /\ issued' = issued + 1
      /\ \A u \in Tok : u <= issued => token'[u] = token[u]
  BY Zenon, IssueTokens DEF PeopleType
<1> /\ claim'[h] = p /\ \A g \in Handle \ {h} : claim'[g] = claim[g]
    /\ handle'[p] = h /\ \A q \in Player \ {p} : handle'[q] = handle[q]
    /\ owner'[i] = p /\ \A j \in Identity \ {i} : owner'[j] = owner[j]
  BY Zenon DEF PeopleType
<1> p \notin alive /\ p # None /\ \A q \in minted : q \in Player
  BY Zenon DEF PeopleType
<1>5. \A q \in minted : handle[q] \in Handle \ {h}
  BY DEF PeopleInv, HandlesAreForever, PeopleType
<1>6. HandlesAreForever'
  BY <1>5 DEF PeopleInv, HandlesAreForever
<1>7. PeopleInv'
  BY <1>5, <1>6 DEF PeopleInv, exits
<1>8. \A q \in minted : Real(q)' = Real(q)
  BY DEF Real
<1>9. Real(p)' = {i} \ Guest
  BY DEF Real, PeopleType
<1>10. promoted[p] = 0 /\ p \notin guests /\ UNCHANGED promoted
  BY Zenon DEF PeopleInv, PeopleType
<1>11. PromotedOnce'
  <2>1. ASSUME NEW q \in alive
        PROVE  promoted'[q] = IF q \in guests' /\ Real(q)' # {} THEN 1 ELSE 0
    BY <1>8, <1>10 DEF PromotionInv, PromotedOnce, PeopleType
  <2>2. promoted'[p] = IF p \in guests' /\ Real(p)' # {} THEN 1 ELSE 0
    BY <1>9, <1>10
  <2>3. QED
    BY Zenon, <2>1, <2>2 DEF PromotedOnce
<1>12. PromotionInv'
  BY <1>8, <1>9, <1>11 DEF PromotionInv, PeopleType
<1>13. ASSUME NEW q \in Req
       PROVE  Keeps(q)
  <2>1. Remembers(q) /\ issued \in Nat /\ Tok \subseteq Nat
    BY Zenon, Counting DEF AccountsInv, RequestsRemember, TokenType, Tok
  <2>2. req[q].pc = "link" => \A j \in Identity : owner'[j] = req[q].p <=> owner[j] = req[q].p
    BY <2>1 DEF Remembers, Recalls, Locking
  <2>3. req[q].pc = "rotating" => token'[req[q].t].state = "fresh"
    BY Zenon, <1>2, <2>1 DEF Remembers, Recalls, TokenInv
  <2>4. QED
    BY Zenon, Counting, <1>2, <2>1, <2>2, <2>3 DEF Keeps, Remembers, Recalls
<1>14. QED
  BY Zenon, Counting, <1>1, <1>2, <1>7, <1>12, <1>13 DEF Tables, TokenType

\* link_identity_tx: under the player's lock the count of real identities is still what
\* has_real_identity_tx answered.
LEMMA LinkTables ==
  ASSUME AccountsInv, NEW r \in Req, LinkWrite(r)
  PROVE  Tables' /\ (\A q \in Req \ {r} : Keeps(q)) /\ issued' \in Nat
<1> PICK p : p = req[r].p
  BY Zenon
<1> PICK i : i = req[r].i
  BY Zenon
<1> PeopleType /\ TokenType /\ ExitType /\ PeopleInv /\ PromotionInv /\ TokenInv
  BY Zenon DEF AccountsInv, Tables
<1>1. CASE UNCHANGED <<owner, promoted>>
  BY Zenon, <1>1, QuietTables DEF LinkWrite, people, PeopleType
<1>2. CASE /\ owner[i] = None /\ Refers(p)
           /\ owner' = [owner EXCEPT ![i] = p]
           /\ promoted' = IF req[r].seen = {} /\ i \notin Guest
                          THEN [promoted EXCEPT ![p] = @ + 1] ELSE promoted
  <2> /\ p = req[r].p /\ UNCHANGED <<alive, minted, handle, claim, guests, tokens, exits, drawn>>
      /\ p \in alive /\ p \in minted /\ i \in Identity
      /\ req[r].seen = Real(p) /\ req[r].pc = "link"
    BY Zenon, <1>2 DEF LinkWrite, Refers, AccountsInv, RequestsRemember, Remembers, Recalls, Locking
  <2> p \in Player /\ p # None
    BY Zenon DEF PeopleType
  <2> owner'[i] = p /\ \A j \in Identity \ {i} : owner'[j] = owner[j]
    BY Zenon, <1>2 DEF PeopleType
  <2>4. PeopleType' /\ TokenType' /\ ExitType' /\ TokenInv'
    <3>1. PeopleType'
      BY Zenon, Counting, <1>2 DEF PeopleType
    <3>2. TokenType' /\ ExitType' /\ TokenInv'
      BY Zenon, Counting DEF TokenType, ExitType, TokenInv, FamilyIsALine, Family, tokens, exits
    <3>3. QED
      BY Zenon, <3>1, <3>2
  <2>5. \A q \in Player \ {p} : promoted'[q] = promoted[q]
    BY Zenon, <1>2 DEF PeopleType
  <2>6. PeopleInv'
    BY <2>5 DEF PeopleInv, HandlesAreForever, exits
  <2>7. \A q \in Player \ {p} : Real(q)' = Real(q)
    BY Zenon, <1>2 DEF Real
  <2>8. Real(p)' = Real(p) \cup ({i} \ Guest)
    BY Zenon DEF Real
  <2>9. promoted'[p] = IF p \in guests /\ Real(p)' # {} THEN 1 ELSE 0
    <3> promoted[p] = IF p \in guests /\ Real(p) # {} THEN 1 ELSE 0
      BY Zenon DEF PromotionInv, PromotedOnce
    <3>2. p \notin guests => Real(p) # {}
      BY Zenon DEF PromotionInv
    <3>3. CASE Real(p) = {} /\ i \notin Guest
      <4>1. promoted'[p] = promoted[p] + 1
        BY Zenon, <1>2, <3>3 DEF PeopleType
      <4>2. QED
        BY <2>8, <3>2, <3>3, <4>1
    <3>4. CASE ~(Real(p) = {} /\ i \notin Guest)
      <4>1. promoted'[p] = promoted[p]
        BY Zenon, <1>2, <3>4
      <4>2. (Real(p)' # {}) <=> (Real(p) # {})
        BY <2>8, <3>4
      <4>3. QED
        BY Zenon, <4>1, <4>2
    <3>5. QED
      BY Zenon, <3>3, <3>4
  <2>10. PromotionInv'
    <3>1. PromotedOnce'
      BY <2>5, <2>7, <2>9 DEF PromotionInv, PromotedOnce, PeopleType
    <3>2. QED
      BY <2>7, <2>8, <3>1 DEF PromotionInv, PeopleType
  <2>11. ASSUME NEW q \in Req \ {r}
         PROVE  Keeps(q)
    <3>1. Remembers(q) /\ issued \in Nat
      BY Zenon, Counting DEF AccountsInv, RequestsRemember, TokenType
    <3>2. req[q].pc = "link" => req[q].p # p /\ req[q].p # None
      BY <3>1 DEF AccountsInv, LocksApart, Locking, Remembers, Recalls, PeopleType
    <3>3. QED
      BY Zenon, Counting, <1>2, <3>1, <3>2 DEF Keeps, Remembers, Recalls, tokens
  <2>12. QED
    BY Zenon, Counting, <2>4, <2>6, <2>10, <2>11 DEF Tables, TokenType, tokens
<1>3. QED
  BY Zenon, <1>1, <1>2 DEF LinkWrite

\* delete_player_steps: under the player's lock, and with no rotation on its tokens.
LEMMA DeleteTables ==
  ASSUME AccountsInv, NEW r \in Req, Delete_player(r)
  PROVE  Tables' /\ (\A q \in Req \ {r} : Keeps(q)) /\ issued' \in Nat
<1> PICK p : p = req[r].p
  BY Zenon
<1> PeopleType /\ TokenType /\ ExitType /\ PeopleInv /\ PromotionInv /\ TokenInv
  BY Zenon DEF AccountsInv, Tables
<1> /\ p \in alive /\ p \in minted /\ p \in Player /\ p # None /\ p # Reserved
    /\ req[r].t \in 1..MaxTicket
  BY Zenon DEF AccountsInv, RequestsRemember, Remembers, Recalls, Locking, Delete_player, PeopleType
<1> UNCHANGED <<minted, handle, guests, issued, lapsed, tickets, promoted, drawn>>
  BY Zenon DEF Delete_player
<1> alive' = alive \ {p}
  BY Zenon DEF Delete_player
<1>1. /\ live' = live \ {p}
      /\ claim' = [claim EXCEPT ![handle[p]] = Reserved]
      /\ receipt' = [receipt EXCEPT ![p] = req[r].t]
      /\ ticket' = [ticket EXCEPT ![p] = 0]
      /\ deleted' = [deleted EXCEPT ![p] = @ + 1]
  BY Zenon DEF Delete_player, Reserve_handle
<1>2. owner' = [i \in Identity |-> IF owner[i] = p THEN None ELSE owner[i]]
  BY Zenon DEF Delete_player
<1>3. /\ token' = [t \in Tok |-> IF token[t].of = p THEN NoToken ELSE token[t]]
      /\ session' = {s \in session : s[2] # p}
      /\ \A t \in TokensOf(p) : ~TokenLocked(t)
  BY Zenon DEF Delete_player
<1>4. TokenType' /\ TokenInv'
  <2>1. token' = [t \in Tok |-> IF t \in TokensOf(p) THEN NoToken ELSE token[t]]
    BY Zenon, <1>3 DEF TokensOf
  <2>2. session' \subseteq Tok \X alive'
    BY Zenon, <1>3 DEF TokenType
  <2>3. \A t \in Tok \ TokensOf(p) : token[t].state # "none" => token[t].of \in alive'
    BY Zenon DEF TokenInv, TokensOf
  <2>4. \A t \in Tok \ TokensOf(p) :
          token[t].state \in {"used", "late"} => token[t].next \notin TokensOf(p)
    BY Zenon, NextIsAlike DEF TokensOf
  <2>5. TokensOf(p) \in SUBSET Tok
    BY Zenon DEF TokensOf
  <2>6. QED
    BY Zenon, <2>1, <2>2, <2>3, <2>4, <2>5, RemoveTokens
<1>5. /\ claim'[handle[p]] = Reserved
      /\ \A g \in Handle : g # handle[p] => claim'[g] = claim[g]
      /\ receipt'[p] = req[r].t /\ \A q \in Player \ {p} : receipt'[q] = receipt[q]
      /\ ticket'[p] = 0 /\ \A q \in Player \ {p} : ticket'[q] = ticket[q]
      /\ deleted'[p] = deleted[p] + 1 /\ \A q \in Player \ {p} : deleted'[q] = deleted[q]
  <2>1. handle[p] \in Handle
    BY Zenon DEF PeopleInv
  <2>2. QED
    BY Zenon, <1>1, <2>1 DEF PeopleType, ExitType
<1>11. PeopleType' /\ ExitType'
  <2>1. claim' \in [Handle -> Player \cup {None, Reserved}]
    BY Zenon, <1>1 DEF PeopleType
  <2>2. owner' \in [Identity -> alive' \cup {None}]
    BY Zenon, <1>2 DEF PeopleType
  <2>3. receipt' \in [Player -> 0..MaxTicket] /\ ticket' \in [Player -> 0..MaxTicket]
    BY Zenon, Counting, <1>1 DEF ExitType
  <2>4. QED
    BY Zenon, Counting, <1>1, <2>1, <2>2, <2>3 DEF PeopleType, ExitType
<1>6. PeopleInv'
  <2>1. HandlesAreForever'
    <3>1. HandlesAreForever /\ \A q \in minted : handle[q] \in Handle
      BY Zenon DEF PeopleInv
    <3>2. ASSUME NEW q \in minted
          PROVE  claim'[handle[q]] = IF q \in alive' THEN q ELSE Reserved
      <4>1. CASE q = p
        BY Zenon, <1>5, <4>1
      <4>2. CASE q # p
        <5>1. handle[q] # handle[p] /\ claim[handle[q]] = IF q \in alive THEN q ELSE Reserved
          BY Zenon, <3>1, <4>2 DEF HandlesAreForever
        <5>2. QED
          BY Zenon, <1>5, <3>1, <4>2, <5>1
      <4>3. QED
        BY Zenon, <4>1, <4>2
    <3>3. QED
      BY Zenon, <3>1, <3>2 DEF HandlesAreForever
  <2>2. live' \subseteq alive' /\ \A q \in Player : ticket'[q] # 0 => q \in alive'
    BY Zenon, <1>1, <1>5 DEF PeopleInv
  <2>3. \A q \in minted' : /\ deleted'[q] = IF q \in alive' THEN 0 ELSE 1
                           /\ q \notin alive' => receipt'[q] # 0
    BY <1>5 DEF PeopleInv, PeopleType
  <2>4. QED
    BY <1>5, <2>1, <2>2, <2>3 DEF PeopleInv
<1>7. \A q \in Player \ {p} : Real(q)' = Real(q)
  BY Zenon, <1>2 DEF Real
<1>8. PromotionInv'
  <2>1. \A q \in alive' : q \in alive /\ Real(q)' = Real(q)
    BY Zenon, <1>7 DEF PeopleType
  <2>2. QED
    BY Zenon, <2>1 DEF PromotionInv, PromotedOnce
<1>9. ASSUME NEW q \in Req \ {r}
      PROVE  Keeps(q)
  <2>1. Remembers(q) /\ issued \in Nat
    BY Zenon, Counting DEF AccountsInv, RequestsRemember, TokenType
  <2>2. req[q].pc \in {"link", "deleting"} => req[q].p # p /\ req[q].p # None
    BY Zenon, <2>1
       DEF AccountsInv, LocksApart, Locking, Remembers, Recalls, PeopleType, Delete_player
  <2>3. req[q].pc = "deleting" => req[q].p \in alive'
    BY Zenon, <2>1, <2>2 DEF Remembers, Recalls
  <2>4. req[q].pc = "link" => \A i \in Identity : owner'[i] = req[q].p <=> owner[i] = req[q].p
    BY Zenon, <1>2, <2>2
  <2>5. req[q].pc = "rotating" => token'[req[q].t].state = "fresh"
    BY Zenon, <1>3, <2>1 DEF Remembers, Recalls, TokensOf, TokenLocked, HoldsToken
  <2>6. \A u \in Tok : token'[u].family = token[u].family \/ token'[u].family = 0
    BY Zenon, <1>3 DEF NoToken, Row
  <2>7. QED
    BY Zenon, Counting, <2>1, <2>3, <2>4, <2>5, <2>6 DEF Keeps
<1>10. QED
  BY Zenon, Counting, <1>11, <1>4, <1>6, <1>8, <1>9 DEF Tables, TokenType
-------------------------------------------------------------------------------
(* Steps that write the token tables, or the tickets *)

\* A step that writes the token tables only.
LEMMA TokensOnly ==
  ASSUME AccountsInv, UNCHANGED <<people, exits, promoted, drawn>>, TokenType', TokenInv',
         issued <= issued',
         \A u \in Tok : token'[u].family = token[u].family \/ token'[u].family = 0
                          \/ u > issued
  PROVE  /\ Tables' /\ issued' \in Nat
         /\ \A q \in Req : (req[q].pc = "rotating" => token'[req[q].t].state = "fresh")
                             => Keeps(q)
<1>1. PeopleType' /\ ExitType'
  BY Zenon DEF AccountsInv, Tables, PeopleType, ExitType, people, exits
<1>2. PeopleInv' /\ PromotionInv'
  BY DEF AccountsInv, Tables, PeopleInv, HandlesAreForever, PromotionInv, PromotedOnce,
         Real, people, exits
<1>3. ASSUME NEW q \in Req, req[q].pc = "rotating" => token'[req[q].t].state = "fresh"
      PROVE  Keeps(q)
  <2>1. Remembers(q)
    BY Zenon DEF AccountsInv, RequestsRemember
  <2>2. QED
    BY Zenon, <1>3, <2>1 DEF Keeps, Remembers, Recalls, people
<1>4. QED
  BY Zenon, Counting, <1>1, <1>2, <1>3 DEF Tables, TokenType

\* A login finds its player: issue_session_tx adds a token and a session.
LEMMA KnownTables ==
  ASSUME AccountsInv, NEW r \in Req, Known(r)
  PROVE  /\ Tables' /\ (\A q \in Req \ {r} : Keeps(q))
         /\ issued' \in Nat
<1> TokenType /\ TokenInv /\ issued \in Nat /\ PeopleType
  BY Zenon, Counting DEF AccountsInv, Tables, TokenType
<1>1. UNCHANGED <<people, exits, promoted, drawn>>
  BY Zenon DEF Known
<1>2. CASE UNCHANGED tokens
  <2>1. drawn' \subseteq Guest
    BY Zenon, <1>1 DEF PeopleType
  <2>2. issued' = issued
    BY Zenon, <1>2 DEF tokens
  <2>3. QED
    BY Zenon, <1>1, <1>2, <2>1, <2>2, QuietTables
<1>3. CASE Refers(req[r].p) /\ Issue_session(req[r].p)
  <2> PICK p : p = req[r].p
    BY Zenon
  <2>1. p \in alive' /\ alive' = alive /\ alive \subseteq Player
    BY Zenon, <1>1, <1>3 DEF Refers, people, PeopleType
  <2>3. Issue_session(p)
    BY Zenon, <1>3
  <2>4. /\ TokenType' /\ TokenInv' /\ issued' = issued + 1
        /\ \A u \in Tok : u <= issued => token'[u] = token[u]
    BY Zenon, <2>1, <2>3, IssueTokens
  <2>5. /\ issued <= issued'
        /\ \A u \in Tok : token'[u].family = token[u].family \/ token'[u].family = 0
                          \/ u > issued
    BY Zenon, Counting, <2>4 DEF Tok
  <2>6. \A q \in Req : req[q].pc = "rotating" => token'[req[q].t].state = "fresh"
    BY Zenon, <2>4 DEF AccountsInv, RequestsRemember, Remembers, Recalls, TokenInv, Tok
  <2>7. QED
    BY Zenon, <1>1, <2>4, <2>5, <2>6, TokensOnly
<1>4. QED
  BY Zenon, <1>2, <1>3 DEF Known

\* complete_rotation_tx spends the presented token and adds its successor.
LEMMA RotationTables ==
  ASSUME AccountsInv, NEW r \in Req, Complete_rotation(r)
  PROVE  /\ Tables' /\ (\A q \in Req \ {r} : Keeps(q))
         /\ issued' \in Nat
<1> TokenType /\ TokenInv /\ issued \in Nat /\ PeopleType
  BY Zenon, Counting DEF AccountsInv, Tables, TokenType
<1> PICK t : t = req[r].t
  BY Zenon
<1> /\ UNCHANGED <<people, exits, promoted, drawn, lapsed>> /\ issued < MaxToken
    /\ issued' = issued + 1 /\ t \in Tok /\ token[t].state = "fresh"
    /\ req[r].pc = "rotating"
  BY Zenon DEF Complete_rotation, Left, AccountsInv, RequestsRemember, Remembers, Recalls
<1>0. /\ token' = [token EXCEPT ![t] = Row(@.family, @.of, "used", issued + 1),
                                ![issued + 1] = Row(token[t].family, token[t].of, "fresh", 0)]
      /\ session' = session \cup {<<token[t].family, token[t].of>>}
  BY Zenon DEF Complete_rotation
<1>1. t <= issued /\ UNCHANGED <<alive, lapsed>> /\ alive \subseteq Player
  BY Zenon DEF TokenInv, people, PeopleType
<1>2. /\ TokenType' /\ TokenInv'
      /\ \A u \in Tok : u # t /\ u <= issued => token'[u] = token[u]
      /\ token'[t].family = token[t].family
  <2> PICK a : a = Row(token[t].family, token[t].of, "used", issued + 1)
    BY Zenon
  <2> PICK b : b = Row(token[t].family, token[t].of, "fresh", 0)
    BY Zenon
  <2> PICK m : m = [token EXCEPT ![t] = a]
    BY Zenon
  <2>1. a \in Refresh /\ b \in Refresh /\ issued + 1 \in Tok /\ t # issued + 1
    BY Zenon, Counting, <1>1 DEF Row, Refresh, TokenType, Tok
  <2>2. m \in [Tok -> Refresh] /\ m[t] = a /\ \A u \in Tok \ {t} : m[u] = token[u]
    BY Zenon, <2>1 DEF TokenType
  <2>3. token' = [m EXCEPT ![issued + 1] = b]
    BY Zenon, <1>0, <2>1
  <2>4. /\ token' \in [Tok -> Refresh] /\ token'[t] = a /\ token'[issued + 1] = b
        /\ \A u \in Tok \ {t, issued + 1} : token'[u] = token[u]
    BY Zenon, <2>1, <2>2, <2>3
  <2>5. token[t].of \in alive /\ token[t].family \in Tok
    BY Zenon, Counting DEF TokenInv, Tok
  <2>6. TokenType'
    <3>1. \A u \in Tok : token'[u].of \in alive' \cup {None}
      BY <1>1, <2>4, <2>5 DEF Row, TokenType
    <3>2. session' \subseteq Tok \X alive'
      <4>1. session' = session \cup {<<token[t].family, token[t].of>>}
        BY Zenon, <1>0
      <4>2. session \subseteq Tok \X alive' /\ token[t].of \in alive'
        BY Zenon, <1>1, <2>5 DEF TokenType
      <4>3. QED
        BY <2>5, <4>1, <4>2
    <3>3. QED
      BY Zenon, Counting, <1>1, <2>4, <2>5, <3>1, <3>2 DEF TokenType, Tok
  <2>7. QED
    BY Zenon, <1>1, <2>4, <2>6, RotateTokens DEF Row
<1>3. /\ issued <= issued'
      /\ \A u \in Tok : token'[u].family = token[u].family \/ token'[u].family = 0
                          \/ u > issued
  BY Zenon, Counting, <1>2 DEF Tok
<1>4. \A q \in Req \ {r} : req[q].pc = "rotating" => token'[req[q].t].state = "fresh"
  <2>1. \A q \in Req \ {r} : req[q].pc = "rotating" =>
          req[q].t \in Tok /\ token[req[q].t].state = "fresh" /\ req[q].t # t
    BY Zenon DEF AccountsInv, RequestsRemember, Remembers, Recalls, LocksApart, HoldsToken
  <2>2. QED
    BY Zenon, <1>2, <2>1 DEF TokenInv
<1>5. QED
  BY Zenon, <1>2, <1>3, <1>4, TokensOnly

\* kill_family_tx removes the rows of its snapshot and the sessions of the family.
LEMMA KillTables ==
  ASSUME AccountsInv, NEW r \in Req, Kill_family(r)
  PROVE  Tables' /\ (\A q \in Req \ {r} : Keeps(q)) /\ issued' \in Nat
<1> DEFINE G == req[r].seen
<1> TokenType /\ TokenInv /\ issued \in 0..MaxToken /\ PeopleType
  BY Zenon DEF AccountsInv, Tables, TokenType
<1> /\ UNCHANGED <<people, exits, promoted, drawn, lapsed, issued>>
    /\ token' = [t \in Tok |-> IF t \in G THEN NoToken ELSE token[t]]
    /\ session' \subseteq session /\ req[r].pc = "killing"
  BY Zenon DEF Kill_family
<1> /\ G \subseteq 1..issued /\ \A v \in G : token[v].family \in {0, req[r].t}
    /\ \A u \in Family(req[r].t) \ G, v \in G : v < u
  BY Zenon DEF Kill_family, AccountsInv, RequestsRemember, Remembers, Recalls
<1>3. G \in SUBSET Tok
  BY DEF Tok
<1>4. ASSUME NEW t \in Tok \ G, token[t].state \in {"used", "late"}
      PROVE  token[t].next \notin G
  <2>1. /\ token[t].next \in Tok /\ token[t].next > t
        /\ token[token[t].next].family = token[t].family /\ token[t].family # 0
    BY Zenon, <1>4, NextIsAlike
  <2>2. token[t].next \in G => t \in Family(req[r].t)
    BY Zenon, <2>1 DEF Family
  <2>3. QED
    BY <1>4, <2>1, <2>2 DEF Tok
<1>5. TokenType' /\ TokenInv'
  <2>1. session' \subseteq Tok \X alive'
    BY Zenon DEF TokenType, people
  <2>2. \A t \in Tok \ G : token[t].state # "none" => token[t].of \in alive'
    BY Zenon DEF TokenInv, people
  <2> HIDE DEF G
  <2>3. QED
    BY Zenon, <1>3, <1>4, <2>1, <2>2, RemoveTokens
<1>6. /\ issued <= issued'
      /\ \A u \in Tok : token'[u].family = token[u].family \/ token'[u].family = 0
  BY Zenon, Counting DEF NoToken, Row
<1>7. \A q \in Req \ {r} : req[q].pc = "rotating" => token'[req[q].t].state = "fresh"
  BY Zenon DEF AccountsInv, RequestsRemember, Remembers, Recalls, LocksApart, HoldsToken
<1>8. QED
  BY Zenon, <1>5, <1>6, <1>7, TokensOnly

\* issue_access_in_family, a session's end and a family's end touch no token.
LEMMA SessionTables ==
  ASSUME AccountsInv, UNCHANGED <<people, exits, promoted, drawn, token, issued>>,
         session' \subseteq Tok \X alive, lapsed' \subseteq Tok
  PROVE  Tables' /\ (\A q \in Req : Keeps(q)) /\ issued' \in Nat
<1> TokenType /\ TokenInv /\ issued \in Nat
  BY Zenon, Counting DEF AccountsInv, Tables, TokenType
<1>1. TokenType' /\ TokenInv'
  BY Zenon DEF TokenType, TokenInv, FamilyIsALine, Family, people
<1>2. /\ issued <= issued'
      /\ \A u \in Tok : token'[u].family = token[u].family
  BY Zenon, Counting
<1>3. \A q \in Req : req[q].pc = "rotating" => token'[req[q].t].state = "fresh"
  BY Zenon DEF AccountsInv, RequestsRemember, Remembers, Recalls
<1>4. QED
  BY Zenon, <1>1, <1>2, <1>3, TokensOnly
\* The grace window of a consumed token ends.
LEMMA GraceTables ==
  ASSUME AccountsInv, NEW t \in Tok, Grace_ends(t)
  PROVE  Tables' /\ (\A q \in Req : Keeps(q)) /\ issued' \in Nat
<1> DEFINE late == [family |-> token[t].family, of |-> token[t].of, state |-> "late",
                    next |-> token[t].next]
<1> TokenType /\ TokenInv /\ issued \in Nat
  BY Zenon, Counting DEF AccountsInv, Tables, TokenType
<1> /\ UNCHANGED <<people, exits, promoted, drawn, issued, session, lapsed>>
    /\ token[t].state = "used" /\ alive' = alive
  BY Zenon DEF Grace_ends, people
<1>2. token[t] \in Refresh /\ [token[t] EXCEPT !.state = "late"] = late /\ late \in Refresh
  BY DEF TokenType, Refresh
<1>3. token' = [token EXCEPT ![t] = late]
  BY Zenon, <1>2 DEF Grace_ends, TokenType
<1> HIDE DEF late
<1>4. /\ token'[t] = late /\ \A u \in Tok \ {t} : token'[u] = token[u]
      /\ token' \in [Tok -> Refresh]
  BY Zenon, <1>2, <1>3 DEF TokenType
<1> /\ token'[t].state = "late"
    /\ \A u \in Tok : /\ token'[u].family = token[u].family /\ token'[u].of = token[u].of
                      /\ token'[u].next = token[u].next
                      /\ u # t => token'[u] = token[u]
  BY <1>4 DEF late
<1>6. TokenType'
  BY Zenon, <1>4 DEF TokenType
<1>7. FamilyIsALine'
  <2>1. ASSUME NEW v \in Tok, token'[v].state = "fresh", NEW u \in Tok \ {v},
               token'[u].family = token'[v].family, token'[v].family # 0
        PROVE  token'[u].state # "fresh"
    <3>1. v # t /\ token[v].state = "fresh" /\ u \in Family(token[v].family) \ {v}
      BY Zenon, <2>1 DEF Family
    <3>2. token[u].state # "fresh"
      BY Zenon, <3>1 DEF TokenInv, FamilyIsALine
    <3>3. QED
      BY Zenon, <3>2
  <2>2. ASSUME NEW u \in Tok, token'[u].state \in {"used", "late"}
        PROVE  /\ token'[u].next # 0
               /\ token'[token'[u].next].family = token'[u].family
    <3>1. token[u].state \in {"used", "late"}
      BY Zenon, <2>2
    <3>2. token[u].next \in Tok /\ token[token[u].next].family = token[u].family
      BY Zenon, <3>1, NextIsAlike
    <3>3. QED
      BY <3>1, <3>2 DEF TokenInv, FamilyIsALine
  <2>3. QED
    BY Zenon, <2>1, <2>2 DEF FamilyIsALine, Family
<1>8. TokenInv'
  <2>1. \A u \in Tok :
          /\ token'[u].state = "none" => token'[u] = NoToken
          /\ token'[u].state # "none" => /\ u <= issued' /\ token'[u].of \in alive'
                                         /\ token'[u].family \in 1..u
          /\ token'[u].state \in {"used", "late"} => token'[u].next \in (u + 1)..issued'
    BY Zenon DEF TokenInv
  <2>2. \A v, u \in Tok : token'[v].family # 0 /\ token'[u].family = token'[v].family
                            => token'[u].of = token'[v].of
    BY DEF TokenInv
  <2>3. QED
    BY Zenon, <1>7, <2>1, <2>2 DEF TokenInv
<1>9. \A q \in Req : req[q].pc = "rotating" => token'[req[q].t].state = "fresh"
  BY Zenon DEF AccountsInv, RequestsRemember, Remembers, Recalls
<1>10. QED
  BY Zenon, Counting, <1>6, <1>8, <1>9, TokensOnly

\* A step that writes the tickets only.
LEMMA TicketsOnly ==
  ASSUME AccountsInv, UNCHANGED <<people, tokens, promoted, drawn, receipt, deleted>>,
         ticket' \in [Player -> 0..MaxTicket], tickets' \in 0..MaxTicket,
         live' \subseteq alive,
         \A p \in Player : ticket'[p] # 0 => p \in alive
  PROVE  Tables' /\ (\A q \in Req : Keeps(q)) /\ issued' \in Nat
<1>1. PeopleType' /\ TokenType' /\ ExitType'
  BY Zenon DEF AccountsInv, Tables, PeopleType, TokenType, ExitType, people, tokens
<1>2. PeopleInv' /\ PromotionInv'
  <2>1. PeopleInv /\ PromotionInv /\ PeopleType
    BY Zenon DEF AccountsInv, Tables
  <2>2. UNCHANGED <<alive, minted, handle, claim, owner, guests>>
    BY Zenon DEF people
  <2>3. HandlesAreForever'
    BY Zenon, <2>1, <2>2 DEF PeopleInv, HandlesAreForever
  <2>4. PromotionInv'
    BY <2>1, <2>2 DEF PromotionInv, PromotedOnce, Real
  <2>5. QED
    BY Zenon, <2>1, <2>2, <2>3, <2>4 DEF PeopleInv
<1>3. TokenInv'
  BY Zenon DEF AccountsInv, Tables, TokenInv, FamilyIsALine, Family, people, tokens
<1>4. ASSUME NEW q \in Req
      PROVE  Keeps(q)
  <2>1. Remembers(q) /\ issued \in Nat
    BY Zenon, Counting DEF AccountsInv, RequestsRemember, Tables, TokenType
  <2>2. QED
    BY Zenon, Counting, <2>1 DEF Keeps, Remembers, Recalls, people, tokens
<1>5. QED
  BY Zenon, Counting, <1>1, <1>2, <1>3, <1>4 DEF Tables, TokenType

\* The daily prune removes whole lines, and the tickets nobody can use any more.
LEMMA PruneTables ==
  ASSUME AccountsInv, Prune
  PROVE  Tables' /\ (\A q \in Req : Keeps(q)) /\ issued' \in Nat
<1> TokenType /\ TokenInv /\ issued \in Nat /\ ExitType /\ PeopleInv /\ 0 \in 0..MaxTicket
  BY Zenon, Counting DEF AccountsInv, Tables, TokenType
<1> /\ UNCHANGED <<people, promoted, issued, session, lapsed, live, tickets, receipt,
                   deleted, drawn>>
    /\ token' = [t \in Tok |-> IF t \in Expired THEN NoToken ELSE token[t]]
    /\ ticket' = [p \in Player |-> IF p \in live THEN ticket[p] ELSE 0]
    /\ \A t \in Expired : ~TokenLocked(t)
  BY Zenon DEF Prune
<1>2. Expired \in SUBSET Tok
  BY Zenon DEF Expired
<1>3. \A t \in Tok \ Expired : token[t].state \in {"used", "late"} => token[t].next \notin Expired
  BY Zenon, NextIsAlike DEF Expired
<1>4. TokenType' /\ TokenInv'
  <2>1. session' \subseteq Tok \X alive'
    BY Zenon DEF TokenType, people
  <2>2. \A t \in Tok \ Expired : token[t].state # "none" => token[t].of \in alive'
    BY Zenon DEF TokenInv, people
  <2>3. QED
    BY Zenon, <1>2, <1>3, <2>1, <2>2, RemoveTokens
<1>5. PeopleType' /\ ExitType'
  <2>1. ticket' \in [Player -> 0..MaxTicket]
    BY Zenon DEF ExitType
  <2>2. QED
    BY Zenon, <2>1 DEF AccountsInv, Tables, PeopleType, ExitType, people
<1>6. PeopleInv' /\ PromotionInv'
  <2>1. \A p \in Player : ticket'[p] # 0 => p \in alive'
    BY Zenon DEF PeopleInv, people
  <2>2. QED
    BY <2>1 DEF AccountsInv, Tables, PeopleInv, HandlesAreForever, PromotionInv,
                      PromotedOnce, Real, people
<1>7. ASSUME NEW q \in Req
      PROVE  Keeps(q)
  <2>1. Remembers(q)
    BY Zenon DEF AccountsInv, RequestsRemember
  <2>2. req[q].pc = "rotating" => token'[req[q].t].state = "fresh"
    BY Zenon, <2>1 DEF Remembers, Recalls, TokenLocked, HoldsToken
  <2>3. \A u \in Tok : token'[u].family = token[u].family \/ token'[u].family = 0
    BY Zenon DEF NoToken, Row
  <2>4. QED
    BY Zenon, Counting, <2>1, <2>2, <2>3 DEF Keeps, Remembers, Recalls, people
<1>8. QED
  BY Zenon, <1>4, <1>5, <1>6, <1>7 DEF Tables
-------------------------------------------------------------------------------
(* Steps of requests that write no table *)

\* What Ask builds is a request.
LEMMA AskIsRequest ==
  ASSUME NEW pc \in Stage, NEW p \in Player \cup {None}, NEW i \in Identity \cup {None},
         NEW t \in 0..(MaxToken + MaxTicket)
  PROVE  /\ Ask(pc, p, i, t) \in Request
         /\ Ask(pc, p, i, t).pc = pc /\ Ask(pc, p, i, t).p = p
         /\ Ask(pc, p, i, t).i = i /\ Ask(pc, p, i, t).t = t
  BY Zenon DEF Ask, Request

\* A slot without a request.
LEMMA IdleRequest == Idle \in Request /\ Idle.pc = "idle"
  BY Zenon, Counting DEF Idle, Ask, Request, Stage

\* A request starts, or goes on, as rec; it writes no table.
LEMMA QuietStep ==
  ASSUME AccountsInv, NEW r \in Req, NEW rec \in Request, rec.pc # "idle",
         UNCHANGED <<people, tokens, exits, promoted>>, drawn' \subseteq Guest,
         req' = [req EXCEPT ![r] = rec],
         Recalls(rec),
         rec.pc \in Locking =>
           (req[r].pc \in Locking /\ req[r].p = rec.p) \/ ~PlayerLocked(rec.p),
         \A t \in Tok : HoldsToken(rec, t) => ~TokenLocked(t)
  PROVE  AccountsInv'
<1>1. Tables' /\ (\A q \in Req : Keeps(q)) /\ issued' \in Nat
  BY Zenon, QuietTables
<1>3. req'[r] = rec /\ UNCHANGED <<minted, alive, owner, token, issued>>
  BY Zenon DEF AccountsInv, RequestsFit, people, tokens
<1>4. Remembers(r)'
  BY <1>3 DEF Remembers, Recalls, Real, Family
<1>5. RequestsFit' /\ RequestsRemember' /\ LocksApart'
  BY Zenon, <1>1, <1>4, OneMoves
<1>6. QED
  BY Zenon, <1>1, <1>5 DEF AccountsInv

\* A request ends.
LEMMA EndStep ==
  ASSUME AccountsInv, NEW r \in Req, End(r), Tables', \A q \in Req \ {r} : Keeps(q),
         issued' \in Nat
  PROVE  AccountsInv'
<1>1. req' = [req EXCEPT ![r] = Idle] /\ req'[r] = Idle
  BY Zenon DEF End, AccountsInv, RequestsFit
<1>2. Remembers(r)'
  BY Zenon, <1>1, IdleRequest DEF Remembers, Recalls, Locking
<1>3. QED
  BY Zenon, <1>1, <1>2, IdleRequest, OneMoves DEF Locking, AccountsInv, HoldsToken

\* A request ends and has written nothing.
LEMMA EndQuietly ==
  ASSUME AccountsInv, NEW r \in Req, End(r),
         UNCHANGED <<people, tokens, exits, promoted, drawn>>
  PROVE  AccountsInv'
<1>1. drawn' \subseteq Guest
  BY Zenon DEF AccountsInv, Tables, PeopleType
<1>2. QED
  BY Zenon, <1>1, QuietTables, EndStep

\* A transaction opens.
LEMMA ArriveStep ==
  ASSUME AccountsInv, NEW r \in Req, NEW rec \in Request, Start(r, rec), Recalls(rec),
         rec.pc \notin Locking \cup {"idle", "killing"},
         rec.pc = "rotating" => ~TokenLocked(rec.t),
         UNCHANGED <<people, tokens, exits, promoted>>, drawn' \subseteq Guest
  PROVE  AccountsInv'
<1>1. \A t \in Tok : HoldsToken(rec, t) => ~TokenLocked(t)
  BY Zenon DEF HoldsToken
<1>2. QED
  BY Zenon, <1>1, QuietStep DEF Start

\* Logins and links arrive.
LEMMA LoginSteps ==
  ASSUME AccountsInv, NEW r \in Req, NEW i \in Identity,
         Login(r, i) \/ Create_guest(r, i) \/ Login_federated(r, i)
           \/ \E p \in Player : Link(r, p, i)
  PROVE  AccountsInv'
<1> PeopleType
  BY Zenon DEF AccountsInv, Tables
<1>1. UNCHANGED <<people, tokens, exits, promoted>> /\ drawn' \subseteq Guest
  BY Zenon DEF Login, Create_guest, Login_federated, Link, PeopleType
<1>2. PICK pc \in {"known", "verified", "linking"}, p \in minted \cup {None},
           j \in Identity \cup {None} :
        /\ Start(r, Ask(pc, p, j, 0))
        /\ pc # "verified" => p \in minted
        /\ pc # "known" => j \in Identity
  BY Zenon DEF Login, Create_guest, Login_federated, Link, PeopleType
<1>3. PICK rec : rec = Ask(pc, p, j, 0)
  BY Zenon
<1>4. rec \in Request /\ rec.pc = pc /\ rec.p = p /\ rec.i = j
  BY <1>3, AskIsRequest DEF Stage, PeopleType
<1>5. Recalls(rec) /\ rec.pc \notin Locking \cup {"idle", "killing"} /\ rec.pc # "rotating"
  BY Zenon, <1>2, <1>4 DEF Recalls, Locking
<1>6. QED
  BY Zenon, <1>1, <1>2, <1>3, <1>4, <1>5, ArriveStep

\* A refresh arrives: it locks a fresh token, or finds a used one within its grace.
LEMMA RefreshSteps ==
  ASSUME AccountsInv, NEW r \in Req, NEW t \in Tok,
         Rotate(r, t) \/ Replay(r, t)
  PROVE  AccountsInv'
<1> PeopleType /\ TokenType /\ TokenInv
  BY Zenon DEF AccountsInv, Tables
<1>1. UNCHANGED <<people, tokens, exits, promoted>> /\ drawn' \subseteq Guest
  BY Zenon DEF Rotate, Replay, PeopleType
<1>2. PICK pc \in {"rotating", "replay"}, p \in Player \cup {None}, u \in Tok :
        /\ Start(r, Ask(pc, p, None, u))
        /\ pc = "rotating" => token[u].state = "fresh" /\ ~TokenLocked(u)
        /\ pc = "replay" => p \in Player
  BY Zenon, Counting DEF Rotate, Replay, TokenInv, PeopleType, Tok
<1>3. PICK rec : rec = Ask(pc, p, None, u)
  BY Zenon
<1>4. rec \in Request /\ rec.pc = pc /\ rec.p = p /\ rec.t = u
  <2>1. pc \in Stage /\ None \in Identity \cup {None} /\ u \in 0..(MaxToken + MaxTicket)
    BY Zenon, Counting DEF Stage
  <2>2. QED
    BY <1>3, <2>1, AskIsRequest
<1>5. Recalls(rec) /\ rec.pc \notin Locking \cup {"idle", "killing"}
  BY Zenon, <1>2, <1>4 DEF Recalls, Locking
<1>6. QED
  BY Zenon, <1>1, <1>2, <1>3, <1>4, <1>5, ArriveStep

\* A token is presented after its grace: kill_family_tx takes its snapshot of the family.
LEMMA RevokeStep ==
  ASSUME AccountsInv, NEW r \in Req, NEW t \in Tok, Revoke(r, t)
  PROVE  AccountsInv'
<1> PeopleType /\ TokenType /\ TokenInv
  BY Zenon DEF AccountsInv, Tables
<1> PICK f : f = token[t].family
  BY Zenon
<1>1. UNCHANGED <<people, tokens, exits, promoted>> /\ drawn' \subseteq Guest
  BY Zenon DEF Revoke, PeopleType
<1>2. f \in Tok
  BY Zenon, Counting DEF Revoke, TokenInv, Tok
<1>3. \A u \in Family(f) : u \in Tok /\ u \in 1..issued
  BY <1>2 DEF Family, TokenInv, NoToken, Row, Tok, TokenType
<1>4. PICK x : x = Ask("kill", None, None, f)
  BY Zenon
<1>5. PICK rec : rec = [x EXCEPT !.seen = Family(f)]
  BY Zenon
<1>6. rec \in Request /\ rec.pc = "kill" /\ rec.t = f /\ rec.seen = Family(f)
  BY <1>2, <1>3, <1>4, <1>5, AskIsRequest DEF Stage, Tok, Request
<1>7. Start(r, rec)
  BY Zenon, <1>4, <1>5 DEF Revoke
<1>8. Recalls(rec) /\ rec.pc \notin Locking \cup {"idle", "killing"}
  BY Zenon, <1>2, <1>3, <1>6 DEF Recalls, Locking, Family
<1>9. QED
  BY Zenon, <1>1, <1>6, <1>7, <1>8, ArriveStep

\* A confirmed deletion arrives with its ticket.
LEMMA DeleteArrives ==
  ASSUME AccountsInv, NEW r \in Req, NEW p \in Player, NEW t \in 1..MaxTicket,
         Delete_account(r, p, t)
  PROVE  AccountsInv'
<1>1. PICK rec : rec = Ask("confirmed", p, None, t)
  BY Zenon
<1>2. rec \in Request /\ rec.pc = "confirmed" /\ rec.p = p /\ rec.t = t
  <2>1. /\ "confirmed" \in Stage /\ p \in Player \cup {None} /\ None \in Identity \cup {None}
        /\ t \in 0..(MaxToken + MaxTicket)
    BY Zenon, Counting DEF Stage
  <2>2. QED
    BY <1>1, <2>1, AskIsRequest
<1>3. /\ Start(r, rec) /\ UNCHANGED <<people, tokens, exits, promoted>>
      /\ drawn' \subseteq Guest /\ p \in minted
  BY Zenon, <1>1 DEF Delete_account, AccountsInv, Tables, PeopleType
<1>4. Recalls(rec) /\ rec.pc \notin Locking \cup {"idle", "killing"} /\ rec.pc # "rotating"
  BY Zenon, <1>2, <1>3 DEF Recalls, Locking
<1>5. QED
  BY Zenon, <1>2, <1>3, <1>4, ArriveStep

\* A request goes on: it takes its next lock, or consumes its ticket.
LEMMA WalkSteps ==
  ASSUME AccountsInv, NEW r \in Req,
         \/ LoginLock(r) \/ LinkPlayer(r) \/ LinkIdentity(r) \/ DeleteLock(r)
         \/ Consume_delete_ticket(r)
  PROVE  AccountsInv'
<1> req \in [Req -> Request] /\ Remembers(r) /\ PeopleInv /\ PeopleType
  BY Zenon DEF AccountsInv, RequestsFit, RequestsRemember, Tables
<1>1. UNCHANGED <<people, tokens, exits, promoted, drawn>> /\ drawn' \subseteq Guest
  BY Zenon DEF LoginLock, LinkPlayer, LinkIdentity, DeleteLock, Consume_delete_ticket, PeopleType
<1>2. CASE End(r)
  BY Zenon, <1>1, <1>2, EndQuietly
<1>3. CASE ~End(r)
  <2>1. PICK pc \in {"locked", "linkp", "linki", "delete", "deleting"} :
          /\ Goto(r, pc)
          /\ pc = "locked" => req[r].pc = "verified"
          /\ pc = "linkp" => req[r].pc = "linking" /\ ~PlayerLocked(req[r].p)
          /\ pc = "linki" => req[r].pc = "linkp"
          /\ pc = "delete" => req[r].pc = "confirmed" /\ ~PlayerLocked(req[r].p)
          /\ pc = "deleting" => req[r].pc = "delete" /\ req[r].p \in live
    BY Zenon, <1>3 DEF LoginLock, LinkPlayer, LinkIdentity, DeleteLock, Consume_delete_ticket
  <2> PICK rec : rec = [req[r] EXCEPT !.pc = pc]
    BY Zenon
  <2>2. /\ rec \in Request /\ rec.pc = pc
        /\ rec.p = req[r].p /\ rec.i = req[r].i /\ rec.t = req[r].t
    BY DEF Request, Stage, Locking
  <2>3. req' = [req EXCEPT ![r] = rec]
    BY Zenon, <2>1 DEF Goto
  <2>4. Recalls(rec)
    BY Zenon, <2>1, <2>2 DEF Remembers, Recalls, Locking, PeopleInv
  <2>5. rec.pc \in Locking =>
          (req[r].pc \in Locking /\ req[r].p = rec.p) \/ ~PlayerLocked(rec.p)
    BY Zenon, <2>1, <2>2 DEF Locking
  <2>6. QED
    BY Zenon, <1>1, <2>1, <2>2, <2>3, <2>4, <2>5, QuietStep DEF HoldsToken
<1>4. QED
  BY Zenon, <1>2, <1>3

\* The first DELETE of kill_family_tx locks the rows of its snapshot.
LEMMA KillLocks ==
  ASSUME AccountsInv, NEW r \in Req, Kill_tokens(r)
  PROVE  AccountsInv'
<1> req \in [Req -> Request] /\ Remembers(r) /\ drawn \subseteq Guest
  BY Zenon DEF AccountsInv, RequestsFit, RequestsRemember, Tables, PeopleType
<1> PICK rec : rec = [req[r] EXCEPT !.pc = "killing"]
  BY Zenon
<1>1. /\ rec \in Request /\ rec.pc = "killing"
      /\ rec.t = req[r].t /\ rec.seen = req[r].seen
  BY DEF Request, Stage
<1>2. /\ req' = [req EXCEPT ![r] = rec] /\ req[r].pc = "kill"
      /\ \A t \in req[r].seen : ~TokenLocked(t)
      /\ UNCHANGED <<people, tokens, exits, promoted, drawn>>
  BY Zenon DEF Kill_tokens, Goto
<1>3. Recalls(rec) /\ rec.pc \notin Locking
  BY Zenon, <1>1, <1>2 DEF Remembers, Recalls, Locking
<1>4. \A t \in Tok : HoldsToken(rec, t) => ~TokenLocked(t)
  BY Zenon, <1>1, <1>2 DEF HoldsToken
<1>5. QED
  BY Zenon, <1>1, <1>2, <1>3, <1>4, QuietStep

\* A request reads under its locks.
LEMMA ReadSteps ==
  ASSUME AccountsInv, NEW r \in Req, LoginRead(r) \/ LinkRead(r)
  PROVE  AccountsInv'
<1> req \in [Req -> Request] /\ Remembers(r) /\ PeopleType
  BY Zenon DEF AccountsInv, RequestsFit, RequestsRemember, Tables
<1>1. UNCHANGED <<people, tokens, exits, promoted>> /\ drawn' \subseteq Guest
  BY Zenon DEF LoginRead, LinkRead, PeopleType
<1>2. CASE LoginRead(r)
  <2> PICK i : i = req[r].i
    BY Zenon
  <2> PICK pc : pc = IF owner[i] = None THEN "new" ELSE "known"
    BY Zenon
  <2> PICK rec : rec = Ask(pc, owner[i], i, 0)
    BY Zenon
  <2>0. req' = [req EXCEPT ![r] = rec]
    BY Zenon, <1>2 DEF LoginRead
  <2>1. i \in Identity /\ owner[i] \in minted \cup {None}
    <3>1. req[r].pc = "locked"
      BY Zenon, <1>2 DEF LoginRead
    <3>2. QED
      BY Zenon, <3>1 DEF Remembers, Recalls, PeopleType
  <2>2. rec \in Request /\ rec.pc = pc /\ rec.p = owner[i] /\ rec.i = i
    <3>1. pc \in Stage /\ 0 \in 0..(MaxToken + MaxTicket)
      BY Zenon, Counting DEF Stage
    <3>2. owner[i] \in Player \cup {None}
      BY Zenon, <2>1 DEF PeopleType
    <3>3. QED
      BY <2>1, <3>1, <3>2, AskIsRequest
  <2>3. Recalls(rec) /\ rec.pc \notin Locking \cup {"idle", "killing"} /\ rec.pc # "rotating"
    BY Zenon, <2>1, <2>2 DEF Recalls, Locking
  <2>4. QED
    BY Zenon, <1>1, <2>0, <2>2, <2>3, QuietStep DEF HoldsToken
<1>3. CASE LinkRead(r)
  <2> PICK R : R = Real(req[r].p)
    BY Zenon
  <2> PICK x : x = [req[r] EXCEPT !.pc = "link"]
    BY Zenon
  <2> PICK rec : rec = [x EXCEPT !.seen = R]
    BY Zenon
  <2>1. x \in Request /\ x.pc = "link" /\ x.p = req[r].p /\ x.i = req[r].i
    BY DEF Request, Stage, Locking
  <2>2. R \in SUBSET (Identity \cup Tok)
    BY Zenon DEF Real
  <2>3. /\ rec \in Request /\ rec.pc = "link" /\ rec.p = req[r].p /\ rec.i = req[r].i
        /\ rec.seen = R
    BY Zenon, <2>1, <2>2 DEF Request
  <2>4. req' = [req EXCEPT ![r] = rec] /\ req[r].pc = "linki"
    BY Zenon, <1>3 DEF LinkRead
  <2>5. Recalls(rec)
    BY Zenon, <2>3, <2>4 DEF Remembers, Recalls, Locking
  <2>6. QED
    BY Zenon, <1>1, <2>3, <2>4, <2>5, QuietStep DEF Locking, HoldsToken
<1>4. QED
  BY Zenon, <1>2, <1>3

\* A new player is provisioned, or its handle or its identity is taken.
LEMMA NewPlayerTables ==
  ASSUME AccountsInv, NEW i \in Identity, Provision(i), UNCHANGED <<exits, promoted, drawn>>
  PROVE  Tables' /\ (\A q \in Req : Keeps(q)) /\ issued' \in Nat
<1>1. CASE UNCHANGED <<people, tokens>>
  <2>1. drawn' \subseteq Guest
    BY Zenon DEF AccountsInv, Tables, PeopleType
  <2>2. QED
    BY Zenon, <1>1, <2>1, QuietTables
<1>2. CASE ~UNCHANGED <<people, tokens>>
  BY Zenon, <1>2, ProvisionTables DEF Provision
<1>3. QED
  BY Zenon, <1>1, <1>2

\* register, which takes no lock and is one step.
LEMMA RegisterStep ==
  ASSUME AccountsInv, NEW r \in Req, NEW i \in Identity, Register(r, i)
  PROVE  AccountsInv'
<1>1. Provision(i) /\ UNCHANGED <<exits, promoted, drawn, req>>
  BY Zenon DEF Register
<1>2. Tables' /\ (\A q \in Req : Keeps(q)) /\ issued' \in Nat
  BY Zenon, <1>1, NewPlayerTables
<1>3. QED
  BY Zenon, <1>1, <1>2, NoneMoves DEF AccountsInv

\* The steps that write a table and end their request.
LEMMA WriteSteps ==
  ASSUME AccountsInv, NEW r \in Req,
         \/ Known(r) \/ LoginNew(r) \/ LinkWrite(r) \/ Complete_rotation(r)
         \/ Issue_access_in_family(r) \/ Kill_family(r) \/ Delete_player(r)
  PROVE  AccountsInv'
<1> Remembers(r)
  BY Zenon DEF AccountsInv, RequestsRemember
<1> End(r)
  BY Zenon DEF Known, LoginNew, LinkWrite, Complete_rotation, Issue_access_in_family,
               Kill_family, Delete_player
<1>1. CASE Known(r)
  BY Zenon, <1>1, KnownTables, EndStep
<1>2. CASE LoginNew(r)
  <2>1. /\ req[r].i \in Identity /\ Provision(req[r].i)
        /\ UNCHANGED <<exits, promoted, drawn>>
    BY Zenon, <1>2 DEF LoginNew, Remembers, Recalls
  <2>2. QED
    BY Zenon, <2>1, NewPlayerTables, EndStep
<1>3. CASE LinkWrite(r)
  BY Zenon, <1>3, LinkTables, EndStep
<1>4. CASE Complete_rotation(r)
  BY Zenon, <1>4, RotationTables, EndStep
<1>5. CASE Issue_access_in_family(r)
  <2>1. UNCHANGED <<people, exits, promoted, drawn, token, issued>> /\ UNCHANGED lapsed
    BY Zenon, <1>5 DEF Issue_access_in_family
  <2>2. session' \subseteq Tok \X alive /\ lapsed' \subseteq Tok
    <3>1. session \subseteq Tok \X alive /\ lapsed \subseteq Tok /\ Remembers(r)
      BY Zenon DEF AccountsInv, RequestsRemember, Tables, TokenType
    <3>2. \/ UNCHANGED session
          \/ /\ req[r].t \in Tok /\ req[r].p \in alive
             /\ session' = session \cup {<<req[r].t, req[r].p>>}
      BY Zenon, <1>5, <3>1 DEF Issue_access_in_family, Refers, Remembers, Recalls
    <3>3. QED
      BY <2>1, <3>1, <3>2
  <2>3. QED
    BY Zenon, <2>1, <2>2, SessionTables, EndStep
<1>6. CASE Kill_family(r)
  BY Zenon, <1>6, KillTables, EndStep
<1>7. CASE Delete_player(r)
  BY Zenon, <1>7, DeleteTables, EndStep
<1>8. QED
  BY Zenon, <1>1, <1>2, <1>3, <1>4, <1>5, <1>6, <1>7

\* The steps of no request.
LEMMA ClockSteps ==
  ASSUME AccountsInv, Time \/ \E p \in Player : Begin_delete(p)
  PROVE  AccountsInv'
<1> TokenType /\ ExitType /\ PeopleInv /\ PeopleType
  BY Zenon DEF AccountsInv, Tables
<1>1. UNCHANGED <<req, issued>>
  BY Zenon DEF Time, Begin_delete, Grace_ends, Family_lapses, Session_ends, Ticket_expires, Prune,
         tokens
<1>2. Tables' /\ (\A q \in Req : Keeps(q)) /\ issued' \in Nat
  <2>1. ASSUME NEW t \in Tok, Grace_ends(t)
        PROVE  Tables' /\ (\A q \in Req : Keeps(q)) /\ issued' \in Nat
    BY Zenon, <2>1, GraceTables
  <2>2. ASSUME NEW t \in Tok, Family_lapses(t)
        PROVE  Tables' /\ (\A q \in Req : Keeps(q)) /\ issued' \in Nat
    BY Zenon, <2>2, SessionTables DEF Family_lapses, TokenType
  <2>3. ASSUME NEW s \in session, Session_ends(s)
        PROVE  Tables' /\ (\A q \in Req : Keeps(q)) /\ issued' \in Nat
    BY Zenon, <2>3, SessionTables DEF Session_ends, TokenType
  <2>4. ASSUME NEW p \in Player, Ticket_expires(p)
        PROVE  Tables' /\ (\A q \in Req : Keeps(q)) /\ issued' \in Nat
    BY Zenon, <2>4, TicketsOnly DEF Ticket_expires, ExitType, PeopleInv
  <2>5. CASE Prune
    BY Zenon, <2>5, PruneTables
  <2>6. ASSUME NEW p \in Player, Begin_delete(p)
        PROVE  Tables' /\ (\A q \in Req : Keeps(q)) /\ issued' \in Nat
    <3>1. /\ p \in alive /\ tickets' = tickets + 1 /\ tickets < MaxTicket
          /\ ticket' = [ticket EXCEPT ![p] = tickets + 1] /\ live' = live \cup {p}
          /\ UNCHANGED <<people, tokens, promoted, drawn, receipt, deleted>>
      BY Zenon, <2>6 DEF Begin_delete, Refers
    <3>2. tickets' \in 0..MaxTicket /\ ticket' \in [Player -> 0..MaxTicket]
      BY <3>1 DEF ExitType
    <3>3. live' \subseteq alive /\ \A q \in Player : ticket'[q] # 0 => q \in alive
      BY Zenon, <3>1 DEF PeopleInv, ExitType
    <3>4. QED
      BY Zenon, <3>1, <3>2, <3>3, TicketsOnly
  <2>7. QED
    BY Zenon, <2>1, <2>2, <2>3, <2>4, <2>5, <2>6 DEF Time
<1>3. QED
  BY Zenon, <1>1, <1>2, NoneMoves DEF AccountsInv

\* Initially nobody exists.
LEMMA InitInv == Init => AccountsInv
<1> SUFFICES ASSUME Init
             PROVE  AccountsInv
  BY Zenon
<1>1. PeopleType /\ ExitType
  BY Zenon, Counting DEF Init, PeopleType, ExitType
<1>2. TokenType
  BY Zenon, Counting DEF Init, TokenType, NoToken, Row, Refresh, Tok
<1>3. PeopleInv /\ PromotionInv
  BY Zenon DEF Init, PeopleInv, HandlesAreForever, PromotionInv, PromotedOnce
<1>4. TokenInv
  BY Zenon DEF Init, TokenInv, FamilyIsALine, Family, NoToken, Row
<1>5. \A r \in Req : req[r] = Idle
  BY Zenon DEF Init
<1>6. RequestsFit
  BY Zenon, IdleRequest DEF RequestsFit, Init
<1>7. RequestsRemember /\ LocksApart
  BY Zenon, <1>5, IdleRequest DEF RequestsRemember, Remembers, Recalls, LocksApart, Locking,
                                       HoldsToken
<1>8. QED
  BY Zenon, <1>1, <1>2, <1>3, <1>4, <1>6, <1>7 DEF AccountsInv, Tables

\* Every step keeps the invariant.
LEMMA StepInv == AccountsInv /\ [Next]_vars => AccountsInv'
<1> SUFFICES ASSUME AccountsInv, [Next]_vars
             PROVE  AccountsInv'
  BY Zenon
<1>1. CASE UNCHANGED vars
  <2>1. UNCHANGED <<people, tokens, exits, promoted, drawn, req>> /\ drawn' \subseteq Guest
    BY Zenon, <1>1 DEF vars, AccountsInv, Tables, PeopleType
  <2>2. Tables' /\ (\A q \in Req : Keeps(q)) /\ issued' \in Nat
    BY Zenon, <2>1, QuietTables
  <2>3. QED
    BY Zenon, <2>1, <2>2, NoneMoves DEF AccountsInv
<1>2. ASSUME NEW r \in Req, Arrive(r)
      PROVE  AccountsInv'
  BY Zenon, <1>2, RegisterStep, LoginSteps, RefreshSteps, RevokeStep, DeleteArrives DEF Arrive
<1>3. ASSUME NEW r \in Req, Proceed(r)
      PROVE  AccountsInv'
  <2>1. CASE Deadlock_victim(r)
    BY Zenon, <2>1, EndQuietly DEF Deadlock_victim
  <2>2. QED
    BY Zenon, <1>3, <2>1, WriteSteps, WalkSteps, KillLocks, ReadSteps DEF Proceed
<1>4. ASSUME NEW r \in Req, Rollback(r)
      PROVE  AccountsInv'
  BY Zenon, <1>4, EndQuietly DEF Rollback
<1>5. QED
  BY Zenon, <1>1, <1>2, <1>3, <1>4, ClockSteps DEF Next

-------------------------------------------------------------------------------
(* Theorems *)

\* In every reachable state of accounts, for every number of players, handles, identities,
\* tokens and requests in flight: the tables refer to each other as their keys promise, each
\* request in flight still knows what it read or locked, and every lock has one holder.
THEOREM AccountsInvariant == Spec => []AccountsInv
<1>1. Init => AccountsInv
  BY Zenon, InitInv
<1>2. AccountsInv /\ [Next]_vars => AccountsInv'
  BY Zenon, StepInv
<1>3. QED
  BY <1>1, <1>2, PTL DEF Spec

\* Every variable has its type and every row refers to a player that exists.
THEOREM TypeOKHolds == Spec => []TypeOK
<1>1. AccountsInv => TypeOK
  <2> SUFFICES ASSUME AccountsInv
               PROVE  TypeOK
    BY Zenon
  <2>1. PeopleType /\ TokenType /\ ExitType /\ req \in [Req -> Request]
    BY Zenon DEF AccountsInv, Tables, RequestsFit
  <2>2. token \in [Tok -> [family: 0..MaxToken, of: alive \cup {None},
                           state: {"none", "fresh", "used", "late"}, next: 0..MaxToken]]
    BY Zenon, <2>1 DEF TokenType, Refresh
  <2>3. \A r \in Req : /\ req[r].p \in Player \cup {None}
                       /\ req[r].i \in Identity \cup {None}
                       /\ req[r].t \in 0..(MaxToken + MaxTicket)
    BY Zenon, <2>1 DEF Request
  <2>4. QED
    BY Zenon, <2>1, <2>2, <2>3 DEF TypeOK, PeopleType, TokenType, ExitType
<1>2. QED
  BY <1>1, AccountsInvariant, PTL

\* A handle addresses one player for ever, also after the player is deleted.
THEOREM HandlesAreForeverHolds == Spec => []HandlesAreForever
<1>1. AccountsInv => HandlesAreForever
  BY Zenon DEF AccountsInv, Tables, PeopleInv
<1>2. QED
  BY <1>1, AccountsInvariant, PTL

\* A deleted player is deleted once and nothing of it is left, whatever was in flight.
THEOREM DeletedIsGoneHolds == Spec => []DeletedIsGone
<1>1. AccountsInv => DeletedIsGone
  <2> SUFFICES ASSUME AccountsInv, NEW p \in minted
               PROVE  /\ deleted[p] = IF p \in alive THEN 0 ELSE 1
                      /\ p \notin alive => /\ receipt[p] # 0 /\ ticket[p] = 0
                                           /\ TokensOf(p) = {}
                                           /\ \A i \in Identity : owner[i] # p
                                           /\ \A s \in session : s[2] # p
    BY Zenon DEF DeletedIsGone
  <2>1. PeopleType /\ TokenType /\ ExitType /\ PeopleInv /\ p \in Player /\ p # None
    BY Zenon DEF AccountsInv, Tables, PeopleType
  <2>2. /\ deleted[p] = IF p \in alive THEN 0 ELSE 1
        /\ p \notin alive => receipt[p] # 0 /\ ticket[p] = 0
    BY Zenon, <2>1 DEF PeopleInv
  <2>3. p \notin alive => TokensOf(p) = {} /\ \A s \in session : s[2] # p
    BY Zenon, <2>1 DEF TokenType, TokensOf
  <2>4. p \notin alive => \A i \in Identity : owner[i] # p
    BY Zenon, <2>1 DEF PeopleType
  <2>5. QED
    BY Zenon, <2>2, <2>3, <2>4
<1>2. QED
  BY <1>1, AccountsInvariant, PTL

\* A guest is promoted exactly once, by the link that gives it its first real identity.
THEOREM PromotedOnceHolds == Spec => []PromotedOnce
<1>1. AccountsInv => PromotedOnce
  BY Zenon DEF AccountsInv, Tables, PromotionInv
<1>2. QED
  BY <1>1, AccountsInvariant, PTL

\* A refresh family is a line: one unused token, and every consumed one has its successor.
THEOREM FamilyIsALineHolds == Spec => []FamilyIsALine
<1>1. AccountsInv => FamilyIsALine
  BY Zenon DEF AccountsInv, Tables, TokenInv
<1>2. QED
  BY <1>1, AccountsInvariant, PTL
=============================================================================
