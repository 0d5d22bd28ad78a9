------------------------------ MODULE Accounts ------------------------------
(***************************************************************************)
(* The accounts module (modules/accounts): players with their handles and  *)
(* identities, refresh families with their sessions, the link that         *)
(* promotes a guest, and the deletion of an account.                       *)
(*                                                                         *)
(* A request is one transaction, taken apart wherever another transaction  *)
(* can get in between: after an advisory lock, after a read, and while it  *)
(* holds a row lock that somebody else wants.  A statement's writes and    *)
(* the commit after it are one step when the row locks between them keep   *)
(* everybody else out.                                                     *)
(***************************************************************************)
EXTENDS Integers, FiniteSets

CONSTANTS
  Player,      \* player ids, each minted at most once
  Handle,      \* (lower(display_name), discriminator) pairs
  Identity,    \* (provider, subject) pairs
  Guest, Dev,  \* those of the providers guest and dev
  Req,         \* requests that may be in flight at the same time
  MaxToken,    \* bound: refresh tokens ever issued
  MaxTicket,   \* bound: delete tickets ever minted
  None,        \* nobody, nothing
  Reserved     \* the NULL player_id of a deleted player's handle

ASSUME AccountsAssumption ==
  /\ Guest \subseteq Identity /\ Dev \subseteq Identity \ Guest
  /\ IsFiniteSet(Req) /\ MaxToken \in Nat /\ MaxTicket \in Nat
  /\ None \notin Player \cup Handle \cup Identity
  /\ Reserved \notin Player \cup {None}

VARIABLES
  alive,     \* rows of accounts.players
  minted,    \* ids that a committed players row ever had
  handle,    \* the pair of each minted player
  claim,     \* accounts.handles: the player_id of a pair, Reserved for NULL
  owner,     \* accounts.identities: the player of an identity
  drawn,     \* guest subjects that mint_ticket has drawn
  token,     \* accounts.refresh_tokens by token, in the order of issue
  issued,    \* tokens issued so far
  session,   \* <<family, player>> of the sessions that verify
  lapsed,    \* families past their 30 days
  ticket,    \* accounts.delete_tickets: the ticket of each player (0: none)
  live,      \* players whose ticket has not expired
  tickets,   \* tickets minted so far
  receipt,   \* accounts.deletion_receipts: the ticket of each deletion
  req        \* the requests

\* Observations: the events of each kind appended for a player, and the players
\* that started as a guest.
VARIABLES promoted, deleted, guests

people == <<alive, minted, handle, claim, owner, guests>>
tokens == <<token, issued, session, lapsed>>
exits  == <<ticket, live, tickets, receipt, deleted>>
vars   == <<people, tokens, exits, promoted, drawn, req>>

Tok == 1..MaxToken

\* A refresh row.  Its family is the login's first token; "used" is consumed
\* inside the grace window, "late" outside it.
Row(family, of, state, next) ==
  [family |-> family, of |-> of, state |-> state, next |-> next]

NoToken == Row(0, None, "none", 0)

\* A request in stage pc: the player and the identity it is about, the token or ticket
\* it has in hand, and the rows it has seen.
Ask(pc, p, i, t) == [pc |-> pc, p |-> p, i |-> i, t |-> t, seen |-> {}]

Idle == Ask("idle", None, None, 0)

Busy(r) == req[r].pc # "idle"

\* Bound: there is another token to issue.
Left == issued < MaxToken

\* Bound: every request in flight, and one more, can still issue a token, so that
\* Left never keeps one waiting.
Room == issued + Cardinality({r \in Req : Busy(r)}) < MaxToken

Start(r, rec) == /\ ~Busy(r) /\ Room
                 /\ req' = [req EXCEPT ![r] = rec]

Goto(r, pc) == req' = [req EXCEPT ![r].pc = pc]

End(r) == req' = [req EXCEPT ![r] = Idle]

-------------------------------------------------------------------------------
(* Locks *)

\* lock_player_tx.
PlayerLocked(p) ==
  \E r \in Req : req[r].p = p /\ req[r].pc \in {"linkp", "linki", "link", "delete", "deleting"}

\* lock_identity_tx; the lock of external_login outlives its read.
IdentityLocked(i) ==
  \E r \in Req : req[r].i = i /\ req[r].pc \in {"locked", "new", "known", "linki", "link"}

\* The DELETE has locked the player row; an insert that refers to it waits.
RowLocked(p) == \E r \in Req : req[r].pc = "deleting" /\ req[r].p = p

\* A rotation has updated the row of token t, a revocation has deleted it.
HoldsToken(x, t) ==
  \/ x.pc = "rotating" /\ x.t = t
  \/ x.pc = "killing" /\ t \in x.seen

TokenLocked(t) == \E r \in Req : HoldsToken(req[r], t)

\* The cascade of the DELETE has reached the sessions of its player, which come
\* before the refresh tokens.
SessionsLocked(f) == \E s \in session : s[1] = f /\ RowLocked(s[2])

TokensOf(p) == {t \in Tok : token[t].of = p}

Family(f) == {t \in Tok : token[t].family = f /\ f # 0}

Init ==
  /\ alive = {} /\ minted = {} /\ guests = {} /\ drawn = {}
  /\ handle = [p \in Player |-> None]
  /\ claim = [h \in Handle |-> None]
  /\ owner = [i \in Identity |-> None]
  /\ token = [t \in Tok |-> NoToken]
  /\ issued = 0 /\ session = {} /\ lapsed = {}
  /\ ticket = [p \in Player |-> 0] /\ live = {} /\ tickets = 0
  /\ receipt = [p \in Player |-> 0]
  /\ req = [r \in Req |-> Idle]
  /\ promoted = [p \in Player |-> 0] /\ deleted = [p \in Player |-> 0]

-------------------------------------------------------------------------------
(* Sessions *)

\* Slip: the foreign key to players is missing.
Refers_NoKey(p) == TRUE

\* REFERENCES accounts.players(id): waits for a DELETE in flight, then fails.
Refers(p) == p \in alive /\ ~RowLocked(p)

\* issue_session_tx: a new refresh family and its first session.
Issue_session(p) ==
  /\ Left
  /\ issued' = issued + 1
  /\ token' = [token EXCEPT ![issued + 1] = Row(issued + 1, p, "fresh", 0)]
  /\ session' = session \cup {<<issued + 1, p>>}
  /\ UNCHANGED lapsed

\* Slip: the failed insert is tried again instead of answered.
Known_Retries(r) ==
  /\ req[r].pc = "known"
  /\ Refers(req[r].p) /\ Issue_session(req[r].p)
  /\ End(r)
  /\ UNCHANGED <<people, exits, promoted, drawn>>

\* A transaction that looked up player p issues its session; it fails when the
\* player is gone by then.
Known(r) ==
  /\ req[r].pc = "known"
  /\ \/ Refers(req[r].p) /\ Issue_session(req[r].p)
     \/ req[r].p \notin alive /\ UNCHANGED tokens
  /\ End(r)
  /\ UNCHANGED <<people, exits, promoted, drawn>>

-------------------------------------------------------------------------------
(* Registration and login *)

\* insert_player_with_identity_tx with emit_registered_tx and issue_session_tx:
\* a free pair is claimed, or every attempt meets a claimed one.
Provision(i) ==
  \/ \E p \in Player \ minted, h \in Handle :
       /\ claim[h] = None /\ owner[i] = None
       /\ claim' = [claim EXCEPT ![h] = p]
       /\ handle' = [handle EXCEPT ![p] = h]
       /\ alive' = alive \cup {p} /\ minted' = minted \cup {p}
       /\ owner' = [owner EXCEPT ![i] = p]
       /\ guests' = IF i \in Guest THEN guests \cup {p} ELSE guests
       /\ Issue_session(p)
  \/ /\ owner[i] # None \/ \E h \in Handle : claim[h] # None
     /\ UNCHANGED <<people, tokens>>

\* register_hashed_with_token takes no lock: the unique key answers Conflict.
Register(r, i) ==
  /\ i \in Dev /\ ~Busy(r) /\ Room
  /\ Provision(i)
  /\ UNCHANGED <<exits, promoted, drawn, req>>

\* login: password_identity, then issue_session in a transaction of its own.
Login(r, i) ==
  /\ i \in Dev /\ owner[i] # None
  /\ Start(r, Ask("known", owner[i], None, 0))
  /\ UNCHANGED <<people, tokens, exits, promoted, drawn>>

\* create_guest: a ticket with a subject nobody has had.
Create_guest(r, i) ==
  /\ i \in Guest \ drawn
  /\ drawn' = drawn \cup {i}
  /\ Start(r, Ask("verified", None, i, 0))
  /\ UNCHANGED <<people, tokens, exits, promoted>>

\* verify_credential: the provider vouches for the subject; a guest's secret is
\* looked up in its identity row (guest_identity_matches).
Verified(i) == i \in Identity \ Dev /\ (i \in Guest => owner[i] # None)

\* login_federated.
Login_federated(r, i) ==
  /\ Verified(i)
  /\ Start(r, Ask("verified", None, i, 0))
  /\ UNCHANGED <<people, tokens, exits, promoted, drawn>>

LoginLock(r) ==
  /\ req[r].pc = "verified" /\ ~IdentityLocked(req[r].i)
  /\ Goto(r, "locked")
  /\ UNCHANGED <<people, tokens, exits, promoted, drawn>>

\* external_login re-reads under the lock.
LoginRead(r) ==
  LET i == req[r].i IN
  /\ req[r].pc = "locked"
  /\ req' = [req EXCEPT ![r] = Ask(IF owner[i] = None THEN "new" ELSE "known", owner[i], i, 0)]
  /\ UNCHANGED <<people, tokens, exits, promoted, drawn>>

LoginNew(r) ==
  /\ req[r].pc = "new"
  /\ Provision(req[r].i)
  /\ End(r)
  /\ UNCHANGED <<exits, promoted, drawn>>

-------------------------------------------------------------------------------
(* link_identity: the player lock, then the identity lock *)

Link(r, p, i) ==
  /\ Verified(i) /\ p \in minted
  /\ Start(r, Ask("linking", p, i, 0))
  /\ UNCHANGED <<people, tokens, exits, promoted, drawn>>

\* Slip: only the identity lock is taken.
LinkPlayer_None(r) ==
  /\ req[r].pc = "linking"
  /\ Goto(r, "linkp")
  /\ UNCHANGED <<people, tokens, exits, promoted, drawn>>

LinkPlayer(r) ==
  /\ req[r].pc = "linking" /\ ~PlayerLocked(req[r].p)
  /\ Goto(r, "linkp")
  /\ UNCHANGED <<people, tokens, exits, promoted, drawn>>

LinkIdentity(r) ==
  /\ req[r].pc = "linkp" /\ ~IdentityLocked(req[r].i)
  /\ Goto(r, "linki")
  /\ UNCHANGED <<people, tokens, exits, promoted, drawn>>

\* has_real_identity_tx; the answer is kept in seen.
Real(p) == {i \in Identity \ Guest : owner[i] = p}

LinkRead(r) ==
  /\ req[r].pc = "linki"
  /\ req' = [req EXCEPT ![r].pc = "link", ![r].seen = Real(req[r].p)]
  /\ UNCHANGED <<people, tokens, exits, promoted, drawn>>

\* link_identity_tx: the identity row, and player.promoted with it.  An identity
\* that has an owner, and a player that is gone, change nothing.
LinkWrite(r) ==
  LET p == req[r].p
      i == req[r].i IN
  /\ req[r].pc = "link"
  /\ \/ /\ owner[i] = None /\ Refers(p)
        /\ owner' = [owner EXCEPT ![i] = p]
        /\ promoted' = IF req[r].seen = {} /\ i \notin Guest
                       THEN [promoted EXCEPT ![p] = @ + 1] ELSE promoted
     \/ (owner[i] # None \/ p \notin alive) /\ UNCHANGED <<owner, promoted>>
  /\ End(r)
  /\ UNCHANGED <<alive, minted, handle, claim, guests, tokens, exits, drawn>>

-------------------------------------------------------------------------------
(* refresh *)

\* A row of an expired family rotates no more and answers Deny.
Usable(t) == token[t].family # 0 /\ token[t].family \notin lapsed

\* Slip: the UPDATE is a SELECT; the row is not locked.
Rotate_NoLock(r, t) ==
  /\ Usable(t) /\ token[t].state = "fresh"
  /\ Start(r, Ask("rotating", None, None, t))
  /\ UNCHANGED <<people, tokens, exits, promoted, drawn>>

\* rotate_refresh_tx: the UPDATE waits for the row, and finds it unused.
Rotate(r, t) ==
  /\ Usable(t) /\ token[t].state = "fresh" /\ ~TokenLocked(t)
  /\ Start(r, Ask("rotating", None, None, t))
  /\ UNCHANGED <<people, tokens, exits, promoted, drawn>>

\* complete_rotation_tx: the successor copies player, family and expiry.
Complete_rotation(r) ==
  LET t == req[r].t IN
  /\ req[r].pc = "rotating" /\ ~RowLocked(token[t].of) /\ Left
  /\ issued' = issued + 1
  /\ token' = [token EXCEPT ![t] = Row(@.family, @.of, "used", issued + 1),
                            ![issued + 1] = Row(token[t].family, token[t].of, "fresh", 0)]
  /\ session' = session \cup {<<token[t].family, token[t].of>>}
  /\ End(r)
  /\ UNCHANGED <<people, exits, promoted, lapsed, drawn>>

\* GraceReplay is decided on a used row ...
Replay(r, t) ==
  /\ Usable(t) /\ token[t].state = "used"
  /\ Start(r, Ask("replay", token[t].of, None, token[t].family))
  /\ UNCHANGED <<people, tokens, exits, promoted, drawn>>

\* ... and adds a session to the family.
Issue_access_in_family(r) ==
  /\ req[r].pc = "replay"
  /\ \/ Refers(req[r].p) /\ session' = session \cup {<<req[r].t, req[r].p>>}
     \/ req[r].p \notin alive /\ UNCHANGED session
  /\ End(r)
  /\ UNCHANGED <<people, exits, promoted, token, issued, lapsed, drawn>>

\* Revoke: the first DELETE of kill_family_tx takes its snapshot ...
Revoke(r, t) ==
  /\ Usable(t) /\ token[t].state = "late"
  /\ Start(r, [Ask("kill", None, None, token[t].family) EXCEPT !.seen = Family(token[t].family)])
  /\ UNCHANGED <<people, tokens, exits, promoted, drawn>>

\* ... waits for the rows in it, and deletes them ...
Kill_tokens(r) ==
  /\ req[r].pc = "kill" /\ \A t \in req[r].seen : ~TokenLocked(t)
  /\ Goto(r, "killing")
  /\ UNCHANGED <<people, tokens, exits, promoted, drawn>>

\* ... then the second waits for the sessions of the family, and both commit.
Kill_family(r) ==
  /\ req[r].pc = "killing" /\ ~SessionsLocked(req[r].t)
  /\ token' = [t \in Tok |-> IF t \in req[r].seen THEN NoToken ELSE token[t]]
  /\ session' = {s \in session : s[1] # req[r].t}
  /\ End(r)
  /\ UNCHANGED <<people, exits, promoted, issued, lapsed, drawn>>

-------------------------------------------------------------------------------
(* begin_delete and delete_player_atomic *)

\* upsert_delete_ticket: a ticket that has not expired is kept.
Begin_delete(p) ==
  /\ Refers(p) /\ p \notin live /\ tickets < MaxTicket
  /\ tickets' = tickets + 1
  /\ ticket' = [ticket EXCEPT ![p] = tickets + 1]
  /\ live' = live \cup {p}
  /\ UNCHANGED <<people, tokens, promoted, receipt, deleted, drawn, req>>

Delete_account(r, p, t) ==
  /\ p \in minted /\ t \in 1..tickets
  /\ Start(r, Ask("confirmed", p, None, t))
  /\ UNCHANGED <<people, tokens, exits, promoted, drawn>>

DeleteLock(r) ==
  /\ req[r].pc = "confirmed" /\ ~PlayerLocked(req[r].p)
  /\ Goto(r, "delete")
  /\ UNCHANGED <<people, tokens, exits, promoted, drawn>>

\* Slip: a replay that finds the receipt repeats the deletion.
Consume_delete_ticket_Again(r) ==
  LET p == req[r].p IN
  /\ req[r].pc = "delete"
  /\ IF (ticket[p] = req[r].t /\ p \in live) \/ receipt[p] = req[r].t
     THEN Goto(r, "deleting") ELSE End(r)
  /\ UNCHANGED <<people, tokens, exits, promoted, drawn>>

\* consume_delete_ticket_tx, and the statements up to the lock on the player
\* row.  Without a ticket the call is a replay or unknown, and only reads.
Consume_delete_ticket(r) ==
  LET p == req[r].p IN
  /\ req[r].pc = "delete"
  /\ IF ticket[p] = req[r].t /\ p \in live THEN Goto(r, "deleting") ELSE End(r)
  /\ UNCHANGED <<people, tokens, exits, promoted, drawn>>

\* Slip: the pair is freed with the player.
Reserve_handle_Free(p) == claim' = [claim EXCEPT ![handle[p]] = None]

Reserve_handle(p) == claim' = [claim EXCEPT ![handle[p]] = Reserved]

\* delete_player_steps commits: the reservation, the receipt, the row with its
\* cascades, and player.deleted.
Delete_player(r) ==
  LET p == req[r].p IN
  /\ req[r].pc = "deleting" /\ \A t \in TokensOf(p) : ~TokenLocked(t)
  /\ Reserve_handle(p)
  /\ receipt' = [receipt EXCEPT ![p] = req[r].t]
  /\ alive' = alive \ {p}
  /\ owner' = [i \in Identity |-> IF owner[i] = p THEN None ELSE owner[i]]
  /\ token' = [t \in Tok |-> IF token[t].of = p THEN NoToken ELSE token[t]]
  /\ session' = {s \in session : s[2] # p}
  /\ ticket' = [ticket EXCEPT ![p] = 0]
  /\ live' = live \ {p}
  /\ deleted' = [deleted EXCEPT ![p] = @ + 1]
  /\ End(r)
  /\ UNCHANGED <<minted, handle, guests, issued, lapsed, tickets, promoted, drawn>>

\* Deletion d waits for a token row of r: of a rotation, which waits for the player
\* row, or of a revocation, which waits for the sessions (those that no longer verify
\* included).  The database ends either of the two.
Deadlock(r, d) ==
  /\ req[d].pc = "deleting"
  /\ \E t \in TokensOf(req[d].p) : HoldsToken(req[r], t)

Deadlock_victim(r) ==
  /\ \E q \in Req : Deadlock(r, q) \/ Deadlock(q, r)
  /\ End(r)
  /\ UNCHANGED <<people, tokens, exits, promoted, drawn>>

\* A store failure or a lost connection: every path rolls back.
Rollback(r) ==
  /\ Busy(r)
  /\ End(r)
  /\ UNCHANGED <<people, tokens, exits, promoted, drawn>>

-------------------------------------------------------------------------------
(* Time and the daily prune *)

Grace_ends(t) ==
  /\ token[t].state = "used"
  /\ token' = [token EXCEPT ![t].state = "late"]
  /\ UNCHANGED <<people, exits, promoted, issued, session, lapsed, drawn, req>>

Family_lapses(f) ==
  /\ Family(f) # {} /\ f \notin lapsed
  /\ lapsed' = lapsed \cup {f}
  /\ UNCHANGED <<people, exits, promoted, token, issued, session, drawn, req>>

Session_ends(s) ==
  /\ s \in session
  /\ session' = session \ {s}
  /\ UNCHANGED <<people, exits, promoted, token, issued, lapsed, drawn, req>>

Ticket_expires(p) ==
  /\ p \in live
  /\ live' = live \ {p}
  /\ UNCHANGED <<people, tokens, promoted, ticket, tickets, receipt, deleted, drawn, req>>

Expired == {t \in Tok : token[t].family \in lapsed}

\* prune_expired_refresh_tokens and prune_expired_delete_tickets, on a delivery of the
\* event plane, whose transaction ends: whoever waits for its rows is only delayed.
Prune ==
  /\ Expired # {} \/ \E p \in Player \ live : ticket[p] # 0
  /\ \A t \in Expired : ~TokenLocked(t)
  /\ token' = [t \in Tok |-> IF t \in Expired THEN NoToken ELSE token[t]]
  /\ ticket' = [p \in Player |-> IF p \in live THEN ticket[p] ELSE 0]
  /\ UNCHANGED <<people, promoted, issued, session, lapsed, live, tickets, receipt,
                 deleted, drawn, req>>

Time ==
  \/ \E t \in Tok : Grace_ends(t) \/ Family_lapses(t)
  \/ \E s \in session : Session_ends(s)
  \/ \E p \in Player : Ticket_expires(p)
  \/ Prune

-------------------------------------------------------------------------------
Arrive(r) ==
  \/ \E i \in Identity : \/ Register(r, i) \/ Login(r, i)
                         \/ Create_guest(r, i) \/ Login_federated(r, i)
                         \/ \E p \in Player : Link(r, p, i)
  \/ \E t \in Tok : Rotate(r, t) \/ Replay(r, t) \/ Revoke(r, t)
  \/ \E p \in Player, t \in 1..MaxTicket : Delete_account(r, p, t)

Proceed(r) ==
  \/ Known(r) \/ LoginLock(r) \/ LoginRead(r) \/ LoginNew(r)
  \/ LinkPlayer(r) \/ LinkIdentity(r) \/ LinkRead(r) \/ LinkWrite(r)
  \/ Complete_rotation(r) \/ Issue_access_in_family(r) \/ Kill_tokens(r)
  \/ Kill_family(r) \/ DeleteLock(r) \/ Consume_delete_ticket(r) \/ Delete_player(r)
  \/ Deadlock_victim(r)

Next ==
  \/ \E r \in Req : Arrive(r) \/ Proceed(r) \/ Rollback(r)
  \/ \E p \in Player : Begin_delete(p)
  \/ Time

Spec == Init /\ [][Next]_vars

\* The statements of an open transaction return, and the database grants a lock in
\* the order in which it was asked for: a waiter whose lock comes free again and
\* again gets it.
Fairness == \A r \in Req : SF_vars(Proceed(r))

FairSpec == Spec /\ Fairness

-------------------------------------------------------------------------------
(* Properties *)

\* Every variable has its type, and every reference to a player is to one that exists.
TypeOK ==
  /\ alive \subseteq minted /\ minted \subseteq Player /\ guests \subseteq minted
  /\ handle \in [Player -> Handle \cup {None}]
  /\ claim \in [Handle -> Player \cup {None, Reserved}]
  /\ owner \in [Identity -> alive \cup {None}]
  /\ token \in [Tok -> [family: 0..MaxToken, of: alive \cup {None},
                        state: {"none", "fresh", "used", "late"}, next: 0..MaxToken]]
  /\ issued \in 0..MaxToken /\ session \subseteq Tok \X alive /\ lapsed \subseteq Tok
  /\ ticket \in [Player -> 0..MaxTicket] /\ receipt \in [Player -> 0..MaxTicket]
  /\ tickets \in 0..MaxTicket /\ live \subseteq Player
  /\ drawn \subseteq Guest
  /\ promoted \in [Player -> Nat] /\ deleted \in [Player -> Nat]
  /\ \A r \in Req : /\ req[r].p \in Player \cup {None}
                    /\ req[r].i \in Identity \cup {None}
                    /\ req[r].t \in 0..(MaxToken + MaxTicket)

\* A handle addresses one player for ever: no two players that ever existed share
\* a pair, the pair of a live player is claimed by it, and the pair of a deleted
\* player stays reserved (reserve_handle_tx).
HandlesAreForever ==
  \A p \in minted :
    /\ claim[handle[p]] = IF p \in alive THEN p ELSE Reserved
    /\ \A q \in minted \ {p} : handle[q] # handle[p]

\* player.deleted is appended exactly once for a deleted player, and from then on
\* no session, refresh token, identity or ticket is the player's, whatever logins,
\* links and refreshes were in flight: what delete_player_atomic promises to every
\* purge handler.
DeletedIsGone ==
  \A p \in minted :
    /\ deleted[p] = IF p \in alive THEN 0 ELSE 1
    /\ p \notin alive => /\ receipt[p] # 0 /\ ticket[p] = 0
                         /\ TokensOf(p) = {}
                         /\ \A i \in Identity : owner[i] # p
                         /\ \A s \in session : s[2] # p

\* player.promoted is appended exactly once for a guest that has linked a real
\* identity, however many links run at the same time, and never otherwise.
PromotedOnce ==
  \A p \in alive :
    promoted[p] = IF p \in guests /\ Real(p) # {} THEN 1 ELSE 0

\* Rotation keeps a family a line: at most one token is unused, and every consumed
\* one has recorded a successor of its family, so that a repeated presentation
\* can be answered.
FamilyIsALine ==
  \A t \in Tok :
    /\ token[t].state = "fresh" =>
         \A u \in Family(token[t].family) \ {t} : token[u].state # "fresh"
    /\ token[t].state \in {"used", "late"} =>
         /\ token[t].next # 0
         /\ token[token[t].next].family = token[t].family

\* Every request is answered: the lock order (player, then identity, then rows)
\* leaves no wait without an end, and the cycles of a deletion with a rotation (player
\* row, token row) and with a revocation (sessions, token rows) are broken by the
\* database.
RequestsEnd == \A r \in Req : Busy(r) ~> ~Busy(r)
=============================================================================
