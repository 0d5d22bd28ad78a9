------------------------------- MODULE Party -------------------------------
(***************************************************************************)
(* Player parties (modules/party): membership rows, parties, invites and   *)
(* the one sequence their revisions are drawn from, worked on by           *)
(* concurrent transactions in READ COMMITTED.  A party's advisory lock is  *)
(* held from Lock to the end of the transaction.  A membership row a       *)
(* transaction has inserted or deleted is locked until it ends, and the    *)
(* INSERT of the same player waits for it; so is the invite row an accept  *)
(* has consumed.  The tables below hold committed rows only: a             *)
(* transaction's writes show at Commit, all at once.                       *)
(*                                                                         *)
(* Left out: handles and the directory lookup, the wording of answers.  An *)
(* answer and a push are views of a committed state (View), so what is     *)
(* said of every committed View is said of each of them.  joined_at is     *)
(* represented by the revision drawn for the join: both are taken under    *)
(* the party's lock, so they order a party's members alike.  An invite is  *)
(* known by its unique key (party, invitee), and one that has expired is   *)
(* the same to every reader as one deleted.                                *)
(***************************************************************************)
EXTENDS Naturals, FiniteSets

CONSTANTS Player, PartyId, None,
          Request,      \* slots for requests in flight, and event deliveries
          Sweeper,      \* the slot of the lease sweep
          MaxMembers,   \* MAX_MEMBERS
          Attempts,     \* MEMBERSHIP_ATTEMPTS
          MaxRev        \* bound: no request starts once so many revisions are drawn

ASSUME PartyAssumption ==
    /\ IsFiniteSet(Player) /\ None \notin Player \union PartyId
    /\ MaxMembers \in Nat \ {0}

VARIABLES member,    \* members: player -> its party
          joined,    \* members.joined_at
          ready,     \* members.ready
          leased,    \* whether members.lease_until lies ahead
          leader,    \* parties.leader_id; None where there is no such row
          rev,       \* parties.revision
          inviter,   \* invites: party -> invitee -> who invited; None if no row
          prev,      \* player_revisions; 0 if no row
          seq,       \* party.revision_seq
          made,      \* the party ids drawn so far
          deleted,   \* players whose player.deleted purge has committed
          tx         \* slot -> the transaction it runs

roster == <<member, joined, ready, leased>>
vars == <<member, joined, ready, leased, leader, rev, inviter, prev, seq, made,
          deleted, tx>>

Slot == Request \union {Sweeper}

Joining == {"create", "accept"}
Leading == {"kick", "promote"}
Readying == {"ready", "not_ready"}
OfMember == {"leave"} \union Leading \union Readying
Removing == {"leave", "kick", "sweep", "purge"}
Op == Joining \union OfMember \union Removing \union {"invite"}

Idle == [op |-> "none", pc |-> "idle", me |-> None, target |-> None,
         party |-> None, tries |-> 0, rows |-> {}, rev |-> 0]

Init ==
    /\ member = [p \in Player |-> None]
    /\ joined = [p \in Player |-> 0]
    /\ ready = [p \in Player |-> FALSE]
    /\ leased = [p \in Player |-> FALSE]
    /\ leader = [c \in PartyId |-> None]
    /\ rev = [c \in PartyId |-> 0]
    /\ inviter = [c \in PartyId |-> [p \in Player |-> None]]
    /\ prev = [p \in Player |-> 0]
    /\ seq = 0
    /\ made = {}
    /\ deleted = {}
    /\ tx = [s \in Slot |-> Idle]

-----------------------------------------------------------------------------
Members(c) == {p \in Player : member[p] = c}

(* Whether the transaction of s holds the lock of party c.  A create takes *)
(* none: nobody else can name its party before it commits.                 *)
HoldsLock(s, c) ==
    /\ tx[s].pc \in {"write", "draw", "commit"}
    /\ tx[s].op # "create"
    /\ tx[s].party = c

(* The membership rows of other transactions that stand uncommitted.       *)
HeldRows(s) == UNION {tx[t].rows : t \in Slot \ {s}}

(* The invites a purge of player p deletes that an accept has consumed and *)
(* not yet committed: the purge waits for it.                              *)
HoldsInvite(t, p) ==
    /\ tx[t].op = "accept"
    /\ tx[t].pc \in {"write", "draw", "commit"}
    /\ p \in {tx[t].me, inviter[tx[t].party][tx[t].me]}

(* The row of player_revisions a purge of p deletes and t has written.     *)
HoldsRevision(t, p) == tx[t].pc = "commit" /\ p \in tx[t].rows

Go(s, pc) == tx' = [tx EXCEPT ![s].pc = pc]

(* The request is answered, or its transaction rolled back.                *)
End(s) == tx' = [tx EXCEPT ![s] = Idle]

-----------------------------------------------------------------------------
(* The parties the first read of an operation can answer: the caller's own *)
(* (party_of), the one it leads (led_party), the ones of its invites, or   *)
(* the ones with an expired lease.                                         *)
Found(op, me) ==
    CASE op = "accept" -> {c \in PartyId : inviter[c][me] # None}
      [] op = "invite" -> {c \in PartyId : member[me] = c /\ leader[c] = me}
      [] op = "sweep"  -> {c \in PartyId : \E p \in Members(c) : ~leased[p]}
      [] OTHER         -> {member[me]} \ {None}

(* Bound: a create starts only while there is a party id left for it.      *)
RoomToCreate ==
    Cardinality(made) + Cardinality({t \in Slot : tx[t].op = "create" /\ tx[t].pc = "write"})
        < Cardinality(PartyId)

(* A request reads its party and sets out to lock it.  One that finds none *)
(* is answered at once, except that a create needs none and a purge still  *)
(* has invites to delete; a caller who tries again is a new request.       *)
Begin(s) ==
    /\ tx[s].pc = "idle"
    /\ seq < MaxRev
    /\ \E op \in Op \ {"sweep"}, me, target \in Player :
         /\ op \in Leading \union {"invite"} <=> target # me
         /\ op = "purge" => /\ me \notin deleted
                            /\ \A t \in Slot : tx[t].op # "purge"
         /\ \/ /\ op = "create"
               /\ RoomToCreate
               /\ tx' = [tx EXCEPT ![s] = [Idle EXCEPT !.op = op, !.me = me,
                                                       !.pc = "write"]]
            \/ /\ op = "purge"
               /\ member[me] = None
               /\ tx' = [tx EXCEPT ![s] = [Idle EXCEPT !.op = op, !.me = me,
                                                       !.pc = "commit"]]
            \/ /\ op # "create"
               /\ \E c \in Found(op, me) :
                    tx' = [tx EXCEPT ![s] =
                             [Idle EXCEPT !.op = op, !.me = me, !.party = c,
                                          !.target = target, !.pc = "lock"]]
    /\ UNCHANGED <<roster, leader, rev, inviter, prev, seq, made, deleted>>

(* The sweep takes up a party with an expired lease (sweep_pass).          *)
BeginSweep ==
    /\ tx[Sweeper].pc = "idle"
    /\ \E c \in Found("sweep", None) :
         tx' = [tx EXCEPT ![Sweeper] = [Idle EXCEPT !.op = "sweep", !.party = c,
                                                    !.pc = "lock"]]
    /\ UNCHANGED <<roster, leader, rev, inviter, prev, seq, made, deleted>>

(* begin_locked, the next attempt: a fresh transaction reads again.        *)
Reread(s) ==
    LET t == tx[s] IN
    /\ t.pc = "read"
    /\ IF member[t.me] = None
         THEN End(s)
         ELSE tx' = [tx EXCEPT ![s] = [t EXCEPT !.party = member[t.me],
                                                !.pc = "lock"]]
    /\ UNCHANGED <<roster, leader, rev, inviter, prev, seq, made, deleted>>

(* What the first statement under the lock must find for an operation to   *)
(* go on: the caller still a member, still the leader, or the invite still *)
(* there to consume and a place free.                                      *)
Confirmed(s) ==
    LET t == tx[s] IN
    /\ t.op \in OfMember \union {"invite"} => member[t.me] = t.party
    /\ t.op \in Leading \union {"invite"} => leader[t.party] = t.me
    /\ t.op = "accept" => /\ inviter[t.party][t.me] # None
                          /\ Cardinality(Members(t.party)) < MaxMembers

(* lock_party_tx, waiting for the holder, and the check made under it.  A  *)
(* caller that has changed party meanwhile is read again, in a fresh       *)
(* transaction, Attempts times in all.                                     *)
Lock(s) ==
    LET t == tx[s] IN
    /\ t.pc = "lock"
    /\ \A u \in Slot : ~HoldsLock(u, t.party)
    /\ CASE Confirmed(s) -> Go(s, "write")
         [] /\ ~Confirmed(s)
            /\ t.op \in OfMember
            /\ member[t.me] # t.party
            /\ t.tries + 1 < Attempts ->
              tx' = [tx EXCEPT ![s] = [t EXCEPT !.pc = "read", !.party = None,
                                                !.tries = @ + 1]]
         [] OTHER -> End(s)
    /\ UNCHANGED <<roster, leader, rev, inviter, prev, seq, made, deleted>>

(* insert_member_tx: waits for an uncommitted row of the player; a         *)
(* committed one is the unique violation that ends the request.            *)
Insert(s) ==
    LET t == tx[s] IN
    /\ t.pc = "write"
    /\ t.op \in Joining
    /\ t.me \notin HeldRows(s)
    /\ \/ /\ member[t.me] # None
          /\ End(s)
          /\ UNCHANGED made
       \/ /\ member[t.me] = None
          /\ \E c \in PartyId :
               /\ IF t.op = "create" THEN c \notin made ELSE c = t.party
               /\ made' = made \union {c}
               /\ tx' = [tx EXCEPT ![s] = [t EXCEPT !.party = c, !.rows = {t.me},
                                                     !.pc = "draw"]]
    /\ UNCHANGED <<roster, leader, rev, inviter, prev, seq, deleted>>

(* The members a removal deletes: the one it names if still in this party  *)
(* (remove_member_tx), or those whose lease has run out, checked here      *)
(* under the lock (remove_expired_tx).                                     *)
Doomed(s) ==
    LET t == tx[s] IN
    {p \in Members(t.party) :
        CASE t.op = "kick"  -> p = t.target
          [] t.op = "sweep" -> ~leased[p]
          [] OTHER          -> p = t.me}

Delete(s) ==
    /\ tx[s].pc = "write"
    /\ tx[s].op \in Removing
    /\ IF Doomed(s) = {}
         THEN End(s)
         ELSE tx' = [tx EXCEPT ![s] = [@ EXCEPT !.rows = Doomed(s), !.pc = "draw"]]
    /\ UNCHANGED <<roster, leader, rev, inviter, prev, seq, made, deleted>>

(* The writes that change no membership: the target of a promotion must be *)
(* a member.                                                               *)
Stamp(s) ==
    /\ tx[s].pc = "write"
    /\ tx[s].op \in Readying \union {"promote"}
    /\ IF tx[s].op = "promote" /\ member[tx[s].target] # tx[s].party
         THEN End(s)
         ELSE Go(s, "draw")
    /\ UNCHANGED <<roster, leader, rev, inviter, prev, seq, made, deleted>>

(* upsert_invite_tx and its commit; a member is not invited.  An invite    *)
(* stamps no revision.                                                     *)
Invite(s) ==
    LET t == tx[s] IN
    /\ t.pc = "write"
    /\ t.op = "invite"
    /\ End(s)
    /\ IF member[t.target] = t.party
         THEN UNCHANGED <<inviter, leased>>
         ELSE /\ inviter' = [inviter EXCEPT ![t.party][t.target] = t.me]
              /\ leased' = [leased EXCEPT ![t.me] = TRUE]
    /\ UNCHANGED <<member, joined, ready, leader, rev, prev, seq, made, deleted>>

(* Slip: a party counts its own revisions.                                 *)
Draw_PerParty(s) ==
    /\ tx[s].pc = "draw"
    /\ seq' = seq + 1
    /\ tx' = [tx EXCEPT ![s] = [@ EXCEPT !.rev = rev[tx[s].party] + 1,
                                          !.pc = "commit"]]
    /\ UNCHANGED <<roster, leader, rev, inviter, prev, made, deleted>>

(* next_revision_tx: nextval is not undone by a rollback.                  *)
Draw(s) ==
    /\ tx[s].pc = "draw"
    /\ seq' = seq + 1
    /\ tx' = [tx EXCEPT ![s] = [@ EXCEPT !.rev = seq + 1, !.pc = "commit"]]
    /\ UNCHANGED <<roster, leader, rev, inviter, prev, made, deleted>>

-----------------------------------------------------------------------------
(* create_tx, join_tx: the row, the party's stamp, the player's revision.  *)
CommitJoin(s) ==
    LET t == tx[s] IN
    /\ t.pc = "commit"
    /\ t.op \in Joining
    /\ member' = [member EXCEPT ![t.me] = t.party]
    /\ joined' = [joined EXCEPT ![t.me] = t.rev]
    /\ ready' = [ready EXCEPT ![t.me] = FALSE]
    /\ leased' = [leased EXCEPT ![t.me] = TRUE]
    /\ leader' = [leader EXCEPT ![t.party] = IF t.op = "create" THEN t.me ELSE @]
    /\ rev' = [rev EXCEPT ![t.party] = t.rev]
    /\ inviter' = [inviter EXCEPT ![t.party][t.me] = None]
    /\ prev' = [prev EXCEPT ![t.me] = t.rev]
    /\ End(s)
    /\ UNCHANGED <<seq, made, deleted>>

(* Slip: only an empty party loses its leader.                             *)
Heir_Stays(c, gone) == IF Members(c) \subseteq gone THEN None ELSE leader[c]

(* The leave rule's choice of a leader: the old one if it stays, else the  *)
(* member that joined first; None dissolves the party.                     *)
Heir(c, gone) ==
    LET left == Members(c) \ gone IN
    IF left = {} THEN None
    ELSE IF leader[c] \in left THEN leader[c]
    ELSE CHOOSE p \in left : \A q \in left : joined[p] <= joined[q]

(* settle_removal_tx and the commit; a kick renews the leader's lease.     *)
CommitRemoval(s) ==
    LET t == tx[s]
        heir == Heir(t.party, t.rows) IN
    /\ t.pc = "commit"
    /\ t.op \in Removing \ {"purge"}
    /\ member' = [p \in Player |-> IF p \in t.rows THEN None ELSE member[p]]
    /\ joined' = [p \in Player |-> IF p \in t.rows THEN 0 ELSE joined[p]]
    /\ ready' = [p \in Player |-> p \notin t.rows /\ ready[p]]
    /\ leased' = [p \in Player |-> /\ p \notin t.rows
                                   /\ leased[p] \/ (t.op = "kick" /\ p = t.me)]
    /\ leader' = [leader EXCEPT ![t.party] = heir]
    /\ rev' = [rev EXCEPT ![t.party] = IF heir = None THEN 0 ELSE t.rev]
    /\ inviter' = [inviter EXCEPT ![t.party] =
                     [p \in Player |-> IF heir = None THEN None ELSE @[p]]]
    /\ prev' = [p \in Player |-> IF p \in t.rows THEN t.rev ELSE prev[p]]
    /\ End(s)
    /\ UNCHANGED <<seq, made, deleted>>

(* purge_player_tx: the leave rule if the player was in a party, then every*)
(* invite to or from the player and its revision row go.  The two DELETEs  *)
(* wait for the transactions that hold those rows.                         *)
CommitPurge(s) ==
    LET t == tx[s]
        heir == Heir(t.party, t.rows)
        dissolved(c) == c = t.party /\ heir = None IN
    /\ t.pc = "commit"
    /\ t.op = "purge"
    /\ \A u \in Slot \ {s} : ~HoldsInvite(u, t.me) /\ ~HoldsRevision(u, t.me)
    /\ member' = [p \in Player |-> IF p \in t.rows THEN None ELSE member[p]]
    /\ joined' = [p \in Player |-> IF p \in t.rows THEN 0 ELSE joined[p]]
    /\ ready' = [p \in Player |-> p \notin t.rows /\ ready[p]]
    /\ leased' = [p \in Player |-> p \notin t.rows /\ leased[p]]
    /\ leader' = [c \in PartyId |-> IF c = t.party THEN heir ELSE leader[c]]
    /\ rev' = [c \in PartyId |-> IF dissolved(c) THEN 0
                                 ELSE IF c = t.party THEN t.rev ELSE rev[c]]
    /\ inviter' = [c \in PartyId |-> [p \in Player |->
                     IF dissolved(c) \/ t.me \in {p, inviter[c][p]}
                       THEN None ELSE inviter[c][p]]]
    /\ prev' = [prev EXCEPT ![t.me] = 0]
    /\ deleted' = deleted \union {t.me}
    /\ End(s)
    /\ UNCHANGED <<seq, made>>

(* stamp_tx after promote or set_ready, and the commit.                    *)
CommitStamp(s) ==
    LET t == tx[s] IN
    /\ t.pc = "commit"
    /\ t.op \in Readying \union {"promote"}
    /\ leader' = [leader EXCEPT ![t.party] = IF t.op = "promote" THEN t.target ELSE @]
    /\ ready' = [ready EXCEPT ![t.me] = IF t.op = "promote" THEN @ ELSE t.op = "ready"]
    /\ leased' = [leased EXCEPT ![t.me] = TRUE]
    /\ rev' = [rev EXCEPT ![t.party] = t.rev]
    /\ End(s)
    /\ UNCHANGED <<member, joined, inviter, prev, seq, made, deleted>>

Commit(s) == CommitJoin(s) \/ CommitRemoval(s) \/ CommitPurge(s) \/ CommitStamp(s)

-----------------------------------------------------------------------------
(* get, heartbeat and invites renew the caller's lease; the UPDATE waits   *)
(* for a transaction that is removing the row.                             *)
Renew(p) ==
    /\ member[p] # None
    /\ p \notin UNION {tx[t].rows : t \in Slot}
    /\ leased' = [leased EXCEPT ![p] = TRUE]
    /\ UNCHANGED <<member, joined, ready, leader, rev, inviter, prev, seq, made,
                   deleted, tx>>

(* Time passes a member's lease.                                           *)
Lapse(p) ==
    /\ member[p] # None
    /\ leased' = [leased EXCEPT ![p] = FALSE]
    /\ UNCHANGED <<member, joined, ready, leader, rev, inviter, prev, seq, made,
                   deleted, tx>>

(* An invite is declined, or expires and is deleted by the sweep.          *)
DropInvite(c, p) ==
    /\ inviter[c][p] # None
    /\ \A t \in Slot : ~(HoldsInvite(t, p) /\ tx[t].party = c /\ tx[t].me = p)
    /\ inviter' = [inviter EXCEPT ![c][p] = None]
    /\ UNCHANGED <<roster, leader, rev, prev, seq, made, deleted, tx>>

(* A transaction fails (a lost connection, the sweep's statement timeout,  *)
(* the process dying, a deadlock the database breaks) and is rolled back.  *)
(* Bound: one that has drawn a revision fails only while revisions are     *)
(* left.                                                                   *)
Abort(s) ==
    /\ tx[s].pc # "idle"
    /\ tx[s].rev # 0 => seq < MaxRev
    /\ End(s)
    /\ UNCHANGED <<roster, leader, rev, inviter, prev, seq, made, deleted>>

Advance(s) == Reread(s) \/ Insert(s) \/ Delete(s) \/ Stamp(s) \/ Invite(s) \/ Draw(s)
              \/ Commit(s)

Next ==
    \/ \E s \in Request : Begin(s)
    \/ BeginSweep
    \/ \E s \in Slot : Lock(s) \/ Advance(s) \/ Abort(s)
    \/ \E p \in Player : Renew(p) \/ Lapse(p)
    \/ \E c \in PartyId, p \in Player : DropInvite(c, p)

Spec == Init /\ [][Next]_vars

-----------------------------------------------------------------------------
(* The three tables agree in every committed state: a party's leader is    *)
(* one of its members, a member's party exists, an invite is to a party    *)
(* that exists and to somebody outside it; and no two joins that race fill *)
(* a party beyond MAX_MEMBERS.                                             *)
PartyIsWhole ==
    /\ \A c \in PartyId : leader[c] # None => member[leader[c]] = c
    /\ \A p \in Player : member[p] # None => leader[member[p]] # None
    /\ \A c \in PartyId : Cardinality(Members(c)) <= MaxMembers
    /\ \A c \in PartyId, p \in Player :
          inviter[c][p] # None => leader[c] # None /\ member[p] # c

(* PLAYER_VIEW_SQL, and no_party.                                          *)
View(p) ==
    LET c == member[p] IN
    IF c = None
      THEN [party |-> None, revision |-> prev[p], leader |-> None, members |-> {}]
      ELSE [party |-> c, revision |-> rev[c], leader |-> leader[c],
            members |-> {<<q, joined[q], ready[q]>> : q \in Members(c)}]

(* The client's rule is to apply a view whose revision is at least the     *)
(* highest it has seen.  So what a player is shown may not change without  *)
(* its revision growing, be it in one party, from a party to none or from  *)
(* one party to another; a purge forgets the player.                       *)
ViewChangesWithRevision ==
    \A p \in Player :
        \/ View(p)' = View(p)
        \/ View(p)'.revision > View(p).revision
        \/ p \in deleted' \ deleted

RevisionOrdersViews == [][ViewChangesWithRevision]_vars
=============================================================================
