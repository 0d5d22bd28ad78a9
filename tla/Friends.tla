------------------------------- MODULE Friends -------------------------------
(***************************************************************************)
(* The friends module (modules/friends): requests, their answers and their *)
(* removal as concurrent READ COMMITTED transactions over one table with a *)
(* unique index on the pair, the events that tell the graph to the other   *)
(* modules, and the purge of a deleted player.                             *)
(*                                                                         *)
(* accept, decline and remove read the edge before their transaction only  *)
(* to name the other party; the mutating statement decides again, so each  *)
(* is one step here.  A row that the sweep has deleted and not committed   *)
(* makes every statement on its pair wait.                                 *)
(***************************************************************************)
EXTENDS Integers, Sequences, FiniteSets

CONSTANTS
  Player,   \* player ids: numbers, in the order of their uuids
  MaxEdge,  \* bound: relations ever created
  MaxPending,  \* MAX_PENDING_OUTSTANDING
  Ask  \* calls of request that may be in flight at the same time

VARIABLES
  known,   \* players the accounts directory finds
  edge,    \* friends.edges by id, in the order of creation
  edges,   \* relations created so far
  grave,   \* friends.purged_players: none, planted, swept
  ask,     \* calls of request
  broom,   \* the delivery of the purge sweep
  told     \* the events committed for each edge, in order

vars == <<known, edge, edges, grave, ask, broom, told>>

Edge == 1..MaxEdge

NoEdge  == [pair |-> {}, by |-> 0, state |-> "none"]
NoAsk   == [pc |-> "idle", me |-> 0, you |-> 0]
NoBroom == [done |-> {}, rows |-> {}]  \* rows: <<edge, the player swept>>

There(e) == edge[e].state \in {"pending", "accepted"}

Of(p) == {e \in Edge : There(e) /\ p \in edge[e].pair}

Between(p, q) == {e \in Edge : There(e) /\ edge[e].pair = {p, q}}

Pair(a) == {ask[a].me, ask[a].you}

Swept == {r[1] : r \in broom.rows}

Init ==
  /\ known = Player
  /\ edge = [e \in Edge |-> NoEdge] /\ edges = 0
  /\ grave = [p \in Player |-> "none"]
  /\ ask = [a \in Ask |-> NoAsk] /\ broom = NoBroom
  /\ told = [e \in Edge |-> <<>>]

\* An event names its subject's state and who acted.
Tell(e, what, who) == told' = [told EXCEPT ![e] = Append(@, <<what, who>>)]

-------------------------------------------------------------------------------
(* request *)

AskFrame == UNCHANGED <<known, edge, edges, grave, broom, told>>

Goto(a, pc) == ask' = [ask EXCEPT ![a].pc = pc]

End(a) == ask' = [ask EXCEPT ![a] = NoAsk]

\* The directory names the target before the transaction begins; a caller it does
\* not find goes on without a handle.
Begin_request(a, me, you) ==
  /\ ask[a] = NoAsk /\ me # you /\ you \in known
  /\ ask' = [ask EXCEPT ![a] = [pc |-> "found", me |-> me, you |-> you]]
  /\ AskFrame

Lock_requester(a) ==
  /\ ask[a].pc = "found"
  /\ \A b \in Ask \ {a} : ask[b].me = ask[a].me => ask[b].pc \in {"idle", "found"}
  /\ Goto(a, "locked") /\ AskFrame

Is_player_purged(p) == grave[p] # "none"

Guard(a) ==
  /\ ask[a].pc = "locked"
  /\ IF Is_player_purged(ask[a].me) THEN End(a) ELSE Goto(a, "guarded")
  /\ AskFrame

\* The sweep has deleted the row of the pair and not committed.
Sweeping(a) == \E e \in Swept : edge[e].pair = Pair(a)

\* ... or somebody has inserted one and not committed.
Contended(a) ==
  Sweeping(a) \/ \E b \in Ask \ {a} : ask[b].pc = "inserted" /\ Pair(b) = Pair(a)

\* ON CONFLICT DO NOTHING, on the first attempt and on the one retry: a second
\* conflict is the failure "neither created nor resolvable".
Insert_pending(a) ==
  /\ ask[a].pc \in {"guarded", "gone"} /\ ~Contended(a)
  /\ IF Between(ask[a].me, ask[a].you) = {} THEN Goto(a, "inserted")
     ELSE IF ask[a].pc = "guarded" THEN Goto(a, "conflict") ELSE End(a)
  /\ AskFrame

Authored(p) == {e \in Edge : edge[e].state = "pending" /\ edge[e].by = p}

\* commit_new_request: the count includes the new row; over the cap it rolls back.
Commit_new_request(a) ==
  LET new == edges + 1 IN
  /\ ask[a].pc = "inserted" /\ edges < MaxEdge
  /\ IF Cardinality(Authored(ask[a].me)) + 1 > MaxPending
       THEN UNCHANGED <<edge, edges, told>>
       ELSE /\ edge' = [edge EXCEPT ![new] =
                 [pair |-> Pair(a), by |-> ask[a].me, state |-> "pending"]]
            /\ edges' = new
            /\ Tell(new, "requested", ask[a].me)
  /\ End(a)
  /\ UNCHANGED <<known, grave, broom>>

\* Slip: a conflict is taken for the other player's request.
Crosses_Own(a, e) == edge[e].state = "pending"

\* The request it met is pending, and the other player's.
Crosses(a, e) == edge[e].state = "pending" /\ edge[e].by # ask[a].me

\* accept_crossing_tx, friend.accepted and the commit; or nothing to accept.
Accept_crossing(a) ==
  /\ ask[a].pc = "conflict" /\ ~Sweeping(a)
  /\ \/ \E e \in Between(ask[a].me, ask[a].you) :
          /\ Crosses(a, e)
          /\ edge' = [edge EXCEPT ![e].state = "accepted"]
          /\ Tell(e, "accepted", ask[a].me)
          /\ End(a)
     \/ /\ \A e \in Between(ask[a].me, ask[a].you) : ~Crosses(a, e)
        /\ Goto(a, "missed")
        /\ UNCHANGED <<edge, told>>
  /\ UNCHANGED <<known, edges, grave, broom>>

\* find_pair_tx reads what is committed: the call answers with the row as it is, or
\* tries its insert once more.
Find_pair(a) ==
  /\ ask[a].pc = "missed"
  /\ IF Between(ask[a].me, ask[a].you) # {} THEN End(a) ELSE Goto(a, "gone")
  /\ AskFrame

\* A store failure or a lost connection.  Also the bound on relations.
Rollback(a) == ask[a] # NoAsk /\ End(a) /\ AskFrame

-------------------------------------------------------------------------------
(* accept, decline, remove *)

\* The row is there and nobody is deleting it.
Held(e) == There(e) /\ e \notin Swept

\* The predicate of accept_tx and decline_tx.
Consents(me, e) == Held(e) /\ edge[e].state = "pending" /\ me \in edge[e].pair \ {edge[e].by}

Accept(me, e) ==
  /\ Consents(me, e)
  /\ edge' = [edge EXCEPT ![e].state = "accepted"]
  /\ Tell(e, "accepted", me)
  /\ UNCHANGED <<known, edges, grave, ask, broom>>

Drop(e, me, reason) ==
  /\ edge' = [edge EXCEPT ![e].state = "removed"]
  /\ Tell(e, reason, me)
  /\ UNCHANGED <<known, edges, grave, ask, broom>>

Decline(me, e) == Consents(me, e) /\ Drop(e, me, "declined")

\* Decided from the deleted row.
Reason(me, e) ==
  IF edge[e].state = "accepted" THEN "unfriended"
  ELSE IF edge[e].by = me THEN "withdrawn" ELSE "declined"

Remove(me, e) == Held(e) /\ me \in edge[e].pair /\ Drop(e, me, Reason(me, e))

-------------------------------------------------------------------------------
(* The purge *)

\* accounts deletes a player; its player.deleted is on its way.
Delete_player(p) ==
  /\ p \in known
  /\ known' = known \ {p}
  /\ UNCHANGED <<edge, edges, grave, ask, broom, told>>

Plant_purged_player(p) ==
  /\ p \notin known /\ grave[p] = "none"
  /\ grave' = [grave EXCEPT ![p] = "planted"]
  /\ UNCHANGED <<known, edge, edges, ask, broom, told>>

\* The sweep takes the tombstones in uuid order, all in one transaction; what
\* another transaction is inserting it does not see.
Purge_edges(p) ==
  /\ grave[p] = "planted" /\ \A q \in broom.done : q < p
  /\ broom' = [done |-> broom.done \cup {p},
               rows |-> broom.rows \cup ((Of(p) \ Swept) \X {p})]
  /\ UNCHANGED <<known, edge, edges, grave, ask, told>>

\* The tombstones are used up or the budget is: one friend.removed for each row,
\* the stamps and the checkpoint.
SweepCommit ==
  /\ broom.done # {}
  /\ edge' = [e \in Edge |->
       IF e \in Swept THEN [edge[e] EXCEPT !.state = "removed"] ELSE edge[e]]
  /\ told' = [e \in Edge |->
       IF e \in Swept
         THEN Append(told[e], <<"account_deleted", CHOOSE p \in Player : <<e, p>> \in broom.rows>>)
         ELSE told[e]]
  /\ grave' = [p \in Player |-> IF p \in broom.done THEN "swept" ELSE grave[p]]
  /\ broom' = NoBroom
  /\ UNCHANGED <<known, edges, ask>>

SweepFails ==
  /\ broom # NoBroom
  /\ broom' = NoBroom
  /\ UNCHANGED <<known, edge, edges, grave, ask, told>>

-------------------------------------------------------------------------------
AskStep(a) ==
  \/ Lock_requester(a) \/ Guard(a) \/ Insert_pending(a) \/ Commit_new_request(a)
  \/ Accept_crossing(a) \/ Find_pair(a)

Next ==
  \/ \E a \in Ask : \/ \E me, you \in Player : Begin_request(a, me, you)
                    \/ AskStep(a) \/ Rollback(a)
  \/ \E me \in Player, e \in Edge : Accept(me, e) \/ Decline(me, e) \/ Remove(me, e)
  \/ \E p \in Player : Delete_player(p) \/ Plant_purged_player(p) \/ Purge_edges(p)
  \/ SweepCommit \/ SweepFails

Spec == Init /\ [][Next]_vars

-------------------------------------------------------------------------------
(* Properties *)

\* What the events of an edge must be, given the row: who asked, who agreed, and
\* who ended it how.
Story(e) ==
  LET by    == edge[e].by
      asked == <<<<"requested", by>>>>
      ended == {<<"account_deleted", p>> : p \in edge[e].pair \ known}
      other == edge[e].pair \ {by}
  IN CASE edge[e].state = "none"     -> {<<>>}
       [] edge[e].state = "pending"  -> {asked}
       [] edge[e].state = "accepted" -> {Append(asked, <<"accepted", p>>) : p \in other}
       [] edge[e].state = "removed"  ->
            {Append(asked, x) : x \in ended \cup {<<"withdrawn", by>>}
                                       \cup ({"declined"} \X other)}
            \cup {asked \o y : y \in ({"accepted"} \X other)
                                     \X (ended \cup ({"unfriended"} \X edge[e].pair))}

\* The row is the authority; the events of an edge, which its subscribers see, must
\* not contradict it.  In the order of their commits they tell one request by its
\* author, at most one acceptance, by the player it was made to ("a player accept
\* their OWN request with a second POST" cannot happen, and two requests that cross
\* are one acceptance), and exactly one removal once the row is gone, with a reason
\* that tells a friendship's end from an offer's.
EventsTellTheGraph == \A e \in Edge : told[e] \in Story(e)
=============================================================================
