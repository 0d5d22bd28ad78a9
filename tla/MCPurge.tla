------------------------------- MODULE MCPurge -------------------------------
(* An instance of Purge for TLC, explored one scope of inputs at a time. *)
EXTENDS Purge, TLC

CONSTANTS c1, c2, r1, r2, g1

VARIABLE scope

\* "cap": two creates race for one player.  "backlog": grants race with the deletion
\* of two players, and a batch holds one.  "failures": creates and the owner's delete
\* race with the deletion of a player, and deliveries fail.
Scope == {"cap", "backlog", "failures"}

Idle(r) == creator[r] = NoCreate

Within ==
  /\ scope = "cap"      => /\ account = Player /\ failed = 0
                           /\ \A r \in Creator : creator[r].p # 2
                           /\ granter[g1] = NoGrant
  /\ scope = "backlog"  => failed = 0 /\ Idle(r1) /\ Idle(r2)
  /\ scope = "failures" => /\ 2 \in account /\ of[c2] = Nobody
                           /\ Idle(r2) /\ creator[r1].p # 2 /\ granter[g1] = NoGrant

MCNext == Next /\ UNCHANGED scope /\ Within'

MCInit == Init /\ scope \in Scope

MCSpec == MCInit /\ [][MCNext]_<<vars, scope>> /\ Fairness
=============================================================================
