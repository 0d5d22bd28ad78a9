------------------------------ MODULE MCDomains ------------------------------
(***************************************************************************)
(* Instances of three domain modules that share nothing with one another:  *)
(* a behaviour plays one scope of one of them.                             *)
(***************************************************************************)
EXTENDS Domains, TLC

CONSTANT x1

VARIABLE scope

-------------------------------------------------------------------------------
(* Friends: three players and two concurrent requests, one outstanding request at *)
(* most.                                                                          *)

friends == <<known, edge, edges, grave, ask, broom, told>>

\* "cap": player 1 asks the others, and may have asked enough.  "purge": deletions
\* among players 1 and 2, whose requests cross.
FriendsScope == {"cap", "purge"}

FriendsWithin ==
  /\ scope = "cap" => known = {1, 2, 3} /\ \A a \in Ask : ask[a].me \in {0, 1}
  /\ scope = "purge" => 3 \in known /\ \A a \in Ask : 3 \notin F!Pair(a)

-------------------------------------------------------------------------------
(* Wallet: a credit, a movement with its key and another reason, a debit, and a *)
(* starter grant under two settings of its knob.                                *)

M(k, d, why) == [key |-> k, player |-> 1, currency |-> "gold", delta |-> d, reason |-> why]

Grants == {M("starter", 1, "starter"), M("starter", 2, "starter")}

Movements ==
  Grants \cup {M("a", 2, "play"), M("a", 2, "refund"), M("b", -1, "play")}

wallet == <<catalog, balance, ledger, purged, call, sweep, answers>>

-------------------------------------------------------------------------------
(* Party: three players, two parties of at most two members, two concurrent      *)
(* requests.                                                                     *)

Uses(ops) == \A s \in Slot : tx[s].op \in ops \cup {"none"}

Alone == made \subseteq {x1} /\ \A s \in Slot : 3 \notin {tx[s].me, tx[s].target}

Leased == \A p \in Player : member[p] # None => leased[p]

\* "join": three players and one place.  "lead": every operation of the members of one
\* party.  "move": two players between two parties.  "lease": leases run out under
\* one request at a time.  "delete": players are deleted.
PartyScope == {"join", "lead", "move", "lease", "delete"}

PartyWithin ==
  /\ scope = "join" => Uses({"create", "invite", "accept"}) /\ made \subseteq {x1} /\ Leased
  /\ scope = "lead" => Uses(Op \ {"purge"}) /\ Alone /\ Leased
  /\ scope = "move" => /\ Uses({"create", "invite", "accept", "leave"}) /\ Leased
                       /\ \A s \in Slot : 3 \notin {tx[s].me, tx[s].target}
  /\ scope = "lease" => /\ Uses(Op \ {"purge"}) /\ Alone
                        /\ \E r \in Request : tx[r] = Idle
  /\ scope = "delete" => Uses(Op \ {"promote", "ready", "not_ready"}) /\ Alone /\ Leased

-------------------------------------------------------------------------------
MCInit ==
  /\ scope \in FriendsScope \cup {"wallet"} \cup PartyScope
  /\ F!Init /\ W!Init /\ Init

MCNext ==
  /\ UNCHANGED scope
  /\ \/ scope \in FriendsScope /\ F!Next /\ FriendsWithin' /\ UNCHANGED <<wallet, vars>>
     \/ scope = "wallet" /\ W!Next /\ UNCHANGED <<friends, vars>>
     \/ scope \in PartyScope /\ Next /\ PartyWithin' /\ UNCHANGED <<friends, wallet>>

MCSpec == MCInit /\ [][MCNext]_<<scope, friends, wallet, vars>>

Symmetry == Permutations(Ask) \cup Permutations(Call) \cup Permutations(Request)
=============================================================================
