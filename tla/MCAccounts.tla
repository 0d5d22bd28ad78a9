----------------------------- MODULE MCAccounts -----------------------------
(* An instance of Accounts for TLC, explored one scope of inputs at a time. *)
EXTENDS Accounts, TLC

CONSTANTS a, b, h1, h2, g, d, x, y, r1, r2

VARIABLE scope

\* "tokens": one guest, its refresh families and its deletion.  "links": one guest
\* and two federated identities.  "names": two players, by password or federated.
Scope == {"tokens", "links", "names"}

Using(ids) == \A r \in Req : req[r].i \in ids \cup {None}

\* No refreshes, and nothing but tickets expires.
TokensRest ==
  /\ \A r \in Req : req[r].pc \notin {"rotating", "replay", "kill", "killing"}
  /\ lapsed = {} /\ \A t \in Tok : token[t].of # None => <<t, token[t].of>> \in session

OnePlayer == minted \subseteq {a} /\ owner[d] = None /\ claim[h2] = None

Within ==
  /\ scope = "tokens" => Using({g}) /\ OnePlayer
  /\ scope = "links"  => Using({g, x, y}) /\ OnePlayer /\ TokensRest /\ issued <= 2
  /\ scope = "names"  => Using({x}) /\ TokensRest /\ issued <= 3

MCNext == Next /\ UNCHANGED scope /\ Within'

MCInit == Init /\ scope \in Scope

MCSpec == MCInit /\ [][MCNext]_<<vars, scope>> /\ Fairness
=============================================================================
