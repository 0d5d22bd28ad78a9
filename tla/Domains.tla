------------------------------ MODULE Domains ------------------------------
(***************************************************************************)
(* Party, Friends and Wallet side by side, as in the monolith.  They share *)
(* the players and no table.                                               *)
(***************************************************************************)
EXTENDS Party, Integers

CONSTANTS MaxEdge, MaxPending, Ask  \* of Friends

CONSTANTS
  Holder,  \* the players with a wallet
  Currency, Movement, Starter, Call, Ceiling

VARIABLES known, edge, edges, grave, ask, broom, told

VARIABLES catalog, balance, ledger, purged, call, sweep, answers

F == INSTANCE Friends

W == INSTANCE Wallet WITH Player <- Holder

ASSUME DomainsAssumption == MaxEdge \in Nat /\ W!WalletConstants

\* Friends: the events committed for an edge tell the state of its row, in order.
EventsTellTheGraph == F!EventsTellTheGraph

\* Wallet: a key moves money once, and the ledger in seq order is the history of
\* the balance.
LedgerRunsToBalance == W!LedgerRunsToBalance

\* Wallet: every replay of a movement is answered as the original call was.
ReplayAnswersAlike == W!ReplayAnswersAlike
=============================================================================
