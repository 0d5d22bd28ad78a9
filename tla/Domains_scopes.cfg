SPECIFICATION MCSpec
CONSTANTS
  x1 = x1
  Player = {1, 2, 3}
  PartyId = {x1, x2}
  None = none
  Request = {r1, r2}
  Sweeper = sweeper
  MaxMembers = 2
  Attempts = 2
  MaxRev = 4
  MaxEdge = 2
  MaxPending = 1
  Ask = {k1, k2}
  Holder = {1}
  Currency = {"gold"}
  Movement <- Movements
  Starter <- Grants
  Call = {c1, c2}
  Ceiling = 3
SYMMETRY Symmetry
INVARIANTS EventsTellTheGraph LedgerRunsToBalance ReplayAnswersAlike PartyIsWhole
PROPERTY RevisionOrdersViews
CHECK_DEADLOCK FALSE
