SPECIFICATION MCSpec
CONSTANTS
  c1 = c1
  c2 = c2
  r1 = r1
  r2 = r2
  g1 = g1
  Nobody = Nobody
  Player = {1, 2}
  Character = {c1, c2}
  Creator = {r1, r2}
  Granter = {g1}
  Cap = 1
  PurgeBatch = 1
  MaxFailed = 1
INVARIANTS
  StarterOnce
  UnderCap
  CascadeReaches
  SweptIsEmpty
PROPERTIES
  DeletionCompletes
