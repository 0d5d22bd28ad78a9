SPECIFICATION FairSpec
CONSTANTS
  n1 = n1
  w1 = w1
  w2 = w2
  k1 = k1
  v1 = v1
  v2 = v2
  None = None
  Node = {n1}
  Writer = {w1, w2}
  Key = {k1}
  Value = {v1, v2}
  MaxRev = 2
  Silent = TRUE
INVARIANTS
  Coherent
  AcceptedEditIsCurrent
PROPERTIES
  EditIsWhole
  EditEnds
  Fresh
CONSTRAINT Within
