SPECIFICATION Spec
CONSTANTS
  None = None
  Node = {n1, n2}
  Writer = {w1}
  Key = {k1}
  Value = {v1, v2}
  MaxRev = 3
  Silent = FALSE
PROPERTIES
  EditIsWhole
