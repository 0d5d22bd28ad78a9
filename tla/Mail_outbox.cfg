SPECIFICATION Spec
CONSTANTS
  k1 = k1
  k2 = k2
  h1 = h1
  h2 = h2
  b1 = b1
  b2 = b2
  p1 = p1
  p2 = p2
  Blank = Blank
  Key = {k1}
  Header = {h1, h2}
  Body = {b1, b2}
  Process = {p1, p2}
  SendTimeout = 1
  AcquireDeadline = 2
  DrainDeadline = 1
  DrainBatch = 1
  MaxAttempts = 2
  MaxId = 2
  MaxGen = 4
  RequeueGen = 2
  MaxDeaths = 0
SYMMETRY Symmetry
CHECK_DEADLOCK FALSE
INVARIANTS
  TypeOK
  SentWasAccepted
  NoMailIsLost
  VerdictIsRight
PROPERTIES
  FinalIsFinal
