SPECIFICATION DrainSpec
CONSTANTS
  k1 = k1
  k2 = k2
  h1 = h1
  h2 = h2
  b1 = b1
  b2 = b2
  p1 = p1
  p2 = p2
  Blank = Blank
  Key = {k1, k2}
  Header = {h1}
  Body = {b1}
  Process = {p1}
  SendTimeout = 2
  AcquireDeadline = 1
  DrainDeadline = 1
  DrainBatch = 1
  MaxAttempts = 2
  MaxId = 2
  MaxGen = 5
  RequeueGen = 1
  MaxDeaths = 1
CHECK_DEADLOCK FALSE
PROPERTIES
  Settles
