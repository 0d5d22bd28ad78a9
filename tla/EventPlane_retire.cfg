SPECIFICATION Spec
CONSTANTS
  s1 = s1
  t1 = t1
  p1 = p1
  p2 = p2
  s2 = s2
  w1 = w1
  w2 = w2
  Sub = {s1}
  Stream = {t1}
  StreamOf <- OnT1
  Start <- AllGenesis
  ExplicitAt <- Zero
  Typed = {s1}
  Policy <- AllMinRetention
  Emits = {}
  Producer = {p1}
  Worker = {w1}
  PauseAfter = 2
  GcBatch = 1
  MaxFailures = 3
  MaxGen = 1
  MaxXid = 4
  MaxTie = 3
PROPERTIES
  RetiredStaysRetired
