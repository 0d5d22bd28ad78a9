SPECIFICATION Spec
CONSTANTS
  s1 = s1
  s2 = s2
  s3 = s3
  t1 = t1
  t2 = t2
  t3 = t3
  p1 = p1
  p2 = p2
  w1 = w1
  w2 = w2
  Sub = {s1, s2, s3}
  Stream = {t1, t2, t3}
  StreamOf <- Streams
  Start <- Starts
  ExplicitAt <- FirstEvent
  Typed = {s1}
  Policy <- Policies
  Emits = {t3}
  Producer = {p1, p2}
  Worker = {w1, w2}
  PauseAfter = 2
  GcBatch = 1
  MaxFailures = 3
  MaxGen = 2
  MaxXid = 4
  MaxTie = 3
SYMMETRY Symmetry
CONSTRAINT Within
INVARIANTS
  TypeOK
  NoGap
  ClaimIsCurrent
  UnconsumedIsKept
PROPERTIES
  NeverDeliversHalted
  GenerationFence
  ImplementsLog
