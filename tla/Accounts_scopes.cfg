SPECIFICATION MCSpec
CONSTANTS
  a = a
  b = b
  h1 = h1
  h2 = h2
  g = g
  d = d
  x = x
  y = y
  r1 = r1
  r2 = r2
  None = None
  Reserved = Reserved
  Player = {a, b}
  Handle = {h1, h2}
  Identity = {g, x, y, d}
  Guest = {g}
  Dev = {d}
  Req = {r1, r2}
  MaxToken = 4
  MaxTicket = 1
INVARIANTS
  TypeOK
  HandlesAreForever
  DeletedIsGone
  PromotedOnce
  FamilyIsALine
PROPERTIES
  RequestsEnd
CHECK_DEADLOCK FALSE
