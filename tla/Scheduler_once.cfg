SPECIFICATION LiveSpec
CONSTANTS
  r1 = r1
  r2 = r2
  Replica = {r1, r2}
  Name = {1, 2}
  Interval <- OneAndTwo
  LockKey <- OneKey
  MaxTime = 3
INVARIANTS
  TypeOK
  Spaced
  FiringIsOwned
PROPERTIES
  Attended
