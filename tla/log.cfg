SPECIFICATION LogFairSpec
CONSTANTS
  Threads = {t1, t2, t3}
  MaxLength = 2
  Lengths = {1, 2}
  MaxCalls = 1
INVARIANTS
  AloneIsSafe
PROPERTY
  CallsReturn
CHECK_DEADLOCK FALSE
