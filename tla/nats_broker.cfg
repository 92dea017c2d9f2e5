CONSTANTS
  j1 = j1  j2 = j2  s1 = s1  s2 = s2
  Jobs = {j1, j2}
  Procs = {s1, s2}
  MaxFaults = 3
  None = None
SPECIFICATION FairSpec
INVARIANTS NotForgotten DeliveriesBounded
PROPERTIES StoredIsGiven
CHECK_DEADLOCK FALSE
