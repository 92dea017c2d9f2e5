CONSTANTS
  j1 = j1  c1 = c1  w1 = w1  w2 = w2
  Jobs = {j1}
  Procs = {c1, w1, w2}
  Workers = {w1, w2}
  Retries = 1
  Setups <- MCSetups
  Purgers = {c1}
  MetaExpiry = 1
  Horizon = 3
  MaxFaults = 1
  None = None
SPECIFICATION Spec
INVARIANTS FinalIsBacked DeletedStaysOut
PROPERTIES StatusAdvances
CHECK_DEADLOCK FALSE
