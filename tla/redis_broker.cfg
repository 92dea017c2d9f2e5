CONSTANTS
  j1 = j1  j2 = j2  s1 = s1  s2 = s2
  Jobs = {j1, j2}
  Eta <- MCEta
  Procs = {s1, s2}
  Servers = {s1, s2}
  By <- MCBy
  Setups <- MCSetups
  Horizon = 1
  MaxFaults = 1
  None = None
SPECIFICATION FairSpec
INVARIANTS NotForgotten CopiesBounded NotEarly
PROPERTIES DueIsDelivered
CHECK_DEADLOCK FALSE
