CONSTANTS
  add = add  div = div  sub = sub  del = del  s1 = s1
  Servers = {s1}
  Calls = {add, div, sub}
  Deletes = {}
  At <- MCAt
  Name <- MCName
  Queue <- MCQueue
  Conc <- MCConc
  DefaultConc = 3
  Faults = FALSE
  ListStore = TRUE
SPECIFICATION StartSpec
INVARIANTS RegisteredIsListed
CHECK_DEADLOCK FALSE
