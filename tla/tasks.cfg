CONSTANTS
  add = add  div = div  sub = sub  del = del  s1 = s1
  Servers = {s1}
  Calls = {add, div, sub}
  Deletes = {del}
  At <- MCAt
  Name <- MCName
  Queue <- MCQueue
  Conc <- MCConc
  DefaultConc = 3
  Faults = TRUE
  ListStore = TRUE
SPECIFICATION StartSpec
INVARIANTS HandlerHasQueue ServedAsAsked
CHECK_DEADLOCK FALSE
