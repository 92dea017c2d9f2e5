CONSTANTS
  j1 = j1  j2 = j2  kid = kid  r1 = r1  r2 = r2
  Jobs = {j1, j2, kid}
  Members = {j1, j2}
  OnSuccess <- MCOnSuccess
  OnError <- MCOnError
  MaxRetries <- MCMaxRetries
  Readers = {r1, r2}
  Faults = FALSE
  NoGroup = NoGroup
SPECIFICATION Spec
PROPERTIES FinalStays
CHECK_DEADLOCK FALSE
