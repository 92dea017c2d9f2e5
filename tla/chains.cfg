CONSTANTS
  j1 = j1  j2 = j2  j3 = j3  side = side  r1 = r1  r2 = r2
  Jobs = {j1, j2, j3, side}
  Chain <- MCChain
  Own <- Plain
  OnError <- MCOnError
  MaxRetries <- MCMaxRetries
  Readers = {r1, r2}
  MaxPrev = 3
  NoChain = NoChain
SPECIFICATION Spec
INVARIANTS VerdictIsTrue NextJobIsThere AnswerIsFresh PrevJobsAreCompleted
CHECK_DEADLOCK FALSE
