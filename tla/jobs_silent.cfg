CONSTANTS
  j1 = j1  j2 = j2  j3 = j3  j4 = j4  w1 = w1  w2 = w2  q1 = q1  q2 = q2
  NoJob = NoJob
  Jobs = {j1, j2, j3}
  Roots = {j1}
  Queues = {q1}
  Workers = {w1, w2}
  QueueOf <- SameQueue
  WorkerQueue <- SameWorkerQueue
  MaxRetries <- MCMaxRetries
  OnSuccess <- MCOnSuccess
  OnError <- MCOnError
  Registered = {j1, j2, j3}
  Timed = {}
  Hangs = {}
  Savers = {}
  Faults = FALSE
  Crashes = FALSE
  Cancels = FALSE
  CtxAware = FALSE
  Indexed = TRUE
  ClosesWork = TRUE
SPECIFICATION Spec
INVARIANTS SilentJobIsContinued
CHECK_DEADLOCK FALSE
