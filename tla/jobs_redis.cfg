CONSTANTS
  j1 = j1  j2 = j2  j3 = j3  j4 = j4  w1 = w1  w2 = w2  q1 = q1  q2 = q2
  NoJob = NoJob
  Jobs = {j1, j2, j3, j4}
  Roots = {j1, j4}
  Queues = {q1, q2}
  Workers = {w1, w2}
  QueueOf <- MCQueueOf
  WorkerQueue <- MCWorkerQueue
  MaxRetries <- MCMaxRetries
  OnSuccess <- MCOnSuccess
  OnError <- MCOnError
  Registered = {j1, j2, j3}
  Timed = {j1, j3}
  Hangs = {j3}
  Savers = {j1}
  Faults = FALSE
  Crashes = FALSE
  Cancels = TRUE
  CtxAware = TRUE
  Indexed = TRUE
  ClosesWork = TRUE
SPECIFICATION FairSpec
INVARIANTS NoJobLost
PROPERTIES RecordedJobsSettle ShutdownCompletes
CHECK_DEADLOCK FALSE
