CONSTANTS
  j1 = j1  j2 = j2  j3 = j3  j4 = j4  w1 = w1  w2 = w2  q1 = q1  q2 = q2
  NoJob = NoJob
  Jobs = {j1, j2, j3, j4}
  Roots = {j1}
  Queues = {q1}
  Workers = {w1, w2}
  QueueOf <- SameQueue
  WorkerQueue <- SameWorkerQueue
  MaxRetries <- MCMaxRetries
  OnSuccess <- TwoOnSuccess
  OnError <- MCOnError
  Registered = {j1, j2}
  Timed = {j1}
  Hangs = {}
  Savers = {}
  Faults = TRUE
  Crashes = TRUE
  Cancels = TRUE
  CtxAware = FALSE
  Indexed = TRUE
  ClosesWork = TRUE
SPECIFICATION Spec
INVARIANTS OneHolder AttemptsWithinBudget FailedMeansExhausted IndexAgrees ContinuationCarriesResult RInv
PROPERTIES FinalIsFinal CompletedOnce ImplementsJobStatus UsesBroker
CHECK_DEADLOCK FALSE
