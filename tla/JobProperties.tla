----------------------------- MODULE JobProperties -----------------------------
(***************************************************************************)
(* What must be true of the life of jobs modelled in JobLifecycle.         *)
(***************************************************************************)
EXTENDS JobLifecycle

Busy(w) == worker[w].pc \notin {"idle", "exit"}

(* Where a job is: the Enqueue call, queue, consumer or worker that holds  *)
(* its message, or the worker that is enqueueing it as a continuation.     *)
Holders(j) ==
  {<<"client", c>> : c \in {c \in Roots : c = j /\ client[c] = "pushing"}}
    \cup {<<"queue", m>> : m \in {m \in queue : m.id = j}}
    \cup {<<"hand", m>> : m \in {m \in hand : m.id = j}}
    \cup {<<"worker", w>> : w \in {w \in Workers : Busy(w) /\ Job(w) = j}}
    \cup {<<"spawner", w>> : w \in {w \in Workers : worker[w].pc = "push" /\ Kid(w) = j}}

(* Unique consumption: whatever fails and whenever the process dies, a job *)
(* is in one place only, so no two workers ever execute it side by side    *)
(* (Server.process, Broker.Consume, Server.retryJob).                      *)
OneHolder == \A j \in Jobs : \A x, y \in Holders(j) : x = y

(* Retrying is bounded: the handler of a job is started at most            *)
(* MaxRetries + 1 times, whatever is retried, lost or killed on the way    *)
(* (execJob's comparison of MaxRetry and Retried, retryJob's increment).   *)
AttemptsWithinBudget == \A j \in Jobs : attempts[j] <= MaxRetries[j] + 1

(* A job is reported failed, in its status or in the list of failed jobs,  *)
(* only after all its retries were used (execJob, statusFailed).           *)
FailedMeansExhausted ==
  \A j \in Jobs : j \in failed \/ jobMsg[j].status = "failed"
                    => attempts[j] = MaxRetries[j] + 1

(* The lists of finished jobs and the statuses agree: no job is in both    *)
(* lists, a final status is never visible before the list entry, and an    *)
(* entry is made only for a job that is being settled (statusDone,         *)
(* statusFailed).                                                          *)
IndexAgrees ==
  /\ success \cap failed = {}
  /\ \A j \in Jobs :
       /\ jobMsg[j].status = "successful" => j \in success
       /\ jobMsg[j].status = "failed" => j \in failed
       /\ j \in success \cup failed => jobMsg[j].status \in Final \cup {"processing"}

(* A final status is never overwritten: no late worker, retry or           *)
(* continuation writes the message of a settled job again.                 *)
FinalIsFinal ==
  [][\A j \in Jobs : jobMsg[j].status \in Final => jobMsg'[j] = jobMsg[j]]_vars

(* A result travels only from a job to its success continuations, it was   *)
(* saved by one of the attempts of that job, and no continuation goes      *)
(* without it if it was in the store when the handler returned nil         *)
(* (execJob's GetResult, enqueueWithMeta, retryJob, late Saves).           *)
Parents(j) == {p \in Jobs : \E k \in DOMAIN OnSuccess[p] : OnSuccess[p][k] = j}
Travelling == queue \cup hand \cup {worker[w].msg : w \in {w \in Workers : Busy(w)}}
ContinuationCarriesResult ==
  \A m \in Travelling :
    /\ m.prev # 0 => \E p \in Parents(m.id) : m.prev \in 1 .. attempts[p]
    /\ \A p \in Parents(m.id) : ended[p] = "saved" => m.prev # 0

(* No job is lost: when nothing fails and nobody stops the server, a job   *)
(* that was recorded and has no final status is held by someone; only a    *)
(* job whose task has no handler is dropped (process, retryJob,            *)
(* enqueueWithMeta).                                                       *)
NoJobLost ==
  ~ctxDone =>
    \A j \in Registered :
      Known(j) => Holders(j) # {} \/ jobMsg[j].status \in Final

(* A job whose execution was taken for completed is not executed again and *)
(* never failed, whatever call fails and whenever the process dies before  *)
(* its status says so; and only such a job becomes successful: no error    *)
(* and no deadline is taken for nil (execJob, retryJob, statusDone).       *)
(* Completed includes interrupted: execJob takes a cancellation for nil.   *)
Completed(j) == ended[j] # "no"
CompletedOnce ==
  /\ [](\A j \in Jobs : j \in success \/ jobMsg[j].status = "successful" => Completed(j))
  /\ [][\A j \in Jobs : Completed(j) =>
          /\ attempts'[j] = attempts[j] /\ ended'[j] = ended[j]
          /\ j \notin failed' /\ jobMsg'[j].status # "failed"]_vars

(* jobs.go:58: the result of the previous job "will be nil if the previous *)
(* job doesn't set the results": a settled parent without a result is not  *)
(* an obstacle for its success continuations.                              *)
SilentJobIsContinued ==
  \A j \in Jobs : ended[j] = "silent" /\ Holders(j) = {} =>
    \A k \in DOMAIN OnSuccess[j] : Known(OnSuccess[j][k])

(* Every recorded job with a handler is settled in the end, also when its  *)
(* handler never returns but has a timeout, unless the server is stopped   *)
(* (execJob's deadline, retryJob, statusDone, statusFailed).               *)
RecordedJobsSettle ==
  \A j \in Registered : Known(j) ~> jobMsg[j].status \in Final \/ ctxDone

(* After the context is cancelled every worker returns, so Start does      *)
(* (server_test.go:91: "Server failed to shut down within timeout").       *)
ShutdownCompletes ==
  ctxDone ~> \A w \in Workers : worker[w].pc = "exit"

(* The stored job messages behave as JobStatus promises.                   *)
Observed == INSTANCE JobStatus WITH
  status  <- [j \in Jobs |-> jobMsg[j].status],
  retried <- [j \in Jobs |-> jobMsg[j].retried]
ImplementsJobStatus == Observed!Spec

(* Messages come and go in the broker as in Broker, the promise that       *)
(* InMemoryBroker is shown to keep: a message is only ever added when it   *)
(* is nowhere in the broker, and retries and results stay within bounds.   *)
Carryable ==
  LET attempt == UNION {1 .. (MaxRetries[p] + 1) : p \in Jobs} IN
  UNION {[id : {j}, retried : 0 .. MaxRetries[j], prev : {0} \cup attempt] : j \in Jobs}
LaneOf(m) == QueueOf[m.id]
Carried == INSTANCE Broker WITH
  Msg <- Carryable, Lane <- LaneOf, Lossy <- Faults \/ CtxAware
UsesBroker == Carried!Spec

=============================================================================
