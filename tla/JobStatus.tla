------------------------------ MODULE JobStatus ------------------------------
(***************************************************************************)
(* What the results store promises about jobs, as an observer who only     *)
(* calls Server.GetJob sees it: the status of every job, the number of     *)
(* retries written with it, and the order in which the continuations of a  *)
(* job (Job.OnSuccess, Job.OnError) may appear.  Workers, queues, handlers *)
(* and failures are absent; JobLifecycle implements this specification.    *)
(***************************************************************************)
EXTENDS Naturals, Sequences

CONSTANTS
  Jobs,        \* ids of the jobs: one per enqueueWithMeta call that mints an id
  Roots,       \* the jobs a client passes to Server.Enqueue
  MaxRetries,  \* Meta.MaxRetry of each job
  OnSuccess,   \* Job.OnSuccess: the jobs enqueued when the job succeeds
  OnError      \* Job.OnError: the jobs enqueued when the job has failed

VARIABLES
  status,      \* Meta.Status in the stored job message, "none" before the first Set
  retried      \* Meta.Retried in the stored job message

vars == <<status, retried>>

Statuses == {"none", "queued", "processing", "retrying", "successful", "failed"}
Final    == {"successful", "failed"}

(* The continuations of j: those of success (ok = TRUE) or of failure.     *)
Kids(j, ok) == IF ok THEN OnSuccess[j] ELSE OnError[j]

Known(j) == status[j] # "none"

NoKidKnown(j, ok) == \A k \in DOMAIN Kids(j, ok) : ~Known(Kids(j, ok)[k])
AllKidsKnown(j, ok) == \A k \in DOMAIN Kids(j, ok) : Known(Kids(j, ok)[k])

(* Job j may be settled one way: nothing of the other outcome has started, *)
(* and a failure needs every retry to be used up.                          *)
MaySettle(j, ok) ==
  /\ status[j] = "processing"
  /\ NoKidKnown(j, ~ok)
  /\ ok \/ retried[j] = MaxRetries[j]

Init ==
  /\ status = [j \in Jobs |-> "none"]
  /\ retried = [j \in Jobs |-> 0]

(* A client's job, or the next continuation of a job being settled, is     *)
(* recorded as queued.                                                     *)
Admit(j) ==
  /\ ~Known(j)
  /\ \/ j \in Roots
     \/ \E p \in Jobs, ok \in BOOLEAN : \E k \in DOMAIN Kids(p, ok) :
          /\ Kids(p, ok)[k] = j
          /\ MaySettle(p, ok)
          /\ \A i \in 1 .. (k - 1) : Known(Kids(p, ok)[i])
  /\ status' = [status EXCEPT ![j] = "queued"]
  /\ retried' = [retried EXCEPT ![j] = 0]

(* A worker takes the job up.                                              *)
Take(j) ==
  /\ status[j] \in {"queued", "retrying"}
  /\ status' = [status EXCEPT ![j] = "processing"]
  /\ UNCHANGED retried

(* A failed attempt is given back to the queue, while retries are left and *)
(* no continuation has been started.                                       *)
Retry(j) ==
  /\ status[j] = "processing"
  /\ retried[j] < MaxRetries[j]
  /\ \A ok \in BOOLEAN : NoKidKnown(j, ok)
  /\ status' = [status EXCEPT ![j] = "retrying"]
  /\ retried' = [retried EXCEPT ![j] = @ + 1]

(* Mutated form: the final status comes before the continuations.          *)
SettleEarly(j, ok) ==
  /\ MaySettle(j, ok)
  /\ status' = [status EXCEPT ![j] = IF ok THEN "successful" ELSE "failed"]
  /\ UNCHANGED retried

(* The job reaches its final status, after all its continuations.          *)
Settle(j, ok) ==
  /\ MaySettle(j, ok)
  /\ AllKidsKnown(j, ok)
  /\ status' = [status EXCEPT ![j] = IF ok THEN "successful" ELSE "failed"]
  /\ UNCHANGED retried

Next ==
  \E j \in Jobs :
    \/ Admit(j)
    \/ Take(j)
    \/ Retry(j)
    \/ \E ok \in BOOLEAN : Settle(j, ok)

Spec == Init /\ [][Next]_vars

=============================================================================
