----------------------------- MODULE JobLifecycle -----------------------------
(***************************************************************************)
(* The life of jobs in a Tasqueue server: a client enqueues a job, the     *)
(* broker hands its message to a consumer, a process() goroutine takes it, *)
(* runs its handler and retries it, fails it or completes it and enqueues  *)
(* its continuations (src/server.go, src/jobs.go).                         *)
(*                                                                         *)
(* One call to the results store or to the broker is one step, so workers, *)
(* clients and handler goroutines interleave between any two calls.  The   *)
(* broker is a set of messages: no order is promised (the in-memory and    *)
(* NATS brokers are FIFO, the Redis one LPUSHes and BLPOPs the same end).  *)
(***************************************************************************)
EXTENDS Naturals, Sequences

CONSTANTS
  Jobs,         \* job ids
  NoJob,        \* the id in the message of a worker that has none
  Roots,        \* jobs that clients pass to Server.Enqueue
  Queues,       \* queue names
  Workers,      \* process() goroutines
  QueueOf,      \* [Jobs -> Queues]: JobOpts.Queue
  WorkerQueue,  \* [Workers -> Queues]: the queue whose work channel a worker reads
  MaxRetries,   \* [Jobs -> Nat]: JobOpts.MaxRetries
  OnSuccess,    \* [Jobs -> Seq(Jobs)]: Job.OnSuccess
  OnError,      \* [Jobs -> Seq(Jobs)]: Job.OnError
  Registered,   \* jobs whose Task has a handler on this server
  Timed,        \* jobs with JobOpts.Timeout # 0
  Hangs,        \* jobs whose handler never returns
  Savers,       \* jobs whose handler stores a result before it ends without an error
  Faults,       \* whether calls to the store and the broker may fail
  Crashes,      \* whether the server process may be killed and restarted
  Cancels,      \* whether the context given to Start may be cancelled
  CtxAware,     \* whether store and broker refuse a call whose context is done (Redis)
  Indexed,      \* whether the store implements SetSuccess and SetFailed (all but NATS)
  ClosesWork    \* whether Broker.Consume closes the work channel (all but NATS)

(* The continuations of j: those of success (ok = TRUE) or of failure.     *)
Kids(j, ok) == IF ok THEN OnSuccess[j] ELSE OnError[j]

ASSUME TypeAssumption ==
  /\ NoJob \notin Jobs /\ Roots \subseteq Jobs /\ Registered \subseteq Jobs
  /\ QueueOf \in [Jobs -> Queues] /\ WorkerQueue \in [Workers -> Queues]
  /\ MaxRetries \in [Jobs -> Nat]
  /\ OnSuccess \in [Jobs -> Seq(Jobs)] /\ OnError \in [Jobs -> Seq(Jobs)]
  /\ {Faults, Crashes, Cancels, CtxAware, Indexed, ClosesWork} \subseteq BOOLEAN

(* DefaultMeta gives every enqueued job an id of its own: a continuation   *)
(* belongs to one place of one parent, and is no client's job.             *)
ASSUME ForestAssumption ==
  \A p1, p2 \in Jobs, ok1, ok2 \in BOOLEAN :
    \A i \in DOMAIN Kids(p1, ok1), k \in DOMAIN Kids(p2, ok2) :
      /\ Kids(p1, ok1)[i] \notin Roots
      /\ Kids(p1, ok1)[i] = Kids(p2, ok2)[k] => p1 = p2 /\ ok1 = ok2 /\ i = k

VARIABLES
  jobMsg,    \* results store, key job:msg:<id>: status and retries last Set
  saved,     \* results store, key <id>: the attempt whose Save it holds, 0 if absent
  success,   \* results store: ids given to SetSuccess
  failed,    \* results store: ids given to SetFailed
  queue,     \* messages in the broker
  hand,      \* messages a consumer holds at "work <- d"
  open,      \* queues whose work channel is not closed
  worker,    \* the state of each process() goroutine
  running,   \* handler goroutines that have not returned
  client,    \* progress of each client's Enqueue call
  ctxDone,   \* the context given to Start is cancelled
  attempts,  \* history: how often the handler of each job was started
  ended      \* history: how the execution ended after which a job was completed

store   == <<jobMsg, saved, success, failed>>
broker  == <<queue, hand, open>>
history == <<attempts, ended>>
vars    == <<store, broker, worker, running, client, ctxDone, history>>

Status == {"none", "queued", "processing", "retrying", "successful", "failed"}
Final  == {"successful", "failed"}

(* JobMessage as it travels: Meta.ID, Meta.Retried, Meta.PrevJobResult.    *)
Msg == [id : Jobs, retried : Nat, prev : Nat]
NoMsg == [id |-> NoJob, retried |-> 0, prev |-> 0]

PC == {"idle", "recv", "run", "retrying", "requeue",
       "fetch", "spawn", "push", "index", "final", "exit"}

(* "saved", "silent": the handler returned nil, with or without a result   *)
(* in the store; "cut": a cancellation ended it and was taken for nil.     *)
End == {"no", "saved", "silent", "cut"}

Resting == [pc |-> "idle", msg |-> NoMsg, ok |-> FALSE, i |-> 0, res |-> 0]

TypeOK ==
  /\ jobMsg \in [Jobs -> [status : Status, retried : Nat]]
  /\ saved \in [Jobs -> Nat]
  /\ success \subseteq Jobs /\ failed \subseteq Jobs
  /\ queue \subseteq Msg /\ hand \subseteq Msg
  /\ open \subseteq Queues
  /\ worker \in [Workers -> [pc : PC, msg : Msg \cup {NoMsg}, ok : BOOLEAN,
                             i : Nat, res : Nat]]
  /\ running \subseteq [id : Jobs, n : Nat]
  /\ client \in [Roots -> {"new", "pushing", "accepted", "error"}]
  /\ ctxDone \in BOOLEAN
  /\ attempts \in [Jobs -> Nat]
  /\ ended \in [Jobs -> End]

-----------------------------------------------------------------------------
(* Calls to the store and the broker.  "ok": done.  "failed": an error and *)
(* no effect.  "lost": done, but the caller is told it failed.             *)

Replies == {"ok"} \cup (IF Faults THEN {"lost", "failed"} ELSE {})

(* What a call made with the server's context may answer.                  *)
CtxReplies == IF ctxDone /\ CtxAware THEN {"failed"} ELSE Replies

(* setJobMessage                                                           *)
SetJob(r, j, st, n) ==
  jobMsg' = IF r = "failed" THEN jobMsg
            ELSE [jobMsg EXCEPT ![j] = [status |-> st, retried |-> n]]

(* Broker.Enqueue                                                          *)
Push(r, m) == queue' = IF r = "failed" THEN queue ELSE queue \cup {m}

(* Mutated form: a new message starts with a retry already counted.        *)
NewMsgCounted(j, prev) == [id |-> j, retried |-> 1, prev |-> prev]

NewMsg(j, prev) == [id |-> j, retried |-> 0, prev |-> prev]

Known(j) == jobMsg[j].status # "none"

Init ==
  /\ jobMsg = [j \in Jobs |-> [status |-> "none", retried |-> 0]]
  /\ saved = [j \in Jobs |-> 0]
  /\ success = {} /\ failed = {}
  /\ queue = {} /\ hand = {} /\ open = Queues
  /\ worker = [w \in Workers |-> Resting]
  /\ running = {}
  /\ client = [j \in Roots |-> "new"]
  /\ ctxDone = FALSE
  /\ attempts = [j \in Jobs |-> 0]
  /\ ended = [j \in Jobs |-> "no"]

-----------------------------------------------------------------------------
(* Clients: Server.Enqueue records the job as queued, then pushes it.      *)

ClientRecord(j) ==
  /\ client[j] = "new"
  /\ \E r \in Replies :
       /\ SetJob(r, j, "queued", 0)
       /\ client' = [client EXCEPT ![j] = IF r = "ok" THEN "pushing" ELSE "error"]
  /\ UNCHANGED <<saved, success, failed, broker, worker, running, ctxDone, history>>

ClientPush(j) ==
  /\ client[j] = "pushing"
  /\ \E r \in Replies :
       /\ Push(r, NewMsg(j, 0))
       /\ client' = [client EXCEPT ![j] = IF r = "ok" THEN "accepted" ELSE "error"]
  /\ UNCHANGED <<store, hand, open, worker, running, ctxDone, history>>

-----------------------------------------------------------------------------
(* Consumers and the work channel.                                         *)

(* Mutated form: the consumer does not wait for a worker.                  *)
HandIgnored(q) == TRUE

HandEmpty(q) == \A m \in hand : QueueOf[m.id] # q

(* Broker.Consume takes a message off the queue; the queue no longer has   *)
(* it while the consumer waits for a worker.                               *)
Consume(m) ==
  /\ m \in queue /\ QueueOf[m.id] \in open /\ HandEmpty(QueueOf[m.id])
  /\ queue' = queue \ {m}
  /\ hand' = hand \cup {m}
  /\ UNCHANGED <<store, open, worker, running, client, ctxDone, history>>

(* A message that is in the broker no more, and was not delivered: BLPOP   *)
(* took it and its answer did not arrive, or a pipe was not executed.      *)
Lose(m) ==
  /\ m \in queue /\ (Faults \/ (ctxDone /\ CtxAware))
  /\ queue' = queue \ {m}
  /\ UNCHANGED <<store, hand, open, worker, running, client, ctxDone, history>>

(* The unbuffered channel: consumer and an idle worker meet.               *)
Deliver(w, m) ==
  /\ m \in hand /\ worker[w].pc = "idle" /\ QueueOf[m.id] = WorkerQueue[w]
  /\ hand' = hand \ {m}
  /\ worker' = [worker EXCEPT ![w] = [Resting EXCEPT !.pc = "recv", !.msg = m]]
  /\ UNCHANGED <<store, queue, open, running, client, ctxDone, history>>

(* Mutated form: Consume returns without closing the work channel.         *)
CloseWorkForgotten(q) ==
  /\ ClosesWork /\ ctxDone /\ q \in open /\ HandEmpty(q)
  /\ UNCHANGED vars

(* Consume returns on ctx.Done() and its deferred close(work) runs.        *)
CloseWork(q) ==
  /\ ClosesWork /\ ctxDone /\ q \in open /\ HandEmpty(q)
  /\ open' = open \ {q}
  /\ UNCHANGED <<store, queue, hand, worker, running, client, ctxDone, history>>

(* The worker finds the channel closed and returns.                        *)
Exit(w) ==
  /\ worker[w].pc = "idle" /\ WorkerQueue[w] \notin open
  /\ worker' = [worker EXCEPT ![w].pc = "exit"]
  /\ UNCHANGED <<store, broker, running, client, ctxDone, history>>

-----------------------------------------------------------------------------
(* Workers: process() and execJob().                                       *)

Rest(w) == worker' = [worker EXCEPT ![w] = Resting]
Goto(w, pc) == worker' = [worker EXCEPT ![w].pc = pc]
Job(w) == worker[w].msg.id

(* No handler for the task: the message is dropped.                        *)
NoHandler(w) ==
  /\ worker[w].pc = "recv" /\ Job(w) \notin Registered
  /\ Rest(w)
  /\ UNCHANGED <<store, broker, running, client, ctxDone, history>>

(* The status becomes "processing" and the handler goroutine starts; if    *)
(* the status cannot be written the message is dropped.                    *)
Begin(w) ==
  LET m == worker[w].msg IN
  /\ worker[w].pc = "recv" /\ m.id \in Registered
  /\ \E r \in CtxReplies :
       /\ SetJob(r, m.id, "processing", m.retried)
       /\ IF r = "ok"
          THEN /\ Goto(w, "run")
               /\ running' = running \cup {[id |-> m.id, n |-> m.retried + 1]}
               /\ attempts' = [attempts EXCEPT ![m.id] = @ + 1]
          ELSE /\ Rest(w)
               /\ UNCHANGED <<running, attempts>>
  /\ UNCHANGED <<saved, success, failed, broker, client, ctxDone, ended>>

(* The handler goroutine the worker waits for.                             *)
HandlerOf(w) == [id |-> Job(w), n |-> worker[w].msg.retried + 1]
Awaited(a) == \E w \in Workers : worker[w].pc = "run" /\ HandlerOf(w) = a

(* Mutated forms: the comparison of the two counters is off by one.        *)
RetriesLeftTooMany(m) == m.retried <= MaxRetries[m.id]
RetriesLeftTooFew(m) == m.retried + 1 < MaxRetries[m.id]

RetriesLeft(m) == m.retried # MaxRetries[m.id]

(* Mutated form: the status is written without the list entry before it.   *)
LoopPCUnlisted(j, ok, i) ==
  IF i \notin DOMAIN Kids(j, ok) THEN "final" ELSE IF ok THEN "fetch" ELSE "spawn"

(* Where the loop over the continuations stands at the i-th.               *)
LoopPC(j, ok, i) ==
  IF i \notin DOMAIN Kids(j, ok) THEN "index" ELSE IF ok THEN "fetch" ELSE "spawn"

(* The worker's select ends with (ok) or without a nil error: the message  *)
(* is retried, or the job settled, its continuations first.                *)
Resolve(w, ok) ==
  LET m == worker[w].msg IN
  worker' = [worker EXCEPT ![w] =
    IF ~ok /\ RetriesLeft(m)
    THEN [Resting EXCEPT !.pc = "retrying", !.msg = [m EXCEPT !.retried = @ + 1]]
    ELSE [Resting EXCEPT !.pc = LoopPC(m.id, ok, 1), !.msg = m, !.ok = ok, !.i = 1]]

(* What a handler returns.                                                 *)
Answers == {"nil", "error", "canceled"}

(* The job is taken for completed: how its last execution ended.           *)
Ended(w, how) == ended' = [ended EXCEPT ![Job(w)] = how]

(* The handler's answer is received; context.Canceled counts as nil.  (An  *)
(* answer that loses the race against the deadline is a LateReturn.)       *)
HandlerReturn(w, answer) ==
  LET stored == saved[Job(w)] # 0
      ok     == answer # "error" IN
  /\ worker[w].pc = "run" /\ HandlerOf(w) \in running /\ Job(w) \notin Hangs
  /\ ok /\ Job(w) \in Savers => stored \/ (answer = "canceled" /\ ctxDone)
  /\ running' = running \ {HandlerOf(w)}
  /\ IF ok
     THEN Ended(w, IF answer = "canceled" THEN "cut" ELSE IF stored THEN "saved" ELSE "silent")
     ELSE UNCHANGED ended
  /\ Resolve(w, ok)
  /\ UNCHANGED <<store, broker, client, ctxDone, attempts>>

(* Mutated forms: execJob returns on a deadline; a deadline is never set.  *)
DeadlineDrops(w) ==
  /\ worker[w].pc = "run" /\ Job(w) \in Timed
  /\ Rest(w)
  /\ UNCHANGED <<store, broker, running, client, ctxDone, history>>

DeadlineUnset(w) ==
  /\ worker[w].pc = "run" /\ Job(w) \in Timed /\ Job(w) \notin Hangs
  /\ Resolve(w, FALSE)
  /\ UNCHANGED <<store, broker, running, client, ctxDone, history>>

(* jctx is done by its deadline: an error; the handler goroutine runs on.  *)
Deadline(w) ==
  /\ worker[w].pc = "run" /\ Job(w) \in Timed
  /\ Resolve(w, FALSE)
  /\ UNCHANGED <<store, broker, running, client, ctxDone, history>>

(* jctx is done because the server's context is: treated as no error.      *)
Cancelled(w) ==
  /\ worker[w].pc = "run" /\ ctxDone
  /\ Ended(w, "cut")
  /\ Resolve(w, TRUE)
  /\ UNCHANGED <<store, broker, running, client, ctxDone, attempts>>

(* Mutated form: a retried job is marked as if it were a new one.          *)
MarkRetryAsQueued(w) ==
  /\ worker[w].pc = "retrying"
  /\ \E r \in CtxReplies :
       /\ SetJob(r, Job(w), "queued", worker[w].msg.retried)
       /\ IF r = "ok" THEN Goto(w, "requeue") ELSE Rest(w)
  /\ UNCHANGED <<saved, success, failed, broker, running, client, ctxDone, history>>

(* retryJob: status "retrying", then the message goes back to the queue.   *)
MarkRetry(w) ==
  /\ worker[w].pc = "retrying"
  /\ \E r \in CtxReplies :
       /\ SetJob(r, Job(w), "retrying", worker[w].msg.retried)
       /\ IF r = "ok" THEN Goto(w, "requeue") ELSE Rest(w)
  /\ UNCHANGED <<saved, success, failed, broker, running, client, ctxDone, history>>

(* Mutated form: execJob does not return after retryJob.                   *)
RequeueAndGoOn(w) ==
  /\ worker[w].pc = "requeue"
  /\ \E r \in CtxReplies : Push(r, worker[w].msg)
  /\ Goto(w, "index")
  /\ UNCHANGED <<store, hand, open, running, client, ctxDone, history>>

Requeue(w) ==
  /\ worker[w].pc = "requeue"
  /\ \E r \in CtxReplies : Push(r, worker[w].msg)
  /\ Rest(w)
  /\ UNCHANGED <<store, hand, open, running, client, ctxDone, history>>

-----------------------------------------------------------------------------
(* Settling a job: the loops over OnSuccess / OnError, then the index of   *)
(* finished jobs, then the final status.                                   *)

Kid(w) == Kids(Job(w), worker[w].ok)[worker[w].i]

(* Mutated form: a failed GetResult is treated like a failed attempt.      *)
FetchRetried(w) ==
  /\ worker[w].pc = "fetch"
  /\ \E r \in CtxReplies :
       IF r = "ok" /\ saved[Job(w)] # 0
       THEN worker' = [worker EXCEPT ![w].pc = "spawn", ![w].res = saved[Job(w)]]
       ELSE Resolve(w, FALSE)
  /\ UNCHANGED <<store, broker, running, client, ctxDone, history>>

(* GetResult of the settled job, given to its next success continuation;   *)
(* a missing result is the error ErrNotFound and ends execJob.             *)
Fetch(w) ==
  /\ worker[w].pc = "fetch"
  /\ \E r \in CtxReplies :
       IF r = "ok" /\ saved[Job(w)] # 0
       THEN worker' = [worker EXCEPT ![w].pc = "spawn", ![w].res = saved[Job(w)]]
       ELSE Rest(w)
  /\ UNCHANGED <<store, broker, running, client, ctxDone, history>>

(* enqueueWithMeta for the continuation: recorded as queued ...            *)
Spawn(w) ==
  /\ worker[w].pc = "spawn"
  /\ \E r \in CtxReplies :
       /\ SetJob(r, Kid(w), "queued", 0)
       /\ IF r = "ok" THEN Goto(w, "push") ELSE Rest(w)
  /\ UNCHANGED <<saved, success, failed, broker, running, client, ctxDone, history>>

(* Mutated form: the continuation gets the result its parent was given.    *)
PushKidPrev(w) ==
  LET i == worker[w].i + 1 IN
  /\ worker[w].pc = "push"
  /\ \E r \in CtxReplies :
       /\ Push(r, NewMsg(Kid(w), worker[w].msg.prev))
       /\ IF r = "ok"
          THEN worker' = [worker EXCEPT ![w].pc = LoopPC(Job(w), worker[w].ok, i),
                                        ![w].i = i, ![w].res = 0]
          ELSE Rest(w)
  /\ UNCHANGED <<store, hand, open, running, client, ctxDone, history>>

(* ... and pushed; the loop goes on.                                       *)
PushKid(w) ==
  LET i == worker[w].i + 1 IN
  /\ worker[w].pc = "push"
  /\ \E r \in CtxReplies :
       /\ Push(r, NewMsg(Kid(w), worker[w].res))
       /\ IF r = "ok"
          THEN worker' = [worker EXCEPT ![w].pc = LoopPC(Job(w), worker[w].ok, i),
                                        ![w].i = i, ![w].res = 0]
          ELSE Rest(w)
  /\ UNCHANGED <<store, hand, open, running, client, ctxDone, history>>

(* SetSuccess or SetFailed.                                                *)
Index(w) ==
  LET add(r, ids) == IF r = "failed" THEN ids ELSE ids \cup {Job(w)} IN
  /\ worker[w].pc = "index"
  /\ \E r \in IF Indexed THEN CtxReplies ELSE {"failed"} :
       /\ IF worker[w].ok
          THEN success' = add(r, success) /\ UNCHANGED failed
          ELSE failed' = add(r, failed) /\ UNCHANGED success
       /\ IF r = "ok" THEN Goto(w, "final") ELSE Rest(w)
  /\ UNCHANGED <<jobMsg, saved, broker, running, client, ctxDone, history>>

FinalStatus(w) == IF worker[w].ok THEN "successful" ELSE "failed"

Finish(w) ==
  /\ worker[w].pc = "final"
  /\ \E r \in CtxReplies : SetJob(r, Job(w), FinalStatus(w), worker[w].msg.retried)
  /\ Rest(w)
  /\ UNCHANGED <<saved, success, failed, broker, running, client, ctxDone, history>>

-----------------------------------------------------------------------------
(* Handlers: user code that may call JobCtx.Save, before and, when the     *)
(* store ignores the cancelled job context, after the worker stopped       *)
(* waiting for it; callbacks run on the worker with that same context.     *)

Store(j, n) == saved' = [saved EXCEPT ![j] = n]

(* Mutated form: a result is stored under the key of the job message.      *)
SaveOverMessage(a) ==
  /\ a \in running
  /\ CtxAware => Awaited(a) /\ ~ctxDone
  /\ jobMsg' = [jobMsg EXCEPT ![a.id] = [status |-> "none", retried |-> 0]]
  /\ UNCHANGED <<saved, success, failed, broker, worker, running, client, ctxDone, history>>

Save(a) ==
  /\ a \in running
  /\ CtxAware => Awaited(a) /\ ~ctxDone
  /\ Store(a.id, a.n)
  /\ UNCHANGED <<jobMsg, success, failed, broker, worker, running, client, ctxDone, history>>

(* SuccessCB, FailedCB or RetryingCB, before the first call to the store.  *)
CallbackSave(w) ==
  /\ ~CtxAware
  /\ \/ worker[w].pc = "retrying"
     \/ worker[w].pc \in {"fetch", "spawn", "index"} /\ worker[w].i = 1 /\ worker[w].res = 0
  /\ Store(Job(w), attempts[Job(w)])
  /\ UNCHANGED <<jobMsg, success, failed, broker, worker, running, client, ctxDone, history>>

(* A handler nobody waits for any more returns into its buffered channel.  *)
LateReturn(a) ==
  /\ a \in running /\ ~Awaited(a) /\ a.id \notin Hangs
  /\ running' = running \ {a}
  /\ UNCHANGED <<store, broker, worker, client, ctxDone, history>>

-----------------------------------------------------------------------------
(* The environment.                                                        *)

Cancel ==
  /\ Cancels /\ ~ctxDone
  /\ ctxDone' = TRUE
  /\ UNCHANGED <<store, broker, worker, running, client, history>>

(* The server process is killed and started again; store, broker and       *)
(* clients live elsewhere.  No message is acknowledged or redelivered.     *)
Crash ==
  /\ Crashes
  /\ worker' = [w \in Workers |-> Resting]
  /\ hand' = {} /\ running' = {} /\ open' = Queues
  /\ ctxDone' = FALSE
  /\ UNCHANGED <<store, queue, client, history>>

-----------------------------------------------------------------------------

(* A step of worker w that does not depend on user code or on a clock.     *)
WorkerStep(w) ==
  \/ NoHandler(w) \/ Begin(w) \/ Cancelled(w)
  \/ MarkRetry(w) \/ Requeue(w)
  \/ Fetch(w) \/ Spawn(w) \/ PushKid(w) \/ Index(w) \/ Finish(w)
  \/ Exit(w)

Next ==
  \/ \E j \in Roots : ClientRecord(j) \/ ClientPush(j)
  \/ \E m \in queue : Consume(m) \/ Lose(m)
  \/ \E w \in Workers, m \in hand : Deliver(w, m)
  \/ \E q \in Queues : CloseWork(q)
  \/ \E w \in Workers : WorkerStep(w) \/ Deadline(w) \/ CallbackSave(w)
  \/ \E w \in Workers, answer \in Answers : HandlerReturn(w, answer)
  \/ \E a \in running : Save(a) \/ LateReturn(a)
  \/ Cancel
  \/ Crash

Spec == Init /\ [][Next]_vars

(* Goroutines are scheduled, a pending Enqueue call returns, the clock     *)
(* reaches a deadline, and a handler not in Hangs returns.  Nothing makes  *)
(* clients call Enqueue, contexts be cancelled or processes die.           *)
Fairness ==
  /\ \A j \in Roots : WF_vars(ClientPush(j))
  /\ \A q \in Queues :
       /\ WF_vars(\E m \in queue : QueueOf[m.id] = q /\ Consume(m))
       /\ WF_vars(\E w \in Workers, m \in hand : QueueOf[m.id] = q /\ Deliver(w, m))
       /\ WF_vars(CloseWork(q))
  /\ \A w \in Workers :
       /\ WF_vars(WorkerStep(w))
       /\ WF_vars(Deadline(w))
       /\ WF_vars(\E answer \in Answers : HandlerReturn(w, answer))

FairSpec == Spec /\ Fairness

=============================================================================
