# Tasqueue: specification and proofs

TLA+ specifications of Tasqueue (`src/`), a Go job queue with pluggable brokers
and results stores: the life of a job from `Enqueue` to its final status, the
groups and chains built on it, the in-memory, Redis and NATS brokers, the
results stores, and the registration of tasks up to the start of a server. TLC
checks the modules on small instances; TLAPS proves the safety of the job
lifecycle, of groups and chains, of the three brokers, of the results store and
of the registration of tasks for every instance, with the refinements between
them: each of the three brokers implements the one abstract broker, as far as
its backend can.

## 1. The system

| Component | State | Operations | Interacts with |
|---|---|---|---|
| Clients: `Enqueue`, `EnqueueGroup`, `EnqueueChain`, `GetJob`, `GetGroup`, `GetChain`, `GetResult` (`jobs.go`, `groups.go`, `chains.go`) | none: every call is a sequence of store and broker calls | record a job, push it; read, recompute and write back group and chain messages | results store, broker |
| Server: `RegisterTask`, `Start`, `process`, `execJob`, `retryJob` (`server.go`) | maps of tasks and queues, a consumer goroutine and `Concurrency` worker goroutines per queue, a handler goroutine per attempt | take a message, run the handler under a deadline, retry, fail or complete, enqueue continuations | broker (work channel), results store, user handlers and callbacks, the context given to `Start` |
| In-memory broker | map of channels, map of pending lists, two locks | `Enqueue`, `Consume`, `GetPending*` | work channel |
| Redis broker | a list and a sorted set per queue in Redis, an optional pipe per process | LPUSH, ZADD, BLPOP, a poller that moves due messages from the set to the list, `execPipe` | work channel, other processes on the same Redis |
| NATS broker | a stream and a durable consumer per queue in JetStream | publish, subscribe | work channel, never closed; acknowledgements of the client library |
| Results stores (in-memory, Redis, NATS) | results and job, group and chain messages by key; lists of successful and failed ids; tasks; with Redis an optional pipe per process | `Get`, `Set`, `SetSuccess`, `SetFailed`, `SetTask`, `GetAllTasks`, `DeleteJob`, `DeleteTask`, `expireMeta` | everybody |
| Cron scheduler | none in use: no entry is ever added | start, stop | context |

What is hard here:

* **Interleaving.** Nothing spans two calls to the store or the broker. Between
  any two, other workers, late handlers, clients and readers run.
* **Partial failure and death.** A status is written before the push it
  announces; continuations come before the status of their parent; no message
  is acknowledged, so one taken by a process that dies is gone.
* **Deadlines.** A handler that passes its deadline runs on beside the retry.
* **Shutdown.** Workers end only when the broker closes the work channel.
* **Read, modify, write without a lock** in `GetGroup`, `GetChain`, the channel
  map of the in-memory broker, `RegisterTask`, the NATS `SetTask` and
  `DeleteTask`, and the Redis poller, whose Watch names no key.
* **Pipes.** A process with a `PipePeriod` is answered before Redis has heard
  of the command; reads go around its own buffer, and what other processes
  write overtakes it.
* **Redelivery.** JetStream sends again what was not acknowledged in time.

What makes each component correct:

* *jobs*: one holder at a time, bounded retries, `failed` only when the retries
  are used up, lists and statuses that agree, final statuses that stay, a
  completed job that is not executed again, continuations that get their
  parent's result where there is one, no lost job when nothing fails, every
  recorded job settled in the end, a shutdown that completes;
* *groups and chains*: a stored verdict is true, an answer was so during the
  call, a verdict stays;
* *in-memory broker*: what is enqueued is consumed once, the pending list
  counts it and its pages are right, nobody waits for ever;
* *Redis broker*: what is accepted is not lost between its set, list, pipe and
  workers, nothing comes before it is due, duplicates stay within the one
  window the code has, everything due is delivered;
* *NATS broker*: acknowledged means that a worker had it; one duplicate per
  fault at most; everything stored is delivered;
* *results stores*: statuses move forward, a final status is backed by the list
  and by the result that was saved, what is deleted stays out;
* *registration and start*: every registered queue served with the concurrency
  asked for, a queue for every handler, a list with every task.

`PROJECT.json` lists the hazards line by line with the properties that watch
each of them.

## 2. Modules

```
JobStatus   <-- implemented by --  JobLifecycle  -- uses -->  Broker  <-- implemented by --  InMemoryBroker
    ^                                   ^                                                        |  EXTENDS
    |  INSTANCE                         |  EXTENDS                                               v
GroupStatus, ChainStatus           JobProperties <- JobInvariant <- MCJobs                  Pagination
                                                        ^
                                               JobLifecycle_proofs

TaskRegistry <-- EXTENDS -- ServerStart            ResultsStore

Broker  <-- implemented, with losses, by --  RedisBroker
        <-- implemented, while nothing fails, by --  NatsBroker

X_proofs -- EXTENDS --> X    for GroupStatus, ChainStatus, InMemoryBroker, RedisBroker, NatsBroker, ResultsStore, ServerStart
```

| Module | Models | Correspondence |
|---|---|---|
| `JobStatus` | what an observer of `GetJob` sees | `Admit` = `statusStarted`, `Take` = `statusProcessing`, `Retry` = `statusRetrying`, `Settle` = `statusDone` and `statusFailed` |
| `JobLifecycle` | `enqueueWithMeta`, `process`, `execJob`, `retryJob`, handler goroutines, consumers | `worker[w].pc` is the place in `process`/`execJob`; one action per store or broker call (table below) |
| `JobProperties`, `JobInvariant` | properties, and the inductive invariants `IInv` and `RInv` | |
| `Broker` | what the rest relies on a broker for | `Enqueue`; `Take` = off the queue; `Give` = over the work channel; `Die` = the process holding a message is gone; `Lose` = an answer of BLPOP or a pipe is lost, possible only if `Lossy` |
| `InMemoryBroker` | `brokers/in-memory/broker.go` for one queue, with the callers of it | each critical section and each channel operation is an action |
| `Pagination` | `GetPendingWithPagination` of the in-memory and Redis brokers | `MemoryPage`, `RedisPage`; `IsPage` and `Walk` say what a page is |
| `RedisBroker` | `brokers/redis/broker.go` for one queue shared by several processes | one action per Redis command: `EnqueueNow`, `EnqueuePiped`; `Exec`, `Send`, `ExecFails` = `execPipe`; `Pop`, `Hand`, `Stop` = `Consume`; `Fetch`, `PushNow`, `PushPiped`, `ZRem`, `PollerStop` = `consumeScheduled` |
| `NatsBroker` | `brokers/nats-js/broker.go` for one queue, with JetStream and the client library as far as the code relies on them | `Publish` = `Enqueue`; `Subscribe`, `Return` = `Consume`; `Callback`, `Hand`, `Ack` = the subscription's callback; `Deliver`, `Redeliver` = the NATS server |
| `ResultsStore` | `results/redis/results.go` under the writes of jobs on their way through the server | one action per Redis command: `Started` ... `SetFinal` = the writes of a job; `LateSave` = the `Save` of a handler that `execJob` no longer waits for; `NoResult` = `GetResult` before a continuation finds nothing or fails; `Send`, `ExecFails` = `execPipe`; `DeleteJob` (three commands); `PurgeFailed`, `PurgeSuccess` = `expireMeta` |
| `GroupStatus` | `groups.go` over jobs that behave as `JobStatus` | `EnqueueMember`, `StoreGroup`; `Get`, `Lookup`, `Conclude`, `Write` are the store calls of `GetGroup` |
| `ChainStatus` | `chains.go` over the same | `Linked` = `NewChain`; `Get`, `Check`, `Write` are the store calls of `GetChain` |
| `TaskRegistry` | `RegisterTask`, `SetTask`, `DeleteTask`, `GetTasks` | `Look`, `AddQueue`, `AddHandler` are the critical sections, `SetTask`, `ReadList`, `WriteList` and `DropTask`, `ScanList`, `WriteFiltered` the store calls |
| `ServerStart` | `Start` against `RegisterTask` | `StartServer` takes the map of queues, `Launch` is one turn of the range, `RangeEnds` its end, `RaceStops` the runtime's "concurrent map iteration and map write" |
| `MC*` | constants for TLC | |
| `*_proofs` | theorems | section 5 |

The worker of `JobLifecycle`:

| `pc` | Where in the code | Actions that leave it |
|---|---|---|
| `idle` | `work, ok := <-w` | `Deliver`, `Exit` |
| `recv` | `getHandler`, `statusProcessing` | `NoHandler`, `Begin` |
| `run` | the `select` of `execJob` | `HandlerReturn`, `Deadline`, `Cancelled` |
| `retrying`, `requeue` | `retryJob` | `MarkRetry`, `Requeue` |
| `fetch`, `spawn`, `push` | the loops over `OnSuccess` / `OnError` | `Fetch`, `Spawn`, `PushKid` |
| `index`, `final` | `statusDone` / `statusFailed` | `Index`, `Finish` |

How data is abstracted:

* A job is its id. `DefaultMeta` mints a fresh id for every enqueued job, so a
  continuation that *may* be enqueued is an element of `Jobs` from the start;
  `ForestAssumption` says that no id is used for two places. (Jobs with
  explicit, repeated `JobOpts.ID` are outside the model.)
* A message is `[id, retried, prev]`; `prev` and the saved result are the
  number of the attempt that saved it, 0 for none.
* A store or broker call answers `ok`, `failed` (no effect) or `lost` (an effect
  and an error), as a client of a networked server may see it. `Lose` is the
  same on the way out: BLPOP took a message and its answer did not arrive, or a
  pipe was not executed.
* The broker of `JobLifecycle` is a set: the in-memory and NATS brokers are FIFO
  and the Redis one LPUSHes and BLPOPs the same end, and no property here depends
  on an order.
* `Crash` kills workers, handlers and messages in hand, and restarts the server
  with the same registered tasks; store, broker and clients live elsewhere.
* A client call that fails is over; a client that enqueues again makes a new
  job. A client that dies half way is one whose call stops: `ClientPush` is not
  forced in `jobs_faults`.
* `GroupStatus` lets `EnqueueGroup` take the jobs in any order, a superset of
  the code's one order (the ids are interchangeable but for their retries).
* `RedisBroker` has the ETA as the score of a message and a clock of few
  instants. A call that fails is one try; go-redis' own retries of a broken
  connection are not separate steps. Of the messages due, a period moves the
  one with the highest score, as ZREVRANGEBYSCORE with a count of one does.
  BLPOP takes the end LPUSH pushes to, so the newest message comes first.
* `ResultsStore` follows the writes of each job; the push of its message, which
  makes it available to workers, goes with the status write before it. A
  handler saves or does not, and an error of `Save` is its own to handle: it may
  go on, try again or fail (it saves once without an error, which is a bound).
  Whenever the worker goes on, the handler may be left behind (`late`), by a
  deadline or a cancellation, and save afterwards. `chained` says that the job
  has a continuation, and is chosen at the start; `kept`, that its last attempt
  has saved a result, or that the worker has read one for the continuation.
  `raced` remembers the jobs whose status was written while another process had
  an older one in its pipe, the one excuse `StatusAdvances` gives.
* `JobLifecycle` records in `ended` how the execution of a job was taken for
  completed: with a result in the store ("saved"), without ("silent"), or by a
  cancellation, which `execJob` treats as a nil answer.
* In `GroupStatus` the jobs of a group may have continuations; `GetGroup` looks at
  the members alone. `GroupStatus` and `ChainStatus` record at each `Get` whether
  the jobs were over then (`over`), for the answers to be measured against.
* In `NatsBroker` a message sent again while it waits in the process (AckWait
  is over, no worker was free) counts as a fault, one sent again because it
  was lost does not.
* In `TaskRegistry` names are sequences of runes, because the NATS `SetTask`
  splits them, and the stored list is the sequence of runes of the string. A
  store call there fails with or without its effect (`StoreFails`). `met`
  records which calls overlapped. The pipelines of the Redis `SetTask` and
  `DeleteTask` are one step.
* `CtxAware`, `ClosesWork`, `Indexed` and `ListStore` are the differences between
  backends that the properties see.
* The types of all variables (`TypeOK`) are checked as a part of the first
  structural invariant of each module (`RInv`, `OnePlace`, `VerdictIsTrue`,
  `ServedAsAsked`, `CopiesBounded`, `FinalIsBacked`, `DeliveriesBounded`).

"Mutated form" operators beside some definitions are plausible bugs of the
same code; each property is known to fail when its mutated form (listed in
`PROJECT.json`) replaces the definition.

## 3. Runs

| Run | Instance | Shows |
|---|---|---|
| `jobs_faults` | a job with one retry, a timeout, two success continuations and one for its failure, two of these without a handler; two workers on one queue; every fault, death and cancellation | the safety properties of jobs, among them that a completed job is not executed again; the inductive invariant `RInv`; refinement of `JobStatus` and `Broker` |
| `jobs_redis` | two client jobs, two queues, a handler that hangs but has a timeout, others that may outlive theirs, a job without handler; no faults, but store and broker refuse calls once the context is cancelled | until cancellation no recorded job is lost and each is settled; afterwards every worker returns |
| `broker` | two producers with three jobs, one worker that retries once, capacity 1, the consumer racing both for the channel, cancellation at any time; limits of 2 and 3 for the code's 100 and 10000 | no panic, exact counting, no duplicate, right pages, refinement of `Broker`; what is in the channel that is read is consumed, calls return, shutdown delivers what is in hand, but for the situations that `Jam`, `Stuck` and `Awaited` name, all of which occur in the run |
| `groups` | two members, one retried and with an `OnError` continuation, two readers; `EnqueueGroup` fails, dies or loses an answer | stored verdicts are true; answers were so during the call |
| `chains` | three jobs, one retried, one with an `OnError` job; two readers | verdicts are true, the next job is there, answers were so during the call, the jobs listed are completed |
| `tasks` | three registrations on two queues, a `DeleteTask` and `Start` on one server with the NATS store, which may fail with and without effect; names of one and two runes | a queue for each handler; a queue registered before `Start` is served with a concurrency that was asked for, by the call itself if it overlapped no other |
| `redis_broker` | a message for now and one for later, two servers that each enqueue, consume and poll, none or one of them with a pipe; one failed call, lost answer or death; cancellation and exit at any time | nothing accepted is forgotten, copies are bounded, nothing is early, what is due is delivered |
| `results` | a job with one retry, with or without a continuation, a client and two workers, a pipe at one worker or at this one and the client; handlers that save, do not, or save late; purge of entries, `DeleteJob`, one fault | statuses advance, final statuses are backed, deleted jobs stay out |
| `nats_broker` | two messages, two servers, three faults | nothing is forgotten, deliveries are bounded, what is stored is delivered |

Runs that exhibit a disagreement between the code and what its documentation,
comments or tests say (quoted in `PROJECT.json`, `findings`):

| Run | Disagreement |
|---|---|
| `jobs_silent` | a job that saves no result is never continued, and never final (`server.go:442`, `jobs.go:59`) |
| `groups_stale_write` | a slow `GetGroup` overwrites a verdict with "processing" (`groups.go:118`) |
| `tasks_nats` | the NATS `SetTask` ranges over the runes of the stored list, so that each registration destroys the longer names before it (`results/nats-js/results.go:117`, `server.go:158`) |

Other properties hold only because of a constant in a listed configuration, or
of an excuse they name. Changing it gives the counterexample, and each is a
limit of the code:

| Change | Violated | What happens |
|---|---|---|
| `jobs_redis`: `ClosesWork = FALSE` (the NATS broker) | `ShutdownCompletes` | nobody closes the work channel; workers never end (`brokers/nats-js/broker.go:124`) |
| `jobs_redis`: `Indexed = FALSE` (the NATS store) | `NoJobLost`, `RecordedJobsSettle` | `SetSuccess` and `SetFailed` always fail, so no job gets a final status (`results/nats-js/results.go:81`) |
| `broker`: `Jam` no excuse | `EnqueueReturns` | the workers send to a full channel, whose consumer waits for a worker, so that all wait for ever, although `Enqueue` is to return (`brokers/in-memory/broker.go:72`, `interfaces.go:28`; capacity 1 for the code's 100) |
| `broker`: no excuse for a channel with another reader | `EnqueueReturns`, `EnqueuedIsConsumed` | producers and the consumer that all miss the channel each make one; what was sent to an overwritten one is never consumed, and its senders wait once it is full (`brokers/in-memory/broker.go:29-38`, `56-66`, against `interfaces.go:35`) |
| `redis_broker`: `j \in lost` no excuse, no fault | `DueIsDelivered` | a server with a pipe ends with messages in it that it has accepted (`brokers/redis/broker.go:65`, `164`) |
| `redis_broker`: `CopiesBounded` with 1 for every job | `CopiesBounded` | two pollers push the same due message before either removes it (`brokers/redis/broker.go:233-240`) |
| `results`: `raced` no excuse | `StatusAdvances` | the client's buffered "queued" is sent after the worker's final status and stays (`results/redis/results.go:189`) |
| `results`: no excuse for pipes with faults | `FinalIsBacked` | an Exec fails with the list entry in it, the next one sends the status (`results/redis/results.go:104`) |
| `results`: `Overran` no excuse | `DeletedStaysOut` | a handler past its deadline saves after `DeleteJob`, and its result is back (`server.go:386`, `results/redis/results.go:190`) |
| `results`: `kept` no condition | `FinalIsBacked` | a job whose handler returns nil without saving is successful and has no result, which is allowed; `GetResult` then reports "not found" (`server.go:392`, `457`) |
| `chains`: `Own <- WithSide`, `OnError <- Plain` | `VerdictIsTrue` | `GetChain` follows `OnSuccessIDs[0]`, here a job that is not part of the chain (`chains.go:120`) |

Further disagreements were seen while modelling. They are in the models, or a
single step of one caller, and have no run of their own:

* An interrupted job is recorded as successful: `execJob` makes a nil answer of
  a cancelled context, and of a handler's own `context.Canceled`
  (`server.go:389`, `395-397`), where `server.go:30` says of successful jobs that
  they completed without an error. With the Redis store the status write is
  refused once the context is done (`CtxAware`), unless it has a pipe; with the
  others the status stays. `CompletedOnce` therefore counts an interrupted
  job as completed and promises that it is not executed again.
* `GetPending` of the in-memory broker may list a message that was consumed, in
  place of one that was not: `Consume` drops the first entry of a list that was
  appended to in another order than the channel, by two producers or by a
  producer and a retry (`brokers/in-memory/broker.go:47`, `68-72`, against
  `interfaces.go:38`). Only the number of entries is right (`PendingCounts`).
* An omitted concurrency is refused on an existing queue, unless that has the
  default, because the default is filled in before the comparison
  (`server.go:80-82`, `99`; `README.md:178-182` of the repository shows such a
  call with "No error"). `ServedAsAsked` says nothing of refused calls.
* Two overlapping calls of `RegisterTask` for a new queue with different
  concurrencies both succeed, and the later one counts (`server.go:84-110`).
* A queue registered after `Start` ranged over the queues is never served.
* `DeleteJob` leaves the job message, which has another key (`jobs.go:230`,
  `results/redis/results.go:121`), although `interfaces.go:13` and
  `README.md:427` of the repository say that the metadata is removed. Its ZREM
  also names a member "1", so it would remove a job of that id
  (`results.go:115`).
* A worker with a pipe does not see the result it has just saved, and gives a
  job with continuations up (`NoResult`; `server.go:442`).
* With NATS the work channel is never closed (`brokers/nats-js/broker.go:124`),
  so workers never return, and a server that was refused the durable consumer
  never tries again (`brokers/nats-js/broker.go:117-122`).
* A failed group never shows the final status of its other jobs, because
  `GetGroup` returns early (`groups.go:89`, against `groups.go:20`); jobs run
  before their group is stored, the reverse of the order documented at
  `groups.go:61-65`.
* `PrevJobs` lists a job once per `GetChain` call (`chains.go:106`, `116`);
  `JobID` never advances (`chains.go:16`).
* `GetSuccess` and `GetFailed` of the in-memory store prepend as many empty ids
  as there are ids (`results/in-memory/results.go:79`, `90`).
* The Redis broker serves the newest message first and moves one due message
  per period, the latest due first (`brokers/redis/broker.go:194`, `223-228`).
* A recurring job that is delivered twice has two next occurrences, and one
  that fails for good has none (`jobs.go:157`).

Bounds. In the modules of jobs no counter needs a cap: retries are bounded by
`MaxRetries`, ids by `Jobs`, and a crash only removes. `MaxFaults`
(`RedisBroker`, `NatsBroker`, `ResultsStore`) bounds failed calls, lost answers
and deaths, which would otherwise duplicate without end; the bounds that are
stated count them, so one fault shows what each of them adds. `Horizon` ends the
clock: one instant separates "due" from "not yet due", and three instants fit an
entry older than `MetaExpiry`, one of its age and a younger one. `MaxPrev`
(chains) stops `GetChain` once `PrevJobs` has grown past 3, because that list
grows without bound. Two workers
are enough to overlap two attempts of one job, or a parent and its
continuation, and one retry is enough for an attempt to outlive its successor;
two readers are enough for a stale write; two producers for both races of the
in-memory broker; one job is enough for the results store, whose commands never
relate two jobs. The proofs remove the bounds for the properties of section 5.
Larger instances of `redis_broker` were checked once: three messages on two
servers (10 million states), and two messages with a third process that only
enqueues. No configuration checks for deadlock: a system with no more jobs to
run rests, and after a shutdown it has stopped.

## 4. Fairness

`JobLifecycle!Fairness` and `InMemoryBroker!Fairness` are weak fairness of what
the Go scheduler runs: each worker, consumer and Enqueue call that can go on.
Further, the clock reaches a deadline, and a handler that is not in `Hangs`
returns. Nothing makes a client call `Enqueue`, a context be cancelled or a
process die. Fairness is per queue and per worker, so one queue cannot stand in
for another. `Requeue` makes no promise which of several messages `Consume`
picks; with bounded retries and finitely many jobs none can be overtaken for
ever. `Start` is assumed to be called in `InMemoryBroker`.

`RedisBroker!Fairness`: the clock runs, and in each process the pipe's goroutine,
the consumer and the poller are scheduled and their calls end; a server that is
not running is started (again). Which end a call has is not promised, only the
number of faults is bounded. `NatsBroker!Fairness`: JetStream delivers what is
stored and sends again what was lost, the callback goes on, and a process that
died subscribes again; a worker takes what the callback offers, which a handler
that never ends would deny. `ResultsStore`, `TaskRegistry`, `GroupStatus` and
`ChainStatus` have no liveness property.

## 5. Proofs

Assumed are only the named assumptions on constants that TLC evaluates in the
runs: their types, and beyond these that an id is minted for one place
(`ForestAssumption`), that the jobs of a chain are distinct and not among their
own continuations (`ChainAssumption`), that callers and the consumer differ and
a channel has a capacity (`BrokerAssumption`), that limits are in the order the
code has them (`LimitAssumption`), and that names are not empty and contain no
separator (`RegistryAssumption`). No number of faults, retries or messages is bounded,
and no set assumed finite, but for the servers of Redis, which `CopiesBounded`
counts.

| Module | Theorem | States |
|---|---|---|
| `JobLifecycle_proofs` | `TypeCorrect`, `Inductive` | `[]TypeOK`, `[]IInv` |
| | `SingleHolder`, `Bounded`, `Exhausted`, `ListsAgree` | `[]OneHolder`, `[]AttemptsWithinBudget`, `[]FailedMeansExhausted`, `[]IndexAgrees` |
| | `FinalForever` | `FinalIsFinal`, an action property |
| | `InductiveToo`, `ResultsTravel` | `[]RInv`, `[]ContinuationCarriesResult` |
| | `StatusRefined`, `BrokerUsed` | `JobLifecycle` implements `JobStatus` and uses its broker as `Broker` allows: the two refinements `jobs_faults` checks |
| | `DoneOnce` | `CompletedOnce`: an invariant and an action property |
| | `NothingLost` | `[]NoJobLost`, if `NothingFails` |
| `GroupStatus_proofs` | `Inductive`, `Verdicts`, `Answers` | `[]IInv`, `[]VerdictIsTrue`, `[]AnswerIsFresh` |
| `ChainStatus_proofs` | `Walks`, `NextIsThere` | `[]WInv`, `[]NextJobIsThere` |
| | `Inductive`, `Verdicts`, `Answers`, `PrevJobs` | `[]IInv`, `[]VerdictIsTrue`, `[]AnswerIsFresh`, `[]PrevJobsAreCompleted`, if `PlainChain` |
| `InMemoryBroker_proofs` | `Inductive`, `Counting`, `Places` | `[]IInv`, `[]PendingCounts`, `[]OnePlace` |
| | `Promise` | `InMemoryBroker` implements `Broker` |
| | `Pages`, `Walked` | what a page is, for every list, offset and limit, in both brokers; the pages of a walk make up the list |
| | `PagesStayRight` | `[]PagesAreRight` |
| `RedisBroker_proofs` | `Inductive`, `Remembered`, `Punctual` | `[]IInv`, `[]NotForgotten`, `[]NotEarly` |
| | `Counted`, `Copied` | `[]CInv`, `[]CopiesBounded`, if `Servers` is finite |
| | `SharedQueueIsABroker` | the messages without an ETA implement `Broker` with `Lossy`, each with a place of its own at the workers, if `Servers` is finite |
| | `QueueIsABroker` | the same with one place for all, as `JobLifecycle` uses it, if there is one server |
| `NatsBroker_proofs` | `Inductive`, `Remembered`, `Deliveries` | `[]IInv`, `[]NotForgotten`, `[]DeliveriesBounded` |
| | `FaultlessIsABroker` | `NatsBroker` implements `Broker` without losses, as long as `faults = 0` |
| `ResultsStore_proofs` | `Inductive`, `FinalBacked`, `DeletedOut` | `[]IInv`, `[]FinalIsBacked`, `[]DeletedStaysOut` |
| | `Advancing` | `StatusAdvances`, an action property |
| `ServerStart_proofs` | `Inductive`, `HandlersServed`, `Served` | `[](RegInv /\ ServeInv /\ AskedInv)`, `[]HandlerHasQueue`, `[]ServedAsAsked` |
| | `Listed` | `[]RegisteredIsListed`, if `~ListStore` |

Together `StatusRefined`, `BrokerUsed`, `Promise`, `QueueIsABroker` and
`FaultlessIsABroker` are the composition argument: groups and chains rest on
`JobStatus` alone, the jobs on `Broker` alone, and both are kept. `Broker` has
the losses that the backend has: none in memory, and with Redis (`Faults \/
CtxAware` in `JobLifecycle`) what an answer that did not arrive or a pipe that
was not executed took along. Outside the argument are, with Redis, messages
with an ETA, which may be delivered twice (`CopiesBounded`), and a second
server, with which two messages of one queue may be in hand at once; with NATS,
a message that comes again after a death or a late acknowledgement
(`DeliveriesBounded`). `JobLifecycle` has one server and messages without an
ETA.

**Jobs.** None of the properties is inductive alone. That attempts are bounded
depends on the retry counter in the message being the number of attempts made,
which depends on there being one message, which depends on a continuation not
being enqueued twice, which depends on the status of its parent. `IInv` ties
them together:

* `Unique`: client, broker, worker and parent's loop exclude one another as
  holders of a job;
* `Queued`, `Executing`, `Retrying`: what the stored message and the history
  say of a job whose message is waiting, being executed, or about to be retried;
* `AtWork`: which of these holds at each place of the worker, that no
  continuation beyond the loop's index exists, and when a list entry may;
* `Recorded`: what is true of every job, whoever holds it, and in particular
  of one nobody holds, since a lost job keeps whatever it had.

The step proof goes by actions. A job that a step does not touch keeps its part
of the invariant (the frame lemmas on `Same` and `SameKids`); a job that was
never recorded is held by nobody (`Unheld`), so recording it cannot
collide; a failure or a crash only removes holders (`Loss`); the rest is one
lemma per action, with one step per conjunct it can disturb. `FinalIsFinal`
follows because a worker about to write a status holds a job that `IInv` says is
not final.

The refinements need what `RInv` adds: the loop has recorded every continuation
it passed (`Passed`; `JobStatus` settles a job only when its continuations are
there), what is saved was saved by an attempt that was made
(`SavedByAttempts`), and the result a worker fetched, and every message of a
success continuation, carry such an attempt (`Fetched`, `Carrying`).
`ResultsTravel` is about results that exist: a continuation of a job that
saved none is never enqueued, which `jobs_silent` shows.
`DoneOnce` adds that a job taken for completed is with the worker that is
completing it or with nobody (`Concluded`): then no queue, no client and no
parent's loop has its message, and no second attempt can begin. It holds
whichever calls fail, and with cancellations, since an interrupted job counts
as completed, as it does in the code. `NothingLost` adds that a job with
continuations saved its result before it returned (`SavedFirst`). `NothingFails`
says that no call fails, no process dies, the store has lists, and each handler
with a continuation saves a result; section 3 shows that the last two are needed (the
last by `jobs_silent`), and a failed call or a death loses jobs by design of the
code.

**Groups.** A message is `Honest`: a final status in it is the job's, and its
verdict follows from the statuses beside it. Statuses are written by others at
any time, so what carries the proof is that `JobStatus` never takes a final
status back (`HonestStays`). `AnswerIsFresh` says that an answer was so
during the call: a verdict is that of the jobs when the call returns, and with
"processing" there was none when it began. A call reads the jobs one after the
other, so what matters is that the reasons of a verdict cannot get away: the
failed job, or all the successful ones, are yet to be looked up or are in the
message (`InSight`, in `ReaderOK`).

**Chains.** `WInv` alone (a walk is at a recorded job, and a successful job's
continuations are recorded) shows that the next job is there, with or without
jobs of another chain beside it. The verdicts need that every job before the
one looked at is completed (`DoneBefore`), and so that the walk stays on the
chain: `PlainChain` says that its jobs have no success continuation of their
own. Without it `VerdictIsTrue` is violated, as section 3 shows. An answer is
fresh in the same sense as a group's.

**In-memory broker.** `PendingCounts` is inductive only with the exact count:
the pending list is as long as the messages in channels, noted but not yet
sent, and taken but not yet popped (`Counted`). Counting them needs that no two
are the same message (`OneJob`, `Distinct`), also when two goroutines have each
made a channel. The order of the list is not the channel's (section 3), so
nothing is proved of it. `Walked` is an induction over the pages: the first k of them,
joined by the fold that `Walk` is, are the first k pages' worth of the list.
(Induction over the naturals is cited as the existence of a least
counterexample, `CountUp`, since a rule over all predicates cannot be.)

**Redis broker.** `Kept`: an accepted message is scheduled, buffered, in the list, with
a worker, or was lost with a process. It survives because the poller removes
from the sorted set only what it has pushed before (`PushedFirst`), though
other pollers do the same. `Ready`: whatever is past the sorted set was due;
the clock only grows. Each action is shown to be a `Flow`, which is all that
the invariant needs of it. `CopiesBounded` is not inductive, since a push that
is yet to come adds a copy: in `CInv` the copies of a message plus the servers
that may still push it (`MayPush`: at the push, or able to find the message in
the sorted set and not past their push) are at most the servers plus the faults
(`Bound`). A push turns a member of `MayPush` into a copy or costs a fault, a
failed or undone turn and a death pay for the server that comes back (`Balance`
lists the five ways). Servers do not come back for free because a message gets
into the sorted set once, and only while no poller is at it (`Once`). What is
counted are places in the list, in the pipes and in consumers' hands
(`PlacesTail`, `SlotsAppended`, `SlotsTaken`).

To an observer the queue is the messages in the list or in a pipe, and in hand
is what a consumer has taken off the list and no worker has. `OneCopy` (a
message without an ETA is in one place of these, which `CInv` gives it: such a
message enters once) makes every step one that `Broker` allows (`Simulates`):
`EnqueueNow` and `EnqueuePiped` add (`EnqueueAllowed`), `Send` moves within the
queue and a failed one loses (`PipeAllowed`), `Pop` takes or loses
(`PopAllowed`), `Hand` gives (`ConsumerAllowed`), and the poller moves other
messages (`PollerAllowed`). Only servers have a consumer (`Serving`), so that one
server has one hand.

**NATS broker.** `DeliveriesBounded` holds because what may still be handed over
counts too: the places of a message in the inbox and in the callback
(`OnTheWay`), and the redelivery of a message that nobody has any more
(`Accounted`). That needs the number of places of a message in a sequence under
Append and Tail (`PlacesAppend`, `PlacesTail`). The same account shows that
without a fault a message in the inbox was not handed over (`FirstTime`); one
callback runs at a time (`OneCallback`), and so `Callback` takes, `Hand` gives,
and the acknowledgement is not seen (`FaultlessAllowed`).

**Results store.** A status may stand in the store, in the pipe of one process
and, after a race, in another's, so the invariant speaks of the commands of one
job in each pipe. `ListedOnce`: only the process that decided on the list of a
job has commands that list it or make it final, all of them for that verdict and
that instant. `InOrder`: list and result stand before the final status in a
pipe, so that once the status is in the store they are no longer on their way.
`Backing`: while no pipe was lost, what should be in the store is there, on its
way, or old enough to be purged. What else may stand in a pipe is harmless
(`Besides`): a buffered purge is of entries that are old enough, and a late
result is of a job whose handler was left behind (`Due`). The three give
`FinalIsBacked`, for the result under `kept`: the job's last attempt has saved
it without an error, or the worker has read it for the continuation. `Deleted`
and `NoRace` give `DeletedStaysOut`: a caller deletes what it saw final, when no
listing is on its way any more, and no result unless statuses raced or a
handler was left behind (`Overran`), which may save at any time (`LateStep`).
`Forward` gives `StatusAdvances`: statuses have ranks, those in a pipe ascend above the one in
the store, and none is beyond the job's own. Each action either is not about a
job and moves none of its commands (`Frame`), writes for it (`UnfinishedWritten`,
`ResultWritten`, `ListWritten`, `FinalWritten`), executes or loses a buffered
command (`OwnSent`, `SomethingLost`), or deletes (`DeletionGoesOn`). What Append
and Tail do to the order of commands is said once (`Appended`, `TakenOff`).

**Registration and start.** Two calls under way at once have met (`Overlap`), so
one that met no other has found its queue as it asked (`AsAsked`), and `Start`
does not change that (`ServeInv`: an early call's queue is yet to be visited,
or served as asked). Whether or not calls overlapped, a queue has a concurrency
that one of its calls asked for (`AskedInv`). `Listed` is for the in-memory and
Redis stores. In the NATS store the property is false already for one call after
another, as the run `tasks_nats` shows.

Only model-checked is all liveness (`RecordedJobsSettle`, `ShutdownCompletes`,
`EnqueuedIsConsumed`, `EnqueueReturns`, `TakenIsDelivered`, `DueIsDelivered`,
`StoredIsGiven`): the prover has neither fairness rules nor `ENABLED`. Every
invariant and action property a passing run checks is a theorem; where it has a
condition, the run satisfies it, and section 3 shows most of the conditions to be
necessary. The refinements by `RedisBroker` and `NatsBroker`, and `Listed`, are
theorems beyond the passing runs.

The modules with theorems use no recursive operator.

## 6. Not modelled, and the plan

Not modelled:

* recurring jobs (`Schedule`): each occurrence appends the next one as its own
  continuation without end (`jobs.go:137-160`);
* `Options.Expiry`, the time to live of results and messages in Redis;
* the cron scheduler: `startCronScheduler` starts and stops it, but no entry is
  ever added to it, so that nothing of it interacts with the rest;
* user callbacks as steps of their own: they run as part of the handler;
* encodings (msgpack), tracing, logging, the examples, connection set-up and
  the contents of payloads; no property depends on them.

Model work left: recurring jobs on top of `RedisBroker`, and `Expiry` in
`ResultsStore`.
