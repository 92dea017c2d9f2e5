---------------------------- MODULE JobInvariant ----------------------------
(***************************************************************************)
(* The inductive invariant behind the safety properties of JobLifecycle.   *)
(*                                                                         *)
(* A job passes along a line of holders: client, broker, worker.  No two   *)
(* hold it at once, and while one does, the store, the history and the     *)
(* continuations of the job are as that holder left them.                  *)
(***************************************************************************)
EXTENDS JobProperties

Settling == {"fetch", "spawn", "push", "index", "final"}
InBroker == queue \cup hand

(* A busy worker has a real message, and in the loop a continuation.       *)
WorkerOK ==
  \A w \in Workers :
    /\ Busy(w) => worker[w].msg \in Msg
    /\ worker[w].pc \in {"fetch", "spawn", "push"} => worker[w].i \in DOMAIN Kids(Job(w), worker[w].ok)

-----------------------------------------------------------------------------
(* One holder at most, pair by pair.                                       *)

BrokerUnique ==
  /\ queue \cap hand = {}
  /\ \A m, n \in InBroker : m.id = n.id => m = n

WorkerUnique ==
  /\ \A v, w \in Workers : Busy(v) /\ Busy(w) /\ Job(v) = Job(w) => v = w
  /\ \A w \in Workers, m \in InBroker : Busy(w) => m.id # Job(w)

ClientUnique ==
  \A c \in Roots : client[c] = "pushing" =>
    /\ \A m \in InBroker : m.id # c
    /\ \A w \in Workers : Busy(w) => Job(w) # c

SpawnUnique ==
  \A w \in Workers : worker[w].pc = "push" =>
    /\ \A m \in InBroker : m.id # Kid(w)
    /\ \A v \in Workers : Busy(v) => Job(v) # Kid(w)

Unique == BrokerUnique /\ WorkerUnique /\ ClientUnique /\ SpawnUnique

-----------------------------------------------------------------------------
(* What each holder may rely on.                                           *)

(* No continuation of j has been recorded.                                 *)
Fresh(j) == \A ok \in BOOLEAN : \A k \in DOMAIN Kids(j, ok) : ~Known(Kids(j, ok)[k])

Unlisted(j) == j \notin success /\ j \notin failed

(* The job of m waits to be taken up by a worker.                          *)
Queued(m) ==
  /\ jobMsg[m.id].status \in {"queued", "retrying"}
  /\ jobMsg[m.id].retried = m.retried
  /\ attempts[m.id] = m.retried
  /\ m.retried <= MaxRetries[m.id]
  /\ Fresh(m.id)

(* The handler of the job of m has been started by the worker that has it. *)
Executing(m) ==
  /\ jobMsg[m.id].status = "processing"
  /\ jobMsg[m.id].retried = m.retried
  /\ attempts[m.id] = m.retried + 1
  /\ m.retried <= MaxRetries[m.id]

(* An attempt failed and its retry, m, is not yet recorded.                *)
Retrying(m) ==
  /\ jobMsg[m.id].status = "processing"
  /\ jobMsg[m.id].retried + 1 = m.retried
  /\ attempts[m.id] = m.retried
  /\ m.retried <= MaxRetries[m.id]

(* While a job is being settled, only the continuations that the loop has  *)
(* passed exist.                                                           *)
LoopKids(w) ==
  \A ok \in BOOLEAN : \A k \in DOMAIN Kids(Job(w), ok) :
    \/ ~Known(Kids(Job(w), ok)[k])
    \/ ok = worker[w].ok /\ (k < worker[w].i \/ (k = worker[w].i /\ worker[w].pc = "push"))

AtWork(w) ==
  LET m  == worker[w].msg
      pc == worker[w].pc IN
  /\ pc \in {"recv", "requeue"} => Queued(m)
  /\ pc = "run" => Executing(m) /\ Fresh(m.id) /\ Unlisted(m.id)
  /\ pc = "retrying" => Retrying(m) /\ Fresh(m.id) /\ Unlisted(m.id)
  /\ pc \in Settling => Executing(m) /\ LoopKids(w) /\ (worker[w].ok \/ m.retried = MaxRetries[m.id])
  /\ pc \in {"fetch", "spawn", "push", "index"} => Unlisted(m.id)
  /\ pc = "final" => m.id \in (IF worker[w].ok THEN success ELSE failed)
  /\ pc = "push" => Queued(NewMsg(Kid(w), 0))

Client(c) ==
  /\ client[c] = "new" => ~Known(c)
  /\ client[c] = "pushing" => Queued(NewMsg(c, 0))

(* A job, whoever holds it.                                                *)
Recorded(j) ==
  /\ ~Known(j) => attempts[j] = 0 /\ Fresh(j)
  /\ attempts[j] <= MaxRetries[j] + 1
  /\ ~(j \in success /\ j \in failed)
  /\ jobMsg[j].status = "successful" => j \in success
  /\ jobMsg[j].status = "failed" => j \in failed
  /\ j \in success => jobMsg[j].status \in {"processing", "successful"}
  /\ j \in failed => jobMsg[j].status \in {"processing", "failed"} /\ attempts[j] = MaxRetries[j] + 1

Holding ==
  /\ \A j \in Jobs : Recorded(j)
  /\ \A c \in Roots : Client(c)
  /\ \A m \in InBroker : Queued(m)
  /\ \A w \in Workers : AtWork(w)

(* Unique consumption, bounded retrying, the index and the final statuses  *)
(* rest on this: it holds initially and every step keeps it.               *)
IInv == TypeOK /\ WorkerOK /\ Unique /\ Holding

-----------------------------------------------------------------------------
(* What the refinement of JobStatus and of Broker needs beyond it.         *)

(* The loop has recorded every continuation that it passed.                *)
Passed(w) ==
  LET kids == Kids(Job(w), worker[w].ok) IN
  /\ worker[w].pc \in Settling => \A k \in DOMAIN kids : k < worker[w].i => Known(kids[k])
  /\ worker[w].pc \in {"index", "final"} => \A k \in DOMAIN kids : Known(kids[k])

(* Whatever is saved was saved by an attempt that has been made.           *)
SavedByAttempts ==
  /\ \A j \in Jobs : saved[j] <= attempts[j]
  /\ \A a \in running : a.n \in 1 .. attempts[a.id]

(* The result for the next continuation is one its parent saved.           *)
Fetched(w) ==
  /\ worker[w].pc = "fetch" => worker[w].ok
  /\ worker[w].pc \in {"spawn", "push"} =>
       IF worker[w].ok THEN worker[w].res \in 1 .. attempts[Job(w)] ELSE worker[w].res = 0

(* A message carries a result if its job is a success continuation.        *)
Carrying(m) ==
  IF Parents(m.id) = {} THEN m.prev = 0
  ELSE \A p \in Parents(m.id) : m.prev \in 1 .. attempts[p]

(* With it every step of JobLifecycle is one of JobStatus and of Broker.   *)
RInv ==
  /\ IInv
  /\ \A w \in Workers : Passed(w) /\ Fetched(w)
  /\ SavedByAttempts
  /\ \A m \in Travelling : Carrying(m)

(* A job taken for completed is with the worker that completes it, or with *)
(* no one; so it is in no queue, and no attempt of it is under way.        *)
Concluded ==
  /\ \A j \in Jobs :
       /\ Completed(j) => Known(j) /\ j \notin failed
       /\ j \in success => Completed(j)
  /\ \A c \in Roots : client[c] = "pushing" => ~Completed(c)
  /\ \A m \in InBroker : ~Completed(m.id)
  /\ \A w \in Workers :
       /\ Busy(w) => (Completed(Job(w)) <=> worker[w].pc \in Settling /\ worker[w].ok)
       /\ worker[w].pc = "push" => ~Completed(Kid(w))

(* The job in a worker's hands had saved its result when it returned nil.  *)
SavedFirst ==
  ~ctxDone => \A w \in Workers :
    worker[w].pc \in Settling /\ worker[w].ok /\ Job(w) \in Savers => saved[Job(w)] # 0

=============================================================================
