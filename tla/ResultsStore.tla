----------------------------- MODULE ResultsStore -----------------------------
(***************************************************************************)
(* results/redis/results.go under the calls of the server: the status,     *)
(* result and list writes of jobs as they pass from the process that       *)
(* enqueues to the ones that run them, DeleteJob, and the purge of old     *)
(* list entries.  A process with a PipePeriod only buffers its writes, and *)
(* reads around its own buffer.  Each command Redis executes is one step.  *)
(* A handler may save or not, and may outlive its deadline and save then.  *)
(* The in-memory store is the case without pipes, faults and purge.        *)
(***************************************************************************)
EXTENDS Naturals, FiniteSets, SequencesExt

CONSTANTS
  Jobs,       \* jobs
  Procs,      \* processes with a store
  Workers,    \* those that run jobs
  Retries,    \* MaxRetry of a job
  Setups,     \* choices of the processes that have a PipePeriod
  Purgers,    \* processes with a MetaExpiry
  MetaExpiry, \* how long list entries are kept
  Horizon,    \* bound: the last instant
  MaxFaults,  \* bound: failed calls, lost answers and crashes
  None        \* no process

ASSUME StoreAssumption ==
  /\ Workers \subseteq Procs /\ Purgers \subseteq Procs
  /\ Setups \subseteq SUBSET Procs /\ None \notin Procs
  /\ Retries \in Nat /\ MaxFaults \in Nat /\ MetaExpiry \in Nat \ {0} /\ Horizon \in Nat \ {0}

VARIABLES
  now,     \* the clock, from 1
  msg,     \* status, retries and, when final, ProcessedAt in the message of a job
  result,  \* jobs with a saved result
  zset,    \* lists of finished jobs: the score of each job, 0 when not listed
  piped,   \* processes with a PipePeriod
  pipe,    \* the buffer of each process
  job,     \* how far each job is, in which process; whether it has a continuation
  late,    \* attempts whose worker went on without an answer of the handler
  purge,   \* expireMeta: when it ran last, and its cutoff while it runs
  delete,  \* DeleteJob: the key it deletes next
  raced,   \* history: jobs whose status was written over a buffered one
  faults   \* faults so far

store == <<msg, result, zset>>
vars == <<now, msg, result, zset, piped, pipe, job, late, purge, delete, raced, faults>>

Lists  == {"success", "failed"}
Status == {"queued", "processing", "retrying", "successful", "failed"}
Final  == {"successful", "failed"}
Msg    == [status : Status \cup {"none"}, n : 0 .. Retries, since : 0 .. Horizon]

(* One attempt at a job, and the process its handler is still running in.  *)
Attempt == [j : Jobs, n : 0 .. Retries, at : Procs \cup {None}]

SetMsg(j, m)     == [op |-> "message", j |-> j, msg |-> m]
SetResult(j)     == [op |-> "result", j |-> j]
LateResult(j)    == [op |-> "late", j |-> j]  \* for Redis the same command
ZAdd(l, j)       == [op |-> "add", j |-> j, list |-> l, score |-> now]
ZRemRange(l, to) == [op |-> "purge", list |-> l, score |-> to]

TypeOK ==
  /\ now \in 1 .. Horizon
  /\ msg \in [Jobs -> Msg] /\ result \subseteq Jobs
  /\ zset \in [Lists -> [Jobs -> 0 .. Horizon]]
  /\ piped \in Setups
  /\ \A p \in Procs : pipe[p] # <<>> => p \in piped
  /\ job \in [Jobs -> [pc : {"new", "queued", "running", "saved", "listed", "end", "stuck"},
                       at : Procs \cup {None}, n : 0 .. Retries, since : 0 .. Horizon,
                       verdict : Status, chained : BOOLEAN, kept : BOOLEAN]]
  /\ late \subseteq Attempt
  /\ purge \in [Procs -> [last : 0 .. Horizon, to : 0 .. Horizon]]
  /\ delete \in [Jobs -> Lists \cup {"none", "result", "ok", "error"}]
  /\ raced \subseteq Jobs
  /\ faults \in 0 .. MaxFaults

Init ==
  /\ now = 1
  /\ msg = [j \in Jobs |-> [status |-> "none", n |-> 0, since |-> 0]]
  /\ result = {} /\ zset = [l \in Lists |-> [j \in Jobs |-> 0]]
  /\ piped \in Setups /\ pipe = [p \in Procs |-> <<>>]
  /\ job \in [Jobs -> [pc : {"new"}, at : {None}, n : {0}, since : {0},
                       verdict : {"queued"}, chained : BOOLEAN, kept : {FALSE}]]
  /\ late = {}
  /\ purge = [p \in Procs |-> [last |-> 0, to |-> 0]]
  /\ delete = [j \in Jobs |-> "none"]
  /\ raced = {}
  /\ faults = 0

Tick ==
  /\ now < Horizon
  /\ now' = now + 1
  /\ UNCHANGED <<store, piped, pipe, job, late, purge, delete, raced, faults>>

-----------------------------------------------------------------------------
(* Commands                                                                *)

Fault ==
  /\ faults < MaxFaults
  /\ faults' = faults + 1

Execute(c) ==
  CASE c.op = "message" ->
         /\ msg' = [msg EXCEPT ![c.j] = c.msg]
         /\ UNCHANGED <<result, zset>>
    [] c.op \in {"result", "late"} ->
         /\ result' = result \cup {c.j}
         /\ UNCHANGED <<msg, zset>>
    [] c.op = "add" ->
         /\ zset' = [zset EXCEPT ![c.list][c.j] = c.score]
         /\ UNCHANGED <<msg, result>>
    [] c.op = "purge" ->
         /\ zset' = [zset EXCEPT ![c.list] = [j \in Jobs |-> IF @[j] <= c.score THEN 0 ELSE @[j]]]
         /\ UNCHANGED <<msg, result>>

(* Mutated form: a command overtakes the ones buffered before it.          *)
BufferFirst(p, c) == pipe' = [pipe EXCEPT ![p] = <<c>> \o @]

Buffer(p, c) == pipe' = [pipe EXCEPT ![p] = Append(@, c)]

(* A call of process p: buffered, or done and answered, not done, or done  *)
(* with the answer lost.                                                   *)
Write(p, c, r) ==
  IF p \in piped
  THEN r = "ok" /\ Buffer(p, c) /\ UNCHANGED <<store, faults>>
  ELSE /\ IF r = "ok" THEN UNCHANGED faults ELSE Fault
       /\ IF r = "failed" THEN UNCHANGED store ELSE Execute(c)
       /\ UNCHANGED pipe

(* execPipe                                                                *)
Send(p) ==
  /\ pipe[p] # <<>>
  /\ Execute(Head(pipe[p]))
  /\ pipe' = [pipe EXCEPT ![p] = Tail(@)]
  /\ UNCHANGED <<now, piped, job, late, purge, delete, raced, faults>>

(* Exec fails: what was not executed is gone, the error is logged.         *)
ExecFails(p) ==
  /\ pipe[p] # <<>> /\ Fault
  /\ pipe' = [pipe EXCEPT ![p] = <<>>]
  /\ UNCHANGED <<now, store, piped, job, late, purge, delete, raced>>

-----------------------------------------------------------------------------
(* The writes of a job                                                     *)

(* An error ends what the process does for the job.                        *)
Advance(j, r, next) ==
  job' = [job EXCEPT ![j] = IF r = "ok" THEN next ELSE [next EXCEPT !.pc = "stuck"]]

Buffered(p, j) == \E c \in ToSet(pipe[p]) : c.op = "message" /\ c.j = j

SetStatus(p, j, s, n, r) ==
  /\ Write(p, SetMsg(j, [status |-> s, n |-> n, since |-> job[j].since]), r)
  /\ raced' = IF \E q \in Procs \ {p} : Buffered(q, j) THEN raced \cup {j} ELSE raced
  /\ UNCHANGED <<now, piped, purge, delete>>

(* enqueueWithMeta: once the message is pushed any worker may have it,     *)
(* whether or not the buffer was sent.                                     *)
Started(p, j, r) ==
  /\ job[j].pc = "new"
  /\ SetStatus(p, j, "queued", 0, r)
  /\ Advance(j, r, [job[j] EXCEPT !.pc = "queued"])
  /\ UNCHANGED late

Processing(p, j, r) ==
  /\ job[j].pc = "queued" /\ p \in Workers
  /\ SetStatus(p, j, "processing", job[j].n, r)
  /\ Advance(j, r, [job[j] EXCEPT !.pc = "running", !.at = p])
  /\ UNCHANGED late

(* A handler saves a result, or not.  An error is the handler's to handle: *)
(* it may go on, save again or fail.  Bound: it saves once without error.  *)
Save(j, r) ==
  /\ job[j].pc = "running"
  /\ Write(job[j].at, SetResult(j), r)
  /\ job' = IF r = "ok" THEN [job EXCEPT ![j].pc = "saved"] ELSE job
  /\ UNCHANGED <<now, piped, late, purge, delete, raced>>

(* What the worker does after its wait: the handler has answered, or it is *)
(* left to run on, past its deadline or its cancellation.                  *)
Answered(j) == job[j].pc \in {"running", "saved"}
LeaveHandler(j) ==
  late' \in {late, late \cup {[j |-> j, n |-> job[j].n, at |-> job[j].at]}}

(* It may still save: a pipe and the in-memory store do not look at the    *)
(* context, and a command may have been on its way to Redis.               *)
LateSave(e, r) ==
  /\ e.at # None
  /\ Write(e.at, LateResult(e.j), r)
  /\ late' = (late \ {e}) \cup {[e EXCEPT !.at = None]}
  /\ UNCHANGED <<now, piped, job, purge, delete, raced>>

(* The handler fails, or its deadline passes, and it is retried: retryJob. *)
Retrying(j, r) ==
  /\ Answered(j) /\ job[j].n < Retries
  /\ SetStatus(job[j].at, j, "retrying", job[j].n + 1, r)
  /\ Advance(j, r, [job[j] EXCEPT !.pc = "queued", !.at = None, !.n = @ + 1])
  /\ LeaveHandler(j)

(* With a continuation the worker reads the result back from Redis, and    *)
(* gives the job up when it finds none or the call fails.                  *)
NoResult(j) ==
  /\ Answered(j) /\ job[j].chained
  /\ IF j \in result THEN Fault ELSE UNCHANGED faults
  /\ Advance(j, "error", job[j])
  /\ LeaveHandler(j)
  /\ UNCHANGED <<now, store, piped, pipe, purge, delete, raced>>

Verdict(l) == IF l = "success" THEN "successful" ELSE "failed"

(* Whether this attempt succeeds and has seen that the job has a result.   *)
Kept(j, l) == l = "success" /\ (job[j].pc = "saved" \/ job[j].chained)

(* Mutated form: the status may be final although the listing failed.      *)
ListUnchecked(j, l, r) ==
  /\ Write(job[j].at, ZAdd(l, j), r)
  /\ job' = [job EXCEPT ![j].pc = "listed", ![j].since = now, ![j].verdict = Verdict(l),
                       ![j].kept = Kept(j, l)]
  /\ UNCHANGED <<now, piped, purge, delete, raced>>

List(j, l, r) ==
  /\ Write(job[j].at, ZAdd(l, j), r)
  /\ Advance(j, r, [job[j] EXCEPT !.pc = "listed", !.since = now, !.verdict = Verdict(l),
                                  !.kept = Kept(j, l)])
  /\ UNCHANGED <<now, piped, purge, delete, raced>>

(* statusDone and statusFailed: the list first, then the status.           *)
SetSuccess(j, r) ==
  /\ Answered(j) /\ (job[j].chained => j \in result)
  /\ List(j, "success", r)
  /\ LeaveHandler(j)

SetFailed(j, r) ==
  /\ Answered(j) /\ job[j].n = Retries
  /\ List(j, "failed", r)
  /\ LeaveHandler(j)

SetFinal(j, r) ==
  /\ job[j].pc = "listed"
  /\ SetStatus(job[j].at, j, job[j].verdict, job[j].n, r)
  /\ Advance(j, r, [job[j] EXCEPT !.pc = "end"])
  /\ UNCHANGED late

-----------------------------------------------------------------------------
(* DeleteJob: a caller who has seen a final status deletes the job, in a   *)
(* pipeline of its own that is sent at once, three commands long.          *)

(* Mutated form: one list is forgotten.                                    *)
NextKeyShort(key) == IF key = "success" THEN "result" ELSE "ok"

NextKey(key) == CASE key = "success" -> "failed" [] key = "failed" -> "result" [] key = "result" -> "ok"

AskDelete(j) ==
  /\ delete[j] = "none" /\ msg[j].status \in Final
  /\ delete' = [delete EXCEPT ![j] = "success"]
  /\ UNCHANGED <<now, store, piped, pipe, job, late, purge, raced, faults>>

DeleteJob(j) ==
  /\ delete[j] \in Lists \cup {"result"}
  /\ IF delete[j] = "result"
     THEN result' = result \ {j} /\ UNCHANGED zset
     ELSE zset' = [zset EXCEPT ![delete[j]][j] = 0] /\ UNCHANGED result
  /\ delete' = [delete EXCEPT ![j] = NextKey(@)]
  /\ UNCHANGED <<now, msg, piped, pipe, job, late, purge, raced, faults>>

DeleteFails(j) ==
  /\ delete[j] \in Lists \cup {"result"} /\ Fault
  /\ delete' = [delete EXCEPT ![j] = "error"]
  /\ UNCHANGED <<now, store, piped, pipe, job, late, purge, raced>>

-----------------------------------------------------------------------------
(* expireMeta: a ticker that fires every MetaExpiry, at any phase.  Errors *)
(* are logged.                                                             *)

Cutoff == now - MetaExpiry

PurgeFailed(p, r) ==
  /\ p \in Purgers /\ purge[p].to = 0
  /\ now > MetaExpiry /\ now >= purge[p].last + MetaExpiry
  /\ Write(p, ZRemRange("failed", Cutoff), r)
  /\ purge' = [purge EXCEPT ![p] = [last |-> now, to |-> Cutoff]]
  /\ UNCHANGED <<now, piped, job, late, delete, raced>>

PurgeSuccess(p, r) ==
  /\ purge[p].to # 0
  /\ Write(p, ZRemRange("success", purge[p].to), r)
  /\ purge' = [purge EXCEPT ![p].to = 0]
  /\ UNCHANGED <<now, piped, job, late, delete, raced>>

(* The process dies: its buffer and handlers are gone, and its jobs stay   *)
(* as they are.                                                            *)
Crash(p) ==
  /\ Fault
  /\ pipe' = [pipe EXCEPT ![p] = <<>>]
  /\ job' = [j \in Jobs |-> IF job[j].at = p /\ job[j].pc # "end"
                          THEN [job[j] EXCEPT !.pc = "stuck"] ELSE job[j]]
  /\ late' = {IF e.at = p THEN [e EXCEPT !.at = None] ELSE e : e \in late}
  /\ purge' = [purge EXCEPT ![p].to = 0]
  /\ UNCHANGED <<now, store, piped, delete, raced>>

Replies == {"ok", "failed", "lost"}

JobStep(j, r) ==
  \/ \E p \in Procs : Started(p, j, r) \/ Processing(p, j, r)
  \/ Save(j, r) \/ Retrying(j, r)
  \/ SetSuccess(j, r) \/ SetFailed(j, r) \/ SetFinal(j, r)

Next ==
  \/ Tick
  \/ \E j \in Jobs :
       \/ \E r \in Replies : JobStep(j, r)
       \/ NoResult(j) \/ AskDelete(j) \/ DeleteJob(j) \/ DeleteFails(j)
  \/ \E e \in late, r \in Replies : LateSave(e, r)
  \/ \E p \in Procs :
       \/ Send(p) \/ ExecFails(p) \/ Crash(p)
       \/ \E r \in Replies : PurgeFailed(p, r) \/ PurgeSuccess(p, r)

Spec == Init /\ [][Next]_vars

-----------------------------------------------------------------------------
(* Properties                                                              *)

Rank(m) ==
  CASE m.status = "none" -> 0
    [] m.status = "queued" -> 1
    [] m.status = "retrying" -> 2 * m.n + 1
    [] m.status = "processing" -> 2 * m.n + 2
    [] m.status \in Final -> 2 * Retries + 3

(* jobs.go:252: GetJob is for checking the status of a job: what it shows  *)
(* only moves forward, through the retries up to the final status, unless  *)
(* a process wrote it while another one still had a status of the job in   *)
(* its pipe.  (Then the "queued" of a client or the "retrying" of one      *)
(* worker may be sent after the final status of another worker, and stays: *)
(* Set, execPipe.)                                                         *)
StatusAdvances ==
  [][\A j \in Jobs : j \notin raced /\ msg'[j] # msg[j] => Rank(msg'[j]) > Rank(msg[j])]_vars

(* A job whose status is final is in the list of that verdict and in no    *)
(* other, and a successful one's result can be read if its last attempt    *)
(* saved one without an error, or it has a continuation; until it is       *)
(* deleted or its list entry is older than MetaExpiry: the purge never     *)
(* takes a younger one, and a pipe keeps the order of its commands; only   *)
(* an Exec that fails between two batches may lose the first and keep the  *)
(* second (SetSuccess, SetFailed, Set, expireMeta).                        *)
FinalIsBacked ==
  /\ TypeOK
  /\ \A j \in Jobs :
       msg[j].status \in Final /\ delete[j] = "none" /\ (job[j].at \in piped => faults = 0) =>
         /\ msg[j].status = "successful" /\ job[j].kept => j \in result
         /\ \A l \in Lists :
              IF msg[j].status = Verdict(l)
              THEN zset[l][j] # 0 \/ (Purgers # {} /\ msg[j].since + MetaExpiry <= now)
              ELSE zset[l][j] = 0

(* A worker went on without the handler of one of the job's attempts.      *)
Overran(j) == \E e \in late : e.j = j

(* server.go:239: DeleteJob removes the stored results of a finished job:  *)
(* once it returned without an error for a job seen final, the job is in   *)
(* no list, and neither a buffered write nor a purge brings it back; nor   *)
(* its result, but by a handler that its worker left behind, or by a pipe  *)
(* when the writes of the job raced as above.  It is not the metadata of   *)
(* interfaces.go:13 that goes: the message of the job is under another     *)
(* key, and stays (DeleteJob).                                             *)
DeletedStaysOut ==
  \A j \in Jobs :
    delete[j] = "ok" =>
      /\ j \notin raced /\ ~Overran(j) => j \notin result
      /\ \A l \in Lists : zset[l][j] = 0

=============================================================================
