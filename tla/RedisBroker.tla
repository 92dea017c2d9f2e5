----------------------------- MODULE RedisBroker -----------------------------
(***************************************************************************)
(* brokers/redis/broker.go, one queue of it: a Redis list that Enqueue     *)
(* pushes to and Consume pops from at the same end, a sorted set of        *)
(* scheduled messages that consumeScheduled moves to the list once they    *)
(* are due, and the pipe that a process may buffer its pushes in.  Several *)
(* processes share the queue; each command Redis executes is one step.     *)
(***************************************************************************)
EXTENDS Naturals, FiniteSets, SequencesExt

CONSTANTS
  Jobs,       \* messages
  Eta,        \* [Jobs -> 0 .. Horizon]: when a job is due, 0 when it has no ETA
  Procs,      \* processes with a Broker
  Servers,    \* those that call Start
  By,         \* [Jobs -> Procs]: the process that enqueues a job
  Setups,     \* choices of the processes that have a PipePeriod
  Horizon,    \* bound: the last instant
  MaxFaults,  \* bound: failed calls, lost answers and crashes, of all processes
  None        \* no message

ASSUME RedisAssumption ==
  /\ Eta \in [Jobs -> 0 .. Horizon] /\ By \in [Jobs -> Procs]
  /\ Servers \subseteq Procs /\ Setups \subseteq SUBSET Procs
  /\ Horizon \in Nat /\ MaxFaults \in Nat /\ None \notin Jobs

VARIABLES
  now,        \* the clock
  list,       \* Redis list of the queue, head first
  scheduled,  \* Redis sorted set of the queue: members; Eta is the score
  piped,      \* processes with a PipePeriod
  pipe,       \* the buffer of each process
  consumer,   \* Consume
  poller,     \* consumeScheduled
  phase,      \* of each process: running, its context cancelled, or ended
  answer,     \* what Enqueue or EnqueueScheduled told the caller
  given,      \* history: how often a job was handed to a worker
  lost,       \* history: jobs of which a process lost a copy it had in memory
  faults      \* faults so far

redis == <<list, scheduled>>
vars == <<now, list, scheduled, piped, pipe, consumer, poller, phase, answer, given, lost, faults>>

Commands == [op : {"LPUSH", "ZADD"}, job : Jobs]
Replies == {"ok", "failed", "lost"}

TypeOK ==
  /\ now \in 0 .. Horizon
  /\ list \in Seq(Jobs) /\ scheduled \subseteq Jobs
  /\ piped \in Setups
  /\ pipe \in [Procs -> [cmds : Seq(Commands), sending : BOOLEAN]]
  /\ consumer \in [Procs -> [pc : {"off", "loop", "hand"}, msg : Jobs \cup {None}]]
  /\ poller \in [Procs -> [pc : {"off", "wait", "push", "remove"}, msg : Jobs \cup {None}]]
  /\ phase \in [Procs -> {"up", "cancelled", "gone"}]
  /\ answer \in [Jobs -> {"none", "ok", "error"}]
  /\ given \in [Jobs -> Nat] /\ lost \subseteq Jobs
  /\ faults \in 0 .. MaxFaults

At(pc) == [pc |-> pc, msg |-> None]
NoPipe == [cmds |-> <<>>, sending |-> FALSE]

Init ==
  /\ now = 0
  /\ list = <<>> /\ scheduled = {}
  /\ piped \in Setups
  /\ pipe = [p \in Procs |-> NoPipe]
  /\ consumer = [p \in Procs |-> At("off")] /\ poller = [p \in Procs |-> At("off")]
  /\ phase = [p \in Procs |-> "up"]
  /\ answer = [j \in Jobs |-> "none"]
  /\ given = [j \in Jobs |-> 0] /\ lost = {}
  /\ faults = 0

Tick ==
  /\ now < Horizon
  /\ now' = now + 1
  /\ UNCHANGED <<redis, piped, pipe, consumer, poller, phase, answer, given, lost, faults>>

-----------------------------------------------------------------------------
(* Calls to Redis: done and answered, not done, or done with the answer    *)
(* lost.  A call under a cancelled context may end in any of these ways.   *)

Fault ==
  /\ faults < MaxFaults
  /\ faults' = faults + 1

Ends(r, cancelled) == IF r = "ok" \/ cancelled THEN UNCHANGED faults ELSE Fault

Cancelled(p) == phase[p] = "cancelled"

Done(r) == r # "failed"

Command(j) == [op |-> IF Eta[j] = 0 THEN "LPUSH" ELSE "ZADD", job |-> j]

Execute(c) ==
  IF c.op = "LPUSH"
  THEN list' = <<c.job>> \o list /\ UNCHANGED scheduled
  ELSE scheduled' = scheduled \cup {c.job} /\ UNCHANGED list

Buffer(p, c) ==
  /\ ~pipe[p].sending
  /\ pipe' = [pipe EXCEPT ![p].cmds = Append(@, c)]

-----------------------------------------------------------------------------
(* Enqueue and EnqueueScheduled                                            *)

EnqueueNow(p, j, r) ==
  /\ p = By[j] /\ phase[p] # "gone" /\ p \notin piped /\ answer[j] = "none"
  /\ Ends(r, FALSE)
  /\ IF Done(r) THEN Execute(Command(j)) ELSE UNCHANGED redis
  /\ answer' = [answer EXCEPT ![j] = IF r = "ok" THEN "ok" ELSE "error"]
  /\ UNCHANGED <<now, piped, pipe, consumer, poller, phase, given, lost>>

(* A buffered command is answered before it is sent.                       *)
EnqueuePiped(p, j) ==
  /\ p = By[j] /\ phase[p] # "gone" /\ p \in piped /\ answer[j] = "none"
  /\ Buffer(p, Command(j))
  /\ answer' = [answer EXCEPT ![j] = "ok"]
  /\ UNCHANGED <<now, redis, piped, consumer, poller, phase, given, lost, faults>>

-----------------------------------------------------------------------------
(* execPipe: its context is never cancelled.  Exec holds the pipe's lock.  *)

Exec(p) ==
  /\ pipe[p].cmds # <<>> /\ ~pipe[p].sending
  /\ pipe' = [pipe EXCEPT ![p].sending = TRUE]
  /\ UNCHANGED <<now, redis, piped, consumer, poller, phase, answer, given, lost, faults>>

Send(p) ==
  /\ pipe[p].sending
  /\ Execute(Head(pipe[p].cmds))
  /\ pipe' = [pipe EXCEPT ![p] = [cmds |-> Tail(@.cmds), sending |-> Tail(@.cmds) # <<>>]]
  /\ UNCHANGED <<now, piped, consumer, poller, phase, answer, given, lost, faults>>

InPipe(p) == {c.job : c \in ToSet(pipe[p].cmds)}

(* The error is logged; what was not executed is gone.                     *)
ExecFails(p) ==
  /\ pipe[p].sending /\ Fault
  /\ lost' = lost \cup InPipe(p)
  /\ pipe' = [pipe EXCEPT ![p] = NoPipe]
  /\ UNCHANGED <<now, redis, piped, consumer, poller, phase, answer, given>>

-----------------------------------------------------------------------------
(* Consume                                                                 *)

Start(p) ==
  /\ p \in Servers /\ phase[p] = "up" /\ consumer[p].pc = "off" /\ poller[p].pc = "off"
  /\ consumer' = [consumer EXCEPT ![p] = At("loop")]
  /\ poller' = [poller EXCEPT ![p] = At("wait")]
  /\ UNCHANGED <<now, redis, piped, pipe, phase, answer, given, lost, faults>>

(* The loop looks at the context before each BLPOP, not during one.        *)
Loop(p) == IF Cancelled(p) THEN At("off") ELSE At("loop")

(* BLPOP.  The message is gone from Redis even if the answer is lost.      *)
Pop(p, r) ==
  /\ consumer[p].pc = "loop" /\ list # <<>> /\ Done(r)
  /\ Ends(r, Cancelled(p))
  /\ list' = Tail(list)
  /\ IF r = "ok"
     THEN /\ consumer' = [consumer EXCEPT ![p] = [pc |-> "hand", msg |-> Head(list)]]
          /\ UNCHANGED lost
     ELSE /\ consumer' = [consumer EXCEPT ![p] = Loop(p)]
          /\ lost' = lost \cup {Head(list)}
  /\ UNCHANGED <<now, scheduled, piped, pipe, poller, phase, answer, given>>

(* A worker of the process receives the message.                           *)
Hand(p) ==
  /\ consumer[p].pc = "hand"
  /\ given' = [given EXCEPT ![consumer[p].msg] = @ + 1]
  /\ consumer' = [consumer EXCEPT ![p] = Loop(p)]
  /\ UNCHANGED <<now, redis, piped, pipe, poller, phase, answer, lost, faults>>

Stop(p) ==
  /\ consumer[p].pc = "loop" /\ Cancelled(p)
  /\ consumer' = [consumer EXCEPT ![p] = At("off")]
  /\ UNCHANGED <<now, redis, piped, pipe, poller, phase, answer, given, lost, faults>>

-----------------------------------------------------------------------------
(* consumeScheduled: one message per period.  The Watch names no key, so   *)
(* its three commands are not atomic.                                      *)

(* Mutated form: every scheduled message counts as due.                    *)
DueAtOnce == scheduled

Due == {j \in scheduled : Eta[j] <= now}

(* The one with the highest score.                                         *)
Fetch(p) ==
  /\ poller[p].pc = "wait" /\ phase[p] = "up"
  /\ \E j \in Due :
       /\ \A k \in Due : Eta[k] <= Eta[j]
       /\ poller' = [poller EXCEPT ![p] = [pc |-> "push", msg |-> j]]
  /\ UNCHANGED <<now, redis, piped, pipe, consumer, phase, answer, given, lost, faults>>

(* Mutated forms: an error of Enqueue is not looked at; it ends the loop.  *)
ThenAlways(p, ok, pc) ==
  poller' = [poller EXCEPT ![p] = IF @.pc = "push" THEN [@ EXCEPT !.pc = pc] ELSE At("wait")]

ThenReturn(p, ok, pc) ==
  poller' = [poller EXCEPT ![p] = IF ok THEN [@ EXCEPT !.pc = pc]
                                  ELSE At(IF @.pc = "push" THEN "off" ELSE "wait")]

Then(p, ok, pc) ==
  poller' = [poller EXCEPT ![p] = IF ok THEN [@ EXCEPT !.pc = pc] ELSE At("wait")]

(* b.Enqueue, directly.  An error ends the turn.                           *)
PushNow(p, r) ==
  /\ poller[p].pc = "push" /\ p \notin piped
  /\ Ends(r, Cancelled(p))
  /\ list' = IF Done(r) THEN <<poller[p].msg>> \o list ELSE list
  /\ Then(p, r = "ok", "remove")
  /\ UNCHANGED <<now, scheduled, piped, pipe, consumer, phase, answer, given, lost>>

(* b.Enqueue, into the pipe: the context is not looked at.                 *)
PushPiped(p) ==
  /\ poller[p].pc = "push" /\ p \in piped
  /\ Buffer(p, [op |-> "LPUSH", job |-> poller[p].msg])
  /\ Then(p, TRUE, "remove")
  /\ UNCHANGED <<now, redis, piped, consumer, phase, answer, given, lost, faults>>

(* Mutated form: the message stays in the sorted set.                      *)
ZRemNot(p, r) ==
  /\ poller[p].pc = "remove"
  /\ Ends(r, Cancelled(p))
  /\ Then(p, FALSE, "wait")
  /\ UNCHANGED <<now, redis, piped, pipe, consumer, phase, answer, given, lost>>

ZRem(p, r) ==
  /\ poller[p].pc = "remove"
  /\ Ends(r, Cancelled(p))
  /\ scheduled' = IF Done(r) THEN scheduled \ {poller[p].msg} ELSE scheduled
  /\ Then(p, FALSE, "wait")
  /\ UNCHANGED <<now, list, piped, pipe, consumer, phase, answer, given, lost>>

PollerStop(p) ==
  /\ poller[p].pc = "wait" /\ Cancelled(p)
  /\ poller' = [poller EXCEPT ![p] = At("off")]
  /\ UNCHANGED <<now, redis, piped, pipe, consumer, phase, answer, given, lost, faults>>

-----------------------------------------------------------------------------
(* A process ends: it dies, a server returns from Start, which does not    *)
(* wait for consumeScheduled, or a program that only enqueues is done.     *)

Held(p) == IF consumer[p].pc = "hand" THEN {consumer[p].msg} ELSE {}

Ended(p) ==
  /\ lost' = lost \cup InPipe(p) \cup Held(p)
  /\ pipe' = [pipe EXCEPT ![p] = NoPipe]
  /\ consumer' = [consumer EXCEPT ![p] = At("off")]
  /\ poller' = [poller EXCEPT ![p] = At("off")]
  /\ UNCHANGED <<now, redis, piped, answer, given>>

Cancel(p) ==
  /\ p \in Servers /\ phase[p] = "up"
  /\ phase' = [phase EXCEPT ![p] = "cancelled"]
  /\ UNCHANGED <<now, redis, piped, pipe, consumer, poller, answer, given, lost, faults>>

Exit(p) ==
  /\ IF p \in Servers THEN Cancelled(p) /\ consumer[p].pc = "off" ELSE phase[p] = "up"
  /\ phase' = [phase EXCEPT ![p] = "gone"]
  /\ UNCHANGED faults
  /\ Ended(p)

(* It may be started again.                                                *)
Crash(p) ==
  /\ phase[p] # "gone" /\ Fault
  /\ phase' = [phase EXCEPT ![p] = "up"]
  /\ Ended(p)

-----------------------------------------------------------------------------

Enqueue(p, j) == EnqueuePiped(p, j) \/ \E r \in Replies : EnqueueNow(p, j, r)
ExecPipe(p) == Exec(p) \/ Send(p)
Consume(p) == Hand(p) \/ Stop(p) \/ \E r \in Replies : Pop(p, r)
ConsumeScheduled(p) ==
  \/ Fetch(p) \/ PushPiped(p) \/ PollerStop(p)
  \/ \E r \in Replies : PushNow(p, r) \/ ZRem(p, r)

Next ==
  \/ Tick
  \/ \E p \in Procs :
       \/ \E j \in Jobs : Enqueue(p, j)
       \/ ExecPipe(p) \/ ExecFails(p)
       \/ Start(p) \/ Consume(p) \/ ConsumeScheduled(p)
       \/ Cancel(p) \/ Exit(p) \/ Crash(p)

Spec == Init /\ [][Next]_vars

(* Goroutines are scheduled, Redis answers in the end, a server that died  *)
(* is started again.  Nobody has to enqueue, to cancel, or to fail.        *)
Fairness ==
  /\ WF_vars(Tick)
  /\ \A p \in Procs :
       WF_vars(ExecPipe(p)) /\ WF_vars(Start(p)) /\ WF_vars(Consume(p)) /\ WF_vars(ConsumeScheduled(p))

FairSpec == Spec /\ Fairness

-----------------------------------------------------------------------------
(* Properties                                                              *)

(* interfaces.go:31: EnqueueScheduled accepts a task and a timestamp: a    *)
(* message whose call returned without an error is in Redis, in the memory *)
(* of a process, or with a worker; only what a process has in its memory,  *)
(* a pipe or the answer to BLPOP, is ever lost.  Moving a due message to   *)
(* the list in two commands loses none, whoever fails or dies, and whoever *)
(* else moves the same message (consumeScheduled, execPipe, Consume).      *)
NotForgotten ==
  \A j \in Jobs : answer[j] = "ok" =>
    \/ j \in scheduled \cup ToSet(list) \cup lost \/ given[j] > 0
    \/ \E p \in Procs : j \in InPipe(p) \cup Held(p)

Places(seq, x) == {i \in DOMAIN seq : seq[i] = x}

(* Where a command is buffered.                                            *)
Slots(c) == UNION {{p} \X Places(pipe[p].cmds, c) : p \in Procs}

(* Deliveries of a message, made and to come.                              *)
Copies(j) ==
  given[j] + Cardinality(Places(list, j)) + Cardinality({p \in Procs : j \in Held(p)})
    + Cardinality(Slots([op |-> "LPUSH", job |-> j]))

(* A message that was enqueued once is delivered once, but for the window  *)
(* between pushing a due message and removing it from the sorted set: each *)
(* server that polls may push it, and again after every call that failed   *)
(* and every death.  With one server and no fault that is exactly once; a  *)
(* message without an ETA is never duplicated (consumeScheduled).          *)
CopiesBounded ==
  /\ TypeOK
  /\ \A j \in Jobs : Copies(j) <= IF Eta[j] = 0 THEN 1 ELSE Cardinality(Servers) + faults

(* broker.go:221: only "the tasks with score less than current time" are   *)
(* moved: no worker sees a job before its ETA, whichever process moved it  *)
(* (consumeScheduled).                                                     *)
NotEarly ==
  \A j \in Jobs : given[j] > 0 \/ (\E p \in Procs : j \in Held(p)) => Eta[j] <= now

(* A message that was accepted reaches a worker once it is due, unless a   *)
(* process lost it, or no server is left: pollers that meet the same       *)
(* message, failed turns, restarts and servers that stop half way do not   *)
(* strand it (Consume, consumeScheduled).                                  *)
DueIsDelivered ==
  \A j \in Jobs :
    answer[j] = "ok" ~> given[j] > 0 \/ j \in lost \/ \A p \in Servers : phase[p] # "up"

(* The queue of the messages without an ETA is the broker that the rest of *)
(* the system relies on, one that may lose messages: each is in the list   *)
(* or in a pipe, then with a consumer, then with a worker; it is never in  *)
(* the queue and with a consumer at once, and no step takes it back from a *)
(* consumer, a server restarted or not (Enqueue, execPipe, Consume).       *)
(* Several servers may each hold a message; a single one holds one at a    *)
(* time.                                                                   *)
Plain == {j \in Jobs : Eta[j] = 0}
Waiting == {j \in Plain : j \in ToSet(list) \/ \E p \in Procs : j \in InPipe(p)}
Passing == {j \in Plain : \E p \in Procs : j \in Held(p)}
OwnLane(j) == j
OneLane(j) == 0
Shared == INSTANCE Broker WITH
  Msg <- Plain, queue <- Waiting, hand <- Passing, Lane <- OwnLane, Lossy <- TRUE
Promised == INSTANCE Broker WITH
  Msg <- Plain, queue <- Waiting, hand <- Passing, Lane <- OneLane, Lossy <- TRUE
ImplementsShared == Shared!Spec
ImplementsBroker == Promised!Spec

=============================================================================
