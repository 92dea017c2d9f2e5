---------------------------- MODULE TaskRegistry ----------------------------
(***************************************************************************)
(* Registering tasks: Server.RegisterTask with its two maps and two locks  *)
(* (src/server.go), SetTask, DeleteTask and GetAllTasks of the results     *)
(* stores, and Server.GetTasks, which lists what SetTask stored.  The NATS *)
(* store keeps the list of task names under one key, which it reads and    *)
(* writes back; the others add and remove a name in one step.              *)
(***************************************************************************)
EXTENDS Naturals, Sequences, SequencesExt

CONSTANTS
  Servers,      \* server processes sharing the results store
  Calls,        \* calls to RegisterTask
  Deletes,      \* calls to DeleteTask
  At,           \* [Calls -> Servers]
  Name,         \* [Ops -> Seq(STRING)]: the task's name, rune by rune
  Queue,        \* [Calls -> queue names]: TaskOpts.Queue, with its default
  Conc,         \* [Calls -> Nat]: TaskOpts.Concurrency, 0 when omitted
  DefaultConc,  \* Server.defaultConc
  Faults,       \* whether the store may fail
  ListStore     \* whether the store is the NATS one

Ops    == Calls \cup Deletes
Names  == {Name[o] : o \in Ops}
Queues == {Queue[c] : c \in Calls}

(* A task has a name, without line breaks.                                 *)
ASSUME RegistryAssumption ==
  /\ At \in [Calls -> Servers] /\ Conc \in [Calls -> Nat]
  /\ DefaultConc \in Nat \ {0} /\ Calls \cap Deletes = {}
  /\ \A o \in Ops : Name[o] # <<>> /\ "\n" \notin ToSet(Name[o])
  /\ {Faults, ListStore} \subseteq BOOLEAN

VARIABLES
  queues,  \* Server.queues of each server: concurrency of a queue, 0 if absent
  tasks,   \* Server.tasks of each server: the queue of a task
  meta,    \* results store: names whose TaskInfo is stored
  list,    \* results store: the names of all tasks, one per line (NATS)
  pc,      \* where each call is
  seen,    \* the names a NATS SetTask or DeleteTask parsed from the list
  met      \* history: calls that ran while another one did

vars == <<queues, tasks, meta, list, pc, seen, met>>

PC == {"new", "look", "queue", "handler", "store", "read", "write",
       "drop", "scan", "filter", "ok", "error"}
Running(o) == pc[o] \notin {"new", "ok", "error"}

(* list is a string and seen strings, as Lines, Parsed and Split make them. *)
TypeOK ==
  /\ queues \in [Servers -> [Queues -> Nat]]
  /\ tasks \in [Servers -> [Names -> Queues \cup {"none"}]]
  /\ meta \subseteq Names
  /\ pc \in [Ops -> PC]
  /\ met \subseteq Ops

Init ==
  /\ queues = [s \in Servers |-> [q \in Queues |-> 0]]
  /\ tasks = [s \in Servers |-> [n \in Names |-> "none"]]
  /\ meta = {} /\ list = <<>>
  /\ pc = [o \in Ops |-> "new"]
  /\ seen = [o \in Ops |-> <<>>]
  /\ met = {}

Goto(o, l) == pc' = [pc EXCEPT ![o] = l]

Begin(o, l) ==
  /\ pc[o] = "new"
  /\ Goto(o, l)
  /\ LET others == {x \in Ops : Running(x)}
     IN met' = IF others = {} THEN met ELSE met \cup others \cup {o}

(* The concurrency a call asks for.                                        *)
Wanted(c) == IF Conc[c] = 0 THEN DefaultConc ELSE Conc[c]

-----------------------------------------------------------------------------
(* RegisterTask                                                            *)

Call(c) ==
  /\ Begin(c, "look")
  /\ UNCHANGED <<queues, tasks, meta, list, seen>>

(* Mutated forms: an unknown queue is not added; the concurrency of a      *)
(* known one is not compared.                                              *)
LookUnregistered(c) ==
  /\ pc[c] = "look"
  /\ Goto(c, IF queues[At[c]][Queue[c]] \in {0, Wanted(c)} THEN "handler" ELSE "error")
  /\ UNCHANGED <<queues, tasks, meta, list, seen, met>>

LookUncompared(c) ==
  /\ pc[c] = "look"
  /\ Goto(c, IF queues[At[c]][Queue[c]] = 0 THEN "queue" ELSE "handler")
  /\ UNCHANGED <<queues, tasks, meta, list, seen, met>>

(* The queue is looked up under the read lock, which is then released.     *)
Look(c) ==
  LET conc == queues[At[c]][Queue[c]] IN
  /\ pc[c] = "look"
  /\ Goto(c, IF conc = 0 THEN "queue" ELSE IF conc = Wanted(c) THEN "handler" ELSE "error")
  /\ UNCHANGED <<queues, tasks, meta, list, seen, met>>

(* registerQueue                                                           *)
AddQueue(c) ==
  /\ pc[c] = "queue"
  /\ queues' = [queues EXCEPT ![At[c]][Queue[c]] = Wanted(c)]
  /\ Goto(c, "handler")
  /\ UNCHANGED <<tasks, meta, list, seen, met>>

(* registerHandler                                                         *)
AddHandler(c) ==
  /\ pc[c] = "handler"
  /\ tasks' = [tasks EXCEPT ![At[c]][Name[c]] = Queue[c]]
  /\ Goto(c, "store")
  /\ UNCHANGED <<queues, meta, list, seen, met>>

-----------------------------------------------------------------------------
(* SetTask                                                                 *)

SetTask(c) ==
  /\ pc[c] = "store"
  /\ meta' = meta \cup {Name[c]}
  /\ Goto(c, IF ListStore THEN "read" ELSE "ok")
  /\ UNCHANGED <<queues, tasks, list, seen, met>>

(* The NATS store ranges over the string: every rune becomes a name.       *)
Parsed(l) == [i \in DOMAIN l |-> <<l[i]>>]

ReadList(c) ==
  LET names == Parsed(list) IN
  /\ pc[c] = "read"
  /\ seen' = [seen EXCEPT ![c] = names]
  /\ Goto(c, IF Name[c] \in ToSet(names) THEN "ok" ELSE "write")
  /\ UNCHANGED <<queues, tasks, meta, list, met>>

Lines(names) ==
  FoldLeft(LAMBDA l, n : IF l = <<>> THEN n ELSE l \o <<"\n">> \o n, <<>>, names)

WriteList(c) ==
  /\ pc[c] = "write"
  /\ list' = Lines(Append(seen[c], Name[c]))
  /\ seen' = [seen EXCEPT ![c] = <<>>]
  /\ Goto(c, "ok")
  /\ UNCHANGED <<queues, tasks, meta, met>>

-----------------------------------------------------------------------------
(* DeleteTask                                                              *)

Delete(d) ==
  /\ Begin(d, "drop")
  /\ UNCHANGED <<queues, tasks, meta, list, seen>>

DropTask(d) ==
  /\ pc[d] = "drop"
  /\ meta' = meta \ {Name[d]}
  /\ Goto(d, IF ListStore THEN "scan" ELSE "ok")
  /\ UNCHANGED <<queues, tasks, list, seen, met>>

(* GetAllTasks and DeleteTask of the NATS store parse the list by lines.   *)
Split(l) ==
  FoldLeft(LAMBDA lines, b : IF b = "\n" THEN Append(lines, <<>>)
                             ELSE [lines EXCEPT ![Len(lines)] = Append(@, b)],
           << <<>> >>, l)

Without(names, name) ==
  FoldLeft(LAMBDA l, n : IF n = name THEN l ELSE Append(l, n), <<>>, names)

NamesIn(l) == Without(Split(l), <<>>)

(* A key that does not exist ends the call, an empty list does not; the    *)
(* model does not tell them apart and takes either way.                    *)
ScanList(d) ==
  /\ pc[d] = "scan"
  /\ seen' = [seen EXCEPT ![d] = NamesIn(list)]
  /\ \E l \in IF list = <<>> THEN {"ok", "filter"} ELSE {"filter"} : Goto(d, l)
  /\ UNCHANGED <<queues, tasks, meta, list, met>>

WriteFiltered(d) ==
  /\ pc[d] = "filter"
  /\ list' = Lines(Without(seen[d], Name[d]))
  /\ seen' = [seen EXCEPT ![d] = <<>>]
  /\ Goto(d, "ok")
  /\ UNCHANGED <<queues, tasks, meta, met>>

(* A call to the store fails, or its answer is lost; either way the caller *)
(* gets an error, and a handler stays registered in the server.            *)
StoreFails(o) ==
  /\ Faults /\ pc[o] \in {"store", "read", "write", "drop", "scan", "filter"}
  /\ Goto(o, "error")
  /\ meta' \in CASE pc[o] = "store" -> {meta, meta \cup {Name[o]}}
                 [] pc[o] = "drop" -> {meta, meta \ {Name[o]}}
                 [] OTHER -> {meta}
  /\ list' \in CASE pc[o] = "write" -> {list, Lines(Append(seen[o], Name[o]))}
                 [] pc[o] = "filter" -> {list, Lines(Without(seen[o], Name[o]))}
                 [] OTHER -> {list}
  /\ UNCHANGED <<queues, tasks, seen, met>>

RegisterTask(c) ==
  \/ Call(c) \/ Look(c) \/ AddQueue(c) \/ AddHandler(c)
  \/ SetTask(c) \/ ReadList(c) \/ WriteList(c) \/ StoreFails(c)

DeleteTask(d) ==
  Delete(d) \/ DropTask(d) \/ ScanList(d) \/ WriteFiltered(d) \/ StoreFails(d)

Next ==
  \/ \E c \in Calls : RegisterTask(c)
  \/ \E d \in Deletes : DeleteTask(d)

Spec == Init /\ [][Next]_vars

-----------------------------------------------------------------------------
(* GetTasks: the tasks whose name is listed and whose TaskInfo is stored.  *)

GetTasks == IF ListStore THEN ToSet(NamesIn(list)) \cap meta ELSE meta

-----------------------------------------------------------------------------
(* Properties                                                              *)

Gone(n) == \E d \in Deletes : Name[d] = n /\ pc[d] # "new"

(* server.go:158: "GetTasks() returns a list of all tasks registered": a   *)
(* task whose registration succeeded, and overlapped no other call, stays  *)
(* in the list, unless a DeleteTask of its own name came (SetTask,         *)
(* DeleteTask, GetAllTasks).                                               *)
RegisteredIsListed ==
  \A c \in Calls : pc[c] = "ok" /\ c \notin met /\ ~Gone(Name[c]) => Name[c] \in GetTasks

(* A registered handler's queue exists, so Start runs processors for it;   *)
(* also for a call that returned an error after adding the handler.        *)
HandlerHasQueue ==
  \A s \in Servers, n \in Names : tasks[s][n] # "none" => queues[s][tasks[s][n]] # 0

=============================================================================
