----------------------------- MODULE ServerStart -----------------------------
(***************************************************************************)
(* Server.Start against RegisterTask: Start takes the map of queues under  *)
(* its lock, but ranges over that same map after releasing it, and starts  *)
(* a consumer and the processors of each queue it meets.  A RegisterTask   *)
(* that adds a queue meanwhile races the range: the Go runtime may stop    *)
(* the process, and otherwise the new entry is met or not.                 *)
(***************************************************************************)
EXTENDS TaskRegistry

VARIABLES
  start,    \* Start of each server
  todo,     \* queues there when the range began
  visited,  \* queues the range has passed
  procs,    \* processors started for each queue, 0 when it has no consumer
  early     \* history: calls that had succeeded when Start was called

startVars == <<start, todo, visited, procs, early>>
allVars == <<vars, startVars>>

StartTypeOK ==
  /\ start \in [Servers -> {"new", "range", "wait", "dead"}]
  /\ {todo, visited} \subseteq [Servers -> SUBSET Queues]
  /\ procs \in [Servers -> [Queues -> Nat]]
  /\ early \subseteq Calls

StartInit ==
  /\ Init
  /\ start = [s \in Servers |-> "new"]
  /\ todo = [s \in Servers |-> {}] /\ visited = todo
  /\ procs = [s \in Servers |-> [q \in Queues |-> 0]]
  /\ early = {}

QueuesOf(s) == {q \in Queues : queues[s][q] # 0}

StartServer(s) ==
  /\ start[s] = "new"
  /\ start' = [start EXCEPT ![s] = "range"]
  /\ todo' = [todo EXCEPT ![s] = QueuesOf(s)]
  /\ early' = early \cup {c \in Calls : At[c] = s /\ pc[c] = "ok"}
  /\ UNCHANGED <<vars, visited, procs>>

Launch(s, q) ==
  /\ start[s] = "range" /\ q \in QueuesOf(s) \ visited[s]
  /\ visited' = [visited EXCEPT ![s] = @ \cup {q}]
  /\ procs' = [procs EXCEPT ![s][q] = queues[s][q]]
  /\ UNCHANGED <<vars, start, todo, early>>

(* An entry added to a map during a range is produced or not.              *)
RangeEnds(s) ==
  /\ start[s] = "range" /\ todo[s] \subseteq visited[s]
  /\ start' = [start EXCEPT ![s] = "wait"]
  /\ UNCHANGED <<vars, todo, visited, procs, early>>

(* "concurrent map iteration and map write"                                *)
RaceStops(s) ==
  /\ start[s] = "range"
  /\ \E c \in Calls : At[c] = s /\ pc[c] = "queue"
  /\ start' = [start EXCEPT ![s] = "dead"]
  /\ UNCHANGED <<vars, todo, visited, procs, early>>

StartNext ==
  \/ \E c \in Calls : start[At[c]] # "dead" /\ RegisterTask(c) /\ UNCHANGED startVars
  \/ \E d \in Deletes : DeleteTask(d) /\ UNCHANGED startVars
  \/ \E s \in Servers :
       \/ StartServer(s) \/ RangeEnds(s) \/ RaceStops(s)
       \/ \E q \in Queues : Launch(s, q)

StartSpec == StartInit /\ [][StartNext]_allVars

-----------------------------------------------------------------------------
(* Properties                                                              *)

(* The concurrencies that calls ask for a queue of a server.               *)
Asked(s, q) == {Wanted(c) : c \in {c \in Calls : At[c] = s /\ Queue[c] = q}}

(* When Start has gone through the queues, the queue of every task whose   *)
(* RegisterTask had returned nil before is served, by as many processors   *)
(* as some call for that queue asked for, and as this call did if it       *)
(* overlapped no other, whatever calls race the range (RegisterTask,       *)
(* Start).  What is asked for is what RegisterTask makes of the options;   *)
(* of the calls that it refuses nothing is said.                           *)
ServedAsAsked ==
  /\ TypeOK /\ StartTypeOK
  /\ \A c \in early : start[At[c]] = "wait" =>
       /\ procs[At[c]][Queue[c]] \in Asked(At[c], Queue[c])
       /\ c \notin met => procs[At[c]][Queue[c]] = Wanted(c)

=============================================================================
