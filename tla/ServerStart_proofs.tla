-------------------------- MODULE ServerStart_proofs --------------------------
(***************************************************************************)
(* Proofs about TaskRegistry and ServerStart, for every set of servers, of *)
(* calls to RegisterTask and DeleteTask, every naming of tasks and queues  *)
(* and every concurrency: handlers have queues, queues are served.         *)
(***************************************************************************)
EXTENDS ServerStart, TLAPS

-----------------------------------------------------------------------------
(* The inductive invariant of the registration                             *)

(* Two calls that run at once have met.                                    *)
Overlap == \A a, b \in Ops : a # b /\ Running(a) /\ Running(b) => a \in met /\ b \in met

(* The queue a call asks for, on the server it asks.                       *)
QueueOf(c)    == queues[At[c]][Queue[c]]
SameEntry(c, d) == At[c] = At[d] /\ Queue[c] = Queue[d]

(* A call that has found or added its queue.                               *)
PastQueue(c) == pc[c] \in {"handler", "store", "read", "write", "ok"}

Added == \A c \in Calls : PastQueue(c) => QueueOf(c) # 0

(* The concurrency of a call that met no other is not changed again.       *)
Settled(c) ==
  /\ QueueOf(c) = Wanted(c)
  /\ \A d \in Calls : SameEntry(c, d) => pc[d] # "queue"

AsAsked == \A c \in Calls \ met : PastQueue(c) => Settled(c)

RegInv == TypeOK /\ Overlap /\ Added /\ AsAsked /\ HandlerHasQueue

LEMMA CallTypes ==
  \A c \in Calls : /\ c \in Ops /\ At[c] \in Servers /\ Queue[c] \in Queues /\ Name[c] \in Names
                   /\ Wanted(c) \in Nat \ {0}
BY RegistryAssumption DEF Ops, Queues, Names, Wanted

LEMMA RegisterInit == Init => RegInv
<1> SUFFICES ASSUME Init PROVE RegInv
  OBVIOUS
<1>1. TypeOK
  BY DEF Init, TypeOK, PC
<1>2. \A o \in Ops : pc[o] = "new"
  BY DEF Init
<1>3. Overlap /\ Added /\ AsAsked
  BY <1>2, CallTypes DEF Overlap, Running, Added, AsAsked, PastQueue
<1>4. HandlerHasQueue
  BY DEF Init, HandlerHasQueue
<1>. QED
  BY <1>1, <1>3, <1>4 DEF RegInv

-----------------------------------------------------------------------------
(* Each step preserves it                                                  *)

LEMMA GotoDoes ==
  ASSUME TypeOK, NEW o \in Ops, NEW l \in PC, Goto(o, l)
  PROVE  pc' \in [Ops -> PC] /\ pc'[o] = l /\ \A x \in Ops \ {o} : pc'[x] = pc[x]
BY DEF TypeOK, Goto

(* A call goes on, or ends, without a queue of its own to add.             *)
LEMMA GoesOn ==
  ASSUME RegInv, NEW o \in Ops, NEW l \in PC, Goto(o, l), Running(o), l # "new", l # "queue",
         UNCHANGED <<queues, met>>, o \in Calls /\ PastQueue(o)' => PastQueue(o)
  PROVE  pc' \in [Ops -> PC] /\ Overlap' /\ Added' /\ AsAsked'
<1>1. pc' \in [Ops -> PC] /\ pc'[o] = l /\ \A x \in Ops \ {o} : pc'[x] = pc[x]
  BY GotoDoes DEF RegInv
<1>2. Overlap'
  BY <1>1 DEF RegInv, Overlap, Running
<1>3. \A c \in Calls : PastQueue(c)' => PastQueue(c)
  BY <1>1, CallTypes DEF PastQueue
<1>4. \A c \in Calls : QueueOf(c)' = QueueOf(c)
  BY DEF QueueOf
<1>5. \A c \in Calls : Settled(c) => Settled(c)'
  BY <1>1, <1>4, CallTypes DEF Settled
<1>6. Added' /\ AsAsked'
  BY <1>3, <1>4, <1>5 DEF RegInv, Added, AsAsked
<1>. QED
  BY <1>1, <1>2, <1>6

LEMMA BeginKept ==
  ASSUME RegInv, NEW o \in Ops, NEW l \in {"look", "drop"}, Begin(o, l),
         UNCHANGED <<queues, tasks, meta>>
  PROVE  RegInv'
<1>1. /\ pc' \in [Ops -> PC] /\ pc'[o] = l /\ pc[o] = "new"
      /\ \A x \in Ops \ {o} : pc'[x] = pc[x]
  BY GotoDoes DEF RegInv, Begin, PC
<1>2. met \subseteq met' /\ met' \subseteq Ops
  BY DEF Begin, RegInv, TypeOK
<1>3. ASSUME NEW x \in Ops, x # o, Running(x) PROVE x \in met' /\ o \in met'
  BY <1>3 DEF Begin
<1>4. Overlap'
  BY <1>1, <1>2, <1>3 DEF RegInv, Overlap, Running
<1>5. \A c \in Calls : PastQueue(c)' => PastQueue(c)
  BY <1>1, CallTypes DEF PastQueue
<1>6. \A c \in Calls : QueueOf(c)' = QueueOf(c)
  BY DEF QueueOf
<1>7. \A c \in Calls : Settled(c) => Settled(c)'
  BY <1>1, <1>6, CallTypes DEF Settled
<1>8. Added' /\ AsAsked'
  BY <1>2, <1>5, <1>6, <1>7 DEF RegInv, Added, AsAsked
<1>9. TypeOK' /\ HandlerHasQueue'
  BY <1>1, <1>2 DEF RegInv, TypeOK, HandlerHasQueue
<1>. QED
  BY <1>4, <1>8, <1>9 DEF RegInv

LEMMA LookKept == ASSUME RegInv, NEW c \in Calls, Look(c) PROVE RegInv'
<1>t. c \in Ops /\ pc[c] = "look" /\ UNCHANGED <<queues, tasks, meta, met>>
  BY CallTypes DEF Look
<1>1. PICK l \in PC : /\ Goto(c, l)
                      /\ \/ l = "queue" /\ QueueOf(c) = 0
                         \/ l = "handler" /\ QueueOf(c) = Wanted(c)
                         \/ l = "error"
  BY DEF Look, PC, QueueOf
<1>2. pc' \in [Ops -> PC] /\ pc'[c] = l /\ \A x \in Ops \ {c} : pc'[x] = pc[x]
  BY <1>t, <1>1, GotoDoes DEF RegInv
<1>3. TypeOK' /\ HandlerHasQueue'
  BY <1>t, <1>2 DEF RegInv, TypeOK, HandlerHasQueue
<1>4. Overlap'
  BY <1>t, <1>2 DEF RegInv, Overlap, Running
<1>5. \A d \in Calls : QueueOf(d)' = QueueOf(d)
  BY <1>t DEF QueueOf
<1>6. ASSUME NEW d \in Calls, PastQueue(d)' PROVE QueueOf(d) # 0 /\ (PastQueue(d) \/ (d = c /\ l = "handler"))
  <2>1. CASE d = c
    BY <1>1, <1>2, <1>6, <2>1, CallTypes DEF PastQueue
  <2>2. CASE d # c
    BY <1>2, <1>6, <2>2, CallTypes DEF PastQueue, RegInv, Added
  <2>. QED
    BY <2>1, <2>2
<1>7. ASSUME NEW d \in Calls \ met, PastQueue(d)' PROVE Settled(d)'
  <2>1. CASE d = c /\ l = "handler"
    <3>1. \A e \in Calls : SameEntry(d, e) => pc'[e] # "queue"
      <4>1. SUFFICES ASSUME NEW e \in Calls, pc[e] = "queue" PROVE FALSE
        BY <1>2, <2>1, CallTypes
      <4>. QED
        BY <1>t, <2>1, <4>1, CallTypes DEF RegInv, Overlap, Running
    <3>. QED
      BY <1>1, <1>5, <2>1, <3>1 DEF Settled
  <2>2. CASE PastQueue(d)
    <3>1. Settled(d)
      BY <2>2 DEF RegInv, AsAsked
    <3>2. ~(SameEntry(d, c) /\ l = "queue")
      BY <1>1, <3>1, CallTypes DEF Settled, SameEntry, QueueOf
    <3>. QED
      BY <1>2, <1>5, <3>1, <3>2, CallTypes DEF Settled
  <2>. QED
    BY <1>6, <1>7, <2>1, <2>2
<1>8. Added' /\ AsAsked'
  BY <1>t, <1>5, <1>6, <1>7 DEF Added, AsAsked
<1>. QED
  BY <1>3, <1>4, <1>8 DEF RegInv

LEMMA AddQueueKept == ASSUME RegInv, NEW c \in Calls, AddQueue(c) PROVE RegInv'
<1>t. /\ c \in Ops /\ pc[c] = "queue" /\ UNCHANGED <<tasks, meta, met>>
      /\ At[c] \in Servers /\ Queue[c] \in Queues /\ Wanted(c) \in Nat \ {0}
      /\ queues \in [Servers -> [Queues -> Nat]]
  BY CallTypes DEF AddQueue, RegInv, TypeOK
<1>1. queues' = [queues EXCEPT ![At[c]] = [queues[At[c]] EXCEPT ![Queue[c]] = Wanted(c)]]
  BY DEF AddQueue
<1>2. /\ queues' \in [Servers -> [Queues -> Nat]]
      /\ queues'[At[c]][Queue[c]] = Wanted(c)
      /\ \A s \in Servers, q \in Queues : s # At[c] \/ q # Queue[c] => queues'[s][q] = queues[s][q]
  BY <1>t, <1>1
<1>3. pc' \in [Ops -> PC] /\ pc'[c] = "handler" /\ \A x \in Ops \ {c} : pc'[x] = pc[x]
  BY <1>t, GotoDoes DEF RegInv, AddQueue, PC
<1>4. TypeOK'
  BY <1>t, <1>2, <1>3 DEF RegInv, TypeOK
<1>5. HandlerHasQueue'
  <2> SUFFICES ASSUME NEW s \in Servers, NEW n \in Names, tasks[s][n] # "none"
               PROVE  queues'[s][tasks[s][n]] # 0
    BY <1>t DEF HandlerHasQueue
  <2>1. tasks[s][n] \in Queues /\ queues[s][tasks[s][n]] # 0
    BY DEF RegInv, TypeOK, HandlerHasQueue
  <2>. QED
    BY <1>t, <1>2, <2>1
<1>6. Overlap'
  BY <1>t, <1>3 DEF RegInv, Overlap, Running
<1>7. \A d \in Calls : /\ SameEntry(c, d) => QueueOf(d)' = Wanted(c)
                       /\ ~SameEntry(c, d) => QueueOf(d)' = QueueOf(d)
  BY <1>2, CallTypes DEF QueueOf, SameEntry
<1>8. \A d \in Calls : PastQueue(d)' => PastQueue(d) \/ d = c
  BY <1>3, CallTypes DEF PastQueue
<1>9. Added'
  BY <1>t, <1>7, <1>8 DEF RegInv, Added, SameEntry
<1>10. ASSUME NEW d \in Calls \ met, PastQueue(d)' PROVE Settled(d)'
  <2>1. CASE d = c
    <3>1. \A e \in Calls : SameEntry(d, e) => pc'[e] # "queue"
      <4>1. SUFFICES ASSUME NEW e \in Calls, e # c, pc[e] = "queue" PROVE FALSE
        BY <1>3, <2>1, CallTypes
      <4>. QED
        BY <1>t, <2>1, <4>1, CallTypes DEF RegInv, Overlap, Running
    <3>2. QueueOf(d)' = Wanted(d)
      BY <1>7, <2>1 DEF SameEntry
    <3>. QED
      BY <3>1, <3>2 DEF Settled
  <2>2. CASE d # c
    <3>1. Settled(d)
      BY <1>8, <1>10, <2>2 DEF RegInv, AsAsked
    <3>2. ~SameEntry(d, c) /\ ~SameEntry(c, d)
      BY <1>t, <3>1 DEF Settled, SameEntry
    <3>3. QueueOf(d)' = Wanted(d)
      BY <1>7, <3>1, <3>2 DEF Settled
    <3>4. \A e \in Calls : SameEntry(d, e) => pc'[e] # "queue"
      BY <1>3, <3>1, CallTypes DEF Settled
    <3>. QED
      BY <3>3, <3>4 DEF Settled
  <2>. QED
    BY <2>1, <2>2
<1>11. AsAsked'
  BY <1>t, <1>10 DEF AsAsked
<1>. QED
  BY <1>4, <1>5, <1>6, <1>9, <1>11 DEF RegInv

LEMMA AddHandlerKept == ASSUME RegInv, NEW c \in Calls, AddHandler(c) PROVE RegInv'
<1>t. /\ c \in Ops /\ pc[c] = "handler" /\ Goto(c, "store") /\ UNCHANGED <<queues, meta, met>>
      /\ At[c] \in Servers /\ Queue[c] \in Queues /\ Name[c] \in Names
      /\ tasks \in [Servers -> [Names -> Queues \cup {"none"}]]
  BY CallTypes DEF AddHandler, RegInv, TypeOK
<1>1. tasks' = [tasks EXCEPT ![At[c]] = [tasks[At[c]] EXCEPT ![Name[c]] = Queue[c]]]
  BY DEF AddHandler
<1>2. /\ tasks' \in [Servers -> [Names -> Queues \cup {"none"}]]
      /\ tasks'[At[c]][Name[c]] = Queue[c]
      /\ \A s \in Servers, n \in Names : s # At[c] \/ n # Name[c] => tasks'[s][n] = tasks[s][n]
  BY <1>t, <1>1
<1>3. pc' \in [Ops -> PC] /\ pc'[c] = "store" /\ \A x \in Ops \ {c} : pc'[x] = pc[x]
  BY <1>t, GotoDoes DEF RegInv, PC
<1>4. PastQueue(c) /\ Running(c) /\ "store" \in PC
  BY <1>t DEF PastQueue, Running, PC
<1>5. pc' \in [Ops -> PC] /\ Overlap' /\ Added' /\ AsAsked'
  BY <1>t, <1>4, GoesOn
<1>6. QueueOf(c) # 0
  BY <1>4 DEF RegInv, Added
<1>7. HandlerHasQueue'
  BY <1>t, <1>2, <1>6 DEF RegInv, HandlerHasQueue, QueueOf
<1>8. TypeOK'
  BY <1>t, <1>2, <1>3 DEF RegInv, TypeOK
<1>. QED
  BY <1>5, <1>7, <1>8 DEF RegInv

(* The calls to the results store touch neither map.                       *)
RegisterStore(c) == SetTask(c) \/ ReadList(c) \/ WriteList(c) \/ StoreFails(c)
DeleteStore(d)   == DropTask(d) \/ ScanList(d) \/ WriteFiltered(d) \/ StoreFails(d)

LEMMA StoreKept ==
  ASSUME RegInv, NEW o \in Ops,
         \/ o \in Calls /\ RegisterStore(o)
         \/ o \in Deletes /\ DeleteStore(o)
  PROVE  RegInv'
<1>1. /\ UNCHANGED <<queues, tasks, met>> /\ meta' \subseteq Names /\ Running(o)
      /\ \E l \in {"read", "ok", "write", "error", "scan", "filter"} :
           Goto(o, l) /\ (o \in Calls => l = "error" \/ PastQueue(o))
  <2>1. Name[o] \in Names /\ meta \subseteq Names /\ (o \in Deletes => o \notin Calls)
    BY RegistryAssumption DEF Names, RegInv, TypeOK
  <2>2. CASE SetTask(o) \/ ReadList(o) \/ WriteList(o)
    BY <2>1, <2>2 DEF SetTask, ReadList, WriteList, PastQueue, Running
  <2>3. CASE StoreFails(o)
    <3>1. meta' \in {meta, meta \cup {Name[o]}, meta \ {Name[o]}}
      BY <2>3 DEF StoreFails
    <3>. QED
      BY <2>1, <2>3, <3>1 DEF StoreFails, Running
  <2>4. CASE o \in Deletes /\ (DropTask(o) \/ WriteFiltered(o))
    BY <2>1, <2>4 DEF DropTask, WriteFiltered, Running
  <2>5. CASE o \in Deletes /\ ScanList(o)
    BY <2>1, <2>5 DEF ScanList, Running
  <2>. QED
    BY <2>2, <2>3, <2>4, <2>5 DEF RegisterStore, DeleteStore
<1>2. PICK l \in PC : /\ Goto(o, l) /\ l \notin {"new", "look", "queue", "handler", "store"}
                      /\ o \in Calls => l = "error" \/ PastQueue(o)
  BY <1>1 DEF PC
<1>3. pc'[o] = l
  BY <1>2, GotoDoes DEF RegInv
<1>4. o \in Calls /\ PastQueue(o)' => PastQueue(o)
  BY <1>2, <1>3 DEF PastQueue
<1>5. pc' \in [Ops -> PC] /\ Overlap' /\ Added' /\ AsAsked'
  BY <1>1, <1>2, <1>4, GoesOn
<1>6. TypeOK' /\ HandlerHasQueue'
  BY <1>1, <1>5 DEF RegInv, TypeOK, HandlerHasQueue
<1>. QED
  BY <1>5, <1>6 DEF RegInv

LEMMA RegisterKept == ASSUME RegInv, NEW c \in Calls, RegisterTask(c) PROVE RegInv'
<1>1. c \in Ops
  BY CallTypes
<1>2. CASE Call(c)
  BY <1>1, <1>2, BeginKept DEF Call
<1>3. CASE RegisterStore(c)
  BY <1>1, <1>3, StoreKept
<1>. QED
  BY <1>2, <1>3, LookKept, AddQueueKept, AddHandlerKept DEF RegisterTask, RegisterStore

LEMMA DeleteKept == ASSUME RegInv, NEW d \in Deletes, DeleteTask(d) PROVE RegInv'
<1>1. d \in Ops
  BY DEF Ops
<1>2. CASE Delete(d)
  BY <1>1, <1>2, BeginKept DEF Delete
<1>3. CASE DeleteStore(d)
  BY <1>1, <1>3, StoreKept
<1>. QED
  BY <1>2, <1>3 DEF DeleteTask, DeleteStore

LEMMA RegisterStays == ASSUME RegInv, UNCHANGED vars PROVE RegInv'
BY DEF RegInv, TypeOK, Overlap, Running, Added, AsAsked, PastQueue, Settled, QueueOf,
       HandlerHasQueue, vars

-----------------------------------------------------------------------------
(* Start                                                                   *)

(* Start meets every queue of a call it is bound to serve, and starts what *)
(* the call asked for.                                                     *)
ServeInv ==
  /\ StartTypeOK
  /\ \A s \in Servers : /\ start[s] = "new" => visited[s] = {}
                        /\ start[s] = "wait" => todo[s] \subseteq visited[s]
  /\ \A c \in early :
       /\ pc[c] = "ok" /\ start[At[c]] # "new" /\ Queue[c] \in todo[At[c]]
       /\ c \notin met /\ Queue[c] \in visited[At[c]] => procs[At[c]][Queue[c]] = Wanted(c)

LEMMA StartInits == StartInit => RegInv /\ ServeInv
<1> SUFFICES ASSUME StartInit PROVE ServeInv
  BY RegisterInit DEF StartInit
<1>1. StartTypeOK
  BY DEF StartInit, StartTypeOK
<1>2. \A s \in Servers : start[s] = "new" /\ visited[s] = {}
  BY DEF StartInit
<1>. QED
  BY <1>1, <1>2 DEF StartInit, ServeInv

(* What succeeded stays so, and calls that met stay met.                   *)
LEMMA Onward ==
  ASSUME RegInv, (\E c \in Calls : RegisterTask(c)) \/ (\E d \in Deletes : DeleteTask(d))
  PROVE  met \subseteq met' /\ \A x \in Ops : pc[x] = "ok" => pc'[x] = "ok"
<1>1. PICK o \in Ops : RegisterTask(o) \/ DeleteTask(o)
  BY DEF Ops
<1>2. pc \in [Ops -> PC]
  BY DEF RegInv, TypeOK
<1>3. CASE Call(o) \/ Delete(o)
  BY <1>2, <1>3 DEF Call, Delete, Begin, Goto
<1>4. CASE RegisterStore(o) \/ DeleteStore(o)
  <2>1. pc[o] # "ok" /\ met' = met
    BY <1>4 DEF RegisterStore, DeleteStore, SetTask, ReadList, WriteList, StoreFails, DropTask, ScanList, WriteFiltered
  <2>2. \E l : Goto(o, l)
    <3>1. CASE SetTask(o) \/ ReadList(o) \/ WriteList(o)
      BY <3>1 DEF SetTask, ReadList, WriteList
    <3>2. CASE StoreFails(o) \/ DropTask(o)
      BY <3>2 DEF StoreFails, DropTask
    <3>3. CASE ScanList(o) \/ WriteFiltered(o)
      BY <3>3 DEF ScanList, WriteFiltered
    <3>. QED
      BY <1>4, <3>1, <3>2, <3>3 DEF RegisterStore, DeleteStore
  <2>. QED
    BY <1>2, <2>1, <2>2 DEF Goto
<1>5. CASE Look(o)
  BY <1>2, <1>5 DEF Look, Goto
<1>6. CASE AddQueue(o) \/ AddHandler(o)
  BY <1>2, <1>6 DEF AddQueue, AddHandler, Goto
<1>. QED
  BY <1>1, <1>3, <1>4, <1>5, <1>6 DEF RegisterTask, DeleteTask, RegisterStore, DeleteStore

LEMMA OnwardServes ==
  ASSUME ServeInv, UNCHANGED startVars, met \subseteq met', \A x \in Ops : pc[x] = "ok" => pc'[x] = "ok"
  PROVE  ServeInv'
<1>1. early \subseteq Calls /\ Calls \subseteq Ops
  BY CallTypes DEF ServeInv, StartTypeOK
<1>. QED
  BY <1>1 DEF ServeInv, StartTypeOK, startVars

LEMMA StartServerKept == ASSUME RegInv, ServeInv, NEW s \in Servers, StartServer(s) PROVE ServeInv'
<1>1. /\ start[s] = "new" /\ UNCHANGED <<vars, visited, procs>>
      /\ start' = [start EXCEPT ![s] = "range"] /\ todo' = [todo EXCEPT ![s] = QueuesOf(s)]
      /\ early' = early \cup {c \in Calls : At[c] = s /\ pc[c] = "ok"}
      /\ queues' = queues /\ pc' = pc /\ met' = met
  BY DEF StartServer, vars
<1>2. /\ StartTypeOK /\ early \subseteq Calls /\ todo \in [Servers -> SUBSET Queues]
      /\ start \in [Servers -> {"new", "range", "wait", "dead"}] /\ visited[s] = {}
  BY <1>1 DEF ServeInv, StartTypeOK
<1>3. QueuesOf(s) \subseteq Queues
  BY DEF QueuesOf
<1>4. StartTypeOK'
  BY <1>1, <1>2, <1>3 DEF StartTypeOK
<1>5. /\ start'[s] = "range" /\ todo'[s] = QueuesOf(s)
      /\ \A t \in Servers \ {s} : start'[t] = start[t] /\ todo'[t] = todo[t]
  BY <1>1, <1>2, <1>3
<1>6. ASSUME NEW c \in early'
      PROVE  /\ pc[c] = "ok" /\ start'[At[c]] # "new" /\ Queue[c] \in todo'[At[c]]
             /\ c \notin met /\ Queue[c] \in visited[At[c]] => procs[At[c]][Queue[c]] = Wanted(c)
  <2>1. c \in Calls /\ At[c] \in Servers /\ Queue[c] \in Queues
    BY <1>1, <1>2, <1>6, CallTypes
  <2>2. CASE c \in early
    <3>1. At[c] # s
      BY <1>1, <2>2 DEF ServeInv
    <3>. QED
      BY <1>5, <2>1, <2>2, <3>1 DEF ServeInv
  <2>3. CASE At[c] = s /\ pc[c] = "ok"
    <3>1. QueueOf(c) # 0
      BY <2>1, <2>3 DEF RegInv, Added, PastQueue
    <3>2. Queue[c] \in QueuesOf(s)
      BY <2>1, <2>3, <3>1 DEF QueueOf, QueuesOf
    <3>. QED
      BY <1>2, <1>5, <2>3, <3>2
  <2>. QED
    BY <1>1, <1>6, <2>2, <2>3
<1>. QED
  BY <1>1, <1>4, <1>5, <1>6 DEF ServeInv

LEMMA LaunchKept ==
  ASSUME RegInv, ServeInv, NEW s \in Servers, NEW q \in Queues, Launch(s, q)
  PROVE  ServeInv'
<1>1. /\ start[s] = "range" /\ q \notin visited[s]
      /\ visited' = [visited EXCEPT ![s] = visited[s] \cup {q}]
      /\ procs' = [procs EXCEPT ![s] = [procs[s] EXCEPT ![q] = queues[s][q]]]
      /\ UNCHANGED <<start, todo, early, queues, pc, met>>
  BY DEF Launch, vars
<1>2. /\ visited \in [Servers -> SUBSET Queues] /\ procs \in [Servers -> [Queues -> Nat]]
      /\ queues \in [Servers -> [Queues -> Nat]] /\ early \subseteq Calls
  BY DEF ServeInv, StartTypeOK, RegInv, TypeOK
<1>3. /\ visited' \in [Servers -> SUBSET Queues] /\ visited'[s] = visited[s] \cup {q}
      /\ \A t \in Servers \ {s} : visited'[t] = visited[t]
  BY <1>1, <1>2
<1>4. /\ procs' \in [Servers -> [Queues -> Nat]] /\ procs'[s][q] = queues[s][q]
      /\ \A t \in Servers, p \in Queues : t # s \/ p # q => procs'[t][p] = procs[t][p]
  BY <1>1, <1>2
<1>5. StartTypeOK'
  BY <1>1, <1>3, <1>4 DEF ServeInv, StartTypeOK
<1>6. ASSUME NEW c \in early, c \notin met, Queue[c] \in visited'[At[c]]
      PROVE  procs'[At[c]][Queue[c]] = Wanted(c)
  <2>1. c \in Calls /\ At[c] \in Servers /\ Queue[c] \in Queues /\ pc[c] = "ok"
    BY <1>2, CallTypes DEF ServeInv
  <2>2. CASE At[c] = s /\ Queue[c] = q
    <3>1. QueueOf(c) = Wanted(c)
      BY <1>6, <2>1 DEF RegInv, AsAsked, PastQueue, Settled
    <3>. QED
      BY <1>4, <2>2, <3>1 DEF QueueOf
  <2>3. CASE At[c] # s \/ Queue[c] # q
    <3>1. Queue[c] \in visited[At[c]]
      BY <1>3, <1>6, <2>1, <2>3
    <3>. QED
      BY <1>4, <1>6, <2>1, <2>3, <3>1 DEF ServeInv
  <2>. QED
    BY <2>2, <2>3
<1>7. \A t \in Servers : /\ start'[t] = "new" => visited'[t] = {}
                         /\ start'[t] = "wait" => todo'[t] \subseteq visited'[t]
  BY <1>1, <1>3 DEF ServeInv
<1>. QED
  BY <1>1, <1>5, <1>6, <1>7 DEF ServeInv

LEMMA RangeKept ==
  ASSUME RegInv, ServeInv, NEW s \in Servers, RangeEnds(s) \/ RaceStops(s)
  PROVE  ServeInv'
<1>1. PICK l \in {"wait", "dead"} :
        /\ start' = [start EXCEPT ![s] = l] /\ (l = "wait" => todo[s] \subseteq visited[s])
        /\ UNCHANGED <<vars, todo, visited, procs, early>>
  BY DEF RangeEnds, RaceStops
<1>2. start \in [Servers -> {"new", "range", "wait", "dead"}] /\ early \subseteq Calls
  BY DEF ServeInv, StartTypeOK
<1>3. /\ start' \in [Servers -> {"new", "range", "wait", "dead"}]
      /\ start'[s] = l /\ \A t \in Servers \ {s} : start'[t] = start[t]
  BY <1>1, <1>2
<1>4. \A t \in Servers : /\ start'[t] = "new" => visited[t] = {}
                         /\ start'[t] = "wait" => todo[t] \subseteq visited[t]
  BY <1>1, <1>3 DEF ServeInv
<1>5. \A c \in early : start'[At[c]] # "new"
  BY <1>2, <1>3, CallTypes DEF ServeInv
<1>. QED
  BY <1>1, <1>3, <1>4, <1>5 DEF ServeInv, StartTypeOK, vars

LEMMA StartKept == RegInv /\ ServeInv /\ [StartNext]_allVars => RegInv' /\ ServeInv'
<1> SUFFICES ASSUME RegInv, ServeInv, [StartNext]_allVars PROVE RegInv' /\ ServeInv'
  OBVIOUS
<1>1. CASE UNCHANGED startVars /\ \/ \E c \in Calls : RegisterTask(c)
                                  \/ \E d \in Deletes : DeleteTask(d)
  <2>1. RegInv'
    BY <1>1, RegisterKept, DeleteKept
  <2>2. ServeInv'
    BY <1>1, Onward, OnwardServes
  <2>. QED
    BY <2>1, <2>2
<1>2. CASE \E s \in Servers : \/ StartServer(s) \/ RangeEnds(s) \/ RaceStops(s)
                              \/ \E q \in Queues : Launch(s, q)
  <2>1. UNCHANGED vars
    BY <1>2 DEF StartServer, RangeEnds, RaceStops, Launch
  <2>2. RegInv'
    BY <2>1, RegisterStays
  <2>. QED
    BY <1>2, <2>2, StartServerKept, RangeKept, LaunchKept
<1>3. CASE UNCHANGED allVars
  <2>1. UNCHANGED vars /\ UNCHANGED startVars /\ pc' = pc /\ met' = met
    BY <1>3 DEF allVars, vars
  <2>. QED
    BY <2>1, RegisterStays, OnwardServes
<1>. QED
  BY <1>1, <1>2, <1>3 DEF StartNext

(* Every number of processors is one that some call asked for.             *)
AskedInv ==
  \A s \in Servers, q \in Queues :
    /\ queues[s][q] # 0 => queues[s][q] \in Asked(s, q)
    /\ q \in visited[s] => procs[s][q] \in Asked(s, q)

LEMMA AskedStart == StartInit => AskedInv
BY DEF StartInit, Init, AskedInv

LEMMA AskedKept ==
  ASSUME RegInv, ServeInv, AskedInv, [StartNext]_allVars
  PROVE  AskedInv'
<1>t. /\ queues \in [Servers -> [Queues -> Nat]] /\ procs \in [Servers -> [Queues -> Nat]]
      /\ visited \in [Servers -> SUBSET Queues]
  BY DEF RegInv, TypeOK, ServeInv, StartTypeOK
<1>0. \A s, q : Asked(s, q)' = Asked(s, q)
  BY DEF Asked, Wanted
<1>1. ASSUME NEW c \in Calls, AddQueue(c), UNCHANGED startVars PROVE AskedInv'
  <2>1. /\ queues' = [queues EXCEPT ![At[c]] = [queues[At[c]] EXCEPT ![Queue[c]] = Wanted(c)]]
        /\ At[c] \in Servers /\ Queue[c] \in Queues
    BY <1>1, CallTypes DEF AddQueue
  <2>2. /\ queues'[At[c]][Queue[c]] = Wanted(c)
        /\ \A s \in Servers, q \in Queues : s # At[c] \/ q # Queue[c] => queues'[s][q] = queues[s][q]
    BY <1>t, <2>1
  <2>3. Wanted(c) \in Asked(At[c], Queue[c])
    BY DEF Asked
  <2>. QED
    BY <1>0, <1>1, <2>2, <2>3 DEF AskedInv, startVars
<1>2. ASSUME NEW r \in Servers, NEW p \in Queues, Launch(r, p) PROVE AskedInv'
  <2>1. /\ visited' = [visited EXCEPT ![r] = visited[r] \cup {p}]
        /\ procs' = [procs EXCEPT ![r] = [procs[r] EXCEPT ![p] = queues[r][p]]]
        /\ queues' = queues /\ queues[r][p] # 0
    BY <1>2 DEF Launch, vars, QueuesOf
  <2>2. /\ procs'[r][p] = queues[r][p]
        /\ \A s \in Servers, q \in Queues : s # r \/ q # p =>
             procs'[s][q] = procs[s][q] /\ (q \in visited'[s] => q \in visited[s])
    BY <1>t, <2>1
  <2>. QED
    BY <1>0, <2>1, <2>2 DEF AskedInv
<1>3. ASSUME queues' = queues, visited' = visited, procs' = procs PROVE AskedInv'
  BY <1>0, <1>3 DEF AskedInv
<1>4. CASE \/ UNCHANGED allVars
           \/ \E s \in Servers : StartServer(s) \/ RangeEnds(s) \/ RaceStops(s)
  BY <1>3, <1>4 DEF allVars, startVars, vars, StartServer, RangeEnds, RaceStops
<1>5. CASE \E c \in Calls : RegisterTask(c) /\ ~AddQueue(c) /\ UNCHANGED startVars
  BY <1>3, <1>5 DEF RegisterTask, startVars, Call, Look, AddHandler, SetTask, ReadList, WriteList,
                    StoreFails
<1>6. CASE \E d \in Deletes : DeleteTask(d) /\ UNCHANGED startVars
  BY <1>3, <1>6 DEF DeleteTask, startVars, Delete, DropTask, ScanList, WriteFiltered, StoreFails
<1>. QED
  BY <1>1, <1>2, <1>4, <1>5, <1>6 DEF StartNext

(***************************************************************************)
(* The inductive invariant of RegisterTask and Start: a call that overlaps *)
(* no other has its queue as it asked for, Start gets to that queue, and   *)
(* whatever calls overlap, a queue has a concurrency that one asked for.   *)
(***************************************************************************)
THEOREM Inductive == StartSpec => [](RegInv /\ ServeInv /\ AskedInv)
<1>1. StartInit => RegInv /\ ServeInv /\ AskedInv
  BY StartInits, AskedStart
<1>2. RegInv /\ ServeInv /\ AskedInv /\ [StartNext]_allVars => (RegInv /\ ServeInv /\ AskedInv)'
  BY StartKept, AskedKept
<1>. QED
  BY <1>1, <1>2, PTL DEF StartSpec

(***************************************************************************)
(* RegisterTask adds the queue before the handler, and no queue is ever    *)
(* removed: Start runs processors for the queue of every handler, also     *)
(* when the store then refused the task.                                   *)
(***************************************************************************)
THEOREM HandlersServed == StartSpec => []HandlerHasQueue
<1>1. RegInv => HandlerHasQueue
  BY DEF RegInv
<1>. QED
  BY <1>1, Inductive, PTL

(***************************************************************************)
(* Start serves the queue of every task whose RegisterTask had returned    *)
(* nil before, by a number of processors that some call asked for, and by  *)
(* that call's own number if it overlapped no other one, although Start    *)
(* ranges over the map without its lock.                                   *)
(***************************************************************************)
THEOREM Served == StartSpec => []ServedAsAsked
<1>1. RegInv /\ ServeInv /\ AskedInv => ServedAsAsked
  <2> SUFFICES ASSUME RegInv, ServeInv, AskedInv, NEW c \in early, start[At[c]] = "wait"
               PROVE  /\ procs[At[c]][Queue[c]] \in Asked(At[c], Queue[c])
                      /\ c \notin met => procs[At[c]][Queue[c]] = Wanted(c)
    BY DEF ServedAsAsked, RegInv, ServeInv
  <2>1. c \in Calls /\ At[c] \in Servers /\ Queue[c] \in Queues
    BY CallTypes DEF ServeInv, StartTypeOK
  <2>2. Queue[c] \in visited[At[c]]
    BY <2>1 DEF ServeInv
  <2>. QED
    BY <2>1, <2>2 DEF ServeInv, AskedInv
<1>. QED
  BY <1>1, Inductive, PTL

-----------------------------------------------------------------------------
(* The list of tasks of the in-memory and Redis stores                     *)

ListInv ==
  /\ RegInv
  /\ list = <<>> /\ seen = [o \in Ops |-> <<>>]
  /\ \A o \in Ops : pc[o] \notin {"read", "write", "scan", "filter"}
  /\ \A c \in Calls : pc[c] # "drop"
  /\ \A c \in Calls : pc[c] = "ok" => Name[c] \in meta \/ Gone(Name[c])

(* What a call does to the set of stored tasks and to who has begun.       *)
LEMMA ListStep ==
  ASSUME ~ListStore, ListInv, NEW o \in Ops,
         \/ o \in Calls /\ RegisterTask(o)
         \/ o \in Deletes /\ DeleteTask(o)
  PROVE  /\ UNCHANGED <<list, seen>>
         /\ pc'[o] \notin {"new", "read", "write", "scan", "filter"}
         /\ \A x \in Ops \ {o} : pc'[x] = pc[x]
         /\ o \in Calls => pc'[o] # "drop"
         /\ \/ meta' = meta /\ pc'[o] # "ok"
            \/ meta' = meta \cup {Name[o]}
            \/ o \in Deletes /\ meta' = meta \ {Name[o]} /\ o \notin Calls
<1>1. pc \in [Ops -> PC] /\ pc[o] \notin {"read", "write", "scan", "filter"} /\ (o \in Deletes => o \notin Calls)
  BY RegistryAssumption DEF ListInv, RegInv, TypeOK
<1>2. \A l \in PC : Goto(o, l) => pc'[o] = l /\ \A x \in Ops \ {o} : pc'[x] = pc[x]
  BY <1>1 DEF Goto
<1>3. {"look", "queue", "handler", "store", "drop", "ok", "error"} \subseteq PC
  BY DEF PC
<1>4. CASE (o \in Calls /\ Call(o)) \/ (o \in Deletes /\ Delete(o))
  BY <1>1, <1>2, <1>3, <1>4 DEF Call, Delete, Begin
<1>5. CASE Look(o)
  <2>1. \E l \in {"queue", "handler", "error"} : Goto(o, l)
    BY <1>5 DEF Look
  <2>. QED
    BY <1>2, <1>3, <1>5, <2>1 DEF Look
<1>6. CASE AddQueue(o) \/ AddHandler(o)
  BY <1>1, <1>2, <1>3, <1>6 DEF AddQueue, AddHandler
<1>7. CASE o \in Calls /\ SetTask(o)
  BY <1>1, <1>2, <1>3, <1>7 DEF SetTask
<1>8. CASE o \in Deletes /\ DropTask(o)
  BY <1>1, <1>2, <1>3, <1>8 DEF DropTask
<1>9. CASE StoreFails(o)
  <2>1. list' = list /\ seen' = seen /\ pc'[o] = "error" /\ \A x \in Ops \ {o} : pc'[x] = pc[x]
    BY <1>1, <1>2, <1>3, <1>9 DEF StoreFails
  <2>2. \/ meta' = meta \/ meta' = meta \cup {Name[o]}
        \/ pc[o] = "drop" /\ meta' = meta \ {Name[o]}
    BY <1>9 DEF StoreFails
  <2>3. pc[o] = "drop" => o \in Deletes /\ o \notin Calls
    BY <1>1 DEF ListInv, Ops
  <2>4. o \in Calls => pc'[o] # "drop"
    BY <2>1
  <2>. QED
    BY <2>1, <2>2, <2>3, <2>4
<1>10. ~ReadList(o) /\ ~WriteList(o) /\ ~ScanList(o) /\ ~WriteFiltered(o)
  BY <1>1 DEF ReadList, WriteList, ScanList, WriteFiltered
<1>11. CASE o \in Calls /\ RegisterTask(o)
  BY <1>4, <1>5, <1>6, <1>7, <1>9, <1>10, <1>11 DEF RegisterTask
<1>12. CASE o \in Deletes /\ DeleteTask(o)
  BY <1>4, <1>8, <1>9, <1>10, <1>12 DEF DeleteTask
<1>. QED
  BY <1>11, <1>12

LEMMA ListKept ==
  ASSUME ~ListStore, ListInv, [StartNext]_allVars
  PROVE  ListInv'
<1>1. CASE \/ \E c \in Calls : RegisterTask(c)
           \/ \E d \in Deletes : DeleteTask(d)
  <2>1. PICK o \in Ops : \/ o \in Calls /\ RegisterTask(o)
                         \/ o \in Deletes /\ DeleteTask(o)
    BY <1>1 DEF Ops
  <2>2. /\ UNCHANGED <<list, seen>>
        /\ pc'[o] \notin {"new", "read", "write", "scan", "filter"}
        /\ \A x \in Ops \ {o} : pc'[x] = pc[x]
        /\ o \in Calls => pc'[o] # "drop"
        /\ \/ meta' = meta /\ pc'[o] # "ok"
           \/ meta' = meta \cup {Name[o]}
           \/ o \in Deletes /\ meta' = meta \ {Name[o]} /\ o \notin Calls
    BY <2>1, ListStep
  <2>3. RegInv'
    BY <2>1, RegisterKept, DeleteKept DEF ListInv
  <2>4. \A n : Gone(n) => Gone(n)'
    BY <2>2 DEF Gone, Ops
  <2>5. ASSUME NEW c \in Calls, pc'[c] = "ok" PROVE Name[c] \in meta' \/ Gone(Name[c])'
    <3>1. c \in Ops
      BY CallTypes
    <3>2. CASE meta' = meta /\ pc'[o] # "ok"
      BY <2>2, <2>4, <2>5, <3>1, <3>2 DEF ListInv
    <3>3. CASE meta' = meta \cup {Name[o]}
      BY <2>2, <2>4, <2>5, <3>1, <3>3 DEF ListInv
    <3>4. CASE o \in Deletes /\ meta' = meta \ {Name[o]} /\ o \notin Calls
      <4>1. Gone(Name[o])'
        BY <2>2, <3>4 DEF Gone
      <4>2. Name[c] \in meta \/ Gone(Name[c])
        BY <2>2, <2>5, <3>1, <3>4 DEF ListInv
      <4>. QED
        BY <2>4, <3>4, <4>1, <4>2
    <3>. QED
      BY <2>2, <3>2, <3>3, <3>4
  <2>6. \A c \in Calls : pc'[c] # "drop"
    BY <2>2, CallTypes DEF ListInv
  <2>7. \A x \in Ops : pc'[x] \notin {"read", "write", "scan", "filter"}
    BY <2>2 DEF ListInv
  <2>. QED
    BY <2>2, <2>3, <2>5, <2>6, <2>7 DEF ListInv
<1>2. CASE UNCHANGED vars
  <2>1. RegInv' /\ UNCHANGED <<list, seen, pc, meta>>
    BY <1>2, RegisterStays DEF ListInv, vars
  <2>2. \A n : Gone(n)' <=> Gone(n)
    BY <2>1 DEF Gone
  <2>. QED
    BY <2>1, <2>2 DEF ListInv
<1>. QED
  BY <1>1, <1>2 DEF StartNext, StartServer, RangeEnds, RaceStops, Launch, allVars

(***************************************************************************)
(* GetTasks lists every task whose registration succeeded and that no call *)
(* to DeleteTask of its name followed or overlapped, for the in-memory and *)
(* Redis stores, which add and remove a name in one step (SetTask,         *)
(* DeleteTask).                                                            *)
(***************************************************************************)
THEOREM Listed == ASSUME ~ListStore PROVE StartSpec => []RegisteredIsListed
<1>1. StartInit => ListInv
  <2> SUFFICES ASSUME StartInit PROVE ListInv
    OBVIOUS
  <2>1. \A o \in Ops : pc[o] = "new"
    BY DEF StartInit, Init
  <2>2. list = <<>> /\ seen = [o \in Ops |-> <<>>]
    BY DEF StartInit, Init
  <2>. QED
    BY <2>1, <2>2, StartInits, CallTypes DEF ListInv
<1>2. ListInv /\ [StartNext]_allVars => ListInv'
  BY ListKept
<1>3. ListInv => RegisteredIsListed
  BY DEF ListInv, RegisteredIsListed, GetTasks
<1>. QED
  BY <1>1, <1>2, <1>3, PTL DEF StartSpec

=============================================================================
