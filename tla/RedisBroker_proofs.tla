-------------------------- MODULE RedisBroker_proofs --------------------------
(***************************************************************************)
(* Proofs about RedisBroker, for every set of messages, of processes and   *)
(* of servers, every choice of pipes, every schedule and every number of   *)
(* faults: what was accepted is not forgotten, nothing comes early, and    *)
(* copies are as few as the servers and the faults (finitely many          *)
(* servers).  The queue of the messages without an ETA implements Broker.  *)
(***************************************************************************)
EXTENDS RedisBroker, FiniteSetTheorems, FunctionTheorems, SequenceTheorems, TLAPS

Push(j) == [op |-> "LPUSH", job |-> j]
Add(j)  == [op |-> "ZADD", job |-> j]

Cmds(p) == ToSet(pipe[p].cmds)

-----------------------------------------------------------------------------
(* The contents of lists and pipes                                         *)

LEMMA ToSetEmpty == ToSet(<<>>) = {}
BY DEF ToSet

LEMMA ToSetPush ==
  ASSUME NEW S, NEW s \in Seq(S), NEW x \in S
  PROVE  <<x>> \o s \in Seq(S) /\ ToSet(<<x>> \o s) = {x} \cup ToSet(s)
<1> DEFINE t == <<x>> \o s
<1>1. /\ t \in Seq(S) /\ Len(t) = Len(s) + 1 /\ t[1] = x /\ Len(s) \in Nat
      /\ \A i \in 1 .. Len(s) : t[i + 1] = s[i]
      /\ DOMAIN t = 1 .. Len(s) + 1 /\ DOMAIN s = 1 .. Len(s)
  OBVIOUS
<1> HIDE DEF t
<1>2. ASSUME NEW y \in ToSet(t) PROVE y \in {x} \cup ToSet(s)
  <2>1. PICK i \in 1 .. Len(s) + 1 : y = t[i]
    BY <1>1 DEF ToSet
  <2>2. CASE i = 1
    BY <1>1, <2>1, <2>2
  <2>3. CASE i # 1
    <3>1. i - 1 \in 1 .. Len(s) /\ y = s[i - 1]
      BY <1>1, <2>1, <2>3
    <3>. QED
      BY <1>1, <3>1 DEF ToSet
  <2>. QED
    BY <2>2, <2>3
<1>3. x \in ToSet(t)
  <2>1. 1 \in DOMAIN t
    BY <1>1
  <2>. QED
    BY <1>1, <2>1 DEF ToSet
<1>4. ASSUME NEW i \in 1 .. Len(s) PROVE s[i] \in ToSet(t)
  <2>1. i + 1 \in DOMAIN t /\ t[i + 1] = s[i]
    BY <1>1
  <2>. QED
    BY <2>1 DEF ToSet
<1>5. \A y \in ToSet(s) : y \in ToSet(t)
  BY <1>1, <1>4 DEF ToSet
<1>6. ToSet(t) = {x} \cup ToSet(s)
  BY <1>2, <1>3, <1>5
<1>. QED
  BY <1>1, <1>6 DEF t

LEMMA ToSetAppend ==
  ASSUME NEW S, NEW s \in Seq(S), NEW x \in S
  PROVE  Append(s, x) \in Seq(S) /\ ToSet(Append(s, x)) = ToSet(s) \cup {x}
<1>1. /\ Append(s, x) \in Seq(S) /\ Len(s) \in Nat
      /\ DOMAIN Append(s, x) = 1 .. Len(s) + 1 /\ DOMAIN s = 1 .. Len(s)
      /\ Append(s, x)[Len(s) + 1] = x /\ \A i \in 1 .. Len(s) : Append(s, x)[i] = s[i]
  OBVIOUS
<1>2. ASSUME NEW i \in 1 .. Len(s) + 1 PROVE Append(s, x)[i] \in ToSet(s) \cup {x}
  <2>1. CASE i = Len(s) + 1
    BY <1>1, <2>1
  <2>2. CASE i # Len(s) + 1
    <3>1. i \in DOMAIN s /\ Append(s, x)[i] = s[i]
      BY <1>1, <2>2
    <3>. QED
      BY <3>1 DEF ToSet
  <2>. QED
    BY <2>1, <2>2
<1>3. x \in ToSet(Append(s, x))
  <2>1. Len(s) + 1 \in DOMAIN Append(s, x)
    BY <1>1
  <2>. QED
    BY <1>1, <2>1 DEF ToSet
<1>4. ASSUME NEW i \in DOMAIN s PROVE s[i] \in ToSet(Append(s, x))
  <2>1. i \in DOMAIN Append(s, x) /\ Append(s, x)[i] = s[i]
    BY <1>1
  <2>. QED
    BY <2>1 DEF ToSet
<1>5. ToSet(Append(s, x)) \subseteq ToSet(s) \cup {x}
  BY <1>1, <1>2 DEF ToSet
<1>6. ToSet(s) \subseteq ToSet(Append(s, x))
  BY <1>4 DEF ToSet
<1>. QED
  BY <1>1, <1>3, <1>5, <1>6

LEMMA ToSetTail ==
  ASSUME NEW S, NEW s \in Seq(S), s # <<>>
  PROVE  Tail(s) \in Seq(S) /\ Head(s) \in S /\ ToSet(s) = {Head(s)} \cup ToSet(Tail(s))
<1>1. Tail(s) \in Seq(S) /\ Head(s) \in S /\ s = <<Head(s)>> \o Tail(s)
  OBVIOUS
<1>2. ToSet(<<Head(s)>> \o Tail(s)) = {Head(s)} \cup ToSet(Tail(s))
  BY <1>1, ToSetPush
<1>. QED
  BY <1>1, <1>2

LEMMA ToSetType == ASSUME NEW S, NEW s \in Seq(S) PROVE ToSet(s) \subseteq S
BY DEF ToSet

-----------------------------------------------------------------------------
(* Types                                                                   *)

PipeState     == [cmds : Seq(Commands), sending : BOOLEAN]
ConsumerState == [pc : {"off", "loop", "hand"}, msg : Jobs \cup {None}]
PollerState   == [pc : {"off", "wait", "push", "remove"}, msg : Jobs \cup {None}]

(* Whoever is about to handle a message or to send a command has one.      *)
TInv ==
  /\ TypeOK
  /\ \A p \in Procs :
       /\ consumer[p].pc = "hand" => consumer[p].msg \in Jobs
       /\ poller[p].pc \in {"push", "remove"} => poller[p].msg \in Jobs
       /\ pipe[p].sending => pipe[p].cmds # <<>>

LEMMA InitTypes == Init => TInv
BY RedisAssumption DEF Init, TInv, TypeOK, At, NoPipe

LEMMA CommandType == \A j \in Jobs : Command(j) \in Commands /\ Push(j) \in Commands /\ Add(j) \in Commands
BY DEF Command, Commands, Push, Add

LEMMA EndsType == ASSUME TypeOK, NEW r, NEW c, Ends(r, c) PROVE faults' \in 0 .. MaxFaults
BY RedisAssumption DEF TypeOK, Ends, Fault

LEMMA ExecuteType ==
  ASSUME TypeOK, NEW c \in Commands, Execute(c)
  PROVE  list' \in Seq(Jobs) /\ scheduled' \subseteq Jobs
<1>1. c.job \in Jobs
  BY DEF Commands
<1>2. <<c.job>> \o list \in Seq(Jobs)
  BY <1>1 DEF TypeOK
<1>. QED
  BY <1>1, <1>2 DEF Execute, TypeOK

LEMMA BufferType ==
  ASSUME TInv, NEW p \in Procs, NEW c \in Commands, Buffer(p, c)
  PROVE  /\ pipe' \in [Procs -> PipeState]
         /\ \A q \in Procs : pipe'[q].sending => pipe'[q].cmds # <<>>
<1>1. PICK s : s = [pipe[p] EXCEPT !.cmds = Append(pipe[p].cmds, c)]
  OBVIOUS
<1>2. pipe \in [Procs -> PipeState] /\ pipe' = [pipe EXCEPT ![p] = s] /\ ~pipe[p].sending
  BY <1>1 DEF TInv, TypeOK, Buffer, PipeState
<1>3. s \in PipeState /\ ~s.sending
  <2>1. pipe[p] \in PipeState /\ Append(pipe[p].cmds, c) \in Seq(Commands)
    BY <1>2 DEF PipeState
  <2>. QED
    BY <1>1, <1>2, <2>1 DEF PipeState
<1>. QED
  BY <1>2, <1>3 DEF TInv

LEMMA ThenType ==
  ASSUME TInv, NEW p \in Procs, NEW ok, NEW pc \in {"remove", "wait"}, Then(p, ok, pc),
         poller[p].pc \in {"push", "remove"}
  PROVE  /\ poller' \in [Procs -> PollerState]
         /\ \A q \in Procs : poller'[q].pc \in {"push", "remove"} => poller'[q].msg \in Jobs
<1>1. PICK s : s = IF ok THEN [poller[p] EXCEPT !.pc = pc] ELSE At("wait")
  OBVIOUS
<1>2. poller \in [Procs -> PollerState] /\ poller' = [poller EXCEPT ![p] = s]
  BY <1>1 DEF TInv, TypeOK, Then, PollerState
<1>3. s \in PollerState /\ (s.pc \in {"push", "remove"} => s.msg \in Jobs)
  BY <1>1, <1>2 DEF PollerState, At, TInv
<1>. QED
  BY <1>2, <1>3 DEF TInv

LEMMA EndedType ==
  ASSUME TInv, NEW p \in Procs, Ended(p), phase' \in [Procs -> {"up", "cancelled", "gone"}],
         faults' \in 0 .. MaxFaults
  PROVE  TInv'
<1>1. InPipe(p) \subseteq Jobs
  <2>1. ToSet(pipe[p].cmds) \subseteq Commands
    BY ToSetType DEF TInv, TypeOK
  <2>. QED
    BY <2>1 DEF InPipe, Commands
<1>2. Held(p) \subseteq Jobs
  BY DEF TInv, Held
<1>3. lost' \subseteq Jobs
  BY <1>1, <1>2 DEF TInv, TypeOK, Ended
<1>4. /\ pipe' = [pipe EXCEPT ![p] = NoPipe] /\ consumer' = [consumer EXCEPT ![p] = At("off")]
      /\ poller' = [poller EXCEPT ![p] = At("off")]
      /\ UNCHANGED <<now, list, scheduled, piped, answer, given>>
  BY DEF Ended, redis
<1>5. pipe' \in [Procs -> PipeState] /\ \A q \in Procs : pipe'[q].sending => pipe'[q].cmds # <<>>
  BY <1>4 DEF TInv, TypeOK, PipeState, NoPipe
<1>6. /\ consumer' \in [Procs -> ConsumerState]
      /\ \A q \in Procs : consumer'[q].pc = "hand" => consumer'[q].msg \in Jobs
  BY <1>4 DEF TInv, TypeOK, ConsumerState, At
<1>7. /\ poller' \in [Procs -> PollerState]
      /\ \A q \in Procs : poller'[q].pc \in {"push", "remove"} => poller'[q].msg \in Jobs
  BY <1>4 DEF TInv, TypeOK, PollerState, At
<1>. QED
  BY <1>3, <1>4, <1>5, <1>6, <1>7 DEF TInv, TypeOK, PipeState, ConsumerState, PollerState

(***************************************************************************)
(* Types are kept by every step.                                           *)
(***************************************************************************)
LEMMA TypesStep == ASSUME TInv, [Next]_vars PROVE TInv'
<1> USE RedisAssumption DEF TInv, PipeState, ConsumerState, PollerState
<1>0. CASE UNCHANGED vars
  BY <1>0 DEF vars, TypeOK
<1>1. CASE Tick
  BY <1>1 DEF Tick, redis, TypeOK
<1>2. ASSUME NEW p \in Procs, NEW j \in Jobs, EnqueuePiped(p, j) PROVE TInv'
  BY <1>2, BufferType, CommandType DEF EnqueuePiped, redis, TypeOK
<1>3. ASSUME NEW p \in Procs, NEW j \in Jobs, NEW r \in Replies, EnqueueNow(p, j, r) PROVE TInv'
  <2>1. list' \in Seq(Jobs) /\ scheduled' \subseteq Jobs /\ faults' \in 0 .. MaxFaults
    BY <1>3, ExecuteType, CommandType, EndsType DEF EnqueueNow, redis, TypeOK
  <2>. QED
    BY <1>3, <2>1 DEF EnqueueNow, TypeOK
<1>4. ASSUME NEW p \in Procs, Exec(p) PROVE TInv'
  <2>1. PICK s : s = [pipe[p] EXCEPT !.sending = TRUE]
    OBVIOUS
  <2>2. pipe[p] \in PipeState /\ pipe[p].cmds # <<>> /\ pipe' = [pipe EXCEPT ![p] = s]
    BY <1>4, <2>1 DEF Exec, TypeOK
  <2>3. s \in PipeState /\ s.cmds # <<>>
    BY <2>1, <2>2
  <2>4. pipe' \in [Procs -> PipeState] /\ \A q \in Procs : pipe'[q].sending => pipe'[q].cmds # <<>>
    BY <2>2, <2>3 DEF TypeOK
  <2>5. UNCHANGED <<now, list, scheduled, piped, consumer, poller, phase, answer, given, lost, faults>>
    BY <1>4 DEF Exec, redis
  <2>. QED
    BY <2>4, <2>5 DEF TypeOK
<1>5. ASSUME NEW p \in Procs, Send(p) PROVE TInv'
  <2>1. /\ pipe[p].cmds \in Seq(Commands) /\ pipe[p].cmds # <<>>
        /\ Head(pipe[p].cmds) \in Commands /\ Tail(pipe[p].cmds) \in Seq(Commands)
    <3>1. PICK t \in Seq(Commands) : t = pipe[p].cmds /\ t # <<>>
      BY <1>5 DEF Send, TypeOK
    <3>2. Head(t) \in Commands /\ Tail(t) \in Seq(Commands)
      BY <3>1, ToSetTail
    <3>. QED
      BY <3>1, <3>2
  <2>2. list' \in Seq(Jobs) /\ scheduled' \subseteq Jobs
    BY <1>5, <2>1, ExecuteType DEF Send
  <2>3. PICK s \in PipeState : (s.sending => s.cmds # <<>>) /\ pipe' = [pipe EXCEPT ![p] = s]
    <3>1. [cmds |-> Tail(pipe[p].cmds), sending |-> Tail(pipe[p].cmds) # <<>>] \in PipeState
      BY <2>1
    <3>. QED
      BY <1>5, <3>1 DEF Send
  <2>6. pipe' \in [Procs -> PipeState] /\ \A q \in Procs : pipe'[q].sending => pipe'[q].cmds # <<>>
    BY <2>3 DEF TypeOK
  <2>7. UNCHANGED <<now, piped, consumer, poller, phase, answer, given, lost, faults>>
    BY <1>5 DEF Send
  <2>. QED
    BY <2>2, <2>6, <2>7 DEF TypeOK
<1>6. ASSUME NEW p \in Procs, ExecFails(p) PROVE TInv'
  <2>1. InPipe(p) \subseteq Jobs
    <3>1. ToSet(pipe[p].cmds) \subseteq Commands
      BY ToSetType DEF TypeOK
    <3>. QED
      BY <3>1 DEF InPipe, Commands
  <2>. QED
    BY <1>6, <2>1 DEF ExecFails, redis, TypeOK, NoPipe, Fault
<1>7. ASSUME NEW p \in Procs, Start(p) PROVE TInv'
  BY <1>7 DEF Start, redis, TypeOK, At
<1>8. ASSUME NEW p \in Procs, Hand(p) PROVE TInv'
  <2>1. consumer[p].msg \in Jobs /\ given' = [given EXCEPT ![consumer[p].msg] = given[consumer[p].msg] + 1]
    BY <1>8 DEF Hand
  <2>2. given' \in [Jobs -> Nat]
    BY <2>1 DEF TypeOK
  <2>. QED
    BY <1>8, <2>2 DEF Hand, redis, TypeOK, Loop, At
<1>9. ASSUME NEW p \in Procs, Stop(p) PROVE TInv'
  BY <1>9 DEF Stop, redis, TypeOK, At
<1>10. ASSUME NEW p \in Procs, NEW r \in Replies, Pop(p, r) PROVE TInv'
  <2>1. Head(list) \in Jobs /\ Tail(list) \in Seq(Jobs) /\ faults' \in 0 .. MaxFaults
    BY <1>10, EndsType DEF Pop, TypeOK
  <2>2. consumer' \in [Procs -> ConsumerState]
        /\ \A q \in Procs : consumer'[q].pc = "hand" => consumer'[q].msg \in Jobs
    <3>1. PICK s \in ConsumerState :
            (s.pc = "hand" => s.msg \in Jobs) /\ consumer' = [consumer EXCEPT ![p] = s]
      <4>1. CASE r = "ok"
        BY <1>10, <2>1, <4>1 DEF Pop
      <4>2. CASE r # "ok"
        BY <1>10, <4>2 DEF Pop, Loop, At
      <4>. QED
        BY <4>1, <4>2
    <3>. QED
      BY <3>1 DEF TypeOK
  <2>. QED
    BY <1>10, <2>1, <2>2 DEF Pop, TypeOK
<1>11. ASSUME NEW p \in Procs, Fetch(p) PROVE TInv'
  BY <1>11 DEF Fetch, redis, TypeOK, Due
<1>12. ASSUME NEW p \in Procs, PushPiped(p) PROVE TInv'
  <2>1. [op |-> "LPUSH", job |-> poller[p].msg] \in Commands
    BY <1>12, CommandType DEF PushPiped, Push
  <2>. QED
    BY <1>12, <2>1, BufferType, ThenType DEF PushPiped, redis, TypeOK
<1>13. ASSUME NEW p \in Procs, PollerStop(p) PROVE TInv'
  BY <1>13 DEF PollerStop, redis, TypeOK, At
<1>14. ASSUME NEW p \in Procs, NEW r \in Replies, PushNow(p, r) PROVE TInv'
  <2>1. list' \in Seq(Jobs) /\ faults' \in 0 .. MaxFaults
    BY <1>14, EndsType DEF PushNow, TypeOK
  <2>. QED
    BY <1>14, <2>1, ThenType DEF PushNow, TypeOK
<1>15. ASSUME NEW p \in Procs, NEW r \in Replies, ZRem(p, r) PROVE TInv'
  <2>1. scheduled' \subseteq Jobs /\ faults' \in 0 .. MaxFaults
    BY <1>15, EndsType DEF ZRem, TypeOK
  <2>. QED
    BY <1>15, <2>1, ThenType DEF ZRem, TypeOK
<1>16. ASSUME NEW p \in Procs, Cancel(p) PROVE TInv'
  BY <1>16 DEF Cancel, redis, TypeOK
<1>17. ASSUME NEW p \in Procs, Exit(p) \/ Crash(p) PROVE TInv'
  <2>1. phase' \in [Procs -> {"up", "cancelled", "gone"}] /\ faults' \in 0 .. MaxFaults /\ Ended(p)
    <3>1. CASE Exit(p)
      BY <3>1 DEF Exit, TypeOK
    <3>2. CASE Crash(p)
      BY <3>2 DEF Crash, Fault, TypeOK
    <3>. QED
      BY <1>17, <3>1, <3>2
  <2>. QED
    BY <2>1, EndedType
<1>. QED
  BY <1>0, <1>1, <1>2, <1>3, <1>4, <1>5, <1>6, <1>7, <1>8, <1>9, <1>10, <1>11, <1>12, <1>13, <1>14,
     <1>15, <1>16, <1>17 DEF Next, Enqueue, ExecPipe, Consume, ConsumeScheduled

-----------------------------------------------------------------------------
(* The inductive invariant.                                                *)

(* A worker had j, a process lost it, or a worker is going to have it.     *)
OnTheWay(j) ==
  \/ j \in ToSet(list) \cup lost \/ given[j] > 0
  \/ \E p \in Procs : j \in Held(p) \/ Push(j) \in Cmds(p)

(* Or it waits for its time, or is about to.                               *)
Kept(j) == OnTheWay(j) \/ j \in scheduled \/ \E p \in Procs : Add(j) \in Cmds(p)

(* Some process takes j for due.                                           *)
Ready(j) ==
  \/ j \in ToSet(list) \/ given[j] > 0
  \/ \E p \in Procs :
       \/ j \in Held(p) \/ Push(j) \in Cmds(p)
       \/ poller[p].pc \in {"push", "remove"} /\ poller[p].msg = j

(* A message leaves the sorted set after it was pushed.                    *)
PushedFirst == \A p \in Procs, m \in Jobs :
  poller[p].pc = "remove" /\ poller[p].msg = m => OnTheWay(m)

IInv ==
  /\ TInv /\ PushedFirst
  /\ \A j \in Jobs : answer[j] = "ok" => Kept(j)
  /\ \A j \in Jobs : Ready(j) => Eta[j] <= now

(* What a step may do to a message, for the invariant to go on.            *)
Flow ==
  /\ now <= now'
  /\ \A j \in Jobs :
       /\ OnTheWay(j) => OnTheWay(j)'
       /\ Kept(j) => Kept(j)'
       /\ answer'[j] = "ok" => answer[j] = "ok" \/ Kept(j)'
       /\ Ready(j)' => Ready(j) \/ Eta[j] <= now
  /\ \A p \in Procs, m \in Jobs : poller'[p].pc = "remove" /\ poller'[p].msg = m =>
       (poller[p].pc = "remove" /\ poller[p].msg = m) \/ OnTheWay(m)'

LEMMA FlowKeeps == ASSUME IInv, TInv', Flow PROVE IInv'
<1>1. now \in Nat /\ now' \in Nat /\ \A j \in Jobs : Eta[j] \in Nat
  BY RedisAssumption DEF IInv, TInv, TypeOK
<1>2. \A j \in Jobs : answer'[j] = "ok" => Kept(j)'
  BY DEF IInv, Flow
<1>3. \A j \in Jobs : Ready(j)' => Eta[j] <= now'
  BY <1>1 DEF IInv, Flow
<1>4. PushedFirst'
  BY DEF IInv, PushedFirst, Flow
<1>. QED
  BY <1>2, <1>3, <1>4 DEF IInv

(* A poller that does not come to "push" or "remove" by a step.            *)
NoNewTask(p) ==
  poller'[p].pc \in {"push", "remove"} => poller'[p].pc = poller[p].pc /\ poller'[p].msg = poller[p].msg

(***************************************************************************)
(* A step by which no message disappears from list, memories and history,  *)
(* and none appears there that was not in Redis or in a memory.            *)
(***************************************************************************)
LEMMA FlowOf ==
  ASSUME IInv, TInv', UNCHANGED <<now, answer>>, \A p \in Procs : NoNewTask(p),
         \A j \in Jobs : OnTheWay(j) => OnTheWay(j)',
         \A j \in Jobs : Kept(j) => Kept(j)',
         \A j \in Jobs :
           j \in ToSet(list') \/ given'[j] > 0 \/ (\E p \in Procs : j \in Held(p)' \/ Push(j) \in Cmds(p)')
             => Ready(j)
  PROVE  Flow
<1>1. now <= now'
  BY RedisAssumption DEF IInv, TInv, TypeOK
<1>2. ASSUME NEW j \in Jobs, Ready(j)' PROVE Ready(j)
  <2>1. ASSUME NEW p \in Procs, poller'[p].pc \in {"push", "remove"} /\ poller'[p].msg = j
        PROVE  Ready(j)
    BY <2>1 DEF NoNewTask, Ready
  <2>. QED
    BY <1>2, <2>1 DEF Ready
<1>3. \A p \in Procs : poller'[p].pc = "remove" =>
        poller[p].pc = "remove" /\ poller'[p].msg = poller[p].msg
  BY DEF NoNewTask
<1>. QED
  BY <1>1, <1>2, <1>3 DEF Flow

LEMMA Untouched ==
  /\ UNCHANGED consumer => \A p \in Procs : Held(p)' = Held(p)
  /\ UNCHANGED pipe => \A p \in Procs : Cmds(p)' = Cmds(p)
  /\ UNCHANGED poller => \A p \in Procs : NoNewTask(p)
BY DEF Held, Cmds, NoNewTask

-----------------------------------------------------------------------------
(* Enqueueing                                                              *)

LEMMA CommandIs ==
  ASSUME NEW j \in Jobs
  PROVE  \/ Command(j) = Push(j) /\ Eta[j] = 0
         \/ Command(j) = Add(j)
BY DEF Command, Push, Add

(* A command executed puts its message into Redis.                         *)
LEMMA Executed ==
  ASSUME TypeOK, NEW c \in Commands, Execute(c)
  PROVE  \/ /\ c = Push(c.job) /\ ToSet(list') = {c.job} \cup ToSet(list) /\ scheduled' = scheduled
         \/ c = Add(c.job) /\ ToSet(list') = ToSet(list) /\ scheduled' = scheduled \cup {c.job}
<1>1. c.job \in Jobs /\ (c = Push(c.job) \/ c = Add(c.job))
  BY DEF Commands, Push, Add
<1>2. ToSet(<<c.job>> \o list) = {c.job} \cup ToSet(list)
  BY <1>1, ToSetPush DEF TypeOK
<1>3. CASE c = Push(c.job)
  <2>1. c.op = "LPUSH"
    BY <1>3 DEF Push
  <2>. QED
    BY <1>2, <1>3, <2>1 DEF Execute
<1>4. CASE c = Add(c.job)
  <2>1. c.op # "LPUSH"
    BY <1>4 DEF Add
  <2>. QED
    BY <1>4, <2>1 DEF Execute
<1>. QED
  BY <1>1, <1>3, <1>4

LEMMA Buffered ==
  ASSUME TInv, NEW p \in Procs, NEW c \in Commands, Buffer(p, c)
  PROVE  /\ Cmds(p)' = Cmds(p) \cup {c}
         /\ \A q \in Procs : q # p => Cmds(q)' = Cmds(q)
<1>1. pipe[p].cmds \in Seq(Commands) /\ pipe'[p].cmds = Append(pipe[p].cmds, c)
  BY DEF TInv, TypeOK, Buffer
<1>2. \A q \in Procs : q # p => pipe'[q] = pipe[q]
  BY DEF TInv, TypeOK, Buffer
<1>. QED
  BY <1>1, <1>2, ToSetAppend DEF Cmds

LEMMA EnqueuePipedFlow ==
  ASSUME IInv, NEW p \in Procs, NEW j \in Jobs, EnqueuePiped(p, j)
  PROVE  Flow
<1>1. /\ UNCHANGED <<now, list, scheduled, consumer, poller, given, lost>>
      /\ answer' = [answer EXCEPT ![j] = "ok"]
  BY DEF EnqueuePiped, redis
<1>2. /\ Cmds(p)' = Cmds(p) \cup {Command(j)}
      /\ \A q \in Procs : q # p => Cmds(q)' = Cmds(q)
  BY CommandType, Buffered DEF IInv, EnqueuePiped
<1>3. \A q \in Procs : Held(q)' = Held(q)
  BY <1>1, Untouched
<1>0. now \in Nat
  BY RedisAssumption DEF IInv, TInv, TypeOK
<1>4. \A k \in Jobs : OnTheWay(k) => OnTheWay(k)'
  BY <1>1, <1>2, <1>3 DEF OnTheWay
<1>5. \A k \in Jobs : Kept(k) => Kept(k)'
  BY <1>1, <1>2, <1>4 DEF Kept
<1>6. \A k \in Jobs : answer'[k] = "ok" => answer[k] = "ok" \/ k = j
  BY <1>1 DEF IInv, TInv, TypeOK
<1>7. Kept(j)'
  BY <1>2, CommandIs DEF Kept, OnTheWay
<1>8. \A k \in Jobs : Ready(k)' => Ready(k) \/ Eta[k] <= now
  <2>1. ASSUME NEW k \in Jobs, Push(k) = Command(j) PROVE Eta[k] <= now
    BY <1>0, <2>1 DEF Push, Command
  <2>. QED
    BY <1>1, <1>2, <1>3, <2>1 DEF Ready
<1>. QED
  BY <1>0, <1>1, <1>4, <1>5, <1>6, <1>7, <1>8 DEF Flow

LEMMA EnqueueNowFlow ==
  ASSUME IInv, NEW p \in Procs, NEW j \in Jobs, NEW r \in Replies, EnqueueNow(p, j, r)
  PROVE  Flow
<1>1. /\ UNCHANGED <<now, pipe, consumer, poller, given, lost>>
      /\ answer' = [answer EXCEPT ![j] = IF r = "ok" THEN "ok" ELSE "error"]
  BY DEF EnqueueNow
<1>2. (\A q \in Procs : Held(q)' = Held(q) /\ Cmds(q)' = Cmds(q)) /\ now \in Nat
  BY <1>1, Untouched, RedisAssumption DEF IInv, TInv, TypeOK
<1>3. \/ r = "failed" /\ UNCHANGED <<list, scheduled>>
      \/ Eta[j] = 0 /\ ToSet(list') = {j} \cup ToSet(list) /\ scheduled' = scheduled
      \/ ToSet(list') = ToSet(list) /\ scheduled' = scheduled \cup {j}
  <2>1. CASE r = "failed"
    BY <2>1 DEF EnqueueNow, Done, redis
  <2>2. CASE r # "failed"
    <3>1. Command(j).job = j /\ Command(j) \in Commands /\ Execute(Command(j))
      BY <2>2, CommandType DEF EnqueueNow, Done, Command
    <3>2. Command(j) = Push(j) => Eta[j] = 0
      BY DEF Command, Push
    <3>. QED
      BY <3>1, <3>2, Executed DEF IInv, TInv
  <2>. QED
    BY <2>1, <2>2
<1>4. \A k \in Jobs : (OnTheWay(k) => OnTheWay(k)') /\ (Kept(k) => Kept(k)')
  BY <1>1, <1>2, <1>3 DEF Kept, OnTheWay
<1>5. \A k \in Jobs : answer'[k] = "ok" => answer[k] = "ok" \/ (k = j /\ r = "ok")
  BY <1>1 DEF IInv, TInv, TypeOK
<1>6. r = "ok" => Kept(j)'
  BY <1>3 DEF Kept, OnTheWay
<1>7. \A k \in Jobs : Ready(k)' => Ready(k) \/ Eta[k] <= now
  BY <1>1, <1>2, <1>3 DEF Ready
<1>. QED
  BY <1>1, <1>2, <1>4, <1>5, <1>6, <1>7 DEF Flow

-----------------------------------------------------------------------------
(* The pipe                                                                *)

LEMMA SendFlow == ASSUME IInv, TInv', NEW p \in Procs, Send(p) PROVE Flow
<1>1. PICK s \in Seq(Commands) : s = pipe[p].cmds /\ s # <<>>
  BY DEF Send, IInv, TInv, TypeOK
<1>2. PICK c \in Commands : c = Head(s) /\ ToSet(s) = {c} \cup ToSet(Tail(s))
  BY <1>1, ToSetTail
<1>3. /\ UNCHANGED <<now, consumer, poller, answer, given, lost>> /\ Execute(c)
      /\ pipe'[p].cmds = Tail(s) /\ \A q \in Procs : q # p => pipe'[q] = pipe[q]
  BY <1>1, <1>2 DEF Send, IInv, TInv, TypeOK
<1>4. Cmds(p) = {c} \cup Cmds(p)' /\ \A q \in Procs : q # p => Cmds(q)' = Cmds(q)
  BY <1>1, <1>2, <1>3 DEF Cmds
<1>5. \/ c = Push(c.job) /\ ToSet(list') = {c.job} \cup ToSet(list) /\ scheduled' = scheduled
      \/ c = Add(c.job) /\ ToSet(list') = ToSet(list) /\ scheduled' = scheduled \cup {c.job}
  BY <1>3, Executed DEF IInv, TInv
<1>6. \A q \in Procs : Held(q)' = Held(q) /\ NoNewTask(q)
  BY <1>3, Untouched
<1>7. \A j \in Jobs : Push(j) # Add(j) /\ (Push(j) = c => j = c.job) /\ (Add(j) = c => j = c.job)
  BY DEF Push, Add
<1>8. ASSUME NEW j \in Jobs, OnTheWay(j) PROVE OnTheWay(j)'
  <2>1. ASSUME NEW q \in Procs, Push(j) \in Cmds(q)
        PROVE  j \in ToSet(list') \/ Push(j) \in Cmds(q)'
    <3>1. CASE Push(j) = c
      BY <1>5, <1>7, <3>1 DEF Push, Add
    <3>2. CASE Push(j) # c
      BY <1>4, <2>1, <3>2
    <3>. QED
      BY <3>1, <3>2
  <2>. QED
    BY <1>3, <1>5, <1>6, <1>8, <2>1 DEF OnTheWay
<1>9. ASSUME NEW j \in Jobs, Kept(j) PROVE Kept(j)'
  <2>1. ASSUME NEW q \in Procs, Add(j) \in Cmds(q)
        PROVE  j \in scheduled' \/ Add(j) \in Cmds(q)'
    <3>1. CASE Add(j) = c
      BY <1>5, <1>7, <3>1 DEF Push, Add
    <3>2. CASE Add(j) # c
      BY <1>4, <2>1, <3>2
    <3>. QED
      BY <3>1, <3>2
  <2>. QED
    BY <1>5, <1>8, <1>9, <2>1 DEF Kept
<1>10. ASSUME NEW j \in Jobs, j \in ToSet(list') PROVE Ready(j)
  BY <1>4, <1>5, <1>10 DEF Ready
<1>11. \A j \in Jobs :
         given'[j] > 0 \/ (\E q \in Procs : j \in Held(q)' \/ Push(j) \in Cmds(q)') => Ready(j)
  BY <1>3, <1>4, <1>6 DEF Ready
<1>. QED
  BY <1>3, <1>6, <1>8, <1>9, <1>10, <1>11, FlowOf

(* What a process loses from its memory is noted.                          *)
LEMMA InPipeIs ==
  ASSUME TInv, NEW p \in Procs, NEW j \in Jobs
  PROVE  Push(j) \in Cmds(p) \/ Add(j) \in Cmds(p) => j \in InPipe(p)
<1>1. Push(j).job = j /\ Add(j).job = j
  BY DEF Push, Add
<1>. QED
  BY <1>1 DEF InPipe, Cmds

LEMMA NoPipeEmpty ==
  ASSUME TInv, NEW p \in Procs, pipe' = [pipe EXCEPT ![p] = NoPipe]
  PROVE  Cmds(p)' = {} /\ \A q \in Procs : q # p => Cmds(q)' = Cmds(q)
<1>1. pipe'[p].cmds = <<>> /\ \A q \in Procs : q # p => pipe'[q] = pipe[q]
  BY DEF TInv, TypeOK, NoPipe
<1>. QED
  BY <1>1, ToSetEmpty DEF Cmds

LEMMA ExecFailsFlow == ASSUME IInv, TInv', NEW p \in Procs, ExecFails(p) PROVE Flow
<1>1. /\ UNCHANGED <<now, list, scheduled, consumer, poller, answer, given>>
      /\ lost' = lost \cup InPipe(p) /\ pipe' = [pipe EXCEPT ![p] = NoPipe]
  BY DEF ExecFails, redis
<1>2. Cmds(p)' = {} /\ \A q \in Procs : q # p => Cmds(q)' = Cmds(q)
  BY <1>1, NoPipeEmpty DEF IInv
<1>3. \A q \in Procs : Held(q)' = Held(q) /\ NoNewTask(q)
  BY <1>1, Untouched
<1>4. \A j \in Jobs : Push(j) \in Cmds(p) \/ Add(j) \in Cmds(p) => j \in lost'
  BY <1>1, InPipeIs DEF IInv
<1>5. \A j \in Jobs : OnTheWay(j) => OnTheWay(j)'
  BY <1>1, <1>2, <1>3, <1>4 DEF OnTheWay
<1>6. \A j \in Jobs : Kept(j) => Kept(j)'
  <2>1. ASSUME NEW j \in Jobs, NEW q \in Procs, Add(j) \in Cmds(q)
        PROVE  j \in lost' \/ Add(j) \in Cmds(q)'
    BY <1>2, <1>4, <2>1
  <2>. QED
    BY <1>1, <1>5, <2>1 DEF Kept, OnTheWay
<1>7. \A j \in Jobs :
        j \in ToSet(list') \/ given'[j] > 0 \/ (\E q \in Procs : j \in Held(q)' \/ Push(j) \in Cmds(q)')
          => Ready(j)
  BY <1>1, <1>2, <1>3 DEF Ready
<1>. QED
  BY <1>1, <1>3, <1>5, <1>6, <1>7, FlowOf

-----------------------------------------------------------------------------
(* Steps that move no message                                              *)

LEMMA StillFlow ==
  ASSUME IInv, TInv', UNCHANGED <<now, list, scheduled, answer, given, lost>>,
         \A q \in Procs : NoNewTask(q) /\ Held(q)' = Held(q) /\ Cmds(q)' = Cmds(q)
  PROVE  Flow
<1>1. \A j \in Jobs : OnTheWay(j) => OnTheWay(j)'
  BY DEF OnTheWay
<1>2. \A j \in Jobs : Kept(j) => Kept(j)'
  BY <1>1 DEF Kept
<1>3. \A j \in Jobs :
        j \in ToSet(list') \/ given'[j] > 0 \/ (\E q \in Procs : j \in Held(q)' \/ Push(j) \in Cmds(q)')
          => Ready(j)
  BY DEF Ready
<1>. QED
  BY <1>1, <1>2, <1>3, FlowOf

LEMMA QuietFlow ==
  ASSUME IInv, TInv', NEW p \in Procs,
         Exec(p) \/ Start(p) \/ Stop(p) \/ PollerStop(p) \/ Cancel(p)
  PROVE  Flow
<1> USE DEF IInv, TInv, TypeOK
<1>1. CASE Exec(p)
  <2>1. \A q \in Procs : pipe'[q].cmds = pipe[q].cmds
    BY <1>1 DEF Exec
  <2>2. \A q \in Procs : Cmds(q)' = Cmds(q)
    BY <2>1 DEF Cmds
  <2>3. UNCHANGED <<now, list, scheduled, consumer, poller, answer, given, lost>>
    BY <1>1 DEF Exec, redis
  <2>. QED
    BY <2>2, <2>3, Untouched, StillFlow
<1>2. CASE Start(p)
  <2>1. UNCHANGED <<now, list, scheduled, pipe, answer, given, lost>>
    BY <1>2 DEF Start, redis
  <2>2. \A q \in Procs : Held(q)' = Held(q) /\ NoNewTask(q)
    BY <1>2 DEF Start, At, Held, NoNewTask
  <2>. QED
    BY <2>1, <2>2, Untouched, StillFlow
<1>3. CASE Stop(p)
  <2>1. UNCHANGED <<now, list, scheduled, pipe, poller, answer, given, lost>>
    BY <1>3 DEF Stop, redis
  <2>2. \A q \in Procs : Held(q)' = Held(q)
    BY <1>3 DEF Stop, At, Held
  <2>. QED
    BY <2>1, <2>2, Untouched, StillFlow
<1>4. CASE PollerStop(p)
  <2>1. UNCHANGED <<now, list, scheduled, pipe, consumer, answer, given, lost>>
    BY <1>4 DEF PollerStop, redis
  <2>2. \A q \in Procs : NoNewTask(q)
    BY <1>4 DEF PollerStop, At, NoNewTask
  <2>. QED
    BY <2>1, <2>2, Untouched, StillFlow
<1>5. CASE Cancel(p)
  <2>1. UNCHANGED <<now, list, scheduled, pipe, consumer, poller, answer, given, lost>>
    BY <1>5 DEF Cancel, redis
  <2>. QED
    BY <2>1, Untouched, StillFlow
<1>. QED
  BY <1>1, <1>2, <1>3, <1>4, <1>5

-----------------------------------------------------------------------------
(* Consuming                                                               *)

LEMMA TickFlow == ASSUME IInv, Tick PROVE Flow
<1>1. /\ UNCHANGED <<list, scheduled, pipe, consumer, poller, answer, given, lost>>
      /\ now \in Nat /\ now' = now + 1
  BY RedisAssumption DEF Tick, redis, IInv, TInv, TypeOK
<1>2. \A q \in Procs : Held(q)' = Held(q) /\ Cmds(q)' = Cmds(q)
  BY <1>1, Untouched
<1>3. \A j \in Jobs : (OnTheWay(j) => OnTheWay(j)') /\ (Kept(j) => Kept(j)') /\ (Ready(j)' => Ready(j))
  BY <1>1, <1>2 DEF OnTheWay, Kept, Ready
<1>. QED
  BY <1>1, <1>3 DEF Flow

LEMMA HandFlow == ASSUME IInv, TInv', NEW p \in Procs, Hand(p) PROVE Flow
<1>1. /\ UNCHANGED <<now, list, scheduled, pipe, poller, answer, lost>>
      /\ consumer[p].pc = "hand" /\ consumer' = [consumer EXCEPT ![p] = Loop(p)]
  BY DEF Hand, redis
<1>2. PICK m \in Jobs : m = consumer[p].msg
  BY <1>1 DEF IInv, TInv
<1>3. given' = [given EXCEPT ![m] = given[m] + 1] /\ \A j \in Jobs : given[j] \in Nat
  BY <1>2 DEF Hand, IInv, TInv, TypeOK
<1>4. Held(p) = {m} /\ Held(p)' = {} /\ \A q \in Procs : q # p => Held(q)' = Held(q)
  BY <1>1, <1>2 DEF Held, Loop, At, IInv, TInv, TypeOK
<1>5. given'[m] > 0 /\ \A j \in Jobs : j # m => given'[j] = given[j]
  BY <1>3 DEF IInv, TInv, TypeOK
<1>6. \A q \in Procs : Cmds(q)' = Cmds(q) /\ NoNewTask(q)
  BY <1>1, Untouched
<1>7. \A j \in Jobs : OnTheWay(j) => OnTheWay(j)'
  <2>1. ASSUME NEW j \in Jobs, NEW q \in Procs, j \in Held(q)
        PROVE  given'[j] > 0 \/ j \in Held(q)'
    BY <1>4, <1>5, <2>1
  <2>2. \A j \in Jobs : given[j] > 0 => given'[j] > 0
    BY <1>5
  <2>. QED
    BY <1>1, <1>6, <2>1, <2>2 DEF OnTheWay
<1>8. \A j \in Jobs : Kept(j) => Kept(j)'
  BY <1>1, <1>6, <1>7 DEF Kept
<1>9. \A j \in Jobs :
        j \in ToSet(list') \/ given'[j] > 0 \/ (\E q \in Procs : j \in Held(q)' \/ Push(j) \in Cmds(q)')
          => Ready(j)
  BY <1>1, <1>4, <1>5, <1>6 DEF Ready
<1>. QED
  BY <1>1, <1>6, <1>7, <1>8, <1>9, FlowOf

LEMMA PopFlow == ASSUME IInv, TInv', NEW p \in Procs, NEW r \in Replies, Pop(p, r) PROVE Flow
<1>1. /\ UNCHANGED <<now, scheduled, pipe, poller, answer, given>>
      /\ list \in Seq(Jobs) /\ list # <<>> /\ list' = Tail(list) /\ consumer[p].pc = "loop"
  BY DEF Pop, IInv, TInv, TypeOK
<1>2. PICK m \in Jobs : m = Head(list) /\ ToSet(list) = {m} \cup ToSet(list')
  BY <1>1, ToSetTail
<1>3. Held(p) = {} /\ \A q \in Procs : q # p => Held(q)' = Held(q)
  BY <1>1 DEF Held, Pop, IInv, TInv, TypeOK
<1>4. \/ Held(p)' = {m} /\ lost' = lost
      \/ Held(p)' = {} /\ lost' = lost \cup {m}
  <2>1. CASE r = "ok"
    BY <1>2, <2>1 DEF Held, Pop, IInv, TInv, TypeOK
  <2>2. CASE r # "ok"
    BY <1>2, <2>2 DEF Held, Pop, Loop, At, IInv, TInv, TypeOK
  <2>. QED
    BY <2>1, <2>2
<1>5. \A q \in Procs : Cmds(q)' = Cmds(q) /\ NoNewTask(q)
  BY <1>1, Untouched
<1>6. \A j \in Jobs : OnTheWay(j) => OnTheWay(j)'
  <2>1. \A j \in Jobs : j \in ToSet(list) =>
          j \in ToSet(list') \/ j \in lost' \/ j \in Held(p)'
    BY <1>2, <1>4
  <2>. QED
    BY <1>1, <1>3, <1>4, <1>5, <2>1 DEF OnTheWay
<1>7. \A j \in Jobs : Kept(j) => Kept(j)'
  BY <1>1, <1>5, <1>6 DEF Kept
<1>8. \A j \in Jobs :
        j \in ToSet(list') \/ given'[j] > 0 \/ (\E q \in Procs : j \in Held(q)' \/ Push(j) \in Cmds(q)')
          => Ready(j)
  BY <1>1, <1>2, <1>3, <1>4, <1>5 DEF Ready
<1>. QED
  BY <1>1, <1>5, <1>6, <1>7, <1>8, FlowOf

LEMMA EndedFlow == ASSUME IInv, TInv', NEW p \in Procs, Ended(p) PROVE Flow
<1>1. /\ UNCHANGED <<now, list, scheduled, answer, given>>
      /\ lost' = lost \cup InPipe(p) \cup Held(p) /\ pipe' = [pipe EXCEPT ![p] = NoPipe]
  BY DEF Ended, redis
<1>2. Cmds(p)' = {} /\ \A q \in Procs : q # p => Cmds(q)' = Cmds(q)
  BY <1>1, NoPipeEmpty DEF IInv
<1>3. Held(p)' = {} /\ \A q \in Procs : q # p => Held(q)' = Held(q)
  BY DEF Ended, At, Held, IInv, TInv, TypeOK
<1>4. \A q \in Procs : NoNewTask(q)
  BY DEF Ended, At, NoNewTask, IInv, TInv, TypeOK
<1>5. \A j \in Jobs : Push(j) \in Cmds(p) \/ Add(j) \in Cmds(p) \/ j \in Held(p) => j \in lost'
  BY <1>1, InPipeIs DEF IInv
<1>6. \A j \in Jobs : OnTheWay(j) => OnTheWay(j)'
  BY <1>1, <1>2, <1>3, <1>5 DEF OnTheWay
<1>7. \A j \in Jobs : Kept(j) => Kept(j)'
  <2>1. ASSUME NEW j \in Jobs, NEW q \in Procs, Add(j) \in Cmds(q)
        PROVE  j \in lost' \/ Add(j) \in Cmds(q)'
    BY <1>2, <1>5, <2>1
  <2>. QED
    BY <1>1, <1>6, <2>1 DEF Kept, OnTheWay
<1>8. \A j \in Jobs :
        j \in ToSet(list') \/ given'[j] > 0 \/ (\E q \in Procs : j \in Held(q)' \/ Push(j) \in Cmds(q)')
          => Ready(j)
  BY <1>1, <1>2, <1>3 DEF Ready
<1>. QED
  BY <1>1, <1>4, <1>6, <1>7, <1>8, FlowOf

-----------------------------------------------------------------------------
(* Scheduled messages                                                      *)

LEMMA FetchFlow == ASSUME IInv, NEW p \in Procs, Fetch(p) PROVE Flow
<1>1. PICK m \in Due : poller' = [poller EXCEPT ![p] = [pc |-> "push", msg |-> m]]
  BY DEF Fetch
<1>2. /\ UNCHANGED <<now, list, scheduled, pipe, consumer, answer, given, lost>>
      /\ m \in Jobs /\ Eta[m] <= now /\ now \in Nat
  BY RedisAssumption DEF Fetch, redis, Due, IInv, TInv, TypeOK
<1>3. \A q \in Procs : Held(q)' = Held(q) /\ Cmds(q)' = Cmds(q)
  BY <1>2, Untouched
<1>4. /\ poller'[p].pc = "push" /\ poller'[p].msg = m
      /\ \A q \in Procs : q # p => poller'[q] = poller[q]
  BY <1>1 DEF IInv, TInv, TypeOK
<1>5. \A j \in Jobs : (OnTheWay(j) => OnTheWay(j)') /\ (Kept(j) => Kept(j)')
  BY <1>2, <1>3 DEF OnTheWay, Kept
<1>6. \A j \in Jobs : Ready(j)' => Ready(j) \/ Eta[j] <= now
  BY <1>2, <1>3, <1>4 DEF Ready
<1>. QED
  BY <1>2, <1>4, <1>5, <1>6 DEF Flow

LEMMA PushPipedFlow == ASSUME IInv, NEW p \in Procs, PushPiped(p) PROVE Flow
<1>1. PICK m \in Jobs : m = poller[p].msg /\ poller[p].pc = "push"
  BY DEF PushPiped, IInv, TInv
<1>2. /\ UNCHANGED <<now, list, scheduled, consumer, answer, given, lost>>
      /\ poller' = [poller EXCEPT ![p].pc = "remove"] /\ now \in Nat
  BY RedisAssumption DEF PushPiped, Then, redis, IInv, TInv, TypeOK
<1>3. /\ Cmds(p)' = Cmds(p) \cup {Push(m)}
      /\ \A q \in Procs : q # p => Cmds(q)' = Cmds(q)
  BY <1>1, CommandType, Buffered DEF IInv, PushPiped, Push
<1>4. \A q \in Procs : Held(q)' = Held(q)
  BY <1>2, Untouched
<1>5. /\ poller'[p].pc = "remove" /\ poller'[p].msg = m
      /\ \A q \in Procs : q # p => poller'[q] = poller[q]
  BY <1>1, <1>2 DEF IInv, TInv, TypeOK
<1>6. \A j \in Jobs : (OnTheWay(j) => OnTheWay(j)') /\ (Kept(j) => Kept(j)')
  BY <1>2, <1>3, <1>4 DEF OnTheWay, Kept
<1>7. OnTheWay(m)'
  BY <1>3 DEF OnTheWay
<1>8. \A j \in Jobs : Ready(j)' => Ready(j)
  <2>1. \A j \in Jobs : Push(j) = Push(m) => j = m
    BY DEF Push
  <2>2. Ready(m)
    BY <1>1 DEF Ready
  <2>. QED
    BY <1>2, <1>3, <1>4, <1>5, <2>1, <2>2 DEF Ready
<1>. QED
  BY <1>2, <1>5, <1>6, <1>7, <1>8 DEF Flow

LEMMA PushNowFlow == ASSUME IInv, NEW p \in Procs, NEW r \in Replies, PushNow(p, r) PROVE Flow
<1>1. PICK m \in Jobs : m = poller[p].msg /\ poller[p].pc = "push"
  BY DEF PushNow, IInv, TInv
<1>2. UNCHANGED <<now, scheduled, pipe, consumer, answer, given, lost>> /\ now \in Nat
  BY RedisAssumption DEF PushNow, IInv, TInv, TypeOK
<1>3. \A q \in Procs : Held(q)' = Held(q) /\ Cmds(q)' = Cmds(q)
  BY <1>2, Untouched
<1>4. \/ ToSet(list') = {m} \cup ToSet(list)
      \/ ToSet(list') = ToSet(list) /\ r = "failed"
  <2>1. ToSet(<<m>> \o list) = {m} \cup ToSet(list)
    BY ToSetPush DEF IInv, TInv, TypeOK
  <2>. QED
    BY <1>1, <2>1 DEF PushNow, Done
<1>5. /\ \A q \in Procs : q # p => poller'[q] = poller[q]
      /\ poller'[p].pc = "remove" => poller'[p].msg = m /\ r = "ok"
      /\ poller'[p].pc # "push"
  <2>1. CASE r = "ok"
    BY <1>1, <2>1 DEF PushNow, Then, IInv, TInv, TypeOK
  <2>2. CASE r # "ok"
    BY <1>1, <2>2 DEF PushNow, Then, At, IInv, TInv, TypeOK
  <2>. QED
    BY <2>1, <2>2
<1>6. \A j \in Jobs : (OnTheWay(j) => OnTheWay(j)') /\ (Kept(j) => Kept(j)')
  BY <1>2, <1>3, <1>4 DEF OnTheWay, Kept
<1>7. r = "ok" => OnTheWay(m)'
  BY <1>4 DEF OnTheWay
<1>8. \A j \in Jobs : Ready(j)' => Ready(j)
  <2>1. Ready(m)
    BY <1>1 DEF Ready
  <2>. QED
    BY <1>2, <1>3, <1>4, <1>5, <2>1 DEF Ready
<1>. QED
  BY <1>2, <1>5, <1>6, <1>7, <1>8 DEF Flow

LEMMA ZRemFlow == ASSUME IInv, TInv', NEW p \in Procs, NEW r \in Replies, ZRem(p, r) PROVE Flow
<1>1. PICK m \in Jobs : m = poller[p].msg /\ poller[p].pc = "remove"
  BY DEF ZRem, IInv, TInv
<1>2. /\ UNCHANGED <<now, list, pipe, consumer, answer, given, lost>>
      /\ scheduled' = scheduled \/ scheduled' = scheduled \ {m}
  BY <1>1 DEF ZRem
<1>3. \A q \in Procs : Held(q)' = Held(q) /\ Cmds(q)' = Cmds(q)
  BY <1>2, Untouched
<1>4. \A q \in Procs : NoNewTask(q)
  BY DEF ZRem, Then, At, NoNewTask, IInv, TInv, TypeOK
<1>5. OnTheWay(m)
  BY <1>1 DEF IInv, PushedFirst
<1>6. \A j \in Jobs : OnTheWay(j) => OnTheWay(j)'
  BY <1>2, <1>3 DEF OnTheWay
<1>7. \A j \in Jobs : Kept(j) => Kept(j)'
  BY <1>2, <1>3, <1>5, <1>6 DEF Kept
<1>8. \A j \in Jobs :
        j \in ToSet(list') \/ given'[j] > 0 \/ (\E q \in Procs : j \in Held(q)' \/ Push(j) \in Cmds(q)')
          => Ready(j)
  BY <1>2, <1>3 DEF Ready
<1>. QED
  BY <1>2, <1>4, <1>6, <1>7, <1>8, FlowOf

-----------------------------------------------------------------------------
(* The theorems                                                            *)

(***************************************************************************)
(* The inductive invariant: a poller removes a message from the sorted set *)
(* only after it pushed it; every accepted message is in Redis, in a       *)
(* memory, or accounted for; whatever is taken for due is due (Enqueue,    *)
(* execPipe, Consume, consumeScheduled).                                   *)
(***************************************************************************)
THEOREM Inductive == Spec => []IInv
<1>1. Init => IInv
  <2> SUFFICES ASSUME Init PROVE IInv
    OBVIOUS
  <2>1. \A p \in Procs : Held(p) = {} /\ Cmds(p) = {}
    BY ToSetEmpty DEF Init, At, NoPipe, Held, Cmds
  <2>2. \A j \in Jobs : ~Ready(j) /\ answer[j] # "ok"
    BY <2>1, ToSetEmpty DEF Init, Ready, At
  <2>. QED
    BY <2>2, InitTypes DEF Init, IInv, PushedFirst, At
<1>2. IInv /\ [Next]_vars => IInv'
  <2> SUFFICES ASSUME IInv, [Next]_vars PROVE IInv'
    OBVIOUS
  <2>1. TInv'
    BY TypesStep DEF IInv
  <2>2. Flow
    <3>1. CASE UNCHANGED vars
      BY <2>1, <3>1, Untouched, StillFlow DEF vars
    <3>2. ASSUME NEW p \in Procs, Exit(p) \/ Crash(p) PROVE Flow
      BY <2>1, <3>2, EndedFlow DEF Exit, Crash
    <3>3. ASSUME NEW p \in Procs, ExecPipe(p) \/ ExecFails(p) \/ Start(p) \/ Cancel(p) PROVE Flow
      BY <2>1, <3>3, QuietFlow, SendFlow, ExecFailsFlow DEF ExecPipe
    <3>4. ASSUME NEW p \in Procs, Consume(p) PROVE Flow
      BY <2>1, <3>4, QuietFlow, HandFlow, PopFlow DEF Consume
    <3>5. ASSUME NEW p \in Procs, ConsumeScheduled(p) PROVE Flow
      BY <2>1, <3>5, QuietFlow, FetchFlow, PushPipedFlow, PushNowFlow, ZRemFlow DEF ConsumeScheduled
    <3>6. ASSUME NEW p \in Procs, NEW j \in Jobs, Enqueue(p, j) PROVE Flow
      BY <3>6, EnqueuePipedFlow, EnqueueNowFlow DEF Enqueue
    <3>. QED
      BY <3>1, <3>2, <3>3, <3>4, <3>5, <3>6, TickFlow DEF Next
  <2>. QED
    BY <2>1, <2>2, FlowKeeps
<1>. QED
  BY <1>1, <1>2, PTL DEF Spec

(***************************************************************************)
(* Only what a process has in memory is ever lost: an accepted message is  *)
(* in Redis, in a pipe, in a consumer's hand, or a worker had it, whoever  *)
(* fails or dies and however many servers poll (consumeScheduled).         *)
(***************************************************************************)
THEOREM Remembered == Spec => []NotForgotten
<1>1. IInv => NotForgotten
  <2> SUFFICES ASSUME IInv, NEW j \in Jobs, answer[j] = "ok"
               PROVE  \/ j \in scheduled \cup ToSet(list) \cup lost \/ given[j] > 0
                      \/ \E p \in Procs : j \in InPipe(p) \cup Held(p)
    BY DEF NotForgotten
  <2>1. Kept(j)
    BY DEF IInv
  <2>. QED
    BY <2>1, InPipeIs DEF IInv, Kept, OnTheWay
<1>. QED
  BY <1>1, Inductive, PTL

(***************************************************************************)
(* No worker sees a message before its ETA, whichever process moved it and *)
(* by whichever way it got there (EnqueueScheduled, consumeScheduled).     *)
(***************************************************************************)
THEOREM Punctual == Spec => []NotEarly
<1>1. IInv => NotEarly
  BY DEF IInv, Ready, NotEarly
<1>. QED
  BY <1>1, Inductive, PTL

-----------------------------------------------------------------------------
(* Counting the copies of a message                                        *)

LEMMA PlacesFinite ==
  ASSUME NEW S, NEW s \in Seq(S), NEW x
  PROVE  IsFiniteSet(Places(s, x)) /\ Cardinality(Places(s, x)) \in Nat
<1>1. Places(s, x) \in SUBSET (1 .. Len(s)) /\ IsFiniteSet(1 .. Len(s))
  BY FS_Interval DEF Places
<1>. QED
  BY <1>1, FS_Subset, FS_CardinalityType

LEMMA PlacesTail ==
  ASSUME NEW S, NEW s \in Seq(S), s # <<>>, NEW x
  PROVE  Cardinality(Places(s, x)) = Cardinality(Places(Tail(s), x)) + (IF Head(s) = x THEN 1 ELSE 0)
<1> DEFINE A == Places(Tail(s), x)
           B == Places(s, x) \ {1}
           F == [i \in A |-> i + 1]
<1>1. /\ Tail(s) \in Seq(S) /\ Len(s) \in Nat \ {0} /\ Len(Tail(s)) = Len(s) - 1
      /\ s[1] = Head(s) /\ \A i \in 1 .. (Len(s) - 1) : Tail(s)[i] = s[i + 1]
  BY HeadTailProperties, EmptySeq
<1>2. F \in Bijection(A, B)
  <2>1. A = {i \in 1 .. (Len(s) - 1) : s[i + 1] = x} /\ B = {i \in 2 .. Len(s) : s[i] = x}
    BY <1>1 DEF Places
  <2>2. F \in [A -> B] /\ \A a, b \in A : F[a] = F[b] => a = b
    BY <1>1, <2>1
  <2>3. ASSUME NEW i \in B PROVE i - 1 \in A /\ F[i - 1] = i
    BY <1>1, <2>1
  <2> HIDE DEF A, B, F
  <2>. QED
    BY <2>2, <2>3, Fun_IsBij
<1>3. IsFiniteSet(A) /\ Cardinality(A) \in Nat /\ IsFiniteSet(Places(s, x))
  BY <1>1, PlacesFinite
<1>4. Cardinality(B) = Cardinality(A)
  <2> HIDE DEF A, B, F
  <2>. QED
    BY <1>2, <1>3, FS_Bijection DEF ExistsBijection
<1>5. Cardinality(B) = IF 1 \in Places(s, x) THEN Cardinality(Places(s, x)) - 1 ELSE Cardinality(Places(s, x))
  BY <1>3, FS_RemoveElement
<1>7. 1 \in Places(s, x) <=> Head(s) = x
  BY <1>1 DEF Places
<1>6. Cardinality(Places(s, x)) \in Nat
  BY PlacesFinite
<1>. QED
  BY <1>3, <1>4, <1>5, <1>6, <1>7

LEMMA PlacesPush ==
  ASSUME NEW S, NEW s \in Seq(S), NEW y \in S, NEW x
  PROVE  Cardinality(Places(<<y>> \o s, x)) = Cardinality(Places(s, x)) + (IF y = x THEN 1 ELSE 0)
<1>1. PICK t : t = <<y>> \o s
  OBVIOUS
<1>2. t \in Seq(S) /\ t # <<>> /\ Head(t) = y /\ Tail(t) = s
  BY <1>1
<1>. QED
  BY <1>1, <1>2, PlacesTail

(* Slots, of any contents of the pipes.                                    *)
SlotsOf(f, c) == UNION {{p} \X Places(f[p].cmds, c) : p \in Procs}

LEMMA SlotsHas ==
  ASSUME NEW f, NEW c, NEW x
  PROVE  x \in SlotsOf(f, c) <=> \E q \in Procs : \E i \in Places(f[q].cmds, c) : x = <<q, i>>
BY DEF SlotsOf

LEMMA SlotsFewer ==
  ASSUME NEW f, NEW g, NEW c, \A q \in Procs : g[q].cmds = f[q].cmds \/ g[q].cmds = <<>>
  PROVE  SlotsOf(g, c) \subseteq SlotsOf(f, c)
<1>1. Places(<<>>, c) = {}
  BY DEF Places
<1>2. ASSUME NEW x \in SlotsOf(g, c) PROVE x \in SlotsOf(f, c)
  <2>1. PICK q \in Procs : \E i \in Places(g[q].cmds, c) : x = <<q, i>>
    BY SlotsHas
  <2>2. g[q].cmds = f[q].cmds
    BY <1>1, <2>1
  <2>. QED
    BY <2>1, <2>2, SlotsHas
<1>. QED
  BY <1>2

LEMMA SlotsAppended ==
  ASSUME NEW f, NEW g, NEW p \in Procs, NEW s \in Seq(Commands), NEW c \in Commands,
         f[p].cmds = s, g[p].cmds = Append(s, c), \A q \in Procs \ {p} : g[q].cmds = f[q].cmds,
         NEW d, IsFiniteSet(SlotsOf(f, d))
  PROVE  /\ d # c => SlotsOf(g, d) = SlotsOf(f, d)
         /\ d = c => /\ IsFiniteSet(SlotsOf(g, d))
                     /\ Cardinality(SlotsOf(g, d)) = Cardinality(SlotsOf(f, d)) + 1
<1>1. PICK t, n : t = Append(s, c) /\ n = Len(s)
  OBVIOUS
<1>2. n \in Nat /\ DOMAIN s = 1 .. n /\ DOMAIN t = 1 .. n + 1 /\ t[n + 1] = c /\ \A i \in 1 .. n : t[i] = s[i]
  BY <1>1
<1>3. Places(t, d) = Places(s, d) \cup (IF d = c THEN {n + 1} ELSE {}) /\ n + 1 \notin Places(s, d)
  <2>1. \A i : i \in Places(t, d) <=> i \in Places(s, d) \/ (i = n + 1 /\ d = c)
    BY <1>2 DEF Places
  <2>2. n + 1 \notin Places(s, d)
    BY <1>2 DEF Places
  <2>. QED
    BY <2>1, <2>2
<1>4. ASSUME NEW x
      PROVE  x \in SlotsOf(g, d) <=> x \in SlotsOf(f, d) \/ (d = c /\ x = <<p, n + 1>>)
  <2>1. x \in SlotsOf(g, d) <=> \/ \E i \in Places(t, d) : x = <<p, i>>
                                \/ \E q \in Procs \ {p} : \E i \in Places(f[q].cmds, d) : x = <<q, i>>
    <3>1. \A q \in Procs \ {p} : Places(g[q].cmds, d) = Places(f[q].cmds, d)
      OBVIOUS
    <3>2. Places(g[p].cmds, d) = Places(t, d)
      BY <1>1
    <3>3. x \in SlotsOf(g, d) <=> \E q \in Procs : \E i \in Places(g[q].cmds, d) : x = <<q, i>>
      BY SlotsHas
    <3>. QED
      BY <3>1, <3>2, <3>3
  <2>2. x \in SlotsOf(f, d) <=> \/ \E i \in Places(s, d) : x = <<p, i>>
                                \/ \E q \in Procs \ {p} : \E i \in Places(f[q].cmds, d) : x = <<q, i>>
    BY SlotsHas
  <2>. QED
    BY <1>3, <2>1, <2>2
<1>5. <<p, n + 1>> \notin SlotsOf(f, d)
  BY <1>3, SlotsHas
<1>6. CASE d # c
  BY <1>4, <1>6
<1>7. CASE d = c
  <2>1. SlotsOf(g, d) = SlotsOf(f, d) \cup {<<p, n + 1>>}
    BY <1>4, <1>7
  <2>2. /\ IsFiniteSet(SlotsOf(f, d) \cup {<<p, n + 1>>})
        /\ Cardinality(SlotsOf(f, d) \cup {<<p, n + 1>>}) =
             IF <<p, n + 1>> \in SlotsOf(f, d) THEN Cardinality(SlotsOf(f, d)) ELSE Cardinality(SlotsOf(f, d)) + 1
    BY FS_AddElement
  <2>. QED
    BY <1>5, <1>7, <2>1, <2>2
<1>. QED
  BY <1>6, <1>7

(* g is f with the first command of one pipe, c, taken away.               *)
Taken(f, g, p, c) ==
  /\ f[p].cmds \in Seq(Commands) /\ f[p].cmds # <<>>
  /\ c = Head(f[p].cmds) /\ g[p].cmds = Tail(f[p].cmds)
  /\ \A q \in Procs \ {p} : g[q].cmds = f[q].cmds

LEMMA SlotsTaken ==
  ASSUME NEW f, NEW g, NEW p \in Procs, NEW h, Taken(f, g, p, h), NEW d, IsFiniteSet(SlotsOf(f, d))
  PROVE  /\ IsFiniteSet(SlotsOf(g, d))
         /\ Cardinality(SlotsOf(f, d)) = Cardinality(SlotsOf(g, d)) + (IF h = d THEN 1 ELSE 0)
<1>0. PICK s, t, n : s = f[p].cmds /\ t = g[p].cmds /\ n = Len(t)
  OBVIOUS
<1>1. f[p].cmds = s /\ g[p].cmds = t /\ \A q \in Procs \ {p} : g[q].cmds = f[q].cmds
  BY <1>0 DEF Taken
<1>2. /\ n \in Nat /\ DOMAIN s = 1 .. n + 1 /\ DOMAIN t = 1 .. n
      /\ s[1] = h /\ \A i \in 1 .. n : t[i] = s[i + 1]
  <2>1. s \in Seq(Commands) /\ s # <<>> /\ t = Tail(s) /\ h = Head(s)
    BY <1>0 DEF Taken
  <2>2. t \in Seq(Commands) /\ Len(s) \in Nat \ {0} /\ n = Len(s) - 1
        /\ s[1] = h /\ \A i \in 1 .. n : t[i] = s[i + 1]
    BY <1>0, <2>1, HeadTailProperties, EmptySeq
  <2>. QED
    BY <1>0, <2>1, <2>2
<1> DEFINE A == SlotsOf(g, d)
           B == SlotsOf(f, d) \ {<<p, 1>>}
           Next1(x) == IF x[1] = p THEN <<p, x[2] + 1>> ELSE x
           F == [x \in A |-> Next1(x)]
<1>3. \A i : i \in Places(t, d) <=> i \in 1 .. n /\ i + 1 \in Places(s, d)
  BY <1>2 DEF Places
<1>4. \A i \in Places(s, d) : i = 1 \/ i - 1 \in Places(t, d)
  BY <1>2 DEF Places
<1>5. Places(s, d) \subseteq Nat /\ Places(t, d) \subseteq Nat
  BY <1>2 DEF Places
<1>6. F \in [A -> B]
  <2>1. ASSUME NEW x \in A PROVE Next1(x) \in B
    <3>1. PICK q \in Procs : \E i \in Places(g[q].cmds, d) : x = <<q, i>>
      BY SlotsHas
    <3>2. PICK i \in Places(g[q].cmds, d) : x = <<q, i>>
      BY <3>1
    <3>3. CASE q = p
      <4>1. Next1(x) = <<p, i + 1>> /\ i + 1 \in Places(s, d) /\ i + 1 # 1
        <5>1. i \in Places(t, d)
          BY <1>1, <3>3
        <5>2. i \in 1 .. n /\ i + 1 \in Places(s, d)
          BY <1>3, <5>1
        <5>3. x[1] = p /\ x[2] = i
          BY <3>2, <3>3
        <5>. QED
          BY <1>2, <5>2, <5>3
      <4>. QED
        BY <1>1, <4>1, SlotsHas
    <3>4. CASE q # p
      <4>1. Next1(x) = x /\ x # <<p, 1>> /\ i \in Places(f[q].cmds, d)
        BY <1>1, <3>2, <3>4
      <4>. QED
        BY <3>2, <4>1, SlotsHas
    <3>. QED
      BY <3>3, <3>4
  <2> HIDE DEF A, B, Next1
  <2>. QED
    BY <2>1
<1>7. ASSUME NEW x \in A, NEW y \in A, Next1(x) = Next1(y) PROVE x = y
  <2>1. PICK q \in Procs : \E i \in Places(g[q].cmds, d) : x = <<q, i>>
    BY SlotsHas
  <2>2. PICK i \in Places(g[q].cmds, d) : x = <<q, i>>
    BY <2>1
  <2>3. PICK v \in Procs : \E k \in Places(g[v].cmds, d) : y = <<v, k>>
    BY SlotsHas
  <2>4. PICK k \in Places(g[v].cmds, d) : y = <<v, k>>
    BY <2>3
  <2>5. (q = p => i \in Nat) /\ (v = p => k \in Nat)
    BY <1>1, <1>5, <2>2, <2>4
  <2>. QED
    BY <1>7, <2>2, <2>4, <2>5
<1>8. ASSUME NEW y \in B PROVE \E x \in A : Next1(x) = y
  <2>1. PICK q \in Procs : \E i \in Places(f[q].cmds, d) : y = <<q, i>>
    BY SlotsHas
  <2>2. PICK i \in Places(f[q].cmds, d) : y = <<q, i>>
    BY <2>1
  <2>3. CASE q = p
    <3>1. i \in Nat /\ i # 1 /\ i - 1 \in Places(t, d)
      BY <1>1, <1>4, <1>5, <2>2, <2>3
    <3>2. <<p, i - 1>> \in A
      <4>1. i - 1 \in Places(g[p].cmds, d)
        BY <1>1, <3>1
      <4>. QED
        BY <4>1, SlotsHas
    <3>3. Next1(<<p, i - 1>>) = y
      BY <2>2, <2>3, <3>1
    <3>. QED
      BY <3>2, <3>3
  <2>4. CASE q # p
    <3>1. y \in A /\ Next1(y) = y
      BY <1>1, <2>2, <2>4, SlotsHas
    <3>. QED
      BY <3>1
  <2>. QED
    BY <2>3, <2>4
<1>9. F \in Bijection(A, B)
  <2>1. \A x, y \in A : F[x] = F[y] => x = y
    BY <1>7
  <2>2. \A y \in B : \E x \in A : F[x] = y
    BY <1>8
  <2> HIDE DEF A, B, F
  <2>. QED
    BY <1>6, <2>1, <2>2, Fun_IsBij
<1>10. IsFiniteSet(B) /\ Cardinality(B) = IF <<p, 1>> \in SlotsOf(f, d) THEN Cardinality(SlotsOf(f, d)) - 1
                                          ELSE Cardinality(SlotsOf(f, d))
  BY FS_RemoveElement
<1>11. IsFiniteSet(A) /\ Cardinality(A) = Cardinality(B)
  <2>1. \E b : b \in Bijection(B, A)
    <3> HIDE DEF A, B, F
    <3>. QED
      BY <1>9, Fun_BijInverse
  <2> HIDE DEF A, B, F
  <2>. QED
    BY <1>10, <2>1, FS_Bijection DEF ExistsBijection
<1>12. <<p, 1>> \in SlotsOf(f, d) <=> h = d
  <2>1. 1 \in Places(s, d) <=> h = d
    BY <1>2 DEF Places
  <2>. QED
    BY <1>1, <2>1, SlotsHas
<1>13. Cardinality(SlotsOf(f, d)) \in Nat
  BY FS_CardinalityType
<1>. QED
  BY <1>10, <1>11, <1>12, <1>13

-----------------------------------------------------------------------------
(* The invariant behind CopiesBounded                                      *)

Holders(j) == {p \in Procs : j \in Held(p)}
Turn(p, pc, j) == poller[p].pc = pc /\ poller[p].msg = j

(* A poller may still find j in the sorted set.                            *)
Coming(j) == answer[j] = "none" \/ j \in scheduled \/ Slots(Add(j)) # {}

(* The servers that may push j once more before any fault.                 *)
MayPush(j) == {p \in Servers :
  Turn(p, "push", j) \/ (Coming(j) /\ phase[p] = "up" /\ ~Turn(p, "remove", j))}

Polling == \A p \in Procs : poller[p].pc # "off" => p \in Servers

(* A message gets into the sorted set once, and only one with an ETA does. *)
Once(j) ==
  /\ IsFiniteSet(Slots(Add(j))) /\ Cardinality(Slots(Add(j))) <= 1
  /\ \A p \in Procs : Turn(p, "push", j) \/ Turn(p, "remove", j) =>
       Eta[j] # 0 /\ answer[j] # "none" /\ Slots(Add(j)) = {}
  /\ Slots(Add(j)) # {} => Eta[j] # 0 /\ answer[j] # "none" /\ j \notin scheduled
  /\ j \in scheduled => Eta[j] # 0 /\ answer[j] # "none"

Finite(j) == IsFiniteSet(Holders(j)) /\ IsFiniteSet(Slots(Push(j)))

Bound(j) ==
  /\ Eta[j] = 0 => Copies(j) <= IF answer[j] = "none" THEN 0 ELSE 1
  /\ Eta[j] # 0 => Copies(j) + Cardinality(MayPush(j)) <= Cardinality(Servers) + faults

CInv == IInv /\ Polling /\ \A j \in Jobs : Once(j) /\ Finite(j) /\ Bound(j)

LEMMA SlotsAre == \A c : Slots(c) = SlotsOf(pipe, c) /\ Slots(c)' = SlotsOf(pipe', c)
BY DEF Slots, SlotsOf

LEMMA Tally ==
  ASSUME TInv, TInv', NEW j \in Jobs, Finite(j), Finite(j)'
  PROVE  /\ given[j] \in Nat /\ Cardinality(Places(list, j)) \in Nat
         /\ Cardinality(Holders(j)) \in Nat /\ Cardinality(Slots(Push(j))) \in Nat
         /\ Copies(j) = given[j] + Cardinality(Places(list, j)) + Cardinality(Holders(j)) + Cardinality(Slots(Push(j)))
         /\ given'[j] \in Nat /\ Cardinality(Places(list', j)) \in Nat
         /\ Cardinality(Holders(j)') \in Nat /\ Cardinality(Slots(Push(j))') \in Nat
         /\ Copies(j)' = given'[j] + Cardinality(Places(list', j)) + Cardinality(Holders(j)') + Cardinality(Slots(Push(j))')
         /\ Copies(j) \in Nat /\ Copies(j)' \in Nat
<1>1. /\ given[j] \in Nat /\ Cardinality(Places(list, j)) \in Nat
      /\ given'[j] \in Nat /\ Cardinality(Places(list', j)) \in Nat
  BY PlacesFinite DEF TInv, TypeOK
<1>2. /\ Cardinality(Holders(j)) \in Nat /\ Cardinality(Slots(Push(j))) \in Nat
      /\ Cardinality(Holders(j)') \in Nat /\ Cardinality(Slots(Push(j))') \in Nat
  BY FS_CardinalityType DEF Finite
<1>3. /\ Copies(j) = given[j] + Cardinality(Places(list, j)) + Cardinality(Holders(j)) + Cardinality(Slots(Push(j)))
      /\ Copies(j)' = given'[j] + Cardinality(Places(list', j)) + Cardinality(Holders(j)') + Cardinality(Slots(Push(j))')
  BY DEF Copies, Holders, Push
<1>. QED
  BY <1>1, <1>2, <1>3

LEMMA Weights ==
  ASSUME TInv, TInv', IsFiniteSet(Servers), NEW j
  PROVE  /\ IsFiniteSet(MayPush(j)) /\ IsFiniteSet(MayPush(j)')
         /\ Cardinality(MayPush(j)) \in Nat /\ Cardinality(MayPush(j)') \in Nat
         /\ Cardinality(Servers) \in Nat /\ faults \in Nat /\ faults' \in Nat
<1>1. MayPush(j) \in SUBSET Servers /\ MayPush(j)' \in SUBSET Servers
  BY DEF MayPush
<1>. QED
  BY <1>1, FS_Subset, FS_CardinalityType, RedisAssumption DEF TInv, TypeOK

(* What keeps the bound: no new copy, or one that was allowed for, or paid *)
(* for by a fault.                                                         *)
LEMMA Balance ==
  ASSUME TInv, TInv', IsFiniteSet(Servers), NEW j \in Jobs, Finite(j), Finite(j)', Bound(j),
         faults <= faults', answer[j] # "none" => answer'[j] # "none",
         \/ Copies(j)' <= Copies(j) /\ MayPush(j)' \subseteq MayPush(j)
         \/ Copies(j)' <= Copies(j) + 1 /\ Eta[j] = 0 /\ answer[j] = "none" /\ answer'[j] # "none"
         \/ /\ Copies(j)' <= Copies(j) + 1 /\ Eta[j] # 0
            /\ \E p \in MayPush(j) : MayPush(j)' \subseteq MayPush(j) \ {p}
         \/ /\ Copies(j)' <= Copies(j) + 1 /\ Eta[j] # 0 /\ faults' = faults + 1
            /\ MayPush(j)' \subseteq MayPush(j)
         \/ /\ Copies(j)' <= Copies(j) /\ faults' = faults + 1
            /\ \E p : MayPush(j)' \subseteq MayPush(j) \cup {p}
  PROVE  Bound(j)'
<1>t. Copies(j) \in Nat /\ Copies(j)' \in Nat
  BY Tally
<1>w. /\ IsFiniteSet(MayPush(j)) /\ IsFiniteSet(MayPush(j)')
      /\ Cardinality(MayPush(j)) \in Nat /\ Cardinality(MayPush(j)') \in Nat
      /\ Cardinality(Servers) \in Nat /\ faults \in Nat /\ faults' \in Nat
  BY Weights
<1>1. CASE Eta[j] = 0
  BY <1>t, <1>1 DEF Bound
<1>2. CASE Eta[j] # 0
  <2>0. Copies(j) + Cardinality(MayPush(j)) <= Cardinality(Servers) + faults
    BY <1>2 DEF Bound
  <2> SUFFICES Copies(j)' + Cardinality(MayPush(j)') <= Cardinality(Servers) + faults'
    BY <1>2 DEF Bound
  <2>1. MayPush(j)' \subseteq MayPush(j) => Cardinality(MayPush(j)') <= Cardinality(MayPush(j))
    BY <1>w, FS_Subset
  <2>2. ASSUME NEW p \in MayPush(j), MayPush(j)' \subseteq MayPush(j) \ {p}
        PROVE  Cardinality(MayPush(j)') <= Cardinality(MayPush(j)) - 1
    <3>1. IsFiniteSet(MayPush(j) \ {p}) /\ Cardinality(MayPush(j) \ {p}) = Cardinality(MayPush(j)) - 1
      BY <1>w, FS_RemoveElement
    <3>. QED
      BY <2>2, <3>1, FS_Subset
  <2>3. ASSUME NEW p, MayPush(j)' \subseteq MayPush(j) \cup {p}
        PROVE  Cardinality(MayPush(j)') <= Cardinality(MayPush(j)) + 1
    <3>1. /\ IsFiniteSet(MayPush(j) \cup {p})
          /\ Cardinality(MayPush(j) \cup {p}) =
               IF p \in MayPush(j) THEN Cardinality(MayPush(j)) ELSE Cardinality(MayPush(j)) + 1
      BY <1>w, FS_AddElement
    <3>2. Cardinality(MayPush(j)') <= Cardinality(MayPush(j) \cup {p})
      BY <2>3, <3>1, FS_Subset
    <3>. QED
      BY <1>w, <3>1, <3>2
  <2>4. CASE Copies(j)' <= Copies(j) /\ MayPush(j)' \subseteq MayPush(j)
    BY <1>t, <1>w, <2>0, <2>1, <2>4
  <2>5. CASE /\ Copies(j)' <= Copies(j) + 1
             /\ \E p \in MayPush(j) : MayPush(j)' \subseteq MayPush(j) \ {p}
    BY <1>t, <1>w, <2>0, <2>2, <2>5
  <2>6. CASE Copies(j)' <= Copies(j) + 1 /\ faults' = faults + 1 /\ MayPush(j)' \subseteq MayPush(j)
    BY <1>t, <1>w, <2>0, <2>1, <2>6
  <2>7. CASE Copies(j)' <= Copies(j) /\ faults' = faults + 1 /\ \E p : MayPush(j)' \subseteq MayPush(j) \cup {p}
    BY <1>t, <1>w, <2>0, <2>3, <2>7
  <2>. QED
    BY <1>2, <2>4, <2>5, <2>6, <2>7
<1>. QED
  BY <1>1, <1>2

(* No copy is added, and no server comes nearer to pushing j.              *)
Calm(j) ==
  /\ Finite(j)' /\ Copies(j)' <= Copies(j) /\ faults <= faults'
  /\ answer'[j] = answer[j] /\ (j \in scheduled' => j \in scheduled)
  /\ IsFiniteSet(Slots(Add(j))') /\ Cardinality(Slots(Add(j))') <= Cardinality(Slots(Add(j)))
  /\ \A p \in Procs : /\ Turn(p, "push", j)' => Turn(p, "push", j)
                      /\ Turn(p, "remove", j)' => Turn(p, "remove", j) \/ Turn(p, "push", j)

Waits(j) == \A p \in Servers :
  /\ phase'[p] = "up" => phase[p] = "up"
  /\ Turn(p, "remove", j) => Turn(p, "remove", j)' \/ phase'[p] # "up" \/ ~Coming(j)'

LEMMA CalmOnce ==
  ASSUME TInv, NEW j \in Jobs, Once(j), Calm(j)
  PROVE  Once(j)' /\ (Slots(Add(j))' # {} => Slots(Add(j)) # {}) /\ (Coming(j)' => Coming(j))
<1>1. /\ Cardinality(Slots(Add(j))) \in Nat /\ Cardinality(Slots(Add(j))') \in Nat
      /\ Cardinality(Slots(Add(j))) = 0 <=> Slots(Add(j)) = {}
      /\ Cardinality(Slots(Add(j))') = 0 <=> Slots(Add(j))' = {}
  BY FS_CardinalityType, FS_EmptySet DEF Once, Calm
<1>2. Slots(Add(j))' # {} => Slots(Add(j)) # {}
  BY <1>1 DEF Calm
<1>3. Once(j)'
  <2>1. IsFiniteSet(Slots(Add(j))') /\ Cardinality(Slots(Add(j))') <= 1
    BY <1>1 DEF Calm, Once
  <2>2. ASSUME NEW p \in Procs, Turn(p, "push", j)' \/ Turn(p, "remove", j)'
        PROVE  Eta[j] # 0 /\ answer'[j] # "none" /\ Slots(Add(j))' = {}
    BY <1>2, <2>2 DEF Calm, Once
  <2>. QED
    BY <1>2, <2>1, <2>2 DEF Calm, Once
<1>. QED
  BY <1>2, <1>3 DEF Calm, Coming

LEMMA CalmKeeps ==
  ASSUME CInv, TInv', IsFiniteSet(Servers), NEW j \in Jobs, Calm(j), Waits(j)
  PROVE  Once(j)' /\ Bound(j)'
<1>1. TInv /\ Once(j) /\ Finite(j) /\ Bound(j)
  BY DEF CInv, IInv
<1>2. Once(j)' /\ (Coming(j)' => Coming(j))
  BY <1>1, CalmOnce
<1>3. MayPush(j)' \subseteq MayPush(j)
  <2> SUFFICES ASSUME NEW p \in Servers, p \in MayPush(j)' PROVE p \in MayPush(j)
    BY DEF MayPush
  <2>1. p \in Procs
    BY RedisAssumption
  <2>2. CASE Turn(p, "push", j)'
    BY <2>1, <2>2 DEF Calm, MayPush
  <2>3. CASE Coming(j)' /\ phase'[p] = "up" /\ ~Turn(p, "remove", j)'
    BY <1>2, <2>3 DEF Waits, MayPush
  <2>. QED
    BY <2>2, <2>3 DEF MayPush
<1>4. Bound(j)'
  BY <1>1, <1>3, Balance DEF Calm
<1>. QED
  BY <1>2, <1>4

-----------------------------------------------------------------------------
(* The steps, and what they have to show                                   *)

Counts == \A j \in Jobs : Once(j)' /\ Finite(j)' /\ Bound(j)'

LEMMA Smaller ==
  ASSUME NEW A, NEW B, IsFiniteSet(A), B \subseteq A
  PROVE  IsFiniteSet(B) /\ Cardinality(B) <= Cardinality(A) /\ Cardinality(B) \in Nat /\ Cardinality(A) \in Nat
BY FS_Subset, FS_CardinalityType

LEMMA FewerSlots ==
  ASSUME \A q \in Procs : pipe'[q].cmds = pipe[q].cmds \/ pipe'[q].cmds = <<>>,
         NEW c, IsFiniteSet(Slots(c))
  PROVE  IsFiniteSet(Slots(c)') /\ Cardinality(Slots(c)') <= Cardinality(Slots(c))
<1>1. Slots(c)' \subseteq Slots(c)
  BY SlotsAre, SlotsFewer
<1>. QED
  BY <1>1, Smaller

LEMMA CalmParts ==
  ASSUME TInv, TInv', NEW j \in Jobs, Finite(j), Once(j), faults <= faults', answer'[j] = answer[j],
         j \in scheduled' => j \in scheduled,
         IsFiniteSet(Holders(j)'),
         given'[j] + Cardinality(Places(list', j)) + Cardinality(Holders(j)')
           <= given[j] + Cardinality(Places(list, j)) + Cardinality(Holders(j)),
         IsFiniteSet(Slots(Push(j))'), Cardinality(Slots(Push(j))') <= Cardinality(Slots(Push(j))),
         IsFiniteSet(Slots(Add(j))'), Cardinality(Slots(Add(j))') <= Cardinality(Slots(Add(j))),
         \A p \in Procs : /\ Turn(p, "push", j)' => Turn(p, "push", j)
                          /\ Turn(p, "remove", j)' => Turn(p, "remove", j) \/ Turn(p, "push", j)
  PROVE  Calm(j)
<1>1. Finite(j)'
  BY DEF Finite
<1>2. Copies(j)' <= Copies(j)
  BY <1>1, Tally
<1>. QED
  BY <1>1, <1>2 DEF Calm

(* A step that moves no copy and gives no poller a message.                *)
LEMMA Settled ==
  ASSUME CInv, TInv', IsFiniteSet(Servers), faults <= faults',
         UNCHANGED <<list, scheduled, answer, given>>,
         \A q \in Procs : /\ pipe'[q].cmds = pipe[q].cmds \/ pipe'[q].cmds = <<>>
                          /\ Held(q)' \subseteq Held(q)
                          /\ \/ poller'[q] = poller[q]
                             \/ /\ poller'[q].pc \in {"off", "wait"}
                                /\ poller[q].pc # "remove" \/ phase'[q] # "up"
                          /\ phase'[q] = "up" => phase[q] = "up"
  PROVE  Counts
<1> SUFFICES ASSUME NEW j \in Jobs PROVE Once(j)' /\ Finite(j)' /\ Bound(j)'
  BY DEF Counts
<1>1. TInv /\ Once(j) /\ Finite(j) /\ Bound(j)
  BY DEF CInv, IInv
<1>2. Holders(j)' \subseteq Holders(j)
  BY DEF Holders
<1>3. IsFiniteSet(Holders(j)') /\ Cardinality(Holders(j)') <= Cardinality(Holders(j))
      /\ Cardinality(Holders(j)') \in Nat /\ Cardinality(Holders(j)) \in Nat
  BY <1>1, <1>2, Smaller DEF Finite
<1>4. given[j] \in Nat /\ Cardinality(Places(list, j)) \in Nat
  BY <1>1, PlacesFinite DEF TInv, TypeOK
<1>5. given'[j] + Cardinality(Places(list', j)) + Cardinality(Holders(j)')
        <= given[j] + Cardinality(Places(list, j)) + Cardinality(Holders(j))
  BY <1>3, <1>4
<1>6. /\ IsFiniteSet(Slots(Push(j))') /\ Cardinality(Slots(Push(j))') <= Cardinality(Slots(Push(j)))
      /\ IsFiniteSet(Slots(Add(j))') /\ Cardinality(Slots(Add(j))') <= Cardinality(Slots(Add(j)))
  BY <1>1, FewerSlots DEF Finite, Once
<1>7. \A p \in Procs : /\ Turn(p, "push", j)' => Turn(p, "push", j)
                       /\ Turn(p, "remove", j)' => Turn(p, "remove", j) \/ Turn(p, "push", j)
  BY DEF Turn
<1>8. Calm(j)
  BY <1>1, <1>3, <1>5, <1>6, <1>7, CalmParts
<1>9. Waits(j)
  BY RedisAssumption DEF Waits, Turn
<1>. QED
  BY <1>8, <1>9, CalmKeeps DEF Calm

LEMMA FaultsNat == TInv => faults \in Nat
BY RedisAssumption DEF TInv, TypeOK

LEMMA SettledSteps ==
  ASSUME CInv, TInv', IsFiniteSet(Servers)
  PROVE  /\ UNCHANGED vars \/ Tick => Counts
         /\ \A p \in Procs : Exec(p) \/ ExecFails(p) \/ Start(p) \/ Stop(p) \/ PollerStop(p)
                               \/ Cancel(p) \/ Exit(p) => Counts
<1>f. TInv /\ faults \in Nat
  BY FaultsNat DEF CInv, IInv
<1>1. ASSUME UNCHANGED vars \/ Tick PROVE Counts
  <2>1. /\ UNCHANGED <<list, scheduled, answer, given, pipe, consumer, poller, phase, faults>>
    BY <1>1 DEF vars, Tick, redis
  <2>2. \A q \in Procs : Held(q)' = Held(q)
    BY <2>1 DEF Held
  <2>. QED
    BY <1>f, <2>1, <2>2, Settled
<1>2. ASSUME NEW p \in Procs, Exec(p) PROVE Counts
  <2>1. /\ UNCHANGED <<list, scheduled, answer, given, consumer, poller, phase, faults>>
        /\ \A q \in Procs : pipe'[q].cmds = pipe[q].cmds
    BY <1>f, <1>2 DEF Exec, redis, TInv, TypeOK
  <2>2. \A q \in Procs : Held(q)' = Held(q)
    BY <2>1 DEF Held
  <2>. QED
    BY <1>f, <2>1, <2>2, Settled
<1>3. ASSUME NEW p \in Procs, ExecFails(p) PROVE Counts
  <2>1. /\ UNCHANGED <<list, scheduled, answer, given, consumer, poller, phase>> /\ faults' = faults + 1
        /\ \A q \in Procs : pipe'[q].cmds = pipe[q].cmds \/ pipe'[q].cmds = <<>>
    BY <1>f, <1>3 DEF ExecFails, redis, TInv, TypeOK, NoPipe, Fault
  <2>2. \A q \in Procs : Held(q)' = Held(q)
    BY <2>1 DEF Held
  <2>. QED
    BY <1>f, <2>1, <2>2, Settled
<1>4. ASSUME NEW p \in Procs, Start(p) PROVE Counts
  <2>1. /\ UNCHANGED <<list, scheduled, answer, given, pipe, phase, faults>>
        /\ \A q \in Procs : poller'[q] = poller[q] \/ (poller'[q].pc = "wait" /\ poller[q].pc = "off")
        /\ \A q \in Procs : consumer'[q] = consumer[q] \/ consumer'[q].pc = "loop"
    BY <1>f, <1>4 DEF Start, redis, TInv, TypeOK, At
  <2>2. \A q \in Procs : Held(q)' \subseteq Held(q)
    BY <2>1 DEF Held
  <2>. QED
    BY <1>f, <2>1, <2>2, Settled
<1>5. ASSUME NEW p \in Procs, Stop(p) PROVE Counts
  <2>1. /\ UNCHANGED <<list, scheduled, answer, given, pipe, poller, phase, faults>>
        /\ \A q \in Procs : consumer'[q] = consumer[q] \/ consumer'[q].pc = "off"
    BY <1>f, <1>5 DEF Stop, redis, TInv, TypeOK, At
  <2>2. \A q \in Procs : Held(q)' \subseteq Held(q)
    BY <2>1 DEF Held
  <2>. QED
    BY <1>f, <2>1, <2>2, Settled
<1>6. ASSUME NEW p \in Procs, PollerStop(p) PROVE Counts
  <2>1. /\ UNCHANGED <<list, scheduled, answer, given, pipe, consumer, phase, faults>>
        /\ \A q \in Procs : poller'[q] = poller[q] \/ (poller'[q].pc = "off" /\ poller[q].pc = "wait")
    BY <1>f, <1>6 DEF PollerStop, redis, TInv, TypeOK, At
  <2>2. \A q \in Procs : Held(q)' = Held(q)
    BY <2>1 DEF Held
  <2>. QED
    BY <1>f, <2>1, <2>2, Settled
<1>7. ASSUME NEW p \in Procs, Cancel(p) PROVE Counts
  <2>1. /\ UNCHANGED <<list, scheduled, answer, given, pipe, consumer, poller, faults>>
        /\ \A q \in Procs : phase'[q] = "up" => phase[q] = "up"
    BY <1>f, <1>7 DEF Cancel, redis, TInv, TypeOK
  <2>2. \A q \in Procs : Held(q)' = Held(q)
    BY <2>1 DEF Held
  <2>. QED
    BY <1>f, <2>1, <2>2, Settled
<1>8. ASSUME NEW p \in Procs, Exit(p) PROVE Counts
  <2>1. /\ UNCHANGED <<list, scheduled, answer, given, faults>>
        /\ phase' = [phase EXCEPT ![p] = "gone"]
        /\ pipe' = [pipe EXCEPT ![p] = NoPipe] /\ consumer' = [consumer EXCEPT ![p] = At("off")]
        /\ poller' = [poller EXCEPT ![p] = At("off")]
    BY <1>8 DEF Exit, Ended, redis
  <2>2. \A q \in Procs :
          /\ pipe'[q].cmds = pipe[q].cmds \/ pipe'[q].cmds = <<>>
          /\ poller'[q] = poller[q] \/ (poller'[q].pc = "off" /\ phase'[q] # "up")
          /\ consumer'[q] = consumer[q] \/ consumer'[q].pc = "off"
          /\ phase'[q] = "up" => phase[q] = "up"
    BY <1>f, <2>1 DEF TInv, TypeOK, NoPipe, At
  <2>3. \A q \in Procs : Held(q)' \subseteq Held(q)
    BY <2>2 DEF Held
  <2>. QED
    BY <1>f, <2>1, <2>2, <2>3, Settled
<1>. QED
  BY <1>1, <1>2, <1>3, <1>4, <1>5, <1>6, <1>7, <1>8

LEMMA HandCounts ==
  ASSUME CInv, TInv', IsFiniteSet(Servers), NEW p \in Procs, Hand(p)
  PROVE  Counts
<1> SUFFICES ASSUME NEW j \in Jobs PROVE Once(j)' /\ Finite(j)' /\ Bound(j)'
  BY DEF Counts
<1>1. TInv /\ Once(j) /\ Finite(j) /\ Bound(j) /\ faults \in Nat
  BY FaultsNat DEF CInv, IInv
<1>2. /\ UNCHANGED <<list, scheduled, answer, pipe, poller, phase, faults>>
      /\ consumer[p].pc = "hand" /\ consumer[p].msg \in Jobs /\ consumer'[p].pc # "hand"
      /\ \A q \in Procs \ {p} : consumer'[q] = consumer[q]
      /\ given'[j] = given[j] + (IF consumer[p].msg = j THEN 1 ELSE 0)
  BY <1>1 DEF Hand, redis, TInv, TypeOK, Loop, At
<1>3. /\ Held(p) = {consumer[p].msg} /\ Held(p)' = {}
      /\ \A q \in Procs \ {p} : Held(q)' = Held(q)
  BY <1>2 DEF Held
<1>4. Holders(j)' = Holders(j) \ {p} /\ (p \in Holders(j) <=> consumer[p].msg = j)
  BY <1>3 DEF Holders
<1>5. /\ IsFiniteSet(Holders(j)')
      /\ Cardinality(Holders(j)') = Cardinality(Holders(j)) - (IF consumer[p].msg = j THEN 1 ELSE 0)
      /\ Cardinality(Holders(j)) \in Nat
  <2>1. IsFiniteSet(Holders(j)) /\ Cardinality(Holders(j)) \in Nat
    BY <1>1, FS_CardinalityType DEF Finite
  <2>2. /\ IsFiniteSet(Holders(j) \ {p})
        /\ Cardinality(Holders(j) \ {p}) =
             IF p \in Holders(j) THEN Cardinality(Holders(j)) - 1 ELSE Cardinality(Holders(j))
    BY <2>1, FS_RemoveElement
  <2>. QED
    BY <1>4, <2>1, <2>2
<1>6. given[j] \in Nat /\ Cardinality(Places(list, j)) \in Nat
  BY <1>1, PlacesFinite DEF TInv, TypeOK
<1>7. given'[j] + Cardinality(Places(list', j)) + Cardinality(Holders(j)')
        <= given[j] + Cardinality(Places(list, j)) + Cardinality(Holders(j))
  BY <1>2, <1>5, <1>6
<1>8. /\ IsFiniteSet(Slots(Push(j))') /\ Cardinality(Slots(Push(j))') <= Cardinality(Slots(Push(j)))
      /\ IsFiniteSet(Slots(Add(j))') /\ Cardinality(Slots(Add(j))') <= Cardinality(Slots(Add(j)))
  BY <1>1, <1>2, FewerSlots DEF Finite, Once
<1>9. Calm(j)
  BY <1>1, <1>2, <1>5, <1>7, <1>8, CalmParts DEF Turn
<1>10. Waits(j)
  BY <1>2 DEF Waits, Turn
<1>. QED
  BY <1>9, <1>10, CalmKeeps DEF Calm

LEMMA PopCounts ==
  ASSUME CInv, TInv', IsFiniteSet(Servers), NEW p \in Procs, NEW r \in Replies, Pop(p, r)
  PROVE  Counts
<1> SUFFICES ASSUME NEW j \in Jobs PROVE Once(j)' /\ Finite(j)' /\ Bound(j)'
  BY DEF Counts
<1>1. TInv /\ Once(j) /\ Finite(j) /\ Bound(j) /\ faults \in Nat
  BY FaultsNat DEF CInv, IInv
<1>2. /\ UNCHANGED <<scheduled, answer, pipe, poller, phase, given>> /\ faults <= faults'
      /\ list \in Seq(Jobs) /\ list # <<>> /\ list' = Tail(list)
      /\ consumer'[p].pc = "hand" => consumer'[p].msg = Head(list)
      /\ \A q \in Procs \ {p} : consumer'[q] = consumer[q]
  BY <1>1 DEF Pop, TInv, TypeOK, Loop, At, Ends, Fault
<1>3. /\ Held(p)' \subseteq {Head(list)}
      /\ \A q \in Procs \ {p} : Held(q)' = Held(q)
  BY <1>2 DEF Held
<1>4. Holders(j)' \subseteq Holders(j) \cup {p} /\ (Head(list) # j => Holders(j)' \subseteq Holders(j))
  BY <1>3 DEF Holders
<1>5. IsFiniteSet(Holders(j)) /\ Cardinality(Holders(j)) \in Nat
  BY <1>1, FS_CardinalityType DEF Finite
<1>6. /\ IsFiniteSet(Holders(j)') /\ Cardinality(Holders(j)') \in Nat
      /\ Cardinality(Holders(j)') <= Cardinality(Holders(j)) + (IF Head(list) = j THEN 1 ELSE 0)
  <2>1. /\ IsFiniteSet(Holders(j) \cup {p})
        /\ Cardinality(Holders(j) \cup {p}) =
             IF p \in Holders(j) THEN Cardinality(Holders(j)) ELSE Cardinality(Holders(j)) + 1
    BY <1>5, FS_AddElement
  <2>2. /\ IsFiniteSet(Holders(j)') /\ Cardinality(Holders(j)') \in Nat
        /\ Cardinality(Holders(j)') <= Cardinality(Holders(j) \cup {p})
        /\ Head(list) # j => Cardinality(Holders(j)') <= Cardinality(Holders(j))
    BY <1>4, <1>5, <2>1, Smaller
  <2>. QED
    BY <1>5, <2>1, <2>2
<1>7. /\ given[j] \in Nat /\ Cardinality(Places(list, j)) \in Nat /\ Cardinality(Places(list', j)) \in Nat
      /\ Cardinality(Places(list, j)) = Cardinality(Places(list', j)) + (IF Head(list) = j THEN 1 ELSE 0)
  <2>1. list' \in Seq(Jobs)
    BY DEF TInv, TypeOK
  <2>. QED
    BY <1>1, <1>2, <2>1, PlacesFinite, PlacesTail DEF TInv, TypeOK
<1>8. given'[j] + Cardinality(Places(list', j)) + Cardinality(Holders(j)')
        <= given[j] + Cardinality(Places(list, j)) + Cardinality(Holders(j))
  BY <1>2, <1>5, <1>6, <1>7
<1>9. /\ IsFiniteSet(Slots(Push(j))') /\ Cardinality(Slots(Push(j))') <= Cardinality(Slots(Push(j)))
      /\ IsFiniteSet(Slots(Add(j))') /\ Cardinality(Slots(Add(j))') <= Cardinality(Slots(Add(j)))
  BY <1>1, <1>2, FewerSlots DEF Finite, Once
<1>10. Calm(j)
  BY <1>1, <1>2, <1>6, <1>8, <1>9, CalmParts DEF Turn
<1>11. Waits(j)
  BY <1>2 DEF Waits, Turn
<1>. QED
  BY <1>10, <1>11, CalmKeeps DEF Calm

LEMMA CrashCounts ==
  ASSUME CInv, TInv', IsFiniteSet(Servers), NEW p \in Procs, Crash(p)
  PROVE  Counts
<1> SUFFICES ASSUME NEW j \in Jobs PROVE Once(j)' /\ Finite(j)' /\ Bound(j)'
  BY DEF Counts
<1>1. TInv /\ Once(j) /\ Finite(j) /\ Bound(j) /\ faults \in Nat
  BY FaultsNat DEF CInv, IInv
<1>2. /\ UNCHANGED <<list, scheduled, answer, given>> /\ faults' = faults + 1
      /\ phase' = [phase EXCEPT ![p] = "up"]
      /\ pipe' = [pipe EXCEPT ![p] = NoPipe] /\ consumer' = [consumer EXCEPT ![p] = At("off")]
      /\ poller' = [poller EXCEPT ![p] = At("off")]
  BY DEF Crash, Ended, redis, Fault
<1>3. \A q \in Procs :
        /\ pipe'[q].cmds = pipe[q].cmds \/ pipe'[q].cmds = <<>>
        /\ poller'[q] = poller[q] \/ poller'[q].pc = "off"
        /\ consumer'[q] = consumer[q] \/ consumer'[q].pc = "off"
        /\ q # p => poller'[q] = poller[q] /\ phase'[q] = phase[q]
  BY <1>1, <1>2 DEF TInv, TypeOK, NoPipe, At
<1>4. \A q \in Procs : Held(q)' \subseteq Held(q)
  BY <1>3 DEF Held
<1>5. Holders(j)' \subseteq Holders(j)
  BY <1>4 DEF Holders
<1>6. IsFiniteSet(Holders(j)') /\ Cardinality(Holders(j)') <= Cardinality(Holders(j))
      /\ Cardinality(Holders(j)') \in Nat /\ Cardinality(Holders(j)) \in Nat
  BY <1>1, <1>5, Smaller DEF Finite
<1>7. given[j] \in Nat /\ Cardinality(Places(list, j)) \in Nat
  BY <1>1, PlacesFinite DEF TInv, TypeOK
<1>8. given'[j] + Cardinality(Places(list', j)) + Cardinality(Holders(j)')
        <= given[j] + Cardinality(Places(list, j)) + Cardinality(Holders(j))
  BY <1>2, <1>6, <1>7
<1>9. /\ IsFiniteSet(Slots(Push(j))') /\ Cardinality(Slots(Push(j))') <= Cardinality(Slots(Push(j)))
      /\ IsFiniteSet(Slots(Add(j))') /\ Cardinality(Slots(Add(j))') <= Cardinality(Slots(Add(j)))
  BY <1>1, <1>3, FewerSlots DEF Finite, Once
<1>10. Calm(j)
  BY <1>1, <1>2, <1>3, <1>6, <1>8, <1>9, CalmParts DEF Turn
<1>11. Once(j)' /\ (Coming(j)' => Coming(j))
  BY <1>1, <1>10, CalmOnce
<1>12. MayPush(j)' \subseteq MayPush(j) \cup {p}
  BY <1>3, <1>11, RedisAssumption DEF MayPush, Turn
<1>13. Bound(j)'
  BY <1>1, <1>2, <1>10, <1>12, Balance DEF Calm
<1>. QED
  BY <1>10, <1>11, <1>13 DEF Calm

(* The messages that a poller's step at another message does not touch.    *)
LEMMA Elsewhere ==
  ASSUME CInv, TInv', IsFiniteSet(Servers), NEW p \in Procs, NEW m \in Jobs, NEW j \in Jobs \ {m},
         poller[p].pc = "remove" => poller[p].msg = m,
         poller'[p].pc \in {"push", "remove"} => poller'[p].msg = m,
         \A q \in Procs \ {p} : poller'[q] = poller[q],
         UNCHANGED <<consumer, answer, given, phase>>, faults <= faults',
         j \in scheduled' => j \in scheduled,
         Cardinality(Places(list', j)) = Cardinality(Places(list, j)),
         Slots(Push(j))' = Slots(Push(j)), Slots(Add(j))' = Slots(Add(j))
  PROVE  Once(j)' /\ Finite(j)' /\ Bound(j)'
<1>1. TInv /\ Once(j) /\ Finite(j) /\ Bound(j)
  BY DEF CInv, IInv
<1>2. Holders(j)' = Holders(j)
  BY DEF Holders, Held
<1>3. IsFiniteSet(Holders(j)') /\ Cardinality(Holders(j)) \in Nat
  BY <1>1, <1>2, FS_CardinalityType DEF Finite
<1>4. given[j] \in Nat /\ Cardinality(Places(list, j)) \in Nat
  BY <1>1, PlacesFinite DEF TInv, TypeOK
<1>5. given'[j] + Cardinality(Places(list', j)) + Cardinality(Holders(j)')
        <= given[j] + Cardinality(Places(list, j)) + Cardinality(Holders(j))
  BY <1>2, <1>3, <1>4
<1>6. /\ IsFiniteSet(Slots(Push(j))') /\ Cardinality(Slots(Push(j))') <= Cardinality(Slots(Push(j)))
      /\ IsFiniteSet(Slots(Add(j))') /\ Cardinality(Slots(Add(j))') <= Cardinality(Slots(Add(j)))
  <2>1. Cardinality(Slots(Push(j))) \in Nat /\ Cardinality(Slots(Add(j))) \in Nat
    BY <1>1, FS_CardinalityType DEF Finite, Once
  <2>. QED
    BY <1>1, <2>1 DEF Finite, Once
<1>7. \A q \in Procs : /\ Turn(q, "push", j)' => Turn(q, "push", j)
                       /\ Turn(q, "remove", j)' => Turn(q, "remove", j)
                       /\ Turn(q, "remove", j) => Turn(q, "remove", j)'
  BY DEF Turn
<1>8. Calm(j)
  BY <1>1, <1>3, <1>5, <1>6, <1>7, CalmParts
<1>9. Waits(j)
  BY <1>7, RedisAssumption DEF Waits
<1>. QED
  BY <1>8, <1>9, CalmKeeps DEF Calm

(* The same sets of slots.                                                 *)
LEMMA SameSlots == ASSUME UNCHANGED pipe, NEW c PROVE Slots(c)' = Slots(c)
BY DEF Slots

LEMMA SameHolders == ASSUME UNCHANGED consumer, NEW j PROVE Holders(j)' = Holders(j)
BY DEF Holders, Held

LEMMA FetchCounts ==
  ASSUME CInv, TInv', IsFiniteSet(Servers), NEW p \in Procs, Fetch(p)
  PROVE  Counts
<1>1. PICK m \in Due : poller' = [poller EXCEPT ![p] = [pc |-> "push", msg |-> m]]
  BY DEF Fetch
<1>0. TInv /\ Polling /\ faults \in Nat
  BY FaultsNat DEF CInv, IInv
<1>2. /\ poller[p].pc = "wait" /\ phase[p] = "up" /\ p \in Servers
      /\ UNCHANGED <<list, scheduled, pipe, consumer, phase, answer, given, faults>>
      /\ m \in Jobs /\ m \in scheduled
      /\ poller'[p].pc = "push" /\ poller'[p].msg = m
      /\ \A q \in Procs \ {p} : poller'[q] = poller[q]
  BY <1>0, <1>1 DEF Fetch, redis, Due, TInv, TypeOK, Polling
<1>3. \A c : Slots(c)' = Slots(c)
  BY <1>2, SameSlots
<1>4. ASSUME NEW j \in Jobs \ {m} PROVE Once(j)' /\ Finite(j)' /\ Bound(j)'
  BY <1>0, <1>2, <1>3, Elsewhere
<1>5. Once(m)' /\ Finite(m)' /\ Bound(m)'
  <2>1. Once(m) /\ Finite(m) /\ Bound(m)
    BY <1>2 DEF CInv
  <2>2. Eta[m] # 0 /\ answer[m] # "none" /\ Slots(Add(m)) = {}
    BY <1>2, <2>1 DEF Once
  <2>3. Once(m)'
    BY <1>2, <1>3, <2>1, <2>2 DEF Once
  <2>4. Holders(m)' = Holders(m)
    BY <1>2, SameHolders
  <2>5. Finite(m)'
    BY <1>3, <2>1, <2>4 DEF Finite
  <2>6. Copies(m)' <= Copies(m)
    BY <1>0, <1>2, <1>3, <2>1, <2>4, <2>5, Tally
  <2>7. Coming(m)' = Coming(m) /\ Coming(m)
    BY <1>2, <1>3 DEF Coming
  <2>8. MayPush(m)' \subseteq MayPush(m)
    BY <1>2, <2>7, RedisAssumption DEF MayPush, Turn
  <2>9. Bound(m)'
    BY <1>0, <1>2, <2>1, <2>5, <2>6, <2>8, Balance
  <2>. QED
    BY <2>3, <2>5, <2>9
<1>. QED
  BY <1>4, <1>5 DEF Counts

LEMMA PushNowCounts ==
  ASSUME CInv, TInv', IsFiniteSet(Servers), NEW p \in Procs, NEW r \in Replies, PushNow(p, r)
  PROVE  Counts
<1>0. TInv /\ Polling /\ faults \in Nat
  BY FaultsNat DEF CInv, IInv
<1>1. PICK m \in Jobs : poller[p].msg = m
  BY <1>0 DEF PushNow, TInv
<1>2. /\ poller[p].pc = "push" /\ p \in Servers
      /\ UNCHANGED <<scheduled, pipe, consumer, phase, answer, given>>
      /\ list' = IF Done(r) THEN <<m>> \o list ELSE list
      /\ \/ poller'[p].pc = "remove" /\ poller'[p].msg = m
         \/ poller'[p].pc = "wait" /\ r # "ok"
      /\ \A q \in Procs \ {p} : poller'[q] = poller[q]
      /\ \/ faults' = faults /\ (r = "ok" \/ phase[p] # "up")
         \/ faults' = faults + 1
  BY <1>0, <1>1 DEF PushNow, Then, At, Ends, Fault, Cancelled, TInv, TypeOK, Polling
<1>3. \A c : Slots(c)' = Slots(c)
  BY <1>2, SameSlots
<1>4. list \in Seq(Jobs) /\ \A j \in Jobs : Cardinality(Places(list, j)) \in Nat
  BY <1>0, PlacesFinite DEF TInv, TypeOK
<1>5. \A j \in Jobs : Cardinality(Places(<<m>> \o list, j)) = Cardinality(Places(list, j)) + (IF m = j THEN 1 ELSE 0)
  BY <1>4, PlacesPush
<1>6. ASSUME NEW j \in Jobs \ {m} PROVE Once(j)' /\ Finite(j)' /\ Bound(j)'
  <2>1. Cardinality(Places(list', j)) = Cardinality(Places(list, j))
    BY <1>2, <1>4, <1>5
  <2>2. faults <= faults'
    BY <1>0, <1>2
  <2>. QED
    BY <1>0, <1>2, <1>3, <2>1, <2>2, Elsewhere
<1>7. Once(m)' /\ Finite(m)' /\ Bound(m)'
  <2>1. Once(m) /\ Finite(m) /\ Bound(m)
    BY DEF CInv
  <2>2. Turn(p, "push", m) /\ Eta[m] # 0 /\ answer[m] # "none" /\ Slots(Add(m)) = {}
    BY <1>1, <1>2, <2>1 DEF Once, Turn
  <2>3. Once(m)'
    BY <1>2, <1>3, <2>1, <2>2 DEF Once
  <2>4. Holders(m)' = Holders(m)
    BY <1>2, SameHolders
  <2>5. Finite(m)'
    BY <1>3, <2>1, <2>4 DEF Finite
  <2>6. /\ Copies(m)' <= Copies(m) + 1
        /\ r = "failed" => Copies(m)' <= Copies(m)
    <3>1. Cardinality(Places(list', m)) = Cardinality(Places(list, m)) + (IF r = "failed" THEN 0 ELSE 1)
      <4>1. CASE r = "failed"
        BY <1>2, <1>4, <4>1 DEF Done
      <4>2. CASE r # "failed"
        <5>1. list' = <<m>> \o list
          BY <1>2, <4>2 DEF Done
        <5>. QED
          BY <1>5, <4>2, <5>1
      <4>. QED
        BY <4>1, <4>2
    <3>2. /\ given[m] \in Nat /\ Cardinality(Holders(m)) \in Nat /\ Cardinality(Slots(Push(m))) \in Nat
          /\ Copies(m) = given[m] + Cardinality(Places(list, m)) + Cardinality(Holders(m)) + Cardinality(Slots(Push(m)))
          /\ Copies(m)' = given[m] + Cardinality(Places(list', m)) + Cardinality(Holders(m)) + Cardinality(Slots(Push(m)))
      BY <1>0, <1>2, <1>3, <2>1, <2>4, <2>5, Tally
    <3>. QED
      BY <1>4, <3>1, <3>2
  <2>7. Coming(m)' = Coming(m)
    BY <1>2, <1>3 DEF Coming
  <2>8. p \in MayPush(m)
    BY <1>2, <2>2 DEF MayPush
  <2>9. MayPush(m)' \subseteq MayPush(m)
    <3>1. ASSUME NEW q \in Servers, q \in MayPush(m)', q # p PROVE q \in MayPush(m)
      BY <1>2, <2>7, <3>1, RedisAssumption DEF MayPush, Turn
    <3>. QED
      BY <2>8, <3>1 DEF MayPush
  <2>10. p \in MayPush(m)' => faults' = faults + 1
    BY <1>2 DEF MayPush, Turn
  <2>11. \/ r = "failed"
         \/ MayPush(m)' \subseteq MayPush(m) \ {p}
         \/ faults' = faults + 1
    BY <2>9, <2>10
  <2>12. faults <= faults'
    BY <1>0, <1>2
  <2>13. \/ Copies(m)' <= Copies(m) /\ MayPush(m)' \subseteq MayPush(m)
         \/ /\ Copies(m)' <= Copies(m) + 1 /\ Eta[m] # 0
            /\ \E q \in MayPush(m) : MayPush(m)' \subseteq MayPush(m) \ {q}
         \/ /\ Copies(m)' <= Copies(m) + 1 /\ Eta[m] # 0 /\ faults' = faults + 1
            /\ MayPush(m)' \subseteq MayPush(m)
    BY <2>2, <2>6, <2>8, <2>9, <2>11
  <2>14. Bound(m)'
    BY <1>0, <1>2, <2>1, <2>5, <2>12, <2>13, Balance
  <2>. QED
    BY <2>3, <2>5, <2>14
<1>. QED
  BY <1>6, <1>7 DEF Counts

(* A command appended to a pipe is in one more slot.                       *)
LEMMA BufferedSlots ==
  ASSUME TInv, NEW p \in Procs, NEW c \in Commands, Buffer(p, c), NEW d, IsFiniteSet(Slots(d))
  PROVE  /\ d # c => Slots(d)' = Slots(d)
         /\ d = c => /\ IsFiniteSet(Slots(d)')
                     /\ Cardinality(Slots(d)') = Cardinality(Slots(d)) + 1
<1>1. PICK s \in Seq(Commands) : s = pipe[p].cmds
  BY DEF TInv, TypeOK
<1>2. pipe'[p].cmds = Append(s, c) /\ \A q \in Procs \ {p} : pipe'[q].cmds = pipe[q].cmds
  BY <1>1 DEF TInv, TypeOK, Buffer
<1>3. Slots(d) = SlotsOf(pipe, d) /\ Slots(d)' = SlotsOf(pipe', d)
  BY SlotsAre
<1>4. PICK f, g : f = pipe /\ g = pipe'
  OBVIOUS
<1>5. f[p].cmds = s /\ g[p].cmds = Append(s, c) /\ \A q \in Procs \ {p} : g[q].cmds = f[q].cmds
  BY <1>1, <1>2, <1>4
<1>6. IsFiniteSet(SlotsOf(f, d))
  BY <1>3, <1>4
<1>7. /\ d # c => SlotsOf(g, d) = SlotsOf(f, d)
      /\ d = c => /\ IsFiniteSet(SlotsOf(g, d))
                  /\ Cardinality(SlotsOf(g, d)) = Cardinality(SlotsOf(f, d)) + 1
  BY <1>5, <1>6, SlotsAppended
<1>. QED
  BY <1>3, <1>4, <1>7

LEMMA PushPipedCounts ==
  ASSUME CInv, TInv', IsFiniteSet(Servers), NEW p \in Procs, PushPiped(p)
  PROVE  Counts
<1>0. TInv /\ Polling /\ faults \in Nat
  BY FaultsNat DEF CInv, IInv
<1>1. PICK m \in Jobs : poller[p].msg = m
  BY <1>0 DEF PushPiped, TInv
<1>2. /\ poller[p].pc = "push" /\ p \in Servers
      /\ UNCHANGED <<list, scheduled, consumer, phase, answer, given, faults>>
      /\ Buffer(p, Push(m))
      /\ poller'[p].pc = "remove" /\ poller'[p].msg = m
      /\ \A q \in Procs \ {p} : poller'[q] = poller[q]
  BY <1>0, <1>1 DEF PushPiped, Then, redis, Push, TInv, TypeOK, Polling
<1>3. \A j \in Jobs : IsFiniteSet(Slots(Push(j))) /\ IsFiniteSet(Slots(Add(j)))
  BY DEF CInv, Once, Finite
<1>4. Push(m) \in Commands
  BY CommandType
<1>5. \A d : IsFiniteSet(Slots(d)) /\ d # Push(m) => Slots(d)' = Slots(d)
  BY <1>0, <1>2, <1>4, BufferedSlots
<1>6. ASSUME NEW j \in Jobs \ {m} PROVE Once(j)' /\ Finite(j)' /\ Bound(j)'
  <2>1. Push(j) # Push(m) /\ Add(j) # Push(m)
    BY DEF Push, Add
  <2>. QED
    BY <1>0, <1>2, <1>3, <1>5, <2>1, Elsewhere
<1>7. Once(m)' /\ Finite(m)' /\ Bound(m)'
  <2>1. Once(m) /\ Finite(m) /\ Bound(m)
    BY DEF CInv
  <2>2. Turn(p, "push", m) /\ Eta[m] # 0 /\ answer[m] # "none" /\ Slots(Add(m)) = {}
    BY <1>1, <1>2, <2>1 DEF Once, Turn
  <2>3. Slots(Add(m))' = Slots(Add(m))
    <3>1. Add(m) # Push(m)
      BY DEF Push, Add
    <3>. QED
      BY <1>3, <1>5, <3>1
  <2>4. Once(m)'
    BY <1>2, <2>1, <2>2, <2>3 DEF Once
  <2>5. Holders(m)' = Holders(m)
    BY <1>2, SameHolders
  <2>6. /\ IsFiniteSet(Slots(Push(m))')
        /\ Cardinality(Slots(Push(m))') = Cardinality(Slots(Push(m))) + 1
    BY <1>0, <1>2, <1>3, <1>4, BufferedSlots
  <2>7. Finite(m)'
    BY <2>1, <2>5, <2>6 DEF Finite
  <2>8. Copies(m)' <= Copies(m) + 1
    BY <1>0, <1>2, <2>1, <2>5, <2>6, <2>7, Tally
  <2>9. Coming(m)' = Coming(m)
    BY <1>2, <2>3 DEF Coming
  <2>10. p \in MayPush(m) /\ MayPush(m)' \subseteq MayPush(m) \ {p}
    <3>1. p \in MayPush(m) /\ p \notin MayPush(m)'
      BY <1>2, <2>2 DEF MayPush, Turn
    <3>2. ASSUME NEW q \in Servers, q \in MayPush(m)', q # p PROVE q \in MayPush(m)
      BY <1>2, <2>9, <3>2, RedisAssumption DEF MayPush, Turn
    <3>. QED
      BY <3>1, <3>2 DEF MayPush
  <2>11. Bound(m)'
    BY <1>0, <1>2, <2>1, <2>2, <2>7, <2>8, <2>10, Balance
  <2>. QED
    BY <2>4, <2>7, <2>11
<1>. QED
  BY <1>6, <1>7 DEF Counts

LEMMA ZRemCounts ==
  ASSUME CInv, TInv', IsFiniteSet(Servers), NEW p \in Procs, NEW r \in Replies, ZRem(p, r)
  PROVE  Counts
<1>0. TInv /\ Polling /\ faults \in Nat
  BY FaultsNat DEF CInv, IInv
<1>1. PICK m \in Jobs : poller[p].msg = m
  BY <1>0 DEF ZRem, TInv
<1>2. /\ poller[p].pc = "remove"
      /\ UNCHANGED <<list, pipe, consumer, phase, answer, given>>
      /\ scheduled' = IF r # "failed" THEN scheduled \ {m} ELSE scheduled
      /\ poller'[p].pc = "wait"
      /\ \A q \in Procs \ {p} : poller'[q] = poller[q]
      /\ \/ faults' = faults /\ (r = "ok" \/ phase[p] # "up")
         \/ faults' = faults + 1
  BY <1>0, <1>1 DEF ZRem, Then, At, Done, Ends, Fault, Cancelled, TInv, TypeOK
<1>3. \A c : Slots(c)' = Slots(c)
  BY <1>2, SameSlots
<1>4. faults <= faults'
  BY <1>0, <1>2
<1>5. ASSUME NEW j \in Jobs \ {m} PROVE Once(j)' /\ Finite(j)' /\ Bound(j)'
  BY <1>0, <1>1, <1>2, <1>3, <1>4, Elsewhere
<1>6. Once(m)' /\ Finite(m)' /\ Bound(m)'
  <2>1. Once(m) /\ Finite(m) /\ Bound(m)
    BY DEF CInv
  <2>2. Turn(p, "remove", m) /\ Eta[m] # 0 /\ answer[m] # "none" /\ Slots(Add(m)) = {}
    BY <1>1, <1>2, <2>1 DEF Once, Turn
  <2>3. Once(m)'
    BY <1>2, <1>3, <2>1, <2>2 DEF Once
  <2>4. Holders(m)' = Holders(m)
    BY <1>2, SameHolders
  <2>5. Finite(m)'
    BY <1>3, <2>1, <2>4 DEF Finite
  <2>6. Copies(m)' <= Copies(m)
    BY <1>0, <1>2, <1>3, <2>1, <2>4, <2>5, Tally
  <2>7. Coming(m)' => Coming(m) /\ r = "failed"
    BY <1>2, <1>3, <2>2 DEF Coming
  <2>8. MayPush(m)' \subseteq MayPush(m) \cup {p}
    BY <1>2, <2>7, RedisAssumption DEF MayPush, Turn
  <2>9. p \in MayPush(m)' => faults' = faults + 1
    BY <1>2, <2>7 DEF MayPush, Turn
  <2>10. \/ MayPush(m)' \subseteq MayPush(m)
         \/ faults' = faults + 1 /\ \E q : MayPush(m)' \subseteq MayPush(m) \cup {q}
    BY <2>8, <2>9
  <2>11. Bound(m)'
    BY <1>0, <1>2, <1>4, <2>1, <2>5, <2>6, <2>10, Balance
  <2>. QED
    BY <2>3, <2>5, <2>11
<1>. QED
  BY <1>5, <1>6 DEF Counts

(* The first command of a pipe is sent.                                    *)
LEMMA SentSlots ==
  ASSUME NEW p \in Procs, NEW c, Taken(pipe, pipe', p, c), NEW d, IsFiniteSet(Slots(d))
  PROVE  /\ IsFiniteSet(Slots(d)')
         /\ Cardinality(Slots(d)) = Cardinality(Slots(d)') + (IF c = d THEN 1 ELSE 0)
         /\ Cardinality(Slots(d)) \in Nat /\ Cardinality(Slots(d)') \in Nat
<1>1. Slots(d) = SlotsOf(pipe, d) /\ Slots(d)' = SlotsOf(pipe', d)
  BY SlotsAre
<1>2. PICK f, g : f = pipe /\ g = pipe'
  OBVIOUS
<1>3. Taken(f, g, p, c) /\ IsFiniteSet(SlotsOf(f, d))
  BY <1>1, <1>2
<1>4. /\ IsFiniteSet(SlotsOf(g, d))
      /\ Cardinality(SlotsOf(f, d)) = Cardinality(SlotsOf(g, d)) + (IF c = d THEN 1 ELSE 0)
  BY <1>3, SlotsTaken
<1>. QED
  BY <1>1, <1>2, <1>3, <1>4, FS_CardinalityType

LEMMA SendCounts ==
  ASSUME CInv, TInv', IsFiniteSet(Servers), NEW p \in Procs, Send(p)
  PROVE  Counts
<1>0. TInv /\ faults \in Nat
  BY FaultsNat DEF CInv, IInv
<1>1. PICK s \in Seq(Commands) : s = pipe[p].cmds
  BY <1>0 DEF TInv, TypeOK
<1>2. /\ s # <<>> /\ Execute(Head(s))
      /\ UNCHANGED <<consumer, poller, phase, answer, given, faults>>
      /\ pipe'[p].cmds = Tail(s) /\ \A q \in Procs \ {p} : pipe'[q].cmds = pipe[q].cmds
  BY <1>0, <1>1 DEF Send, TInv, TypeOK
<1>3. PICK c \in Commands : c = Head(s)
  BY <1>2
<1>4. PICK k \in Jobs : c.job = k /\ (c = Push(k) \/ c = Add(k))
  BY DEF Commands, Push, Add
<1>5. ASSUME NEW d, IsFiniteSet(Slots(d))
      PROVE  /\ IsFiniteSet(Slots(d)')
             /\ Cardinality(Slots(d)) = Cardinality(Slots(d)') + (IF c = d THEN 1 ELSE 0)
             /\ Cardinality(Slots(d)) \in Nat /\ Cardinality(Slots(d)') \in Nat
  <2>1. Taken(pipe, pipe', p, c)
    BY <1>1, <1>2, <1>3 DEF Taken
  <2>. QED
    BY <1>5, <2>1, SentSlots
<1> SUFFICES ASSUME NEW j \in Jobs PROVE Once(j)' /\ Finite(j)' /\ Bound(j)'
  BY DEF Counts
<1>6. Once(j) /\ Finite(j) /\ Bound(j)
  BY DEF CInv
<1>7. /\ IsFiniteSet(Slots(Push(j))') /\ IsFiniteSet(Slots(Add(j))')
      /\ Cardinality(Slots(Push(j))) = Cardinality(Slots(Push(j))') + (IF c = Push(j) THEN 1 ELSE 0)
      /\ Cardinality(Slots(Add(j))) = Cardinality(Slots(Add(j))') + (IF c = Add(j) THEN 1 ELSE 0)
      /\ Cardinality(Slots(Push(j))) \in Nat /\ Cardinality(Slots(Push(j))') \in Nat
      /\ Cardinality(Slots(Add(j))) \in Nat /\ Cardinality(Slots(Add(j))') \in Nat
  BY <1>5, <1>6 DEF Once, Finite
<1>8. Holders(j)' = Holders(j)
  BY <1>2, SameHolders
<1>9. Finite(j)'
  BY <1>6, <1>7, <1>8 DEF Finite
<1>10. list \in Seq(Jobs) /\ Cardinality(Places(list, j)) \in Nat
  BY <1>0, PlacesFinite DEF TInv, TypeOK
<1>11. /\ Cardinality(Places(list', j)) = Cardinality(Places(list, j)) + (IF c = Push(j) THEN 1 ELSE 0)
       /\ scheduled' = scheduled \/ (c = Add(k) /\ scheduled' = scheduled \cup {k})
  <2>1. CASE c = Push(k)
    <3>1. list' = <<k>> \o list /\ scheduled' = scheduled
      BY <1>2, <1>3, <2>1 DEF Execute, Push
    <3>2. c = Push(j) <=> k = j
      BY <2>1 DEF Push
    <3>3. Cardinality(Places(<<k>> \o list, j)) = Cardinality(Places(list, j)) + (IF k = j THEN 1 ELSE 0)
      BY <1>10, PlacesPush
    <3>. QED
      BY <3>1, <3>2, <3>3
  <2>2. CASE c = Add(k)
    <3>1. list' = list /\ scheduled' = scheduled \cup {k}
      BY <1>2, <1>3, <1>4, <2>2 DEF Execute, Add
    <3>2. c # Push(j)
      BY <2>2 DEF Push, Add
    <3>. QED
      BY <1>10, <2>2, <3>1, <3>2
  <2>. QED
    BY <1>4, <2>1, <2>2
<1>12. Copies(j)' = Copies(j)
  <2>1. /\ given[j] \in Nat /\ Cardinality(Holders(j)) \in Nat
        /\ Copies(j) = given[j] + Cardinality(Places(list, j)) + Cardinality(Holders(j)) + Cardinality(Slots(Push(j)))
        /\ Copies(j)' = given[j] + Cardinality(Places(list', j)) + Cardinality(Holders(j)) + Cardinality(Slots(Push(j))')
    BY <1>0, <1>2, <1>6, <1>8, <1>9, Tally
  <2>2. PICK x \in {0, 1} : x = IF c = Push(j) THEN 1 ELSE 0
    OBVIOUS
  <2>3. /\ Cardinality(Slots(Push(j))) = Cardinality(Slots(Push(j))') + x
        /\ Cardinality(Places(list', j)) = Cardinality(Places(list, j)) + x
    BY <1>7, <1>11, <2>2
  <2>4. Cardinality(Slots(Push(j))') \in Nat
    BY <1>7
  <2>. QED
    BY <1>10, <2>1, <2>3, <2>4
<1>n. Copies(j) \in Nat
  BY <1>0, <1>6, <1>9, Tally
<1>13. CASE c # Add(j)
  <2>1. j \in scheduled' => j \in scheduled
    BY <1>11, <1>13
  <2>2. Cardinality(Slots(Add(j))') <= Cardinality(Slots(Add(j)))
    BY <1>7
  <2>3. Calm(j)
    BY <1>0, <1>2, <1>7, <1>9, <1>12, <1>n, <2>1, <2>2 DEF Calm, Turn
  <2>4. Waits(j)
    BY <1>2 DEF Waits, Turn
  <2>. QED
    BY <1>9, <2>3, <2>4, CalmKeeps
<1>14. CASE c = Add(j)
  <2>1. Slots(Add(j)) # {} /\ Slots(Add(j))' = {}
    <3>1. Cardinality(Slots(Add(j))) <= 1
      BY <1>6 DEF Once
    <3>2. Cardinality(Slots(Add(j))) = 1 /\ Cardinality(Slots(Add(j))') = 0
      BY <1>7, <1>14, <3>1
    <3>3. Cardinality({}) = 0
      BY FS_EmptySet
    <3>4. Cardinality(Slots(Add(j))') = 0 => Slots(Add(j))' = {}
      BY <1>7, FS_EmptySet
    <3>. QED
      BY <3>2, <3>3, <3>4
  <2>2. Eta[j] # 0 /\ answer[j] # "none"
    BY <1>6, <2>1 DEF Once
  <2>3. Once(j)'
    <3>1. Cardinality(Slots(Add(j))') <= 1
      BY <2>1, FS_EmptySet
    <3>. QED
      BY <1>2, <1>7, <2>1, <2>2, <3>1 DEF Once
  <2>4. MayPush(j)' \subseteq MayPush(j)
    <3>1. Coming(j)
      BY <2>1 DEF Coming
    <3>. QED
      BY <1>2, <3>1 DEF MayPush, Turn
  <2>5. Bound(j)'
    BY <1>0, <1>2, <1>6, <1>9, <1>12, <1>n, <2>4, Balance
  <2>. QED
    BY <1>9, <2>3, <2>5
<1>. QED
  BY <1>13, <1>14

LEMMA EnqueueCounts ==
  ASSUME CInv, TInv', IsFiniteSet(Servers), NEW p \in Procs, NEW j \in Jobs, Enqueue(p, j)
  PROVE  Counts
<1>0. TInv /\ faults \in Nat
  BY FaultsNat DEF CInv, IInv
<1>1. /\ UNCHANGED <<consumer, poller, phase, given>>
      /\ answer[j] = "none" /\ answer'[j] # "none" /\ \A k \in Jobs \ {j} : answer'[k] = answer[k]
      /\ \/ Buffer(p, Command(j)) /\ UNCHANGED <<list, scheduled, faults>>
         \/ UNCHANGED <<pipe, list, scheduled>> /\ (faults' = faults \/ faults' = faults + 1)
         \/ UNCHANGED pipe /\ Execute(Command(j)) /\ (faults' = faults \/ faults' = faults + 1)
  BY <1>0 DEF Enqueue, EnqueuePiped, EnqueueNow, redis, Ends, Fault, TInv, TypeOK
<1>f. faults <= faults'
  BY <1>0, <1>1
<1>c. PICK c \in Commands : /\ c = Command(j) /\ \A k \in Jobs : c = Push(k) <=> k = j /\ Eta[j] = 0
                            /\ \A k \in Jobs : c = Add(k) <=> k = j /\ Eta[j] # 0
  BY CommandType DEF Command, Push, Add
<1>e. Execute(c) => /\ Eta[j] = 0 => list' = <<j>> \o list /\ scheduled' = scheduled
                    /\ Eta[j] # 0 => list' = list /\ scheduled' = scheduled \cup {j}
  BY <1>c DEF Execute, Command
<1>2. ASSUME NEW k \in Jobs
      PROVE  /\ TInv /\ Once(k) /\ Finite(k) /\ Bound(k)
             /\ list \in Seq(Jobs) /\ Cardinality(Places(list, k)) \in Nat
             /\ given[k] \in Nat /\ Cardinality(Holders(k)) \in Nat
             /\ Cardinality(Slots(Push(k))) \in Nat /\ Cardinality(Slots(Add(k))) \in Nat
             /\ IsFiniteSet(Slots(Push(k))) /\ IsFiniteSet(Slots(Add(k))) /\ Holders(k)' = Holders(k)
  <2>1. Once(k) /\ Finite(k) /\ Bound(k)
    BY DEF CInv
  <2>2. Holders(k)' = Holders(k)
    BY <1>1, SameHolders
  <2>3. IsFiniteSet(Holders(k)) /\ IsFiniteSet(Slots(Push(k))) /\ IsFiniteSet(Slots(Add(k)))
    BY <2>1 DEF Once, Finite
  <2>4. list \in Seq(Jobs) /\ given[k] \in Nat
    BY <1>0 DEF TInv, TypeOK
  <2>. QED
    BY <1>0, <2>1, <2>2, <2>3, <2>4, FS_CardinalityType, PlacesFinite
<1>3. ASSUME NEW k \in Jobs \ {j} PROVE Once(k)' /\ Finite(k)' /\ Bound(k)'
  <2>1. Slots(Push(k))' = Slots(Push(k)) /\ Slots(Add(k))' = Slots(Add(k))
    <3>1. c # Push(k) /\ c # Add(k)
      BY <1>c
    <3>2. CASE UNCHANGED pipe
      BY <3>2, SameSlots
    <3>3. CASE Buffer(p, c)
      BY <1>2, <3>1, <3>3, BufferedSlots
    <3>. QED
      BY <1>1, <1>c, <3>2, <3>3
  <2>2. Cardinality(Places(list', k)) = Cardinality(Places(list, k)) /\ (k \in scheduled' => k \in scheduled)
    <3>1. CASE Execute(c)
      <4>1. Cardinality(Places(<<j>> \o list, k)) = Cardinality(Places(list, k)) + 0
        BY <1>2, PlacesPush
      <4>2. CASE Eta[j] = 0
        <5>1. list' = <<j>> \o list /\ scheduled' = scheduled
          BY <1>e, <3>1, <4>2
        <5>2. Cardinality(Places(list, k)) \in Nat
          BY <1>2
        <5>. QED
          BY <4>1, <5>1, <5>2
      <4>3. CASE Eta[j] # 0
        BY <1>e, <3>1, <4>3
      <4>. QED
        BY <4>2, <4>3
    <3>2. CASE UNCHANGED <<list, scheduled>>
      BY <3>2
    <3>. QED
      BY <1>1, <1>c, <3>1, <3>2
  <2>3. IsFiniteSet(Holders(k)') /\ Finite(k)'
    BY <1>2, <2>1 DEF Finite
  <2>4. given'[k] + Cardinality(Places(list', k)) + Cardinality(Holders(k)')
          <= given[k] + Cardinality(Places(list, k)) + Cardinality(Holders(k))
    BY <1>1, <1>2, <2>2
  <2>5. Cardinality(Slots(Push(k))') <= Cardinality(Slots(Push(k)))
        /\ Cardinality(Slots(Add(k))') <= Cardinality(Slots(Add(k)))
    BY <1>2, <2>1
  <2>6. Calm(k)
    BY <1>1, <1>2, <1>f, <2>1, <2>2, <2>3, <2>4, <2>5, CalmParts DEF Turn
  <2>7. Waits(k)
    BY <1>1 DEF Waits, Turn
  <2>. QED
    BY <2>3, <2>6, <2>7, CalmKeeps
<1>4. Once(j)' /\ Finite(j)' /\ Bound(j)'
  <2>1. /\ Slots(Add(j)) = {} /\ j \notin scheduled
        /\ \A q \in Procs : ~Turn(q, "push", j) /\ ~Turn(q, "remove", j)
    BY <1>1, <1>2 DEF Once
  <2>2. \A q \in Procs : ~Turn(q, "push", j)' /\ ~Turn(q, "remove", j)'
    BY <1>1, <2>1 DEF Turn
  <2>3. MayPush(j)' \subseteq MayPush(j)
    BY <1>1, <2>1, <2>2, RedisAssumption DEF MayPush, Coming
  <2>4. Cardinality(Slots(Add(j))) = 0
    BY <2>1, FS_EmptySet
  <2>5. CASE UNCHANGED pipe
    <3>1. Slots(Push(j))' = Slots(Push(j)) /\ Slots(Add(j))' = Slots(Add(j))
      BY <2>5, SameSlots
    <3>2. Finite(j)'
      BY <1>2, <3>1 DEF Finite
    <3>3. Once(j)'
      <4>1. j \in scheduled' => Eta[j] # 0
        BY <1>1, <1>c, <1>e, <2>1
      <4>2. IsFiniteSet(Slots(Add(j))') /\ Cardinality(Slots(Add(j))') <= 1
        BY <1>2, <2>4, <3>1
      <4>. QED
        BY <1>1, <2>1, <2>2, <3>1, <4>1, <4>2 DEF Once
    <3>4. /\ Copies(j) = given[j] + Cardinality(Places(list, j)) + Cardinality(Holders(j)) + Cardinality(Slots(Push(j)))
          /\ Copies(j)' = given[j] + Cardinality(Places(list', j)) + Cardinality(Holders(j)) + Cardinality(Slots(Push(j)))
      BY <1>0, <1>1, <1>2, <3>1, <3>2, Tally
    <3>5. CASE Execute(c)
      <4>1. Cardinality(Places(<<j>> \o list, j)) = Cardinality(Places(list, j)) + 1
        BY <1>2, PlacesPush
      <4>2. /\ Eta[j] = 0 => Copies(j)' <= Copies(j) + 1
            /\ Eta[j] # 0 => Copies(j)' <= Copies(j)
        <5>1. CASE Eta[j] = 0
          <6>1. Cardinality(Places(list', j)) = Cardinality(Places(list, j)) + 1
            BY <1>e, <3>5, <4>1, <5>1
          <6>. QED
            BY <1>2, <3>4, <5>1, <6>1
        <5>2. CASE Eta[j] # 0
          <6>1. list' = list
            BY <1>e, <3>5, <5>2
          <6>. QED
            BY <1>2, <3>4, <5>2, <6>1
        <5>. QED
          BY <5>1, <5>2
      <4>. QED
        BY <1>0, <1>1, <1>2, <1>f, <2>3, <3>2, <3>3, <4>2, Balance
    <3>6. CASE UNCHANGED <<list, scheduled>>
      <4>1. Copies(j)' <= Copies(j)
        BY <1>2, <3>4, <3>6
      <4>. QED
        BY <1>0, <1>1, <1>2, <1>f, <2>3, <3>2, <3>3, <4>1, Balance
    <3>. QED
      BY <1>1, <1>c, <3>5, <3>6
  <2>6. CASE Buffer(p, c) /\ UNCHANGED <<list, scheduled>>
    <3>1. /\ Slots(Push(j))' = Slots(Push(j)) \/ (Eta[j] = 0 /\ IsFiniteSet(Slots(Push(j))')
               /\ Cardinality(Slots(Push(j))') = Cardinality(Slots(Push(j))) + 1)
          /\ Slots(Add(j))' = Slots(Add(j)) \/ (Eta[j] # 0 /\ IsFiniteSet(Slots(Add(j))')
               /\ Cardinality(Slots(Add(j))') = Cardinality(Slots(Add(j))) + 1)
      BY <1>2, <1>c, <2>6, BufferedSlots
    <3>2. Finite(j)'
      BY <1>2, <3>1 DEF Finite
    <3>3. Once(j)'
      <4>1. IsFiniteSet(Slots(Add(j))') /\ Cardinality(Slots(Add(j))') <= 1
        BY <1>2, <2>4, <3>1
      <4>2. Slots(Add(j))' # {} => Eta[j] # 0
        BY <2>1, <3>1
      <4>. QED
        BY <1>1, <2>1, <2>2, <2>6, <4>1, <4>2 DEF Once
    <3>4. /\ Copies(j) = given[j] + Cardinality(Places(list, j)) + Cardinality(Holders(j)) + Cardinality(Slots(Push(j)))
          /\ Copies(j)' = given[j] + Cardinality(Places(list, j)) + Cardinality(Holders(j)) + Cardinality(Slots(Push(j))')
      BY <1>0, <1>1, <1>2, <2>6, <3>2, Tally
    <3>5. Copies(j)' <= Copies(j) \/ (Eta[j] = 0 /\ Copies(j)' <= Copies(j) + 1)
      BY <1>2, <3>1, <3>4
    <3>. QED
      BY <1>0, <1>1, <1>2, <1>f, <2>3, <3>2, <3>3, <3>5, Balance
  <2>. QED
    BY <1>1, <1>c, <2>5, <2>6
<1>. QED
  BY <1>3, <1>4 DEF Counts

LEMMA PollingKeeps == ASSUME TInv, Polling, [Next]_vars PROVE Polling'
<1>1. CASE UNCHANGED poller
  BY <1>1 DEF Polling
<1>2. ASSUME NEW p \in Procs, Exit(p) \/ Crash(p) PROVE Polling'
  <2>1. poller' = [poller EXCEPT ![p] = At("off")]
    BY <1>2 DEF Exit, Crash, Ended
  <2>. QED
    BY <2>1 DEF Polling, TInv, TypeOK, At
<1>3. ASSUME NEW p \in Procs, Start(p) \/ PollerStop(p) \/ Fetch(p) PROVE Polling'
  BY <1>3 DEF Start, PollerStop, Fetch, Polling, TInv, TypeOK, At
<1>4. ASSUME NEW p \in Procs, PushPiped(p) \/ \E r \in Replies : PushNow(p, r) \/ ZRem(p, r)
      PROVE  Polling'
  BY <1>4 DEF PushPiped, PushNow, ZRem, Then, Polling, TInv, TypeOK, At
<1>5. ASSUME NEW p \in Procs, \/ \E j \in Jobs : Enqueue(p, j)
                              \/ ExecPipe(p) \/ ExecFails(p) \/ Consume(p) \/ Cancel(p)
      PROVE  UNCHANGED poller
  BY <1>5 DEF Enqueue, EnqueuePiped, EnqueueNow, ExecPipe, Exec, Send, ExecFails,
              Consume, Hand, Stop, Pop, Cancel
<1>. QED
  BY <1>1, <1>2, <1>3, <1>4, <1>5 DEF Next, ConsumeScheduled, Tick, vars

(***************************************************************************)
(* The copies of a message and the servers that may still push it are      *)
(* never more than the servers and the faults, a message without an ETA    *)
(* has one copy, and nothing gets into the sorted set twice, in every      *)
(* reachable state (Enqueue, execPipe, consumeScheduled).                  *)
(***************************************************************************)
THEOREM Counted == ASSUME IsFiniteSet(Servers) PROVE Spec => []CInv
<1>1. Init => Polling /\ \A j \in Jobs : Once(j) /\ Finite(j) /\ Bound(j)
  <2> SUFFICES ASSUME Init, NEW j \in Jobs PROVE Once(j) /\ Finite(j) /\ Bound(j)
    BY DEF Init, Polling, At
  <2>1. Places(<<>>, j) = {} /\ \A c : Slots(c) = {}
    <3>1. \A c : Places(<<>>, c) = {}
      BY DEF Places
    <3>2. \A p \in Procs : pipe[p].cmds = <<>>
      BY DEF Init, NoPipe
    <3>. QED
      BY <3>1, <3>2 DEF Slots
  <2>2. Holders(j) = {}
    BY DEF Init, Holders, Held, At
  <2>3. IsFiniteSet({}) /\ Cardinality({}) = 0
    BY FS_EmptySet
  <2>4. \A p \in Procs : ~Turn(p, "push", j) /\ ~Turn(p, "remove", j)
    BY DEF Init, At, Turn
  <2>5. Once(j) /\ Finite(j)
    <3>1. Slots(Add(j)) = {} /\ Slots(Push(j)) = {} /\ scheduled = {}
      BY <2>1 DEF Init
    <3>2. Cardinality(Slots(Add(j))) <= 1
      BY <2>3, <3>1
    <3>. QED
      BY <2>2, <2>3, <2>4, <3>1, <3>2 DEF Once, Finite
  <2>6. Copies(j) = 0
    <3>1. given[j] = 0 /\ list = <<>> /\ Slots(Push(j)) = {}
      BY <2>1 DEF Init
    <3>2. Copies(j) = given[j] + Cardinality(Places(list, j)) + Cardinality(Holders(j)) + Cardinality(Slots(Push(j)))
      BY DEF Copies, Holders, Push
    <3>. QED
      BY <2>1, <2>2, <2>3, <3>1, <3>2
  <2>7. Cardinality(MayPush(j)) <= Cardinality(Servers) /\ Cardinality(MayPush(j)) \in Nat
        /\ Cardinality(Servers) \in Nat
    <3>1. MayPush(j) \subseteq Servers
      BY DEF MayPush
    <3>. QED
      BY <3>1, Smaller
  <2>8. faults = 0 /\ answer[j] = "none"
    BY DEF Init
  <2>. QED
    BY <2>5, <2>6, <2>7, <2>8 DEF Bound
<1>2. IInv /\ CInv /\ IInv' /\ [Next]_vars => CInv'
  <2> SUFFICES ASSUME CInv, IInv', [Next]_vars PROVE Polling' /\ Counts
    BY DEF CInv, Counts
  <2>1. TInv /\ TInv' /\ Polling
    BY DEF CInv, IInv
  <2>2. Polling'
    BY <2>1, PollingKeeps
  <2>3. Counts
    <3>1. CASE UNCHANGED vars \/ Tick
      BY <2>1, <3>1, SettledSteps
    <3>2. ASSUME NEW p \in Procs, \E j \in Jobs : Enqueue(p, j) PROVE Counts
      BY <2>1, <3>2, EnqueueCounts
    <3>3. ASSUME NEW p \in Procs, ExecPipe(p) \/ ExecFails(p) PROVE Counts
      BY <2>1, <3>3, SettledSteps, SendCounts DEF ExecPipe
    <3>4. ASSUME NEW p \in Procs, Start(p) \/ Cancel(p) \/ Exit(p) \/ Crash(p) PROVE Counts
      BY <2>1, <3>4, SettledSteps, CrashCounts
    <3>5. ASSUME NEW p \in Procs, Consume(p) PROVE Counts
      BY <2>1, <3>5, SettledSteps, HandCounts, PopCounts DEF Consume
    <3>6. ASSUME NEW p \in Procs, ConsumeScheduled(p) PROVE Counts
      BY <2>1, <3>6, SettledSteps, FetchCounts, PushPipedCounts, PushNowCounts, ZRemCounts
         DEF ConsumeScheduled
    <3>. QED
      BY <3>1, <3>2, <3>3, <3>4, <3>5, <3>6 DEF Next
  <2>. QED
    BY <2>2, <2>3
<1>3. Spec => []IInv
  BY Inductive
<1>4. Init /\ IInv => CInv
  BY <1>1 DEF CInv
<1>. QED
  BY <1>2, <1>3, <1>4, PTL DEF Spec

(***************************************************************************)
(* A message without an ETA is never duplicated; one with an ETA has no    *)
(* more copies than there are servers and faults: between the push and the *)
(* removal each server pushes it once at most, and once more for each      *)
(* failed call and each death (consumeScheduled).                          *)
(***************************************************************************)
THEOREM Copied == ASSUME IsFiniteSet(Servers) PROVE Spec => []CopiesBounded
<1>1. CInv => CopiesBounded
  <2> SUFFICES ASSUME CInv PROVE CopiesBounded
    OBVIOUS
  <2>1. TypeOK /\ faults \in Nat /\ Cardinality(Servers) \in Nat
    BY FaultsNat, FS_CardinalityType DEF CInv, IInv, TInv
  <2>2. ASSUME NEW j \in Jobs
        PROVE  Copies(j) <= IF Eta[j] = 0 THEN 1 ELSE Cardinality(Servers) + faults
    <3>1. Bound(j) /\ Finite(j)
      BY DEF CInv
    <3>2. Copies(j) \in Nat
      <4>1. given[j] \in Nat /\ Cardinality(Places(list, j)) \in Nat
        BY <2>1, PlacesFinite DEF TypeOK
      <4>2. Cardinality(Holders(j)) \in Nat /\ Cardinality(Slots(Push(j))) \in Nat
        BY <3>1, FS_CardinalityType DEF Finite
      <4>. QED
        BY <4>1, <4>2 DEF Copies, Holders, Push
    <3>3. Cardinality(MayPush(j)) \in Nat
      <4>1. MayPush(j) \subseteq Servers
        BY DEF MayPush
      <4>. QED
        BY <4>1, Smaller
    <3>4. CASE Eta[j] = 0
      BY <3>1, <3>2, <3>4 DEF Bound
    <3>5. CASE Eta[j] # 0
      <4>1. Copies(j) + Cardinality(MayPush(j)) <= Cardinality(Servers) + faults
        BY <3>1, <3>5 DEF Bound
      <4>. QED
        BY <2>1, <3>2, <3>3, <3>5, <4>1
    <3>. QED
      BY <3>4, <3>5
  <2>. QED
    BY <2>1, <2>2 DEF CopiesBounded
<1>. QED
  BY <1>1, Counted, PTL

-----------------------------------------------------------------------------
(* The queue of the messages without an ETA is a Broker.                   *)

OneServer == \A p, q \in Servers : p = q

Serving == \A p \in Procs : consumer[p].pc # "off" => p \in Servers

LEMMA ServingKeeps == ASSUME TInv, Serving, [Next]_vars PROVE Serving'
<1>1. CASE UNCHANGED consumer
  BY <1>1 DEF Serving
<1>2. ASSUME NEW p \in Procs, Exit(p) \/ Crash(p) PROVE Serving'
  <2>1. consumer' = [consumer EXCEPT ![p] = At("off")]
    BY <1>2 DEF Exit, Crash, Ended
  <2>. QED
    BY <2>1 DEF Serving, TInv, TypeOK, At
<1>3. ASSUME NEW p \in Procs, Start(p) \/ Consume(p) PROVE Serving'
  <2>1. CASE Start(p)
    BY <2>1 DEF Start, Serving, TInv, TypeOK, At
  <2>2. CASE Consume(p)
    <3>1. consumer[p].pc # "off" /\ \E s : consumer' = [consumer EXCEPT ![p] = s]
      BY <2>2 DEF Consume, Hand, Stop, Pop
    <3>. QED
      BY <3>1 DEF Serving, TInv, TypeOK
  <2>. QED
    BY <1>3, <2>1, <2>2
<1>4. ASSUME NEW p \in Procs, \/ \E j \in Jobs : Enqueue(p, j)
                              \/ ExecPipe(p) \/ ExecFails(p) \/ ConsumeScheduled(p) \/ Cancel(p)
      PROVE  UNCHANGED consumer
  BY <1>4 DEF Enqueue, EnqueuePiped, EnqueueNow, ExecPipe, Exec, Send, ExecFails, Cancel,
              ConsumeScheduled, Fetch, PushPiped, PollerStop, PushNow, ZRem
<1>. QED
  BY <1>1, <1>2, <1>3, <1>4 DEF Next, Tick, vars

LEMMA AtMostOne ==
  ASSUME NEW S, IsFiniteSet(S), Cardinality(S) <= 1, NEW x \in S, NEW y \in S
  PROVE  x = y
<1>1. IsFiniteSet(S \ {x}) /\ Cardinality(S \ {x}) = Cardinality(S) - 1 /\ Cardinality(S) \in Nat
  BY FS_RemoveElement, FS_CardinalityType
<1>2. Cardinality(S \ {x}) \in Nat
  BY <1>1, FS_CardinalityType
<1>3. Cardinality(S \ {x}) = 0
  BY <1>1, <1>2
<1>4. S \ {x} = {}
  BY <1>1, <1>3, FS_EmptySet
<1>. QED
  BY <1>4

(* What a pipe holds of a message without an ETA is a push.                *)
LEMMA PlainInPipe ==
  ASSUME CInv, NEW j \in Plain, NEW p \in Procs
  PROVE  /\ j \in InPipe(p) <=> Push(j) \in Cmds(p)
         /\ Add(j) \notin Cmds(p)
         /\ Push(j) \in Cmds(p) => Slots(Push(j)) # {}
<1>1. j \in Jobs /\ Eta[j] = 0 /\ Once(j) /\ pipe[p].cmds \in Seq(Commands)
  BY DEF Plain, CInv, IInv, TInv, TypeOK
<1>2. ASSUME NEW c \in Cmds(p) PROVE Slots(c) # {}
  <2>1. PICK i \in DOMAIN pipe[p].cmds : pipe[p].cmds[i] = c
    BY DEF Cmds, ToSet
  <2>2. i \in Places(pipe[p].cmds, c)
    BY <2>1 DEF Places
  <2>3. <<p, i>> \in Slots(c)
    BY <2>2 DEF Slots
  <2>. QED
    BY <2>3
<1>3. Add(j) \notin Cmds(p)
  BY <1>1, <1>2 DEF Once
<1>4. ASSUME NEW c \in Cmds(p), c.job = j PROVE c = Push(j)
  <2>1. c \in Commands
    BY <1>1, ToSetType DEF Cmds
  <2>2. c = [op |-> c.op, job |-> j] /\ c.op \in {"LPUSH", "ZADD"}
    BY <1>4, <2>1 DEF Commands
  <2>3. c # Add(j)
    BY <1>3
  <2>. QED
    BY <2>2, <2>3 DEF Push, Add
<1>5. Push(j).job = j
  BY DEF Push
<1>. QED
  BY <1>2, <1>3, <1>4, <1>5 DEF InPipe, Cmds

LEMMA OneCopy ==
  ASSUME CInv, NEW j \in Plain
  PROVE  /\ answer[j] = "none" => j \notin Waiting \cup Passing
         /\ j \in Waiting => j \notin Passing
         /\ j \in ToSet(list) => Cardinality(Places(list, j)) = 1 /\ \A p \in Procs : j \notin InPipe(p)
         /\ \A p, q \in Procs : j \in Held(p) /\ j \in Held(q) => p = q
<1>1. j \in Jobs /\ Eta[j] = 0 /\ Finite(j) /\ Bound(j) /\ TypeOK
  BY DEF Plain, CInv, IInv, TInv
<1> DEFINE inList == Cardinality(Places(list, j))
           inHand == Cardinality(Holders(j))
           inPipe == Cardinality(Slots(Push(j)))
<1>2. /\ given[j] \in Nat /\ inList \in Nat /\ inHand \in Nat /\ inPipe \in Nat
      /\ inList = 0 <=> Places(list, j) = {}
      /\ inHand = 0 <=> Holders(j) = {}
      /\ inPipe = 0 <=> Slots(Push(j)) = {}
  <2>1. IsFiniteSet(Places(list, j)) /\ inList \in Nat
    BY <1>1, PlacesFinite DEF TypeOK
  <2>2. IsFiniteSet(Holders(j)) /\ IsFiniteSet(Slots(Push(j)))
    BY <1>1 DEF Finite
  <2>3. \A S : IsFiniteSet(S) => Cardinality(S) \in Nat /\ (Cardinality(S) = 0 <=> S = {})
    BY FS_CardinalityType, FS_EmptySet
  <2>. QED
    BY <1>1, <2>1, <2>2, <2>3 DEF TypeOK
<1>3. Copies(j) = given[j] + inList + inHand + inPipe
  BY DEF Copies, Holders, Push
<1>4. given[j] + inList + inHand + inPipe <= IF answer[j] = "none" THEN 0 ELSE 1
  BY <1>1, <1>3 DEF Bound
<1>5. j \in ToSet(list) <=> Places(list, j) # {}
  BY DEF ToSet, Places
<1>6. \A p \in Procs : j \in Held(p) => p \in Holders(j)
  BY DEF Holders
<1>7. \A p \in Procs : j \in InPipe(p) => Slots(Push(j)) # {}
  BY PlainInPipe
<1>8. \A p, q \in Procs : j \in Held(p) /\ j \in Held(q) => p = q
  <2>1. IsFiniteSet(Holders(j)) /\ inHand <= 1
    BY <1>1, <1>2, <1>4 DEF Finite
  <2>. QED
    BY <1>6, <2>1, AtMostOne
<1>9. /\ inList # 0 => inHand = 0 /\ inPipe = 0 /\ inList = 1 /\ answer[j] # "none"
      /\ inPipe # 0 => inHand = 0 /\ answer[j] # "none"
      /\ inHand # 0 => answer[j] # "none"
  <2> HIDE DEF inList, inHand, inPipe
  <2>. QED
    BY <1>2, <1>4
<1>10. /\ j \in Waiting <=> j \in ToSet(list) \/ \E p \in Procs : j \in InPipe(p)
       /\ j \in Passing <=> \E p \in Procs : j \in Held(p)
  BY DEF Waiting, Passing
<1> HIDE DEF inList, inHand, inPipe
<1>11. j \in ToSet(list) => inList # 0
  BY <1>2, <1>5
<1>12. \A p \in Procs : (j \in InPipe(p) => inPipe # 0) /\ (j \in Held(p) => inHand # 0)
  BY <1>2, <1>6, <1>7
<1>13. j \in ToSet(list) => Cardinality(Places(list, j)) = 1
  BY <1>9, <1>11 DEF inList
<1>. QED
  BY <1>8, <1>9, <1>10, <1>11, <1>12, <1>13

(* A step of either abstract broker.                                       *)
Allowed == /\ [Shared!Next]_(Shared!vars)
           /\ OneServer => [Promised!Next]_(Promised!vars)

LEMMA Losing ==
  ASSUME Waiting' \subseteq Waiting, Passing' \subseteq Passing
  PROVE  Allowed
BY DEF Allowed, Shared!Next, Shared!Lose, Promised!Next, Promised!Lose

LEMMA Adding ==
  ASSUME NEW j \in Plain, j \notin Waiting \cup Passing, Waiting' = Waiting \cup {j}, Passing' = Passing
  PROVE  Allowed
BY DEF Allowed, Shared!Next, Shared!Enqueue, Promised!Next, Promised!Enqueue

LEMMA Taking ==
  ASSUME NEW j \in Plain, j \in Waiting, j \notin Passing, OneServer => Passing = {},
         Waiting' = Waiting \ {j}, Passing' = Passing \cup {j}
  PROVE  Allowed
<1>1. Shared!Take(j)
  BY DEF Shared!Take, OwnLane
<1>2. OneServer => Promised!Take(j)
  BY DEF Promised!Take
<1>. QED
  BY <1>1, <1>2 DEF Allowed, Shared!Next, Promised!Next

LEMMA WaitingIs ==
  /\ \A j : j \in Waiting <=>
       j \in Plain /\ (j \in ToSet(list) \/ \E p \in Procs : \E c \in Cmds(p) : c.job = j)
  /\ \A j : j \in Waiting' <=>
       j \in Plain /\ (j \in ToSet(list') \/ \E p \in Procs : \E c \in Cmds(p)' : c.job = j)
BY DEF Waiting, InPipe, Cmds

LEMMA SameHands ==
  /\ UNCHANGED consumer => Passing' = Passing
  /\ UNCHANGED pipe => \A p \in Procs : Cmds(p)' = Cmds(p)
BY DEF Passing, Held, Cmds

(* Enqueue adds a message without an ETA, once.                            *)
LEMMA EnqueueAllowed == ASSUME CInv, NEW p \in Procs, NEW j \in Jobs, Enqueue(p, j) PROVE Allowed
<1>1. TInv /\ TypeOK /\ Command(j) \in Commands /\ Command(j).job = j
  <2>1. Command(j).job = j
    BY DEF Command
  <2>. QED
    BY <2>1, CommandType DEF CInv, IInv, TInv
<1>2. /\ answer[j] = "none" /\ UNCHANGED consumer
      /\ \/ Buffer(p, Command(j)) /\ UNCHANGED list
         \/ UNCHANGED pipe /\ (Execute(Command(j)) \/ UNCHANGED list)
  BY DEF Enqueue, EnqueuePiped, EnqueueNow, redis
<1>3. Passing' = Passing
  BY <1>2, SameHands
<1>4. UNCHANGED pipe /\ UNCHANGED list => Waiting' = Waiting
  BY SameHands, WaitingIs
<1>5. ASSUME ~(UNCHANGED pipe /\ UNCHANGED list)
      PROVE  \A k : k \in Waiting' <=> k \in Waiting \/ (k = j /\ j \in Plain)
  <2>1. CASE Buffer(p, Command(j)) /\ UNCHANGED list
    <3>1. Cmds(p)' = Cmds(p) \cup {Command(j)} /\ \A q \in Procs : q # p => Cmds(q)' = Cmds(q)
      BY <1>1, <2>1, Buffered
    <3>. QED
      BY <1>1, <2>1, <3>1, WaitingIs
  <2>2. CASE UNCHANGED pipe /\ Execute(Command(j))
    <3>1. \A q \in Procs : Cmds(q)' = Cmds(q)
      BY <2>2, SameHands
    <3>2. CASE Eta[j] = 0
      <4>1. ToSet(list') = {j} \cup ToSet(list)
        <5>1. list' = <<j>> \o list /\ list \in Seq(Jobs)
          BY <1>1, <2>2, <3>2 DEF Execute, Command, TypeOK
        <5>. QED
          BY <5>1, ToSetPush
      <4>2. j \in Plain
        BY <3>2 DEF Plain
      <4>. QED
        BY <3>1, <4>1, <4>2, WaitingIs
    <3>3. CASE Eta[j] # 0
      <4>1. list' = list
        BY <2>2, <3>3 DEF Execute, Command
      <4>. QED
        BY <1>5, <2>2, <4>1
    <3>. QED
      BY <3>2, <3>3
  <2>. QED
    BY <1>2, <1>5, <2>1, <2>2
<1>6. CASE j \in Plain
  <2>1. j \notin Waiting \cup Passing
    BY <1>2, <1>6, OneCopy
  <2>2. CASE UNCHANGED pipe /\ UNCHANGED list
    BY <1>3, <1>4, <2>2, Losing
  <2>3. CASE ~(UNCHANGED pipe /\ UNCHANGED list)
    <3>1. Waiting' = Waiting \cup {j}
      BY <1>5, <1>6, <2>3
    <3>. QED
      BY <1>3, <1>6, <2>1, <3>1, Adding
  <2>. QED
    BY <2>2, <2>3
<1>7. CASE j \notin Plain
  <2>1. Waiting' = Waiting
    BY <1>4, <1>5, <1>7
  <2>. QED
    BY <1>3, <2>1, Losing
<1>. QED
  BY <1>6, <1>7

(* execPipe moves a message from the pipe to the list, or loses it.        *)
LEMMA PipeAllowed ==
  ASSUME CInv, NEW p \in Procs, ExecPipe(p) \/ ExecFails(p)
  PROVE  Allowed
<1>1. TInv /\ TypeOK
  BY DEF CInv, IInv, TInv
<1>2. UNCHANGED consumer
  BY DEF ExecPipe, Exec, Send, ExecFails
<1>3. Passing' = Passing
  BY <1>2, SameHands
<1>4. CASE Exec(p)
  <2>1. pipe'[p].cmds = pipe[p].cmds /\ list' = list /\ \A q \in Procs : q # p => pipe'[q] = pipe[q]
    BY <1>1, <1>4 DEF Exec, redis, TypeOK
  <2>2. \A q \in Procs : Cmds(q)' = Cmds(q)
    BY <2>1 DEF Cmds
  <2>3. Waiting' = Waiting
    BY <2>1, <2>2, WaitingIs
  <2>. QED
    BY <1>3, <2>3, Losing
<1>5. CASE Send(p)
  <2>1. PICK s \in Seq(Commands) : s = pipe[p].cmds /\ s # <<>>
    BY <1>1, <1>5 DEF Send, TInv, TypeOK
  <2>2. PICK c \in Commands : c = Head(s) /\ ToSet(s) = {c} \cup ToSet(Tail(s))
    BY <2>1, ToSetTail
  <2>3. Execute(c) /\ pipe'[p].cmds = Tail(s) /\ \A q \in Procs : q # p => pipe'[q] = pipe[q]
    BY <1>1, <1>5, <2>1, <2>2 DEF Send, TypeOK
  <2>4. Cmds(p) = {c} \cup Cmds(p)' /\ \A q \in Procs : q # p => Cmds(q)' = Cmds(q)
    BY <2>1, <2>2, <2>3 DEF Cmds
  <2>5. ToSet(list') \subseteq {c.job} \cup ToSet(list)
    BY <1>1, <2>3, Executed
  <2>6. \A k \in Waiting' : k \in Waiting
    BY <2>4, <2>5, WaitingIs
  <2>. QED
    BY <1>3, <2>6, Losing
<1>6. CASE ExecFails(p)
  <2>1. list' = list /\ pipe' = [pipe EXCEPT ![p] = NoPipe]
    BY <1>6 DEF ExecFails, redis
  <2>2. Cmds(p)' = {} /\ \A q \in Procs : q # p => Cmds(q)' = Cmds(q)
    BY <1>1, <2>1, NoPipeEmpty
  <2>3. \A k \in Waiting' : k \in Waiting
    BY <2>1, <2>2, WaitingIs
  <2>. QED
    BY <1>3, <2>3, Losing
<1>. QED
  BY <1>4, <1>5, <1>6 DEF ExecPipe

(* BLPOP takes a message, or loses it.                                     *)
LEMMA PopAllowed ==
  ASSUME CInv, Serving, NEW p \in Procs, NEW r \in Replies, Pop(p, r)
  PROVE  Allowed
<1>1. TypeOK /\ UNCHANGED pipe /\ consumer[p].pc = "loop"
  BY DEF CInv, IInv, TInv, Pop
<1>2. PICK x \in Jobs : x = Head(list)
  BY <1>1, ToSetTail DEF Pop, TypeOK
<1>3. list \in Seq(Jobs) /\ list # <<>> /\ list' = Tail(list) /\ ToSet(list) = {x} \cup ToSet(list')
  BY <1>1, <1>2, ToSetTail DEF Pop, TypeOK
<1>4. \A q \in Procs : Cmds(q)' = Cmds(q)
  BY <1>1, SameHands
<1>5. Waiting' \subseteq Waiting
  BY <1>3, <1>4, WaitingIs
<1>6. consumer \in [Procs -> ConsumerState] /\ \A q \in Procs \ {p} : consumer'[q] = consumer[q]
  BY <1>1 DEF TypeOK, ConsumerState, Pop
<1>7. Held(p) = {} /\ \A q \in Procs \ {p} : Held(q)' = Held(q)
  BY <1>1, <1>6 DEF Held
<1>8. CASE r = "ok"
  <2>1. Held(p)' = {x}
    BY <1>2, <1>6, <1>8 DEF Pop, Held, ConsumerState
  <2>2. \A k : k \in Passing' <=> k \in Passing \/ (k = x /\ x \in Plain)
    BY <1>7, <2>1 DEF Passing
  <2>3. CASE x \notin Plain
    BY <1>5, <2>2, <2>3, Losing
  <2>4. CASE x \in Plain
    <3>1. x \in ToSet(list) /\ x \in Waiting
      BY <1>3, <2>4, WaitingIs
    <3>2. /\ x \notin Passing /\ Cardinality(Places(list, x)) = 1
          /\ \A q \in Procs : x \notin InPipe(q)
      BY <2>4, <3>1, OneCopy
    <3>3. x \notin ToSet(list')
      <4>1. PICK n : n = Cardinality(Places(Tail(list), x))
        OBVIOUS
      <4>2. Cardinality(Places(list, x)) = n + 1
        <5>1. Cardinality(Places(list, x)) = n + (IF Head(list) = x THEN 1 ELSE 0)
          BY <1>3, <4>1, PlacesTail
        <5>. QED
          BY <1>2, <5>1
      <4>3. IsFiniteSet(Places(Tail(list), x)) /\ n \in Nat
        <5>1. Tail(list) \in Seq(Jobs)
          BY <1>3, ToSetTail
        <5>. QED
          BY <4>1, <5>1, PlacesFinite
      <4>4. n = 0
        BY <3>2, <4>2, <4>3
      <4>5. Places(Tail(list), x) = {}
        BY <4>1, <4>3, <4>4, FS_EmptySet
      <4>. QED
        BY <1>3, <4>5 DEF Places, ToSet
    <3>4. \A q \in Procs : \A c \in Cmds(q) : c.job # x
      BY <3>2 DEF InPipe, Cmds
    <3>5. Waiting' = Waiting \ {x}
      BY <1>3, <1>4, <3>3, <3>4, WaitingIs
    <3>6. Passing' = Passing \cup {x}
      BY <2>2, <2>4
    <3>7. OneServer => Passing = {}
      <4>1. \A q \in Procs : consumer[q].pc = "hand" => consumer[q].pc # "off"
        OBVIOUS
      <4>2. OneServer => \A q \in Procs : consumer[q].pc = "hand" => q = p
        BY <1>1, <4>1 DEF Serving, OneServer
      <4>. QED
        BY <1>1, <4>2 DEF Passing, Held
    <3>. QED
      BY <2>4, <3>1, <3>2, <3>5, <3>6, <3>7, Taking
  <2>. QED
    BY <2>3, <2>4
<1>9. CASE r # "ok"
  <2>1. Held(p)' = {}
    BY <1>6, <1>9 DEF Pop, Held, ConsumerState, Loop, At
  <2>2. Passing' \subseteq Passing
    BY <1>7, <2>1 DEF Passing
  <2>. QED
    BY <1>5, <2>2, Losing
<1>. QED
  BY <1>8, <1>9

(* A worker takes a message; a server starts or stops; a process ends.     *)
LEMMA ConsumerAllowed ==
  ASSUME CInv, NEW p \in Procs, Hand(p) \/ Stop(p) \/ Start(p) \/ Exit(p) \/ Crash(p)
  PROVE  Allowed
<1>1. TInv /\ TypeOK /\ list' = list
  BY DEF CInv, IInv, TInv, Hand, Stop, Start, Exit, Crash, Ended, redis
<1>2. \A q \in Procs : Cmds(q)' \subseteq Cmds(q)
  <2>1. CASE UNCHANGED pipe
    BY <2>1, SameHands
  <2>2. CASE pipe' = [pipe EXCEPT ![p] = NoPipe]
    BY <1>1, <2>2, NoPipeEmpty
  <2>. QED
    BY <2>1, <2>2 DEF Hand, Stop, Start, Exit, Crash, Ended
<1>3. Waiting' \subseteq Waiting
  BY <1>1, <1>2, WaitingIs
<1>4. \A q \in Procs : Held(q)' \subseteq Held(q)
  <2>1. PICK s : consumer' = [consumer EXCEPT ![p] = s] /\ s.pc # "hand"
    <3>1. At("off").pc # "hand" /\ Loop(p).pc # "hand" /\ At("loop").pc # "hand"
      BY DEF At, Loop
    <3>. QED
      BY <3>1 DEF Hand, Stop, Start, Exit, Crash, Ended
  <2>. QED
    BY <1>1, <2>1 DEF Held, TypeOK
<1>5. Passing' \subseteq Passing
  BY <1>4 DEF Passing
<1>. QED
  BY <1>3, <1>5, Losing

(* consumeScheduled pushes no message without an ETA.                      *)
LEMMA PollerAllowed == ASSUME CInv, NEW p \in Procs, ConsumeScheduled(p) PROVE Allowed
<1>1. TInv /\ TypeOK /\ UNCHANGED consumer
  BY DEF CInv, IInv, TInv, ConsumeScheduled, Fetch, PushPiped, PollerStop, PushNow, ZRem
<1>2. Passing' = Passing
  BY <1>1, SameHands
<1>3. ASSUME poller[p].pc = "push"
      PROVE  poller[p].msg \in Jobs /\ poller[p].msg \notin Plain
  BY <1>1, <1>3 DEF TInv, CInv, Once, Turn, Plain
<1>4. CASE UNCHANGED <<pipe, list>>
  <2>1. Waiting' = Waiting
    BY <1>4, SameHands, WaitingIs
  <2>. QED
    BY <1>2, <2>1, Losing
<1>5. CASE PushPiped(p)
  <2>1. PICK m \in Jobs \ Plain : m = poller[p].msg
    BY <1>3, <1>5 DEF PushPiped
  <2>2. Buffer(p, Push(m)) /\ list' = list
    BY <1>5, <2>1 DEF PushPiped, Push, redis
  <2>3. Cmds(p)' = Cmds(p) \cup {Push(m)} /\ \A q \in Procs : q # p => Cmds(q)' = Cmds(q)
    BY <1>1, <2>2, CommandType, Buffered
  <2>4. Push(m).job = m
    BY DEF Push
  <2>5. Waiting' = Waiting
    BY <2>1, <2>2, <2>3, <2>4, WaitingIs
  <2>. QED
    BY <1>2, <2>5, Losing
<1>6. ASSUME NEW r \in Replies, PushNow(p, r) PROVE Allowed
  <2>1. PICK m \in Jobs \ Plain : m = poller[p].msg
    BY <1>3, <1>6 DEF PushNow
  <2>2. UNCHANGED pipe /\ (list' = <<m>> \o list \/ list' = list) /\ list \in Seq(Jobs)
    BY <1>1, <1>6, <2>1 DEF PushNow, TypeOK
  <2>3. ToSet(list') = {m} \cup ToSet(list) \/ ToSet(list') = ToSet(list)
    BY <2>2, ToSetPush
  <2>4. \A q \in Procs : Cmds(q)' = Cmds(q)
    BY <2>2, SameHands
  <2>5. \A k \in Plain : k \in ToSet(list') <=> k \in ToSet(list)
    BY <2>1, <2>3
  <2>6. Waiting' = Waiting
    BY <2>4, <2>5, WaitingIs
  <2>. QED
    BY <1>2, <2>6, Losing
<1>. QED
  BY <1>4, <1>5, <1>6 DEF ConsumeScheduled, Fetch, PollerStop, ZRem, redis

(***************************************************************************)
(* Every command Redis executes, every answer that gets lost and every     *)
(* death is a step of the broker the workers rely on, or changes nothing   *)
(* there (all operations of brokers/redis/broker.go).                      *)
(***************************************************************************)
LEMMA Simulates == ASSUME CInv, Serving, [Next]_vars PROVE Allowed
<1>1. ASSUME UNCHANGED <<list, pipe, consumer>> PROVE Allowed
  <2>1. Waiting' = Waiting /\ Passing' = Passing
    BY <1>1, SameHands, WaitingIs
  <2>. QED
    BY <2>1, Losing
<1>2. CASE Tick \/ UNCHANGED vars
  BY <1>1, <1>2 DEF Tick, vars, redis
<1>3. ASSUME NEW p \in Procs, Cancel(p) PROVE Allowed
  BY <1>1, <1>3 DEF Cancel, redis
<1>4. ASSUME NEW p \in Procs, Consume(p) PROVE Allowed
  BY <1>4, ConsumerAllowed, PopAllowed DEF Consume
<1>5. ASSUME NEW p \in Procs, \/ \E j \in Jobs : Enqueue(p, j)
                              \/ ExecPipe(p) \/ ExecFails(p)
                              \/ Start(p) \/ ConsumeScheduled(p)
                              \/ Exit(p) \/ Crash(p)
      PROVE  Allowed
  BY <1>5, EnqueueAllowed, PipeAllowed, ConsumerAllowed, PollerAllowed
<1>. QED
  BY <1>2, <1>3, <1>4, <1>5 DEF Next

LEMMA InitNothing == Init => Serving /\ Waiting = {} /\ Passing = {}
<1> SUFFICES ASSUME Init PROVE Serving /\ Waiting = {} /\ Passing = {}
  OBVIOUS
<1>1. list = <<>> /\ \A p \in Procs : pipe[p].cmds = <<>> /\ consumer[p].pc = "off"
  BY DEF Init, NoPipe, At
<1>2. ToSet(list) = {} /\ \A p \in Procs : Cmds(p) = {}
  BY <1>1, ToSetEmpty DEF Cmds
<1>. QED
  BY <1>1, <1>2, WaitingIs DEF Serving, Passing, Held

LEMMA Started == Spec => []Serving
<1>1. Init => Serving
  BY InitNothing
<1>2. IInv /\ Serving /\ [Next]_vars => Serving'
  BY ServingKeeps DEF IInv
<1>. QED
  BY <1>1, <1>2, Inductive, PTL DEF Spec

(***************************************************************************)
(* The queue of the messages without an ETA is a broker that may lose      *)
(* messages, for any number of servers: one is added only while it is      *)
(* nowhere, never is in the queue and with a consumer at once, and goes    *)
(* from the queue to a consumer to a worker, never back (Enqueue,          *)
(* execPipe, Consume).                                                     *)
(***************************************************************************)
THEOREM SharedQueueIsABroker == ASSUME IsFiniteSet(Servers) PROVE Spec => ImplementsShared
<1>1. Init => Shared!Init
  BY InitNothing DEF Shared!Init
<1>2. CInv /\ Serving /\ [Next]_vars => [Shared!Next]_(Shared!vars)
  BY Simulates DEF Allowed
<1>. QED
  BY <1>1, <1>2, Counted, Started, PTL DEF Spec, ImplementsShared, Shared!Spec

(***************************************************************************)
(* With one server the Redis queue is the broker that JobLifecycle and the *)
(* in-memory broker are held against, but for its losses: one message at a *)
(* time waits for a worker (Consume's hand-over to the unbuffered channel).*)
(***************************************************************************)
THEOREM QueueIsABroker == ASSUME OneServer PROVE Spec => ImplementsBroker
<1>1. IsFiniteSet(Servers)
  <2>1. CASE Servers = {}
    BY <2>1, FS_EmptySet
  <2>2. CASE Servers # {}
    <3>1. PICK p : p \in Servers
      BY <2>2
    <3>2. Servers = {p}
      BY <3>1 DEF OneServer
    <3>. QED
      BY <3>2, FS_Singleton
  <2>. QED
    BY <2>1, <2>2
<1>2. Init => Promised!Init
  BY InitNothing DEF Promised!Init
<1>3. CInv /\ Serving /\ [Next]_vars => [Promised!Next]_(Promised!vars)
  BY Simulates DEF Allowed
<1>4. Spec => []CInv
  BY <1>1, Counted
<1>. QED
  BY <1>2, <1>3, <1>4, Started, PTL DEF Spec, ImplementsBroker, Promised!Spec

=============================================================================
