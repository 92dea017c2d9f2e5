------------------------- MODULE JobLifecycle_proofs --------------------------
(***************************************************************************)
(* Proofs about JobLifecycle, for every set of jobs, workers, queues and   *)
(* every mix of faults: types are right and IInv is inductive, so jobs     *)
(* have one holder, retries are bounded, the lists of finished jobs are    *)
(* right and final statuses stay; and every step is a step of JobStatus    *)
(* and of Broker, or a stutter.                                            *)
(***************************************************************************)
EXTENDS JobInvariant, TLAPS

-----------------------------------------------------------------------------
(* Types, and what a step does to a worker                                 *)

WorkerState == [pc : PC, msg : Msg \cup {NoMsg}, ok : BOOLEAN, i : Nat, res : Nat]
WorkerType == worker \in [Workers -> WorkerState]
Others(w) == \A v \in Workers : v # w => worker'[v] = worker[v]

LEMMA KidsType ==
  ASSUME NEW j \in Jobs, NEW ok \in BOOLEAN
  PROVE  /\ Kids(j, ok) \in Seq(Jobs)
         /\ \A k \in DOMAIN Kids(j, ok) : Kids(j, ok)[k] \in Jobs /\ k \in Nat
BY TypeAssumption DEF Kids

LEMMA NoMsgType == NoMsg.id = NoJob /\ NoMsg \notin Msg
BY TypeAssumption DEF NoMsg, Msg

LEMMA RestingType ==
  /\ Resting \in WorkerState
  /\ Resting.pc = "idle" /\ Resting.msg = NoMsg
BY DEF Resting, WorkerState, PC

(* What a step does to the worker that takes it, field by field.           *)
LEMMA RestFacts ==
  ASSUME WorkerType, NEW w \in Workers, Rest(w)
  PROVE  WorkerType' /\ Others(w) /\ worker'[w].pc = "idle"
BY RestingType DEF Rest, WorkerType, Others

LEMMA GotoFacts ==
  ASSUME WorkerType, NEW w \in Workers, NEW p \in PC, Goto(w, p)
  PROVE  /\ WorkerType' /\ Others(w)
         /\ worker'[w].pc = p
         /\ worker'[w].msg = worker[w].msg
         /\ worker'[w].ok = worker[w].ok
         /\ worker'[w].i = worker[w].i
         /\ worker'[w].res = worker[w].res
BY DEF Goto, WorkerType, WorkerState, Others

LEMMA DeliverFacts ==
  ASSUME WorkerType, NEW w \in Workers, NEW m \in Msg,
         worker' = [worker EXCEPT ![w] = [Resting EXCEPT !.pc = "recv", !.msg = m]]
  PROVE  /\ WorkerType' /\ Others(w)
         /\ worker'[w].pc = "recv"
         /\ worker'[w].msg = m
<1> DEFINE s == [Resting EXCEPT !.pc = "recv", !.msg = m]
<1>1. s \in WorkerState /\ s.pc = "recv" /\ s.msg = m
  BY DEF Resting, WorkerState, PC
<1>2. worker' = [worker EXCEPT ![w] = s]
  OBVIOUS
<1> HIDE DEF s
<1>. QED
  BY <1>1, <1>2 DEF WorkerType, Others

LEMMA FetchFacts ==
  ASSUME WorkerType, NEW w \in Workers, NEW n \in Nat,
         worker' = [worker EXCEPT ![w].pc = "spawn", ![w].res = n]
  PROVE  /\ WorkerType' /\ Others(w)
         /\ worker'[w].pc = "spawn"
         /\ worker'[w].msg = worker[w].msg
         /\ worker'[w].ok = worker[w].ok
         /\ worker'[w].i = worker[w].i
BY DEF WorkerType, WorkerState, Others, PC

LEMMA LoopFacts ==
  ASSUME WorkerType, NEW w \in Workers, NEW p \in PC, NEW i \in Nat,
         worker' = [worker EXCEPT ![w].pc = p, ![w].i = i, ![w].res = 0]
  PROVE  /\ WorkerType' /\ Others(w)
         /\ worker'[w].pc = p
         /\ worker'[w].msg = worker[w].msg
         /\ worker'[w].ok = worker[w].ok
         /\ worker'[w].i = i
BY DEF WorkerType, WorkerState, Others, PC

LEMMA LoopPCFacts ==
  ASSUME NEW j, NEW ok \in BOOLEAN, NEW i \in Nat
  PROVE  /\ LoopPC(j, ok, i) \in {"index", "fetch", "spawn"}
         /\ LoopPC(j, ok, i) \in PC
         /\ LoopPC(j, ok, i) # "index" => i \in DOMAIN Kids(j, ok)
BY DEF LoopPC, PC

(* The two ways in which a worker leaves its select.                       *)
LEMMA ResolveFacts ==
  ASSUME WorkerType, NEW w \in Workers, worker[w].msg \in Msg, NEW ok \in BOOLEAN, Resolve(w, ok)
  PROVE  /\ WorkerType' /\ Others(w)
         /\ \/ /\ worker'[w].pc = "retrying"
               /\ ~ok
               /\ worker[w].msg.retried # MaxRetries[Job(w)]
               /\ worker'[w].msg \in Msg
               /\ worker'[w].msg.id = Job(w)
               /\ worker'[w].msg.retried = worker[w].msg.retried + 1
            \/ /\ worker'[w].pc = LoopPC(Job(w), ok, 1)
               /\ ok \/ worker[w].msg.retried = MaxRetries[Job(w)]
               /\ worker'[w].msg = worker[w].msg
               /\ worker'[w].ok = ok
               /\ worker'[w].i = 1
<1> DEFINE m == worker[w].msg
           m2 == [m EXCEPT !.retried = @ + 1]
           r == [Resting EXCEPT !.pc = "retrying", !.msg = m2]
           p == LoopPC(m.id, ok, 1)
           s == [Resting EXCEPT !.pc = p, !.msg = m, !.ok = ok, !.i = 1]
<1>1. m2 \in Msg /\ m2.id = m.id /\ m2.retried = m.retried + 1
  BY DEF Msg
<1>2. r \in WorkerState /\ r.pc = "retrying" /\ r.msg = m2
  <2> HIDE DEF m2
  <2>. QED
    BY <1>1 DEF Resting, WorkerState, PC
<1>3. p \in PC
  BY LoopPCFacts
<1>4. s \in WorkerState /\ s.pc = p /\ s.msg = m /\ s.ok = ok /\ s.i = 1
  <2> HIDE DEF p, m
  <2>. QED
    BY <1>3 DEF Resting, WorkerState, m
<1>5. worker' = [worker EXCEPT ![w] = IF ~ok /\ RetriesLeft(m) THEN r ELSE s]
  BY DEF Resolve
<1>6. CASE ~ok /\ RetriesLeft(m)
  <2>1. worker' = [worker EXCEPT ![w] = r] /\ m.retried # MaxRetries[Job(w)]
    BY <1>5, <1>6 DEF RetriesLeft, Job
  <2> HIDE DEF r, m2
  <2>. QED
    BY <1>1, <1>2, <1>6, <2>1 DEF WorkerType, Others, Job
<1>7. CASE ~(~ok /\ RetriesLeft(m))
  <2>1. worker' = [worker EXCEPT ![w] = s] /\ (ok \/ m.retried = MaxRetries[Job(w)])
    BY <1>5, <1>7 DEF RetriesLeft, Job
  <2> HIDE DEF s
  <2>. QED
    BY <1>4, <2>1 DEF WorkerType, Others, Job
<1>. QED
  BY <1>6, <1>7

(* How the worker's wait for a handler ends.                               *)
LEMMA ReturnFacts ==
  ASSUME TypeOK, NEW w \in Workers, Job(w) \in Jobs,
         (\E x \in Answers : HandlerReturn(w, x)) \/ Cancelled(w) \/ Deadline(w)
  PROVE  /\ ended' \in [Jobs -> End]
         /\ worker[w].pc = "run" /\ running' \subseteq running
         /\ UNCHANGED <<store, broker, client, ctxDone, attempts>>
         /\ \/ Resolve(w, FALSE) /\ ended' = ended
            \/ Resolve(w, TRUE) /\ \E how \in End \ {"no"} : Ended(w, how)
<1>0. ended \in [Jobs -> End]
  BY DEF TypeOK
<1>1. ASSUME NEW how \in End, Ended(w, how) PROVE ended' \in [Jobs -> End]
  BY <1>0, <1>1 DEF Ended
<1>2. CASE Deadline(w)
  BY <1>0, <1>2 DEF Deadline, history
<1>3. CASE Cancelled(w)
  <2>1. "cut" \in End \ {"no"} /\ Ended(w, "cut")
    BY <1>3 DEF Cancelled, End
  <2>. QED
    BY <1>1, <1>3, <2>1 DEF Cancelled
<1>4. ASSUME NEW x \in Answers, HandlerReturn(w, x)
      PROVE  /\ ended' \in [Jobs -> End]
             /\ \/ Resolve(w, FALSE) /\ ended' = ended
                \/ Resolve(w, TRUE) /\ \E how \in End \ {"no"} : Ended(w, how)
  <2>1. CASE x = "error"
    BY <1>0, <1>4, <2>1 DEF HandlerReturn
  <2>2. CASE x # "error"
    <3> DEFINE how == IF x = "canceled" THEN "cut" ELSE IF saved[Job(w)] # 0 THEN "saved" ELSE "silent"
    <3>1. how \in End \ {"no"}
      BY DEF End
    <3>2. Ended(w, how) /\ Resolve(w, x # "error")
      BY <1>4, <2>2 DEF HandlerReturn
    <3>3. (x # "error") = TRUE
      BY <2>2
    <3>4. Resolve(w, TRUE)
      BY <3>2, <3>3
    <3> HIDE DEF how
    <3>. QED
      BY <1>1, <3>1, <3>2, <3>4
  <2>. QED
    BY <2>1, <2>2
<1>. QED
  BY <1>2, <1>3, <1>4 DEF HandlerReturn, Cancelled, Deadline, history

LEMMA SetJobFacts ==
  ASSUME jobMsg \in [Jobs -> [status : Status, retried : Nat]],
         NEW r, NEW j \in Jobs, NEW st \in Status, NEW n \in Nat, SetJob(r, j, st, n)
  PROVE  /\ jobMsg' \in [Jobs -> [status : Status, retried : Nat]]
         /\ \A k \in Jobs : k # j => jobMsg'[k] = jobMsg[k]
         /\ \/ r # "failed" /\ jobMsg'[j] = [status |-> st, retried |-> n]
            \/ r = "failed" /\ jobMsg' = jobMsg
BY DEF SetJob

LEMMA BusyFacts ==
  ASSUME TypeOK, WorkerOK, NEW w \in Workers, Busy(w)
  PROVE  /\ worker[w].msg \in Msg /\ Job(w) \in Jobs
         /\ worker[w].msg.retried \in Nat /\ worker[w].i \in Nat
         /\ worker[w].ok \in BOOLEAN
         /\ worker[w].pc \in {"fetch", "spawn", "push"} => Kid(w) \in Jobs
BY KidsType DEF TypeOK, WorkerOK, Busy, Job, Kid, Msg

-----------------------------------------------------------------------------
(* Types.                                                                  *)

TypeInv == TypeOK /\ WorkerOK

LEMMA TypeInit == Init => TypeInv
<1> SUFFICES ASSUME Init PROVE TypeInv
  OBVIOUS
<1>1. worker \in [Workers -> WorkerState] /\ \A w \in Workers : worker[w].pc = "idle"
  BY RestingType DEF Init
<1>2. WorkerOK
  BY <1>1 DEF WorkerOK, Busy
<1>. QED
  BY <1>1, <1>2, TypeAssumption DEF Init, TypeInv, TypeOK, WorkerState, Status, End

LEMMA TypeStep == TypeInv /\ [Next]_vars => TypeInv'
<1> SUFFICES ASSUME TypeInv, [Next]_vars PROVE TypeInv'
  OBVIOUS
<1> USE TypeAssumption DEF TypeInv
<1>a. WorkerType
  BY DEF WorkerType, WorkerState, TypeOK
<1>b. ASSUME NEW w \in Workers, Others(w), WorkerType',
             worker'[w].pc \in {"idle", "exit"} \/ worker'[w].msg \in Msg,
             worker'[w].pc \in {"fetch", "spawn", "push"}
               => worker'[w].i \in DOMAIN Kids(worker'[w].msg.id, worker'[w].ok)
      PROVE  WorkerOK'
  BY <1>b DEF WorkerOK, Others, Busy, Job
<1>c. ASSUME NEW w \in Workers, Rest(w) PROVE WorkerType' /\ WorkerOK'
  BY <1>a, <1>b, <1>c, RestFacts
<1>d. ASSUME NEW w \in Workers, Busy(w), NEW p \in PC, Goto(w, p),
             p \in {"fetch", "spawn", "push"} => worker[w].pc \in {"fetch", "spawn", "push"}
      PROVE  WorkerType' /\ WorkerOK'
  BY <1>a, <1>b, <1>d, GotoFacts, BusyFacts DEF WorkerOK, Job
<1>e. ASSUME NEW w \in Workers, worker[w].pc = "run", NEW ok \in BOOLEAN, Resolve(w, ok)
      PROVE  WorkerType' /\ WorkerOK'
  <2>1. Busy(w) /\ worker[w].msg \in Msg /\ Job(w) = worker[w].msg.id
    BY <1>e, BusyFacts DEF Busy, Job
  <2>2. WorkerType' /\ Others(w)
    BY <1>a, <1>e, <2>1, ResolveFacts
  <2>3. CASE worker'[w].pc = "retrying" /\ worker'[w].msg \in Msg
    BY <1>b, <2>2, <2>3
  <2>4. CASE /\ worker'[w].pc = LoopPC(Job(w), ok, 1) /\ worker'[w].msg = worker[w].msg
             /\ worker'[w].ok = ok /\ worker'[w].i = 1
    <3>1. worker'[w].pc # "index" => worker'[w].i \in DOMAIN Kids(worker'[w].msg.id, worker'[w].ok)
      BY <2>1, <2>4, LoopPCFacts
    <3>. QED
      BY <1>b, <2>1, <2>2, <2>4, <3>1
  <2>. QED
    BY <1>a, <1>e, <2>1, <2>3, <2>4, ResolveFacts
<1>f. ASSUME worker' = worker PROVE WorkerType' /\ WorkerOK'
  BY <1>a, <1>f DEF WorkerType, WorkerOK, Busy, Job
<1>g. ASSUME NEW w \in Workers, (\E x \in Answers : HandlerReturn(w, x)) \/ Cancelled(w) \/ Deadline(w)
      PROVE  TypeInv'
  <2>1. worker[w].pc = "run"
    BY <1>g DEF HandlerReturn, Cancelled, Deadline
  <2>2. Job(w) \in Jobs
    BY <2>1, BusyFacts DEF Busy
  <2>3. /\ ended' \in [Jobs -> End] /\ running' \subseteq running
        /\ UNCHANGED <<store, broker, client, ctxDone, attempts>>
        /\ Resolve(w, FALSE) \/ Resolve(w, TRUE)
    BY <1>g, <2>2, ReturnFacts
  <2>4. WorkerType' /\ WorkerOK'
    BY <1>e, <2>1, <2>3
  <2>. QED
    BY <2>3, <2>4 DEF store, broker, TypeOK, WorkerType, WorkerState
<1>0. CASE UNCHANGED vars
  BY <1>0, <1>f DEF vars, store, broker, history, TypeOK, WorkerType, WorkerState
<1>1. ASSUME NEW j \in Roots, ClientRecord(j) PROVE TypeInv'
  <2>1. jobMsg' \in [Jobs -> [status : Status, retried : Nat]]
    BY <1>1 DEF ClientRecord, SetJob, TypeOK, Status
  <2>2. client' \in [Roots -> {"new", "pushing", "accepted", "error"}]
    BY <1>1 DEF ClientRecord, TypeOK
  <2>. QED
    BY <1>1, <1>f, <2>1, <2>2 DEF ClientRecord, broker, history, TypeOK, WorkerType, WorkerState
<1>2. ASSUME NEW j \in Roots, ClientPush(j) PROVE TypeInv'
  <2>1. queue' \subseteq Msg
    BY <1>2 DEF ClientPush, Push, NewMsg, TypeOK, Msg
  <2>. QED
    BY <1>2, <2>1 DEF ClientPush, store, history, TypeOK, WorkerOK, Busy, Job
<1>3. ASSUME NEW m \in queue, Consume(m) \/ Lose(m) PROVE TypeInv'
  BY <1>3, <1>f DEF Consume, Lose, store, history, TypeOK, WorkerType, WorkerState
<1>4. ASSUME NEW w \in Workers, NEW m \in hand, Deliver(w, m) PROVE TypeInv'
  <2>0. m \in Msg
    BY <1>4 DEF TypeOK
  <2>1. WorkerType' /\ WorkerOK'
    BY <1>4, <1>a, <1>b, <2>0, DeliverFacts DEF Deliver
  <2>. QED
    BY <1>4, <2>1 DEF Deliver, store, history, TypeOK, WorkerType, WorkerState
<1>5. ASSUME NEW q \in Queues, CloseWork(q) PROVE TypeInv'
  BY <1>5, <1>f DEF CloseWork, store, history, TypeOK, WorkerType, WorkerState
<1>6. ASSUME NEW w \in Workers, NoHandler(w) PROVE TypeInv'
  BY <1>6, <1>c DEF NoHandler, store, broker, history, TypeOK, WorkerType, WorkerState
<1>7. ASSUME NEW w \in Workers, Begin(w) PROVE TypeInv'
  <2>1. Busy(w) /\ Job(w) \in Jobs /\ worker[w].msg.retried \in Nat
    BY <1>7, BusyFacts DEF Begin, Busy
  <2>2. WorkerType' /\ WorkerOK'
    BY <1>7, <1>c, <1>d, <2>1 DEF Begin, PC
  <2>3. jobMsg' \in [Jobs -> [status : Status, retried : Nat]]
    BY <1>7, <2>1 DEF Begin, SetJob, Job, Status, TypeOK
  <2>4. attempts' \in [Jobs -> Nat]
    <3>1. attempts' = attempts \/ attempts' = [attempts EXCEPT ![Job(w)] = @ + 1]
      BY <1>7 DEF Begin, Job
    <3>. QED
      BY <2>1, <3>1 DEF TypeOK
  <2>5. running' \subseteq [id : Jobs, n : Nat]
    <3>1. [id |-> Job(w), n |-> worker[w].msg.retried + 1] \in [id : Jobs, n : Nat]
      BY <2>1
    <3>. QED
      BY <1>7, <3>1 DEF Begin, Job, TypeOK
  <2>. QED
    BY <1>7, <2>2, <2>3, <2>4, <2>5 DEF Begin, broker, TypeOK, WorkerType, WorkerState
<1>8. ASSUME NEW w \in Workers, NEW x \in Answers, HandlerReturn(w, x) PROVE TypeInv'
  BY <1>8, <1>g
<1>9. ASSUME NEW w \in Workers, Deadline(w) PROVE TypeInv'
  BY <1>9, <1>g
<1>10. ASSUME NEW w \in Workers, Cancelled(w) PROVE TypeInv'
  BY <1>10, <1>g
<1>11. ASSUME NEW w \in Workers, MarkRetry(w) PROVE TypeInv'
  <2>1. Busy(w) /\ Job(w) \in Jobs /\ worker[w].msg.retried \in Nat
    BY <1>11, BusyFacts DEF MarkRetry, Busy
  <2>2. WorkerType' /\ WorkerOK'
    BY <1>11, <1>c, <1>d, <2>1 DEF MarkRetry, PC
  <2>3. jobMsg' \in [Jobs -> [status : Status, retried : Nat]]
    BY <1>11, <2>1 DEF MarkRetry, SetJob, Status, TypeOK
  <2>. QED
    BY <1>11, <2>2, <2>3 DEF MarkRetry, broker, history, TypeOK, WorkerType, WorkerState
<1>12. ASSUME NEW w \in Workers, Requeue(w) PROVE TypeInv'
  <2>1. worker[w].msg \in Msg /\ WorkerType' /\ WorkerOK'
    BY <1>12, <1>c, BusyFacts DEF Requeue, Busy
  <2>. QED
    BY <1>12, <2>1 DEF Requeue, Push, store, history, TypeOK, WorkerType, WorkerState
<1>13. ASSUME NEW w \in Workers, Fetch(w) PROVE TypeInv'
  <2>1. Busy(w) /\ worker[w].msg \in Msg /\ saved[Job(w)] \in Nat
    BY <1>13, BusyFacts DEF Fetch, Busy, TypeOK
  <2>2. CASE Rest(w)
    BY <1>13, <1>c, <2>2 DEF Fetch, store, broker, history, TypeOK, WorkerType, WorkerState
  <2>3. CASE worker' = [worker EXCEPT ![w].pc = "spawn", ![w].res = saved[Job(w)]]
    <3>1. WorkerType' /\ WorkerOK'
      BY <1>13, <1>a, <1>b, <2>1, <2>3, FetchFacts DEF Fetch, WorkerOK, Job
    <3>. QED
      BY <1>13, <3>1 DEF Fetch, store, broker, history, TypeOK, WorkerType, WorkerState
  <2>. QED
    BY <1>13, <2>2, <2>3 DEF Fetch
<1>14. ASSUME NEW w \in Workers, Spawn(w) PROVE TypeInv'
  <2>1. Busy(w) /\ Kid(w) \in Jobs
    BY <1>14, BusyFacts DEF Spawn, Busy
  <2>2. WorkerType' /\ WorkerOK'
    BY <1>14, <1>c, <1>d, <2>1 DEF Spawn, PC
  <2>3. jobMsg' \in [Jobs -> [status : Status, retried : Nat]]
    BY <1>14, <2>1 DEF Spawn, SetJob, Status, TypeOK
  <2>. QED
    BY <1>14, <2>2, <2>3 DEF Spawn, broker, history, TypeOK, WorkerType, WorkerState
<1>15. ASSUME NEW w \in Workers, PushKid(w) PROVE TypeInv'
  <2> DEFINE i == worker[w].i + 1
             p == LoopPC(Job(w), worker[w].ok, i)
  <2>0. worker[w].pc = "push" /\ Busy(w)
    BY <1>15 DEF PushKid, Busy
  <2>1. Busy(w) /\ worker[w].msg \in Msg /\ Kid(w) \in Jobs /\ i \in Nat /\ worker[w].ok \in BOOLEAN
    BY <2>0, BusyFacts
  <2>2. queue' \subseteq Msg
    BY <1>15, <2>1 DEF PushKid, Push, NewMsg, TypeOK, Msg, WorkerType
  <2>3. p \in PC /\ (p \in {"fetch", "spawn", "push"} => i \in DOMAIN Kids(Job(w), worker[w].ok))
    BY <2>1, LoopPCFacts
  <2>4. Rest(w) \/ worker' = [worker EXCEPT ![w].pc = p, ![w].i = i, ![w].res = 0]
    BY <1>15 DEF PushKid
  <2>5. WorkerType' /\ WorkerOK'
    <3>1. CASE Rest(w)
      BY <1>c, <3>1
    <3>2. ASSUME NEW q \in PC, NEW n \in Nat,
                 worker' = [worker EXCEPT ![w].pc = q, ![w].i = n, ![w].res = 0],
                 q \in {"fetch", "spawn", "push"} => n \in DOMAIN Kids(Job(w), worker[w].ok)
          PROVE  WorkerType' /\ WorkerOK'
      <4>1. /\ WorkerType' /\ Others(w)
            /\ worker'[w].pc = q
            /\ worker'[w].msg = worker[w].msg
            /\ worker'[w].ok = worker[w].ok
            /\ worker'[w].i = n
        BY <1>a, <3>2, LoopFacts
      <4>. QED
        BY <1>b, <2>1, <3>2, <4>1 DEF Job
    <3>. QED
      BY <2>1, <2>3, <2>4, <3>1, <3>2
  <2>. QED
    BY <1>15, <2>2, <2>5 DEF PushKid, store, history, TypeOK, WorkerType, WorkerState
<1>16. ASSUME NEW w \in Workers, Index(w) PROVE TypeInv'
  <2>1. Busy(w) /\ Job(w) \in Jobs
    BY <1>16, BusyFacts DEF Index, Busy
  <2>2. WorkerType' /\ WorkerOK'
    BY <1>16, <1>c, <1>d, <2>1 DEF Index, PC
  <2>3. success' \subseteq Jobs /\ failed' \subseteq Jobs
    BY <1>16, <2>1 DEF Index, TypeOK
  <2>. QED
    BY <1>16, <2>2, <2>3 DEF Index, broker, history, TypeOK, WorkerType, WorkerState
<1>17. ASSUME NEW w \in Workers, Finish(w) PROVE TypeInv'
  <2>1. Job(w) \in Jobs /\ worker[w].msg.retried \in Nat /\ WorkerType' /\ WorkerOK'
    BY <1>17, <1>c, BusyFacts DEF Finish, Busy
  <2>2. jobMsg' \in [Jobs -> [status : Status, retried : Nat]]
    BY <1>17, <2>1 DEF Finish, FinalStatus, SetJob, Status, TypeOK
  <2>. QED
    BY <1>17, <2>1, <2>2 DEF Finish, broker, history, TypeOK, WorkerType, WorkerState
<1>18. ASSUME NEW w \in Workers, Exit(w) PROVE TypeInv'
  <2>1. Goto(w, "exit")
    BY <1>18 DEF Exit, Goto
  <2>2. WorkerType' /\ WorkerOK'
    BY <1>a, <1>b, <2>1, GotoFacts DEF PC
  <2>. QED
    BY <1>18, <2>2 DEF Exit, store, broker, history, TypeOK, WorkerType, WorkerState
<1>19. ASSUME NEW a \in running, Save(a) PROVE TypeInv'
  BY <1>19, <1>f DEF Save, Store, broker, history, TypeOK, WorkerType, WorkerState
<1>20. ASSUME NEW w \in Workers, CallbackSave(w) PROVE TypeInv'
  <2>1. Job(w) \in Jobs
    BY <1>20, BusyFacts DEF CallbackSave, Busy
  <2>. QED
    BY <1>20, <2>1 DEF CallbackSave, Store, broker, history, TypeOK, WorkerOK, Busy, Job
<1>21. ASSUME NEW a \in running, LateReturn(a) PROVE TypeInv'
  BY <1>21, <1>f DEF LateReturn, store, broker, history, TypeOK, WorkerType, WorkerState
<1>22. CASE Cancel
  BY <1>22, <1>f DEF Cancel, store, broker, history, TypeOK, WorkerType, WorkerState
<1>23. CASE Crash
  <2>1. WorkerType' /\ WorkerOK'
    BY <1>23, RestingType DEF Crash, WorkerType, WorkerOK, Busy
  <2>. QED
    BY <1>23, <2>1 DEF Crash, store, history, TypeOK, WorkerType, WorkerState
<1>. QED
  BY <1>0, <1>1, <1>2, <1>3, <1>4, <1>5, <1>6, <1>7, <1>8, <1>9, <1>10, <1>11, <1>12, <1>13, <1>14,
     <1>15, <1>16, <1>17, <1>18, <1>19, <1>20, <1>21, <1>22, <1>23 DEF Next, WorkerStep

(* Every variable keeps its type, and a busy worker has a real message and *)
(* stands at a continuation that exists (process, execJob).                *)
THEOREM TypeCorrect == Spec => []TypeOK
<1>1. Spec => []TypeInv
  BY TypeInit, TypeStep, PTL DEF Spec
<1>. QED
  BY <1>1, PTL DEF TypeInv

-----------------------------------------------------------------------------
(* What a step leaves alone                                                *)

(* What holders say of jobs that a step does not touch.                    *)
Same(j) ==
  /\ jobMsg'[j] = jobMsg[j] /\ attempts'[j] = attempts[j]
  /\ j \in success' <=> j \in success
  /\ j \in failed' <=> j \in failed

SameKids(j) ==
  \A ok \in BOOLEAN : \A k \in DOMAIN Kids(j, ok) :
    Known(Kids(j, ok)[k])' <=> Known(Kids(j, ok)[k])

LEMMA FreshFrame ==
  ASSUME NEW j \in Jobs, SameKids(j)
  PROVE  Fresh(j)' <=> Fresh(j)
BY DEF Fresh, SameKids

LEMMA QueuedFrame ==
  ASSUME NEW m \in Msg, Same(m.id), SameKids(m.id), Queued(m)
  PROVE  Queued(m)'
BY FreshFrame DEF Same, Queued, Msg

LEMMA RecordedFrame ==
  ASSUME NEW j \in Jobs, Same(j), SameKids(j), Recorded(j)
  PROVE  Recorded(j)'
BY FreshFrame DEF Same, Recorded, Known

LEMMA AtWorkFrame ==
  ASSUME TypeInv, NEW v \in Workers, AtWork(v), worker'[v] = worker[v],
         Busy(v) => Same(Job(v)) /\ SameKids(Job(v)),
         worker[v].pc = "push" => Same(Kid(v)) /\ SameKids(Kid(v))
  PROVE  AtWork(v)'
<1> DEFINE m == worker[v].msg
<1>1. CASE ~Busy(v)
  BY <1>1 DEF Busy, AtWork, Settling
<1>2. CASE Busy(v)
  <2>1. m \in Msg /\ m.id \in Jobs /\ Same(m.id) /\ SameKids(m.id) /\ Job(v) = m.id
    BY <1>2, BusyFacts DEF TypeInv, Job
  <2>2. worker'[v].msg = m /\ worker'[v].pc = worker[v].pc /\ worker'[v].ok = worker[v].ok
    OBVIOUS
  <2>3. Queued(m) => Queued(m)'
    BY <2>1, QueuedFrame
  <2>4. /\ Executing(m) => Executing(m)'
        /\ Retrying(m) => Retrying(m)'
        /\ Unlisted(m.id)' <=> Unlisted(m.id)
        /\ Fresh(m.id)' <=> Fresh(m.id)
    BY <2>1, FreshFrame DEF Same, Executing, Retrying, Unlisted
  <2>5. LoopKids(v) => LoopKids(v)'
    BY <2>1 DEF LoopKids, SameKids, Job
  <2>6. worker[v].pc = "push" => Queued(NewMsg(Kid(v), 0))'
    <3> SUFFICES ASSUME worker[v].pc = "push" PROVE Queued(NewMsg(Kid(v), 0))'
      OBVIOUS
    <3>1. Kid(v) \in Jobs /\ Kid(v)' = Kid(v)
      BY <1>2, BusyFacts DEF TypeInv, Kid, Job
    <3>2. NewMsg(Kid(v), 0) \in Msg /\ NewMsg(Kid(v), 0).id = Kid(v)
      BY <3>1 DEF NewMsg, Msg
    <3>3. Queued(NewMsg(Kid(v), 0))
      BY DEF AtWork
    <3>. QED
      BY <3>1, <3>2, <3>3, QueuedFrame DEF NewMsg
  <2> HIDE DEF m
  <2>. QED
    BY <2>1, <2>2, <2>3, <2>4, <2>5, <2>6 DEF AtWork, Same, m
<1>. QED
  BY <1>1, <1>2

(* A job that was never recorded is nowhere.                               *)
LEMMA Unheld ==
  ASSUME IInv, NEW j \in Jobs, ~Known(j)
  PROVE  /\ \A m \in InBroker : m.id # j
         /\ \A v \in Workers : Busy(v) => Job(v) # j
         /\ \A v \in Workers : worker[v].pc = "push" => Kid(v) # j
         /\ \A c \in Roots : client[c] = "pushing" => c # j
         /\ Unlisted(j) /\ attempts[j] = 0 /\ Fresh(j)
<1>0. TypeOK /\ WorkerOK /\ Recorded(j) /\ jobMsg[j].status = "none"
  BY DEF IInv, Holding, Known
<1>1. \A m \in InBroker : m.id # j
  BY <1>0 DEF IInv, Holding, Queued
<1>2. ASSUME NEW v \in Workers, Busy(v) PROVE Job(v) # j
  <2>1. worker[v].pc \in {"recv", "requeue", "run", "retrying", "fetch", "spawn", "push", "index", "final"}
    BY <1>0, <1>2 DEF TypeOK, PC, Busy
  <2>2. AtWork(v)
    BY DEF IInv, Holding
  <2>3. jobMsg[Job(v)].status # "none"
    BY <2>1, <2>2 DEF AtWork, Queued, Executing, Retrying, Settling, Job
  <2>. QED
    BY <1>0, <2>3
<1>3. ASSUME NEW v \in Workers, worker[v].pc = "push" PROVE Kid(v) # j
  <2>1. Queued(NewMsg(Kid(v), 0))
    BY <1>3 DEF IInv, Holding, AtWork
  <2>. QED
    BY <1>0, <2>1 DEF Queued, NewMsg
<1>4. ASSUME NEW c \in Roots, client[c] = "pushing" PROVE c # j
  <2>1. Queued(NewMsg(c, 0))
    BY <1>4 DEF IInv, Holding, Client
  <2>. QED
    BY <1>0, <2>1 DEF Queued, NewMsg
<1>5. Unlisted(j) /\ attempts[j] = 0 /\ Fresh(j)
  BY <1>0 DEF Recorded, Known, Unlisted
<1>. QED
  BY <1>1, <1>2, <1>3, <1>4, <1>5

(* What stays true of the jobs outside T, the jobs a step touches.         *)
LEMMA Untouched ==
  ASSUME IInv, NEW T \in SUBSET Jobs, \A j \in Jobs \ T : Same(j) /\ SameKids(j)
  PROVE  /\ \A j \in Jobs \ T : Recorded(j)'
         /\ \A m \in InBroker : m.id \notin T => Queued(m)'
         /\ \A c \in Roots \ T : client'[c] \in {client[c], "accepted", "error"} => Client(c)'
         /\ \A v \in Workers :
              /\ worker'[v] = worker[v]
              /\ Busy(v) => Job(v) \notin T
              /\ worker[v].pc = "push" => Kid(v) \notin T
              => AtWork(v)'
<1>0. TypeInv /\ TypeOK /\ WorkerOK /\ Holding
  BY DEF IInv, TypeInv
<1>1. \A j \in Jobs \ T : Recorded(j)'
  BY <1>0, RecordedFrame DEF Holding
<1>2. ASSUME NEW m \in InBroker, m.id \notin T PROVE Queued(m)'
  <2>1. m \in Msg /\ m.id \in Jobs \ T
    BY <1>0, <1>2 DEF TypeOK, InBroker, Msg
  <2>. QED
    BY <1>0, <2>1, QueuedFrame DEF Holding
<1>3. ASSUME NEW c \in Roots \ T, client'[c] \in {client[c], "accepted", "error"} PROVE Client(c)'
  <2>1. c \in Jobs \ T /\ Client(c)
    BY <1>0, TypeAssumption DEF Holding
  <2>2. Same(c) /\ SameKids(c)
    BY <2>1
  <2>3. NewMsg(c, 0) \in Msg /\ NewMsg(c, 0).id = c
    BY <2>1 DEF NewMsg, Msg
  <2>4. Queued(NewMsg(c, 0)) => Queued(NewMsg(c, 0))'
    BY <2>2, <2>3, QueuedFrame DEF NewMsg
  <2>5. Known(c)' <=> Known(c)
    BY <2>2 DEF Same, Known
  <2>. QED
    BY <1>3, <2>1, <2>4, <2>5 DEF Client
<1>4. ASSUME NEW v \in Workers, worker'[v] = worker[v],
             Busy(v) => Job(v) \notin T,
             worker[v].pc = "push" => Kid(v) \notin T
      PROVE  AtWork(v)'
  <2>1. Busy(v) => Job(v) \in Jobs \ T
    BY <1>0, <1>4, BusyFacts
  <2>2. worker[v].pc = "push" => Kid(v) \in Jobs \ T
    BY <1>0, <1>4, BusyFacts DEF Busy
  <2>3. AtWork(v)
    BY <1>0 DEF Holding
  <2>. QED
    BY <1>0, <1>4, <2>1, <2>2, <2>3, AtWorkFrame
<1>. QED
  BY <1>1, <1>2, <1>3, <1>4

-----------------------------------------------------------------------------
(* Steps in which no holder is gained: Enqueue calls only end, workers     *)
(* only keep their job or drop it.                                         *)

ClientsShrink == \A c \in Roots : client'[c] \in {client[c], "accepted", "error"}

Keeps(v) ==
  /\ Busy(v)' => Busy(v) /\ Job(v)' = Job(v)
  /\ worker'[v].pc = "push" => worker[v].pc = "push" /\ Kid(v)' = Kid(v)

LEMMA UniqueShrinks ==
  ASSUME Unique, ClientsShrink, \A v \in Workers : Keeps(v),
         InBroker' \subseteq InBroker, queue' \cap hand' = {}
  PROVE  Unique'
<1>1. BrokerUnique'
  BY DEF Unique, BrokerUnique
<1>2. WorkerUnique'
  BY DEF Unique, WorkerUnique, Keeps
<1>3. ClientUnique'
  BY DEF Unique, ClientUnique, Keeps, ClientsShrink
<1>4. SpawnUnique'
  <2>1. ASSUME NEW v \in Workers, worker'[v].pc = "push"
        PROVE  /\ worker[v].pc = "push" /\ Kid(v)' = Kid(v)
    BY <2>1 DEF Keeps
  <2>2. \A v \in Workers : Busy(v)' => Busy(v) /\ Job(v)' = Job(v)
    BY DEF Keeps
  <2>. QED
    BY <2>1, <2>2 DEF Unique, SpawnUnique
<1>. QED
  BY <1>1, <1>2, <1>3, <1>4 DEF Unique

(* A step that at most loses messages, or makes workers drop their jobs.   *)
LEMMA Loss ==
  ASSUME IInv, TypeInv', UNCHANGED <<jobMsg, success, failed, attempts>>,
         queue' \subseteq queue, hand' \subseteq hand, ClientsShrink,
         \A v \in Workers : worker'[v] = worker[v] \/ worker'[v].pc \in {"idle", "exit"}
  PROVE  IInv'
<1>0. Unique /\ Holding
  BY DEF IInv
<1>1. \A j \in Jobs \ {} : Same(j) /\ SameKids(j)
  BY DEF Same, SameKids, Known
<1>2. InBroker' \subseteq InBroker /\ queue' \cap hand' = {}
  BY <1>0 DEF InBroker, Unique, BrokerUnique
<1>3. ASSUME NEW v \in Workers PROVE Keeps(v)
  BY <1>3 DEF Keeps, Busy, Job, Kid
<1>4. Unique'
  BY <1>0, <1>2, <1>3, UniqueShrinks
<1>5. /\ \A j \in Jobs : Recorded(j)'
      /\ \A m \in InBroker : Queued(m)'
      /\ \A c \in Roots : Client(c)'
      /\ \A v \in Workers : worker'[v] = worker[v] => AtWork(v)'
  <2> DEFINE T == {}
  <2>1. T \in SUBSET Jobs /\ \A j \in Jobs \ T : Same(j) /\ SameKids(j)
    BY <1>1
  <2>. QED
    BY <2>1, Untouched DEF ClientsShrink
<1>6. ASSUME NEW v \in Workers, worker'[v].pc \in {"idle", "exit"} PROVE AtWork(v)'
  BY <1>6 DEF AtWork, Settling
<1>. QED
  BY <1>2, <1>4, <1>5, <1>6 DEF IInv, Holding, TypeInv

(* A worker goes on with its job t, or is done with it; it may have        *)
(* written what the store says of t, and t was known before.               *)
LEMMA Working ==
  ASSUME IInv, TypeInv', NEW w \in Workers, Busy(w), Others(w), Keeps(w),
         NEW t \in Jobs, t = Job(w),
         UNCHANGED <<queue, hand, client>>,
         \A j \in Jobs : Known(j)' <=> Known(j),
         \A j \in Jobs : j # t => Same(j),
         AtWork(w)', Recorded(t)'
  PROVE  IInv'
<1> DEFINE T == {t}
<1>0. Unique /\ Holding /\ TypeOK /\ WorkerOK
  BY DEF IInv
<1>2. ASSUME NEW j \in Jobs \ T PROVE Same(j) /\ SameKids(j)
  BY <1>2, KidsType DEF SameKids
<1>3. ASSUME NEW v \in Workers PROVE Keeps(v)
  <2>1. CASE v = w
    BY <2>1
  <2>2. CASE v # w
    BY <2>2 DEF Others, Keeps, Busy, Job, Kid
  <2>. QED
    BY <2>1, <2>2
<1>4. Unique'
  BY <1>0, <1>3, UniqueShrinks DEF InBroker, Unique, BrokerUnique, ClientsShrink
<1>5. /\ \A j \in Jobs \ T : Recorded(j)'
      /\ \A m \in InBroker : m.id \notin T => Queued(m)'
      /\ \A c \in Roots \ T : Client(c)'
      /\ \A v \in Workers :
           /\ worker'[v] = worker[v]
           /\ Busy(v) => Job(v) \notin T
           /\ worker[v].pc = "push" => Kid(v) \notin T
           => AtWork(v)'
  BY <1>2, Untouched
<1>6. \A m \in InBroker : m.id # t
  BY <1>0 DEF Unique, WorkerUnique
<1>7. ASSUME NEW v \in Workers, v # w PROVE AtWork(v)'
  <2>1. worker'[v] = worker[v]
    BY <1>7 DEF Others
  <2>2. Busy(v) => Job(v) # t
    BY <1>0, <1>7 DEF Unique, WorkerUnique
  <2>3. worker[v].pc = "push" => Kid(v) # t
    BY <1>0 DEF Unique, SpawnUnique
  <2>. QED
    BY <1>5, <2>1, <2>2, <2>3
<1>8. ASSUME NEW c \in Roots, c = t PROVE Client(c)'
  <2>1. client[c] # "pushing"
    BY <1>0, <1>8 DEF Unique, ClientUnique
  <2>2. Known(c)
    BY <1>8, Unheld
  <2>3. client[c] # "new"
    BY <1>0, <2>2 DEF Holding, Client
  <2>. QED
    BY <2>1, <2>3 DEF Client
<1>9. \A j \in Jobs : Recorded(j)'
  BY <1>5
<1>10. \A c \in Roots : Client(c)'
  BY <1>5, <1>8
<1>11. \A m \in InBroker' : Queued(m)'
  BY <1>5, <1>6 DEF InBroker
<1>12. \A v \in Workers : AtWork(v)'
  BY <1>7
<1>. QED
  BY <1>4, <1>9, <1>10, <1>11, <1>12 DEF IInv, Holding, TypeInv

(* A message of a job that nobody else holds any more comes to the queue.  *)
LEMMA QueueGains ==
  ASSUME IInv, TypeInv', UNCHANGED <<jobMsg, success, failed, attempts, hand>>,
         NEW m \in Msg, queue' = queue \cup {m}, Queued(m),
         ClientsShrink, \A v \in Workers : Keeps(v),
         \A n \in InBroker : n.id # m.id,
         \A v \in Workers : Busy(v)' => Job(v)' # m.id,
         \A v \in Workers : worker'[v].pc = "push" => Kid(v)' # m.id,
         \A c \in Roots : client'[c] = "pushing" => c # m.id,
         \A v \in Workers : worker'[v] = worker[v] \/ AtWork(v)'
  PROVE  IInv'
<1>0. Unique /\ Holding /\ TypeOK /\ WorkerOK
  BY DEF IInv
<1>1. InBroker' = InBroker \cup {m}
  BY DEF InBroker
<1>2. BrokerUnique'
  BY <1>0, <1>1 DEF Unique, BrokerUnique, InBroker
<1>3. WorkerUnique'
  BY <1>0, <1>1 DEF Unique, WorkerUnique, Keeps
<1>4. ClientUnique'
  BY <1>0, <1>1 DEF Unique, ClientUnique, Keeps, ClientsShrink
<1>5. SpawnUnique'
  <2>1. ASSUME NEW v \in Workers, worker'[v].pc = "push"
        PROVE  worker[v].pc = "push" /\ Kid(v)' = Kid(v)
    BY <2>1 DEF Keeps
  <2>2. \A v \in Workers : Busy(v)' => Busy(v) /\ Job(v)' = Job(v)
    BY DEF Keeps
  <2>. QED
    BY <1>0, <1>1, <2>1, <2>2 DEF Unique, SpawnUnique
<1>6. /\ \A j \in Jobs : Recorded(j)'
      /\ \A n \in InBroker : Queued(n)'
      /\ \A c \in Roots : Client(c)'
      /\ \A v \in Workers : worker'[v] = worker[v] => AtWork(v)'
  <2> DEFINE T == {}
  <2>1. T \in SUBSET Jobs /\ \A j \in Jobs \ T : Same(j) /\ SameKids(j)
    BY DEF Same, SameKids, Known
  <2>. QED
    BY <2>1, Untouched DEF ClientsShrink
<1>7. Queued(m)'
  BY DEF Queued, Fresh, Known
<1>. QED
  BY <1>1, <1>2, <1>3, <1>4, <1>5, <1>6, <1>7 DEF IInv, Holding, TypeInv, Unique

-----------------------------------------------------------------------------
(* Step by step.                                                           *)

LEMMA WriteKnown ==
  ASSUME TypeOK, NEW r, NEW t \in Jobs, Known(t), NEW st \in Status \ {"none"}, NEW n \in Nat,
         SetJob(r, t, st, n)
  PROVE  /\ \A j \in Jobs : Known(j)' <=> Known(j)
         /\ \A j \in Jobs : j # t => jobMsg'[j] = jobMsg[j]
         /\ \A j \in Jobs : SameKids(j)
         /\ \/ r # "failed" /\ jobMsg'[t] = [status |-> st, retried |-> n]
            \/ r = "failed" /\ jobMsg' = jobMsg
<1>1. /\ \A k \in Jobs : k # t => jobMsg'[k] = jobMsg[k]
      /\ \/ r # "failed" /\ jobMsg'[t] = [status |-> st, retried |-> n]
         \/ r = "failed" /\ jobMsg' = jobMsg
  BY SetJobFacts DEF TypeOK
<1>2. \A j \in Jobs : Known(j)' <=> Known(j)
  BY <1>1 DEF Known
<1>3. \A j \in Jobs : SameKids(j)
  BY <1>2, KidsType DEF SameKids
<1>. QED
  BY <1>1, <1>2, <1>3

(* A busy worker, its message and its job.                                 *)
LEMMA AtWorkFacts ==
  ASSUME IInv, NEW w \in Workers, Busy(w)
  PROVE  /\ TypeOK /\ WorkerType /\ AtWork(w) /\ Recorded(Job(w))
         /\ Job(w) \in Jobs /\ Job(w) = worker[w].msg.id
         /\ worker[w].msg \in Msg /\ worker[w].msg.retried \in Nat
         /\ worker[w].i \in Nat /\ worker[w].ok \in BOOLEAN
         /\ MaxRetries[Job(w)] \in Nat /\ attempts[Job(w)] \in Nat
         /\ Known(Job(w))
<1>1. TypeOK /\ WorkerOK /\ AtWork(w)
  BY DEF IInv, Holding
<1>2. /\ worker[w].msg \in Msg /\ Job(w) \in Jobs
      /\ worker[w].msg.retried \in Nat /\ worker[w].i \in Nat
      /\ worker[w].ok \in BOOLEAN
  BY <1>1, BusyFacts
<1>3. Known(Job(w))
  BY <1>2, Unheld
<1>4. Recorded(Job(w)) /\ MaxRetries[Job(w)] \in Nat /\ attempts[Job(w)] \in Nat
  BY <1>1, <1>2, TypeAssumption DEF IInv, Holding, TypeOK
<1>5. WorkerType
  BY <1>1 DEF TypeOK, WorkerType, WorkerState
<1>. QED
  BY <1>1, <1>2, <1>3, <1>4, <1>5 DEF Job

(* A worker that drops its job, the store left alone.                      *)
LEMMA DropStep ==
  ASSUME IInv, TypeInv', NEW w \in Workers, Rest(w),
         UNCHANGED <<jobMsg, success, failed, attempts, queue, hand, client>>
  PROVE  IInv'
<1>1. worker'[w].pc = "idle" /\ Others(w)
  BY RestFacts DEF IInv, TypeOK, WorkerType, WorkerState
<1>. QED
  BY <1>1, Loss DEF Others, ClientsShrink

LEMMA BeginStep ==
  ASSUME IInv, TypeInv', NEW w \in Workers, Begin(w),
         NEW t, t = Job(w), NEW m, m = worker[w].msg
  PROVE  IInv'
<1>0. Busy(w) /\ worker[w].pc = "recv"
  BY DEF Begin, Busy
<1>1. /\ TypeOK /\ WorkerType /\ AtWork(w) /\ Recorded(t)
      /\ t \in Jobs /\ t = m.id /\ m \in Msg /\ m.retried \in Nat
      /\ MaxRetries[t] \in Nat /\ attempts[t] \in Nat /\ Known(t)
  BY <1>0, AtWorkFacts
<1>2. Queued(m)
  BY <1>0, <1>1 DEF AtWork
<1>3. Unlisted(t)
  BY <1>1, <1>2 DEF Recorded, Queued, Unlisted
<1>4. UNCHANGED <<success, failed, queue, hand, client>>
  BY DEF Begin, broker
<1>5. PICK r \in CtxReplies :
        /\ SetJob(r, t, "processing", m.retried)
        /\ r = "ok" => Goto(w, "run") /\ attempts' = [attempts EXCEPT ![t] = @ + 1]
        /\ r # "ok" => Rest(w) /\ attempts' = attempts
  BY <1>1 DEF Begin
<1>6. /\ \A j \in Jobs : Known(j)' <=> Known(j)
      /\ \A j \in Jobs : j # t => jobMsg'[j] = jobMsg[j]
      /\ \A j \in Jobs : SameKids(j)
      /\ \/ r # "failed" /\ jobMsg'[t] = [status |-> "processing", retried |-> m.retried]
         \/ r = "failed" /\ jobMsg' = jobMsg
  <2>1. "processing" \in Status \ {"none"}
    BY DEF Status
  <2>. QED
    BY <1>1, <1>5, <2>1, WriteKnown
<1>7. Fresh(t)'
  BY <1>1, <1>2, <1>6, FreshFrame DEF Queued
<1>8. CASE r = "failed"
  BY <1>4, <1>5, <1>6, <1>8, DropStep
<1>9. CASE r # "failed" /\ r # "ok"
  <2>1. Others(w) /\ worker'[w].pc = "idle"
    BY <1>1, <1>5, <1>9, RestFacts
  <2>2. Keeps(w) /\ AtWork(w)'
    BY <2>1 DEF Keeps, Busy, AtWork, Settling
  <2>3. \A j \in Jobs : j # t => Same(j)
    BY <1>4, <1>5, <1>6, <1>9 DEF Same
  <2>4. Recorded(t)'
    BY <1>1, <1>2, <1>3, <1>4, <1>5, <1>6, <1>9 DEF Recorded, Queued, Unlisted, Known
  <2>. QED
    BY <1>0, <1>1, <1>4, <1>6, <2>1, <2>2, <2>3, <2>4, Working
<1>10. CASE r = "ok"
  <2>1. Others(w) /\ worker'[w].pc = "run" /\ worker'[w].msg = m
    BY <1>1, <1>5, <1>10, GotoFacts DEF PC
  <2>2. Keeps(w)
    BY <1>0, <2>1 DEF Keeps, Busy, Job
  <2>3. attempts'[t] = attempts[t] + 1 /\ \A j \in Jobs : j # t => attempts'[j] = attempts[j]
    BY <1>1, <1>5, <1>10 DEF TypeOK
  <2>4. \A j \in Jobs : j # t => Same(j)
    BY <1>4, <1>6, <2>3 DEF Same
  <2>5. Recorded(t)' /\ Executing(m)' /\ Unlisted(t)'
    BY <1>1, <1>2, <1>3, <1>4, <1>6, <1>10, <2>3
    DEF Recorded, Queued, Executing, Unlisted, Known
  <2>6. AtWork(w)'
    BY <1>1, <1>7, <2>1, <2>5 DEF AtWork, Settling
  <2>. QED
    BY <1>0, <1>1, <1>4, <1>6, <2>1, <2>2, <2>4, <2>5, <2>6, Working
<1>. QED
  BY <1>8, <1>9, <1>10

LEMMA ResolveStep ==
  ASSUME IInv, TypeInv', NEW w \in Workers, NEW ok \in BOOLEAN, worker[w].pc = "run", Resolve(w, ok),
         UNCHANGED <<jobMsg, success, failed, attempts, queue, hand, client>>,
         NEW t, t = Job(w), NEW m, m = worker[w].msg
  PROVE  IInv'
<1>0. Busy(w)
  BY DEF Busy
<1>1. /\ TypeOK /\ WorkerType /\ AtWork(w) /\ Recorded(t)
      /\ t \in Jobs /\ t = m.id /\ m \in Msg /\ m.retried \in Nat
      /\ MaxRetries[t] \in Nat /\ attempts[t] \in Nat /\ Known(t)
  BY <1>0, AtWorkFacts
<1>2. Executing(m) /\ Fresh(t) /\ Unlisted(t)
  BY <1>1 DEF AtWork
<1>3. /\ WorkerType' /\ Others(w)
      /\ \/ /\ worker'[w].pc = "retrying"
            /\ m.retried # MaxRetries[t]
            /\ worker'[w].msg.id = t
            /\ worker'[w].msg.retried = m.retried + 1
         \/ /\ worker'[w].pc = LoopPC(t, ok, 1)
            /\ ok \/ m.retried = MaxRetries[t]
            /\ worker'[w].msg = m
            /\ worker'[w].ok = ok
            /\ worker'[w].i = 1
  BY <1>1, ResolveFacts
<1>4. LoopPC(t, ok, 1) \in {"index", "fetch", "spawn"}
  BY LoopPCFacts
<1>5. Keeps(w)
  BY <1>0, <1>1, <1>3, <1>4 DEF Keeps, Job
<1>6. /\ \A j \in Jobs : Known(j)' <=> Known(j)
      /\ \A j \in Jobs : Same(j) /\ SameKids(j)
  BY DEF Known, Same, SameKids
<1>7. Recorded(t)' /\ Executing(m)' /\ Fresh(t)' /\ Unlisted(t)'
  BY <1>1, <1>2 DEF Recorded, Executing, Fresh, Unlisted, Known
<1>8. CASE worker'[w].pc = "retrying" /\ worker'[w].msg.id = t
           /\ worker'[w].msg.retried = m.retried + 1 /\ m.retried # MaxRetries[t]
  <2>1. Retrying(worker[w].msg)'
    BY <1>1, <1>2, <1>8 DEF Retrying, Executing
  <2>2. AtWork(w)'
    BY <1>7, <1>8, <2>1 DEF AtWork, Settling
  <2>. QED
    BY <1>0, <1>1, <1>3, <1>5, <1>6, <1>7, <2>2, Working
<1>9. CASE worker'[w].pc = LoopPC(t, ok, 1) /\ worker'[w].msg = m /\ worker'[w].ok = ok
           /\ (ok \/ m.retried = MaxRetries[t])
  <2>1. LoopKids(w)'
    BY <1>1, <1>7, <1>9 DEF LoopKids, Fresh, Job
  <2>2. AtWork(w)'
    BY <1>1, <1>4, <1>7, <1>9, <2>1 DEF AtWork, Settling
  <2>. QED
    BY <1>0, <1>1, <1>3, <1>5, <1>6, <1>7, <2>2, Working
<1>. QED
  BY <1>3, <1>8, <1>9

LEMMA MarkRetryStep ==
  ASSUME IInv, TypeInv', NEW w \in Workers, MarkRetry(w),
         NEW t, t = Job(w), NEW m, m = worker[w].msg
  PROVE  IInv'
<1>0. Busy(w) /\ worker[w].pc = "retrying"
  BY DEF MarkRetry, Busy
<1>1. /\ TypeOK /\ WorkerType /\ AtWork(w) /\ Recorded(t)
      /\ t \in Jobs /\ t = m.id /\ m \in Msg /\ m.retried \in Nat
      /\ MaxRetries[t] \in Nat /\ attempts[t] \in Nat /\ Known(t)
  BY <1>0, AtWorkFacts
<1>2. Retrying(m) /\ Fresh(t) /\ Unlisted(t)
  BY <1>0, <1>1 DEF AtWork
<1>3. UNCHANGED <<success, failed, attempts, queue, hand, client>>
  BY DEF MarkRetry, broker, history
<1>4. PICK r \in CtxReplies :
        /\ SetJob(r, t, "retrying", m.retried)
        /\ IF r = "ok" THEN Goto(w, "requeue") ELSE Rest(w)
  BY <1>1 DEF MarkRetry
<1>5. /\ \A j \in Jobs : Known(j)' <=> Known(j)
      /\ \A j \in Jobs : j # t => jobMsg'[j] = jobMsg[j]
      /\ \A j \in Jobs : SameKids(j)
      /\ \/ r # "failed" /\ jobMsg'[t] = [status |-> "retrying", retried |-> m.retried]
         \/ r = "failed" /\ jobMsg' = jobMsg
  <2>1. "retrying" \in Status \ {"none"}
    BY DEF Status
  <2>. QED
    BY <1>1, <1>4, <2>1, WriteKnown
<1>6. CASE r = "failed"
  BY <1>3, <1>4, <1>5, <1>6, DropStep
<1>7. CASE r # "failed"
  <2>1. Others(w) /\ (\/ worker'[w].pc = "idle"
                      \/ worker'[w].pc = "requeue" /\ worker'[w].msg = m)
    BY <1>1, <1>4, RestFacts, GotoFacts DEF PC
  <2>2. Keeps(w)
    BY <1>0, <2>1 DEF Keeps, Busy, Job
  <2>3. \A j \in Jobs : j # t => Same(j)
    BY <1>3, <1>5 DEF Same
  <2>4. Fresh(t)'
    BY <1>1, <1>2, <1>5, FreshFrame
  <2>5. Recorded(t)' /\ Queued(m)'
    BY <1>1, <1>2, <1>3, <1>5, <1>7, <2>4 DEF Recorded, Retrying, Queued, Unlisted, Known
  <2>6. AtWork(w)'
    BY <2>1, <2>5 DEF AtWork, Settling
  <2>. QED
    BY <1>0, <1>1, <1>3, <1>5, <2>1, <2>2, <2>3, <2>5, <2>6, Working
<1>. QED
  BY <1>6, <1>7

LEMMA RequeueStep ==
  ASSUME IInv, TypeInv', NEW w \in Workers, Requeue(w),
         NEW m, m = worker[w].msg
  PROVE  IInv'
<1>0. Busy(w) /\ worker[w].pc = "requeue" /\ Unique
  BY DEF Requeue, Busy, IInv
<1>1. /\ TypeOK /\ WorkerType /\ AtWork(w) /\ Job(w) \in Jobs /\ Job(w) = m.id /\ m \in Msg
  BY <1>0, AtWorkFacts
<1>2. Queued(m)
  BY <1>0, <1>1 DEF AtWork
<1>3. UNCHANGED <<jobMsg, success, failed, attempts, hand, client>> /\ Rest(w)
  BY DEF Requeue, store, history
<1>4. queue' = queue \/ queue' = queue \cup {m}
  BY DEF Requeue, Push
<1>5. Others(w) /\ worker'[w].pc = "idle"
  BY <1>1, <1>3, RestFacts
<1>6. CASE queue' = queue
  BY <1>3, <1>6, DropStep
<1>7. CASE queue' = queue \cup {m}
  <2>1. ASSUME NEW v \in Workers
        PROVE  /\ Keeps(v)
               /\ Busy(v)' => Job(v)' # m.id
               /\ worker'[v].pc = "push" => Kid(v)' # m.id
               /\ worker'[v] = worker[v] \/ AtWork(v)'
    <3>1. CASE v = w
      BY <1>5, <3>1 DEF Keeps, Busy, AtWork, Settling
    <3>2. CASE v # w
      <4>1. worker'[v] = worker[v]
        BY <1>5, <3>2 DEF Others
      <4>2. Busy(v) => Job(v) # m.id
        BY <1>0, <1>1, <3>2 DEF Unique, WorkerUnique
      <4>3. worker[v].pc = "push" => Kid(v) # m.id
        BY <1>0, <1>1 DEF Unique, SpawnUnique
      <4>. QED
        BY <4>1, <4>2, <4>3 DEF Keeps, Busy, Job, Kid
    <3>. QED
      BY <3>1, <3>2
  <2>2. \A n \in InBroker : n.id # m.id
    BY <1>0, <1>1 DEF Unique, WorkerUnique
  <2>3. \A c \in Roots : client'[c] = "pushing" => c # m.id
    BY <1>0, <1>1, <1>3 DEF Unique, ClientUnique
  <2>4. ClientsShrink
    BY <1>3 DEF ClientsShrink
  <2>. QED
    BY <1>1, <1>2, <1>3, <1>7, <2>1, <2>2, <2>3, <2>4, QueueGains
<1>. QED
  BY <1>4, <1>6, <1>7

LEMMA FetchStep ==
  ASSUME IInv, TypeInv', NEW w \in Workers, Fetch(w),
         NEW t, t = Job(w), NEW m, m = worker[w].msg
  PROVE  IInv'
<1>0. Busy(w) /\ worker[w].pc = "fetch"
  BY DEF Fetch, Busy
<1>1. /\ TypeOK /\ WorkerType /\ AtWork(w) /\ Recorded(t)
      /\ t \in Jobs /\ t = m.id /\ m \in Msg
  BY <1>0, AtWorkFacts
<1>2. UNCHANGED <<jobMsg, success, failed, attempts, queue, hand, client>>
  BY DEF Fetch, store, broker, history
<1>3. CASE Rest(w)
  BY <1>2, <1>3, DropStep
<1>4. CASE worker' = [worker EXCEPT ![w].pc = "spawn", ![w].res = saved[Job(w)]]
  <2>1. /\ Others(w) /\ worker'[w].pc = "spawn" /\ worker'[w].msg = m
        /\ worker'[w].ok = worker[w].ok /\ worker'[w].i = worker[w].i
    <3>1. saved[Job(w)] \in Nat
      BY <1>1 DEF TypeOK
    <3>. QED
      BY <1>1, <1>4, <3>1, FetchFacts
  <2>2. Keeps(w)
    BY <1>0, <2>1 DEF Keeps, Busy, Job
  <2>3. /\ \A j \in Jobs : Known(j)' <=> Known(j)
        /\ \A j \in Jobs : Same(j)
        /\ Recorded(t)'
    BY <1>1, <1>2 DEF Known, Same, Recorded, Fresh
  <2>4. Executing(m) /\ LoopKids(w) /\ (worker[w].ok \/ m.retried = MaxRetries[t]) /\ Unlisted(t)
    BY <1>0, <1>1 DEF AtWork, Settling
  <2>5. Executing(m)' /\ LoopKids(w)' /\ Unlisted(t)'
    BY <1>0, <1>1, <1>2, <2>1, <2>4 DEF Executing, LoopKids, Unlisted, Known, Job
  <2>6. AtWork(w)'
    BY <1>1, <2>1, <2>4, <2>5 DEF AtWork, Settling
  <2>. QED
    BY <1>0, <1>1, <1>2, <2>1, <2>2, <2>3, <2>6, Working
<1>. QED
  BY <1>3, <1>4 DEF Fetch

(* A continuation has one place, and is no client's job.                   *)
LEMMA OnePlace ==
  ASSUME NEW j \in Jobs, NEW ok \in BOOLEAN, NEW i \in DOMAIN Kids(j, ok)
  PROVE  /\ Kids(j, ok)[i] \in Jobs \ Roots
         /\ \A p \in Jobs, ok2 \in BOOLEAN : \A k \in DOMAIN Kids(p, ok2) :
              Kids(p, ok2)[k] = Kids(j, ok)[i] => p = j /\ ok2 = ok /\ k = i
BY ForestAssumption, KidsType

LEMMA SpawnStep ==
  ASSUME IInv, TypeInv', NEW w \in Workers, Spawn(w),
         NEW t, t = Job(w), NEW m, m = worker[w].msg, NEW k, k = Kid(w)
  PROVE  IInv'
<1>0. Busy(w) /\ worker[w].pc = "spawn" /\ Unique /\ Holding /\ WorkerOK
  BY DEF Spawn, Busy, IInv
<1>1. /\ TypeOK /\ WorkerType /\ AtWork(w) /\ Recorded(t)
      /\ t \in Jobs /\ t = m.id /\ m \in Msg /\ Known(t)
      /\ worker[w].i \in Nat /\ worker[w].ok \in BOOLEAN
  BY <1>0, AtWorkFacts
<1>2. worker[w].i \in DOMAIN Kids(t, worker[w].ok) /\ k = Kids(t, worker[w].ok)[worker[w].i]
  BY <1>0 DEF WorkerOK, Kid
<1>3. /\ k \in Jobs \ Roots
      /\ \A p \in Jobs, ok \in BOOLEAN : \A n \in DOMAIN Kids(p, ok) :
           Kids(p, ok)[n] = k => p = t /\ ok = worker[w].ok /\ n = worker[w].i
  BY <1>1, <1>2, OnePlace
<1>4. /\ Executing(m) /\ LoopKids(w) /\ (worker[w].ok \/ m.retried = MaxRetries[t]) /\ Unlisted(t)
  BY <1>0, <1>1 DEF AtWork, Settling
<1>5. ~Known(k) /\ k # t
  BY <1>0, <1>1, <1>2, <1>4 DEF LoopKids
<1>6. /\ \A n \in InBroker : n.id # k
      /\ \A v \in Workers : Busy(v) => Job(v) # k
      /\ \A v \in Workers : worker[v].pc = "push" => Kid(v) # k
      /\ Unlisted(k) /\ attempts[k] = 0 /\ Fresh(k)
  BY <1>3, <1>5, Unheld
<1>7. UNCHANGED <<success, failed, attempts, queue, hand, client>> /\ InBroker' = InBroker
  BY DEF Spawn, broker, history, InBroker
<1>8. PICK r \in CtxReplies :
        /\ SetJob(r, k, "queued", 0)
        /\ IF r = "ok" THEN Goto(w, "push") ELSE Rest(w)
  BY DEF Spawn
<1>9. /\ \A j \in Jobs : j # k => jobMsg'[j] = jobMsg[j]
      /\ \/ r # "failed" /\ jobMsg'[k] = [status |-> "queued", retried |-> 0]
         \/ r = "failed" /\ jobMsg' = jobMsg
  BY <1>1, <1>3, <1>8 DEF SetJob, TypeOK
<1>10. CASE r = "failed"
  BY <1>7, <1>8, <1>9, <1>10, DropStep
<1>11. CASE r # "failed"
  <2> DEFINE T == {k, t}
  <2>1. /\ Others(w)
        /\ \/ worker'[w].pc = "idle"
           \/ /\ worker'[w].pc = "push" /\ worker'[w].msg = m
              /\ worker'[w].ok = worker[w].ok /\ worker'[w].i = worker[w].i
    BY <1>1, <1>8, RestFacts, GotoFacts DEF PC
  <2>2. worker'[w].pc = "push" => Job(w)' = t /\ Kid(w)' = k
    BY <1>1, <1>2, <2>1 DEF Job, Kid
  <2>3. \A v \in Workers : Busy(v)' => Busy(v) /\ Job(v)' = Job(v)
    BY <1>0, <2>1, <2>2 DEF Others, Busy, Job
  <2>4. \A v \in Workers : v # w /\ worker'[v].pc = "push" => worker[v].pc = "push" /\ Kid(v)' = Kid(v)
    BY <2>1 DEF Others, Kid, Job
  <2>5. BrokerUnique' /\ WorkerUnique' /\ ClientUnique'
    BY <1>0, <1>7, <2>3 DEF Unique, BrokerUnique, WorkerUnique, ClientUnique
  <2>6. SpawnUnique'
    <3>1. ASSUME NEW v \in Workers, worker'[v].pc = "push"
          PROVE  /\ \A n \in InBroker : n.id # Kid(v)'
                 /\ \A u \in Workers : Busy(u) => Job(u) # Kid(v)'
      <4>1. CASE v = w
        BY <1>6, <2>2, <3>1, <4>1
      <4>2. CASE v # w
        BY <1>0, <2>4, <3>1, <4>2 DEF Unique, SpawnUnique
      <4>. QED
        BY <4>1, <4>2
    <3>. QED
      BY <1>7, <2>3, <3>1 DEF SpawnUnique
  <2>7. ASSUME NEW j \in Jobs, j # t PROVE SameKids(j)
    <3>1. ASSUME NEW ok \in BOOLEAN, NEW n \in DOMAIN Kids(j, ok)
          PROVE  Kids(j, ok)[n] \in Jobs /\ Kids(j, ok)[n] # k
      BY <1>3, <2>7, KidsType
    <3>. QED
      BY <1>9, <3>1 DEF SameKids, Known
  <2>8. T \in SUBSET Jobs /\ \A j \in Jobs \ T : Same(j) /\ SameKids(j)
    BY <1>1, <1>3, <1>7, <1>9, <2>7 DEF Same
  <2>9. /\ \A j \in Jobs \ T : Recorded(j)'
        /\ \A n \in InBroker : n.id \notin T => Queued(n)'
        /\ \A c \in Roots \ T : Client(c)'
        /\ \A v \in Workers :
             /\ worker'[v] = worker[v]
             /\ Busy(v) => Job(v) \notin T
             /\ worker[v].pc = "push" => Kid(v) \notin T
             => AtWork(v)'
    BY <1>7, <2>8, Untouched
  <2>10. Fresh(k)' /\ Queued(NewMsg(k, 0))'
    <3>1. Fresh(k)'
      BY <1>3, <1>5, <1>6, <2>7, FreshFrame
    <3>2. MaxRetries[k] \in Nat
      BY <1>3, TypeAssumption
    <3>. QED
      BY <1>6, <1>7, <1>9, <1>11, <3>1, <3>2 DEF Queued, NewMsg
  <2>11. Recorded(t)' /\ Recorded(k)'
    <3>1. Recorded(t)'
      BY <1>1, <1>5, <1>7, <1>9 DEF Recorded, Known
    <3>2. MaxRetries[k] \in Nat
      BY <1>3, TypeAssumption
    <3>3. Recorded(k)'
      BY <1>6, <1>7, <1>9, <1>11, <3>2 DEF Recorded, Known, Unlisted
    <3>. QED
      BY <3>1, <3>3
  <2>12. \A n \in InBroker : Queued(n)'
    BY <1>0, <1>6, <2>9 DEF Unique, WorkerUnique
  <2>13. ASSUME NEW c \in Roots PROVE Client(c)'
    <3>1. c # k
      BY <1>3
    <3>2. CASE c = t
      BY <1>0, <1>1, <1>7, <3>2 DEF Unique, ClientUnique, Holding, Client
    <3>. QED
      BY <2>9, <3>1, <3>2
  <2>14. ASSUME NEW v \in Workers, v # w PROVE AtWork(v)'
    <3>1. worker'[v] = worker[v]
      BY <2>1, <2>14 DEF Others
    <3>2. Busy(v) => Job(v) \notin T
      BY <1>0, <1>6, <2>14 DEF Unique, WorkerUnique
    <3>3. worker[v].pc = "push" => Kid(v) \notin T
      BY <1>0, <1>6 DEF Unique, SpawnUnique
    <3>. QED
      BY <2>9, <3>1, <3>2, <3>3
  <2>15. AtWork(w)'
    <3>1. CASE worker'[w].pc = "idle"
      BY <3>1 DEF AtWork, Settling
    <3>2. CASE worker'[w].pc = "push"
      <4>1. Executing(m)' /\ Unlisted(t)'
        BY <1>1, <1>4, <1>5, <1>7, <1>9 DEF Executing, Unlisted
      <4>2. LoopKids(w)'
        <5>1. ASSUME NEW ok \in BOOLEAN, NEW n \in DOMAIN Kids(t, ok),
                     ~(ok = worker[w].ok /\ n <= worker[w].i)
              PROVE  ~Known(Kids(t, ok)[n])'
          <6>1. Kids(t, ok)[n] \in Jobs /\ Kids(t, ok)[n] # k /\ n \in Nat
            BY <1>1, <1>3, <5>1, KidsType
          <6>2. ~Known(Kids(t, ok)[n])
            BY <1>0, <1>1, <1>4, <5>1, <6>1 DEF LoopKids
          <6>. QED
            BY <1>9, <6>1, <6>2 DEF Known
        <5>2. Job(w)' = t /\ worker'[w].ok = worker[w].ok /\ worker'[w].i = worker[w].i
          BY <2>1, <2>2, <3>2
        <5>3. \A ok \in BOOLEAN : \A n \in DOMAIN Kids(t, ok) : n \in Nat
          BY <1>1, KidsType
        <5>. QED
          BY <1>1, <3>2, <5>1, <5>2, <5>3 DEF LoopKids
      <4>. QED
        BY <1>1, <1>4, <2>1, <2>2, <2>10, <3>2, <4>1, <4>2 DEF AtWork, Settling
    <3>. QED
      BY <2>1, <3>1, <3>2
  <2>16. \A j \in Jobs : Recorded(j)'
    BY <2>9, <2>11
  <2>17. \A v \in Workers : AtWork(v)'
    BY <2>14, <2>15
  <2>. QED
    BY <1>7, <2>5, <2>6, <2>12, <2>13, <2>16, <2>17 DEF IInv, Holding, TypeInv, Unique
<1>. QED
  BY <1>10, <1>11

LEMMA PushKidStep ==
  ASSUME IInv, TypeInv', NEW w \in Workers, PushKid(w),
         NEW t, t = Job(w), NEW m, m = worker[w].msg, NEW k, k = Kid(w),
         NEW n, n = NewMsg(k, worker[w].res)
  PROVE  IInv'
<1>0. Busy(w) /\ worker[w].pc = "push" /\ Unique /\ WorkerOK
  BY DEF PushKid, Busy, IInv
<1>1. /\ TypeOK /\ WorkerType /\ AtWork(w)
      /\ t \in Jobs /\ t = m.id /\ m \in Msg
      /\ worker[w].i \in Nat /\ worker[w].ok \in BOOLEAN
  BY <1>0, AtWorkFacts
<1>2. worker[w].i \in DOMAIN Kids(t, worker[w].ok) /\ k = Kids(t, worker[w].ok)[worker[w].i]
  BY <1>0 DEF WorkerOK, Kid
<1>3. /\ k \in Jobs \ Roots
      /\ \A p \in Jobs, ok \in BOOLEAN : \A x \in DOMAIN Kids(p, ok) :
           Kids(p, ok)[x] = k => p = t /\ ok = worker[w].ok /\ x = worker[w].i
  BY <1>1, <1>2, OnePlace
<1>4. /\ Executing(m) /\ LoopKids(w) /\ (worker[w].ok \/ m.retried = MaxRetries[t]) /\ Unlisted(t)
      /\ Queued(NewMsg(k, 0))
  BY <1>0, <1>1 DEF AtWork, Settling
<1>5. UNCHANGED <<jobMsg, success, failed, attempts, hand, client>>
  BY DEF PushKid, store, history
<1>6. /\ n \in Msg /\ n.id = k /\ Queued(n)
  BY <1>1, <1>3, <1>4 DEF WorkerType, WorkerState, NewMsg, Msg, Queued
<1>7. \/ queue' = queue /\ Rest(w)
      \/ queue' = queue \cup {n} /\ Rest(w)
      \/ /\ queue' = queue \cup {n}
         /\ worker' = [worker EXCEPT ![w].pc = LoopPC(t, worker[w].ok, worker[w].i + 1),
                                     ![w].i = worker[w].i + 1, ![w].res = 0]
  BY DEF PushKid, Push
<1>8. CASE queue' = queue /\ Rest(w)
  BY <1>5, <1>8, DropStep
<1>9. ASSUME queue' = queue \cup {n}, Others(w), AtWork(w)', Keeps(w), worker'[w].pc # "push" PROVE IInv'
  <2>1. ASSUME NEW v \in Workers
        PROVE  /\ Keeps(v)
               /\ Busy(v)' => Job(v)' # k
               /\ worker'[v].pc = "push" => Kid(v)' # k
               /\ worker'[v] = worker[v] \/ AtWork(v)'
    <3>1. Busy(v) => Job(v) # k
      BY <1>0 DEF Unique, SpawnUnique
    <3>2. CASE v = w
      BY <1>9, <3>1, <3>2 DEF Keeps
    <3>3. CASE v # w
      <4>1. worker'[v] = worker[v]
        BY <1>9, <3>3 DEF Others
      <4>2. ASSUME worker[v].pc = "push" PROVE Kid(v) # k
        <5>1. /\ Busy(v) /\ Job(v) \in Jobs /\ worker[v].ok \in BOOLEAN
              /\ worker[v].i \in DOMAIN Kids(Job(v), worker[v].ok)
          BY <1>0, <4>2, AtWorkFacts DEF Busy, WorkerOK
        <5>2. Job(v) # t
          BY <1>0, <3>3, <5>1 DEF Unique, WorkerUnique
        <5>. QED
          BY <1>3, <5>1, <5>2 DEF Kid
      <4>. QED
        BY <3>1, <4>1, <4>2 DEF Keeps, Busy, Job, Kid
    <3>. QED
      BY <3>2, <3>3
  <2>2. \A x \in InBroker : x.id # k
    BY <1>0 DEF Unique, SpawnUnique
  <2>3. \A c \in Roots : client'[c] = "pushing" => c # k
    BY <1>3
  <2>4. ClientsShrink
    BY <1>5 DEF ClientsShrink
  <2>. QED
    BY <1>5, <1>6, <1>9, <2>1, <2>2, <2>3, <2>4, QueueGains
<1>10. CASE queue' = queue \cup {n} /\ Rest(w)
  <2>1. Others(w) /\ worker'[w].pc = "idle"
    BY <1>1, <1>10, RestFacts
  <2>. QED
    BY <1>9, <1>10, <2>1 DEF Keeps, Busy, AtWork, Settling
<1>11. ASSUME NEW p, p = LoopPC(t, worker[w].ok, worker[w].i + 1),
              NEW i, i = worker[w].i + 1,
              queue' = queue \cup {n},
              worker' = [worker EXCEPT ![w].pc = p, ![w].i = i, ![w].res = 0]
       PROVE  IInv'
  <2>1. i \in Nat /\ p \in PC /\ p \in {"index", "fetch", "spawn"}
    BY <1>1, <1>11 DEF LoopPC, PC
  <2>2. /\ Others(w) /\ worker'[w].pc = p /\ worker'[w].msg = m
        /\ worker'[w].ok = worker[w].ok /\ worker'[w].i = i
    <3>1. WorkerType /\ i \in Nat /\ p \in PC /\ worker' = [worker EXCEPT ![w].pc = p, ![w].i = i, ![w].res = 0]
      BY <1>1, <1>11, <2>1
    <3>. QED
      BY <3>1, LoopFacts
  <2>3. Keeps(w) /\ Job(w)' = t
    BY <1>0, <1>1, <2>1, <2>2 DEF Keeps, Busy, Job
  <2>4. LoopKids(w)'
    <3>1. \A ok \in BOOLEAN : \A x \in DOMAIN Kids(t, ok) : x \in Nat
      BY <1>1, KidsType
    <3>2. \A ok \in BOOLEAN : \A x \in DOMAIN Kids(t, ok) :
            ~Known(Kids(t, ok)[x]) \/ (ok = worker[w].ok /\ x < i)
      BY <1>1, <1>4, <1>11, <3>1 DEF LoopKids
    <3>3. \A j : Known(j)' <=> Known(j)
      BY <1>5 DEF Known
    <3>. QED
      BY <2>2, <2>3, <3>2, <3>3 DEF LoopKids
  <2>5. Executing(m)' /\ Unlisted(t)'
    BY <1>1, <1>4, <1>5 DEF Executing, Unlisted
  <2>6. AtWork(w)'
    BY <1>1, <1>4, <2>1, <2>2, <2>4, <2>5 DEF AtWork, Settling
  <2>. QED
    BY <1>9, <1>11, <2>1, <2>2, <2>3, <2>6
<1>. QED
  BY <1>7, <1>8, <1>10, <1>11

LEMMA IndexStep ==
  ASSUME IInv, TypeInv', NEW w \in Workers, Index(w),
         NEW t, t = Job(w), NEW m, m = worker[w].msg
  PROVE  IInv'
<1>0. Busy(w) /\ worker[w].pc = "index"
  BY DEF Index, Busy
<1>1. /\ TypeOK /\ WorkerType /\ AtWork(w) /\ Recorded(t)
      /\ t \in Jobs /\ t = m.id /\ m \in Msg /\ worker[w].ok \in BOOLEAN
      /\ m.retried \in Nat /\ MaxRetries[t] \in Nat /\ attempts[t] \in Nat
  BY <1>0, AtWorkFacts
<1>2. Executing(m) /\ LoopKids(w) /\ (worker[w].ok \/ m.retried = MaxRetries[t]) /\ Unlisted(t)
  BY <1>0, <1>1 DEF AtWork, Settling
<1>3. UNCHANGED <<jobMsg, attempts, queue, hand, client>>
  BY DEF Index, broker, history
<1>4. /\ Rest(w) \/ Goto(w, "final")
      /\ \/ success' = success /\ failed' = failed /\ Rest(w)
         \/ worker[w].ok /\ success' = success \cup {t} /\ failed' = failed
         \/ ~worker[w].ok /\ failed' = failed \cup {t} /\ success' = success
  BY <1>1 DEF Index
<1>5. CASE success' = success /\ failed' = failed /\ Rest(w)
  BY <1>3, <1>5, DropStep
<1>6. CASE \/ worker[w].ok /\ success' = success \cup {t} /\ failed' = failed
           \/ ~worker[w].ok /\ failed' = failed \cup {t} /\ success' = success
  <2>1. Others(w) /\ (\/ worker'[w].pc = "idle"
                      \/ /\ worker'[w].pc = "final" /\ worker'[w].msg = m
                         /\ worker'[w].ok = worker[w].ok)
    BY <1>1, <1>4, RestFacts, GotoFacts DEF PC
  <2>2. Keeps(w)
    BY <1>0, <2>1 DEF Keeps, Busy, Job
  <2>3. /\ \A j \in Jobs : Known(j)' <=> Known(j)
        /\ \A j \in Jobs : j # t => Same(j)
        /\ Fresh(t)' <=> Fresh(t)
    BY <1>3, <1>6 DEF Known, Same, Fresh
  <2>4. Recorded(t)'
    BY <1>1, <1>2, <1>3, <1>6, <2>3 DEF Recorded, Executing, Unlisted, Known
  <2>5. Executing(m)'
    BY <1>2, <1>3 DEF Executing
  <2>6. worker'[w].pc = "final" => LoopKids(w)'
    <3>1. \A j : Known(j)' <=> Known(j)
      BY <1>3 DEF Known
    <3>2. ASSUME worker'[w].pc = "final" PROVE Job(w)' = t /\ worker'[w].ok = worker[w].ok /\ worker'[w].i = worker[w].i
      <4>1. Goto(w, "final")
        BY <1>1, <1>4, <3>2, RestFacts
      <4>. QED
        BY <1>1, <4>1, GotoFacts DEF PC, Job
    <3>. QED
      BY <1>0, <1>2, <3>1, <3>2 DEF LoopKids
  <2>7. AtWork(w)'
    BY <1>1, <1>2, <1>6, <2>1, <2>5, <2>6 DEF AtWork, Settling
  <2>. QED
    BY <1>0, <1>1, <1>3, <2>1, <2>2, <2>3, <2>4, <2>7, Working
<1>. QED
  BY <1>4, <1>5, <1>6

LEMMA FinishStep ==
  ASSUME IInv, TypeInv', NEW w \in Workers, Finish(w),
         NEW t, t = Job(w), NEW m, m = worker[w].msg
  PROVE  IInv'
<1>0. Busy(w) /\ worker[w].pc = "final"
  BY DEF Finish, Busy
<1>1. /\ TypeOK /\ WorkerType /\ AtWork(w) /\ Recorded(t) /\ Known(t)
      /\ t \in Jobs /\ t = m.id /\ worker[w].ok \in BOOLEAN /\ m.retried \in Nat
  BY <1>0, AtWorkFacts
<1>2. Executing(m) /\ t \in (IF worker[w].ok THEN success ELSE failed)
  BY <1>0, <1>1 DEF AtWork, Settling
<1>3. UNCHANGED <<success, failed, attempts, queue, hand, client>>
  BY DEF Finish, broker, history
<1>4. PICK r \in CtxReplies : SetJob(r, t, FinalStatus(w), m.retried)
  BY <1>1 DEF Finish
<1>5. Others(w) /\ worker'[w].pc = "idle"
  BY <1>1, RestFacts DEF Finish
<1>6. /\ \A j \in Jobs : Known(j)' <=> Known(j)
      /\ \A j \in Jobs : j # t => jobMsg'[j] = jobMsg[j]
      /\ \A j \in Jobs : SameKids(j)
      /\ \/ r # "failed" /\ jobMsg'[t] = [status |-> FinalStatus(w), retried |-> m.retried]
         \/ r = "failed" /\ jobMsg' = jobMsg
  <2>1. FinalStatus(w) \in Status \ {"none"}
    BY DEF FinalStatus, Status
  <2>. QED
    BY <1>1, <1>4, <2>1, WriteKnown
<1>7. Keeps(w) /\ AtWork(w)'
  BY <1>5 DEF Keeps, Busy, AtWork, Settling
<1>8. Recorded(t)'
  <2>1. Recorded(t) /\ Known(t)'
    BY <1>1, <1>6
  <2>. QED
    BY <1>2, <1>3, <1>6, <2>1 DEF Recorded, Known, Executing, FinalStatus
<1>9. \A j \in Jobs : j # t => Same(j)
  BY <1>3, <1>6 DEF Same
<1>. QED
  BY <1>0, <1>1, <1>3, <1>5, <1>6, <1>7, <1>8, <1>9, Working

-----------------------------------------------------------------------------
(* Clients and consumers.                                                  *)

LEMMA ClientRecordStep ==
  ASSUME IInv, TypeInv', NEW c \in Roots, ClientRecord(c)
  PROVE  IInv'
<1>0. c \in Jobs /\ Unique /\ Holding /\ TypeOK /\ WorkerOK
  BY TypeAssumption DEF IInv
<1>1. /\ UNCHANGED <<success, failed, attempts, queue, hand, worker>> /\ InBroker' = InBroker
      /\ client[c] = "new"
  BY DEF ClientRecord, broker, history, InBroker
<1>2. ~Known(c)
  BY <1>0, <1>1 DEF Holding, Client
<1>3. /\ \A n \in InBroker : n.id # c
      /\ \A v \in Workers : Busy(v) => Job(v) # c
      /\ \A v \in Workers : worker[v].pc = "push" => Kid(v) # c
      /\ Unlisted(c) /\ attempts[c] = 0 /\ Fresh(c)
  BY <1>0, <1>2, Unheld
<1>4. PICK r \in Replies :
        /\ SetJob(r, c, "queued", 0)
        /\ client' = [client EXCEPT ![c] = IF r = "ok" THEN "pushing" ELSE "error"]
  BY DEF ClientRecord
<1>5. /\ \A d \in Roots : d # c => client'[d] = client[d]
      /\ client'[c] = IF r = "ok" THEN "pushing" ELSE "error"
  BY <1>0, <1>4 DEF TypeOK
<1>6. /\ \A j \in Jobs : j # c => jobMsg'[j] = jobMsg[j]
      /\ \/ r # "failed" /\ jobMsg'[c] = [status |-> "queued", retried |-> 0]
         \/ r = "failed" /\ jobMsg' = jobMsg
  BY <1>0, <1>4 DEF SetJob, TypeOK
<1>7. CASE r = "failed"
  <2>1. ClientsShrink
    BY <1>5, <1>7 DEF ClientsShrink
  <2>. QED
    BY <1>1, <1>6, <1>7, <2>1, Loss
<1>8. CASE r # "failed"
  <2> DEFINE T == {c}
  <2>1. ASSUME NEW j \in Jobs PROVE SameKids(j)
    <3>1. \A ok \in BOOLEAN : \A n \in DOMAIN Kids(j, ok) :
            Kids(j, ok)[n] \in Jobs /\ Kids(j, ok)[n] # c
      BY OnePlace
    <3>. QED
      BY <1>6, <3>1 DEF SameKids, Known
  <2>2. T \in SUBSET Jobs /\ \A j \in Jobs \ T : Same(j) /\ SameKids(j)
    BY <1>0, <1>1, <1>6, <2>1 DEF Same
  <2>3. /\ \A j \in Jobs \ T : Recorded(j)'
        /\ \A n \in InBroker : n.id \notin T => Queued(n)'
        /\ \A d \in Roots \ T : Client(d)'
        /\ \A v \in Workers : AtWork(v)'
    BY <1>1, <1>3, <1>5, <2>2, Untouched
  <2>4. MaxRetries[c] \in Nat
    BY <1>0, TypeAssumption
  <2>5. Fresh(c)'
    BY <1>0, <1>3, <2>1, FreshFrame
  <2>6. Recorded(c)' /\ Queued(NewMsg(c, 0))'
    BY <1>0, <1>1, <1>3, <1>6, <1>8, <2>4, <2>5 DEF Recorded, Queued, Known, Unlisted, NewMsg
  <2>7. Client(c)'
    BY <1>5, <2>6 DEF Client
  <2>8. Unique'
    BY <1>0, <1>1, <1>3, <1>5 DEF Unique, BrokerUnique, WorkerUnique, ClientUnique, SpawnUnique, Busy, Job, Kid
  <2>9. (\A j \in Jobs : Recorded(j)') /\ (\A d \in Roots : Client(d)') /\ (\A n \in InBroker : Queued(n)')
    BY <1>3, <2>3, <2>6, <2>7
  <2>. QED
    BY <1>1, <2>3, <2>8, <2>9 DEF IInv, Holding, TypeInv
<1>. QED
  BY <1>7, <1>8

LEMMA ClientPushStep ==
  ASSUME IInv, TypeInv', NEW c \in Roots, ClientPush(c),
         NEW n, n = NewMsg(c, 0)
  PROVE  IInv'
<1>0. c \in Jobs /\ Unique /\ Holding /\ TypeOK
  BY TypeAssumption DEF IInv
<1>1. /\ UNCHANGED <<jobMsg, success, failed, attempts, hand, worker>>
      /\ client[c] = "pushing"
      /\ queue' = queue \/ queue' = queue \cup {n}
  BY DEF ClientPush, Push, store, history
<1>2. n \in Msg /\ n.id = c /\ Queued(n)
  BY <1>0, <1>1 DEF NewMsg, Msg, Holding, Client
<1>3. /\ \A d \in Roots : d # c => client'[d] = client[d]
      /\ client'[c] \in {"accepted", "error"}
  BY <1>0 DEF ClientPush, TypeOK
<1>4. ClientsShrink
  BY <1>3 DEF ClientsShrink
<1>5. CASE queue' = queue
  BY <1>1, <1>4, <1>5, Loss
<1>6. CASE queue' = queue \cup {n}
  <2>1. /\ \A x \in InBroker : x.id # c
        /\ \A v \in Workers : Busy(v) => Job(v) # c
    BY <1>0, <1>1 DEF Unique, ClientUnique
  <2>2. ASSUME NEW v \in Workers, worker[v].pc = "push" PROVE Kid(v) # c
    <3>1. Busy(v) /\ Job(v) \in Jobs /\ worker[v].ok \in BOOLEAN
      BY <2>2, AtWorkFacts DEF Busy
    <3>2. worker[v].i \in DOMAIN Kids(Job(v), worker[v].ok)
      BY <2>2 DEF IInv, WorkerOK
    <3>. QED
      BY <3>1, <3>2, OnePlace DEF Kid
  <2>3. ASSUME NEW v \in Workers
        PROVE  /\ Keeps(v) /\ worker'[v] = worker[v]
               /\ Busy(v)' => Job(v)' # n.id
               /\ worker'[v].pc = "push" => Kid(v)' # n.id
    BY <1>1, <1>2, <2>1, <2>2 DEF Keeps, Busy, Job, Kid
  <2>4. \A d \in Roots : client'[d] = "pushing" => d # n.id
    BY <1>2, <1>3
  <2>. QED
    BY <1>1, <1>2, <1>4, <1>6, <2>1, <2>3, <2>4, QueueGains
<1>. QED
  BY <1>1, <1>5, <1>6

LEMMA ConsumeStep ==
  ASSUME IInv, TypeInv', NEW n \in queue, Consume(n)
  PROVE  IInv'
<1>0. Unique /\ Holding
  BY DEF IInv
<1>1. /\ UNCHANGED <<jobMsg, success, failed, attempts, client, worker>>
      /\ queue' = queue \ {n} /\ hand' = hand \cup {n}
  BY DEF Consume, store, history
<1>2. InBroker' = InBroker /\ queue' \cap hand' = {}
  BY <1>0, <1>1 DEF InBroker, Unique, BrokerUnique
<1>3. Unique'
  BY <1>0, <1>1, <1>2, UniqueShrinks DEF ClientsShrink, Keeps, Busy, Job, Kid
<1>4. Holding'
  <2> DEFINE T == {}
  <2>1. T \in SUBSET Jobs /\ \A j \in Jobs \ T : Same(j) /\ SameKids(j)
    BY <1>1 DEF Same, SameKids, Known
  <2>. QED
    BY <1>1, <1>2, <2>1, Untouched DEF Holding
<1>. QED
  BY <1>3, <1>4 DEF IInv, TypeInv

LEMMA DeliverStep ==
  ASSUME IInv, TypeInv', NEW w \in Workers, NEW n \in hand, Deliver(w, n)
  PROVE  IInv'
<1>0. Unique /\ Holding /\ TypeOK /\ n \in Msg /\ n \in InBroker
  BY DEF IInv, TypeOK, InBroker
<1>1. /\ UNCHANGED <<jobMsg, success, failed, attempts, client, queue>>
      /\ hand' = hand \ {n} /\ ~Busy(w)
  BY DEF Deliver, store, history, Busy
<1>2. Others(w) /\ worker'[w].pc = "recv" /\ worker'[w].msg = n
  BY <1>0, DeliverFacts DEF Deliver, TypeOK, WorkerType, WorkerState
<1>3. InBroker' = InBroker \ {n} /\ queue' \cap hand' = {}
  BY <1>0, <1>1 DEF InBroker, Unique, BrokerUnique
<1>4. ASSUME NEW v \in Workers, v # w
      PROVE  worker'[v] = worker[v] /\ (Busy(v)' <=> Busy(v)) /\ Job(v)' = Job(v) /\ Kid(v)' = Kid(v)
  BY <1>2, <1>4 DEF Others, Busy, Job, Kid
<1>5. Job(w)' = n.id /\ worker'[w].pc # "push"
  BY <1>2 DEF Job
<1>6. /\ \A v \in Workers : Busy(v) => Job(v) # n.id
      /\ \A v \in Workers : worker[v].pc = "push" => Kid(v) # n.id
      /\ \A c \in Roots : client[c] = "pushing" => c # n.id
      /\ \A x \in InBroker : x.id = n.id => x = n
  BY <1>0 DEF Unique, BrokerUnique, WorkerUnique, ClientUnique, SpawnUnique
<1>7. BrokerUnique'
  BY <1>0, <1>3 DEF Unique, BrokerUnique
<1>8. WorkerUnique'
  <2>1. ASSUME NEW v \in Workers, NEW u \in Workers, Busy(v)', Busy(u)', Job(v)' = Job(u)' PROVE v = u
    BY <1>0, <1>4, <1>5, <1>6, <2>1 DEF Unique, WorkerUnique
  <2>2. ASSUME NEW v \in Workers, NEW x \in InBroker', Busy(v)' PROVE x.id # Job(v)'
    BY <1>0, <1>3, <1>4, <1>5, <1>6, <2>2 DEF Unique, WorkerUnique
  <2>. QED
    BY <2>1, <2>2 DEF WorkerUnique
<1>9. ClientUnique'
  <2>1. ASSUME NEW c \in Roots, client[c] = "pushing", NEW v \in Workers, Busy(v)' PROVE Job(v)' # c
    BY <1>0, <1>4, <1>5, <1>6, <2>1 DEF Unique, ClientUnique
  <2>. QED
    BY <1>0, <1>1, <1>3, <2>1 DEF Unique, ClientUnique
<1>10. SpawnUnique'
  <2>1. ASSUME NEW v \in Workers, worker'[v].pc = "push"
        PROVE  v # w /\ worker[v].pc = "push" /\ Kid(v)' = Kid(v)
    BY <1>4, <1>5, <2>1
  <2>2. ASSUME NEW v \in Workers, worker'[v].pc = "push", NEW u \in Workers, Busy(u)'
        PROVE  Job(u)' # Kid(v)'
    BY <1>0, <1>4, <1>5, <1>6, <2>1, <2>2 DEF Unique, SpawnUnique
  <2>. QED
    BY <1>0, <1>3, <2>1, <2>2 DEF Unique, SpawnUnique
<1>11. /\ \A j \in Jobs : Recorded(j)'
       /\ \A x \in InBroker : Queued(x)'
       /\ \A c \in Roots : Client(c)'
       /\ \A v \in Workers : worker'[v] = worker[v] => AtWork(v)'
  <2> DEFINE T == {}
  <2>1. T \in SUBSET Jobs /\ \A j \in Jobs \ T : Same(j) /\ SameKids(j)
    BY <1>1 DEF Same, SameKids, Known
  <2>. QED
    BY <1>1, <2>1, Untouched
<1>12. AtWork(w)'
  BY <1>0, <1>2, <1>11 DEF AtWork, Settling
<1>13. Holding'
  BY <1>3, <1>4, <1>11, <1>12 DEF Holding
<1>. QED
  BY <1>7, <1>8, <1>9, <1>10, <1>13 DEF IInv, TypeInv, Unique

-----------------------------------------------------------------------------
(* The invariant is inductive.                                             *)

LEMMA IInvInit == Init => IInv
<1> SUFFICES ASSUME Init PROVE IInv
  OBVIOUS
<1>1. TypeOK /\ WorkerOK
  BY TypeInit DEF TypeInv
<1>2. /\ \A w \in Workers : worker[w].pc = "idle" /\ ~Busy(w)
      /\ InBroker = {} /\ queue = {} /\ hand = {} /\ success = {} /\ failed = {}
      /\ \A c \in Roots : client[c] = "new"
  BY RestingType DEF Init, InBroker, Busy
<1>3. Unique
  BY <1>2 DEF Unique, BrokerUnique, WorkerUnique, ClientUnique, SpawnUnique
<1>4. \A j \in Jobs : ~Known(j) /\ attempts[j] = 0 /\ MaxRetries[j] \in Nat
  BY TypeAssumption DEF Init, Known
<1>5. \A j \in Jobs : Fresh(j)
  BY <1>4, KidsType DEF Fresh
<1>6. ASSUME NEW j \in Jobs PROVE Recorded(j)
  <2>1. jobMsg[j].status = "none" /\ attempts[j] = 0 /\ MaxRetries[j] \in Nat /\ Fresh(j)
    BY <1>4, <1>5 DEF Known
  <2>. QED
    BY <1>2, <2>1 DEF Recorded
<1>7. \A c \in Roots : Client(c)
  BY <1>2, <1>4, TypeAssumption DEF Client
<1>8. \A w \in Workers : AtWork(w)
  BY <1>2 DEF AtWork, Settling
<1>. QED
  BY <1>1, <1>2, <1>3, <1>6, <1>7, <1>8 DEF IInv, Holding

LEMMA IInvStep == IInv /\ [Next]_vars => IInv'
<1> SUFFICES ASSUME IInv, [Next]_vars PROVE IInv'
  OBVIOUS
<1>t. TypeInv'
  BY TypeStep DEF IInv, TypeInv
<1>a. ASSUME NEW w \in Workers, (\E x \in Answers : HandlerReturn(w, x)) \/ Cancelled(w) \/ Deadline(w)
      PROVE  IInv'
  <2>1. worker[w].pc = "run" /\ TypeOK
    BY <1>a DEF HandlerReturn, Cancelled, Deadline, IInv
  <2>2. Job(w) \in Jobs
    BY <2>1, AtWorkFacts DEF Busy
  <2>3. /\ UNCHANGED <<jobMsg, success, failed, attempts, queue, hand, client>>
        /\ Resolve(w, FALSE) \/ Resolve(w, TRUE)
    BY <1>a, <2>1, <2>2, ReturnFacts DEF store, broker
  <2>. QED
    BY <1>t, <2>1, <2>3, ResolveStep
<1>0. CASE UNCHANGED vars
  BY <1>0, <1>t, Loss DEF vars, store, broker, history, ClientsShrink
<1>1. ASSUME NEW c \in Roots, ClientRecord(c) \/ ClientPush(c) PROVE IInv'
  BY <1>t, <1>1, ClientRecordStep, ClientPushStep
<1>2. ASSUME NEW n \in queue, Consume(n) \/ Lose(n) PROVE IInv'
  <2>1. CASE Consume(n)
    BY <1>t, <2>1, ConsumeStep
  <2>2. CASE Lose(n)
    BY <1>t, <2>2, Loss DEF Lose, store, history, ClientsShrink
  <2>. QED
    BY <1>2, <2>1, <2>2
<1>3. ASSUME NEW w \in Workers, NEW n \in hand, Deliver(w, n) PROVE IInv'
  BY <1>t, <1>3, DeliverStep
<1>4. ASSUME NEW q \in Queues, CloseWork(q) PROVE IInv'
  BY <1>t, <1>4, Loss DEF CloseWork, store, history, ClientsShrink
<1>5. ASSUME NEW w \in Workers, WorkerStep(w) PROVE IInv'
  <2>1. CASE NoHandler(w)
    BY <1>t, <2>1, DropStep DEF NoHandler, store, broker, history
  <2>2. CASE Begin(w)
    BY <1>t, <2>2, BeginStep
  <2>3. CASE Cancelled(w)
    BY <1>a, <2>3
  <2>4. CASE MarkRetry(w)
    BY <1>t, <2>4, MarkRetryStep
  <2>5. CASE Requeue(w)
    BY <1>t, <2>5, RequeueStep
  <2>6. CASE Fetch(w)
    BY <1>t, <2>6, FetchStep
  <2>7. CASE Spawn(w)
    BY <1>t, <2>7, SpawnStep
  <2>8. CASE PushKid(w)
    BY <1>t, <2>8, PushKidStep
  <2>9. CASE Index(w)
    BY <1>t, <2>9, IndexStep
  <2>10. CASE Finish(w)
    BY <1>t, <2>10, FinishStep
  <2>11. CASE Exit(w)
    <3>1. Goto(w, "exit")
      BY <2>11 DEF Exit, Goto
    <3>2. Others(w) /\ worker'[w].pc = "exit"
      BY <3>1, GotoFacts DEF PC, IInv, TypeOK, WorkerType, WorkerState
    <3>. QED
      BY <1>t, <2>11, <3>2, Loss DEF Exit, store, broker, history, ClientsShrink, Others
  <2>. QED
    BY <1>5, <2>1, <2>2, <2>3, <2>4, <2>5, <2>6, <2>7, <2>8, <2>9, <2>10, <2>11 DEF WorkerStep
<1>6. ASSUME NEW w \in Workers, Deadline(w) PROVE IInv'
  BY <1>6, <1>a
<1>7. ASSUME NEW w \in Workers, NEW x \in Answers, HandlerReturn(w, x) PROVE IInv'
  BY <1>7, <1>a
<1>8. ASSUME NEW w \in Workers, CallbackSave(w) PROVE IInv'
  BY <1>t, <1>8, Loss DEF CallbackSave, Store, broker, history, ClientsShrink
<1>9. ASSUME NEW a \in running, Save(a) PROVE IInv'
  BY <1>t, <1>9, Loss DEF Save, Store, broker, history, ClientsShrink
<1>10. ASSUME NEW a \in running, LateReturn(a) PROVE IInv'
  BY <1>t, <1>10, Loss DEF LateReturn, store, broker, history, ClientsShrink
<1>11. CASE Cancel
  BY <1>t, <1>11, Loss DEF Cancel, store, broker, history, ClientsShrink
<1>12. CASE Crash
  <2>1. \A v \in Workers : worker'[v].pc = "idle"
    BY <1>12, RestingType DEF Crash
  <2>. QED
    BY <1>t, <1>12, <2>1, Loss DEF Crash, store, history, ClientsShrink
<1>. QED
  BY <1>0, <1>1, <1>2, <1>3, <1>4, <1>5, <1>6, <1>7, <1>8, <1>9, <1>10, <1>11, <1>12 DEF Next

(* Who holds a job, and what the store and the history then say of it, for *)
(* every step of Server.Enqueue, Broker.Consume, process and execJob,      *)
(* also when calls fail, the context is cancelled or the process dies.     *)
THEOREM Inductive == Spec => []IInv
BY IInvInit, IInvStep, PTL DEF Spec

-----------------------------------------------------------------------------
(* What follows.                                                           *)

(* Execution is bounded: the handler of a job is started at most           *)
(* MaxRetries + 1 times (execJob's MaxRetry # Retried, retryJob).          *)
THEOREM Bounded == Spec => []AttemptsWithinBudget
<1>1. IInv => AttemptsWithinBudget
  BY DEF IInv, Holding, Recorded, AttemptsWithinBudget
<1>. QED
  BY <1>1, Inductive, PTL

(* A job is listed or reported as failed only when its last permitted      *)
(* attempt was made (execJob, statusFailed).                               *)
THEOREM Exhausted == Spec => []FailedMeansExhausted
<1>1. IInv => FailedMeansExhausted
  BY DEF IInv, Holding, Recorded, FailedMeansExhausted
<1>. QED
  BY <1>1, Inductive, PTL

(* The lists of finished jobs never contradict each other or the statuses  *)
(* (statusDone, statusFailed: the list first, then the status).            *)
THEOREM ListsAgree == Spec => []IndexAgrees
<1>1. ASSUME IInv PROVE IndexAgrees
  <2>1. success \subseteq Jobs /\ failed \subseteq Jobs /\ \A j \in Jobs : Recorded(j)
    BY <1>1 DEF IInv, TypeOK, Holding
  <2>. QED
    BY <2>1 DEF IndexAgrees, Recorded, Final
<1>. QED
  BY <1>1, Inductive, PTL

(* A job is with one holder at most: no message is ever consumed by two    *)
(* workers, and none is queued while its job runs (Consume, process,       *)
(* retryJob, enqueueWithMeta).                                             *)
THEOREM SingleHolder == Spec => []OneHolder
<1>1. ASSUME IInv, NEW j \in Jobs, NEW x \in Holders(j), NEW y \in Holders(j) PROVE x = y
  <2>1. Unique /\ TypeOK /\ WorkerOK
    BY <1>1 DEF IInv
  <2> DEFINE C == j \in Roots /\ client[j] = "pushing"
             Q(m) == m \in queue /\ m.id = j
             H(m) == m \in hand /\ m.id = j
             W(w) == w \in Workers /\ Busy(w) /\ Job(w) = j
             S(w) == w \in Workers /\ worker[w].pc = "push" /\ Kid(w) = j
  <2>2. ASSUME NEW z \in Holders(j)
        PROVE  \/ C /\ z = <<"client", j>>
               \/ \E m \in queue : Q(m) /\ z = <<"queue", m>>
               \/ \E m \in hand : H(m) /\ z = <<"hand", m>>
               \/ \E w \in Workers : W(w) /\ z = <<"worker", w>>
               \/ \E w \in Workers : S(w) /\ z = <<"spawner", w>>
    BY <2>2 DEF Holders
  <2>3. /\ \A m, n : Q(m) /\ Q(n) => m = n
        /\ \A m, n : H(m) /\ H(n) => m = n
        /\ \A m, n : ~(Q(m) /\ H(n))
    BY <2>1 DEF Unique, BrokerUnique, InBroker
  <2>4. /\ \A v, w : W(v) /\ W(w) => v = w
        /\ \A m, w : ~(Q(m) /\ W(w)) /\ ~(H(m) /\ W(w))
    BY <2>1 DEF Unique, WorkerUnique, InBroker
  <2>5. /\ \A m : ~(C /\ Q(m)) /\ ~(C /\ H(m))
        /\ \A w : ~(C /\ W(w))
    BY <2>1 DEF Unique, ClientUnique, InBroker
  <2>6. /\ \A m, w : ~(Q(m) /\ S(w)) /\ ~(H(m) /\ S(w))
        /\ \A v, w : ~(W(v) /\ S(w))
    BY <2>1 DEF Unique, SpawnUnique, InBroker
  <2>7. ASSUME NEW w, S(w)
        PROVE  /\ Busy(w) /\ Job(w) \in Jobs /\ worker[w].ok \in BOOLEAN
               /\ worker[w].i \in DOMAIN Kids(Job(w), worker[w].ok)
               /\ j = Kids(Job(w), worker[w].ok)[worker[w].i]
    BY <1>1, <2>1, <2>7, AtWorkFacts DEF Busy, WorkerOK, Kid
  <2>8. /\ \A w : ~(C /\ S(w))
        /\ \A v, w : S(v) /\ S(w) => v = w
    <3>1. \A w : ~(C /\ S(w))
      BY <2>7, OnePlace
    <3>2. ASSUME NEW v, NEW w, S(v), S(w) PROVE v = w
      <4>1. Job(v) = Job(w)
        BY <2>7, <3>2, OnePlace
      <4>. QED
        BY <2>1, <2>7, <3>2, <4>1 DEF Unique, WorkerUnique
    <3>. QED
      BY <3>1, <3>2
  <2> HIDE DEF C, Q, H, W, S
  <2>. QED
    BY <2>2, <2>3, <2>4, <2>5, <2>6, <2>8
<1>2. IInv => OneHolder
  BY <1>1 DEF OneHolder
<1>. QED
  BY <1>2, Inductive, PTL

(* A settled job's message is never written again: by no late worker, no   *)
(* retry and no parent (setJobMessage and its callers).                    *)
LEMMA FinalStep == IInv /\ [Next]_vars =>
  \A j \in Jobs : jobMsg[j].status \in Final => jobMsg'[j] = jobMsg[j]
<1> SUFFICES ASSUME IInv, [Next]_vars, NEW j \in Jobs, jobMsg[j].status \in Final
             PROVE  jobMsg'[j] = jobMsg[j]
  OBVIOUS
<1>t. TypeOK /\ Holding /\ WorkerOK
  BY DEF IInv
<1>1. ASSUME NEW r, NEW k \in Jobs, k # j, NEW st, NEW n, SetJob(r, k, st, n)
      PROVE  jobMsg'[j] = jobMsg[j]
  BY <1>t, <1>1 DEF SetJob, TypeOK
<1>2. ASSUME NEW w \in Workers, worker[w].pc \in {"recv", "retrying", "spawn", "final"}
      PROVE  Job(w) \in Jobs /\ Job(w) # j
  <2>1. Busy(w)
    BY <1>2 DEF Busy
  <2>2. Job(w) \in Jobs /\ AtWork(w) /\ Job(w) = worker[w].msg.id
    BY <2>1, AtWorkFacts
  <2>3. jobMsg[Job(w)].status \in {"queued", "retrying", "processing"}
    BY <1>2, <2>2 DEF AtWork, Settling, Queued, Retrying, Executing
  <2>. QED
    BY <2>2, <2>3 DEF Final
<1>3. ASSUME NEW c \in Roots, ClientRecord(c) PROVE jobMsg'[j] = jobMsg[j]
  <2>1. c \in Jobs /\ jobMsg[c].status = "none"
    BY <1>t, <1>3, TypeAssumption DEF ClientRecord, Holding, Client, Known
  <2>2. c # j
    BY <2>1 DEF Final
  <2>3. PICK r \in Replies : SetJob(r, c, "queued", 0)
    BY <1>3 DEF ClientRecord
  <2>. QED
    BY <1>1, <2>1, <2>2, <2>3
<1>4. ASSUME NEW w \in Workers, Begin(w) PROVE jobMsg'[j] = jobMsg[j]
  <2>1. PICK r \in CtxReplies : SetJob(r, Job(w), "processing", worker[w].msg.retried)
    BY <1>4 DEF Begin, Job
  <2>2. worker[w].pc = "recv"
    BY <1>4 DEF Begin
  <2>3. Job(w) \in Jobs /\ Job(w) # j
    BY <1>2, <2>2
  <2>. QED
    BY <1>1, <2>1, <2>3
<1>5. ASSUME NEW w \in Workers, MarkRetry(w) PROVE jobMsg'[j] = jobMsg[j]
  <2>1. PICK r \in CtxReplies : SetJob(r, Job(w), "retrying", worker[w].msg.retried)
    BY <1>5 DEF MarkRetry
  <2>2. Job(w) \in Jobs /\ Job(w) # j
    BY <1>2, <1>5 DEF MarkRetry
  <2>. QED
    BY <1>1, <2>1, <2>2
<1>6. ASSUME NEW w \in Workers, Finish(w) PROVE jobMsg'[j] = jobMsg[j]
  <2>1. PICK r \in CtxReplies : SetJob(r, Job(w), FinalStatus(w), worker[w].msg.retried)
    BY <1>6 DEF Finish
  <2>2. Job(w) \in Jobs /\ Job(w) # j
    BY <1>2, <1>6 DEF Finish
  <2>. QED
    BY <1>1, <2>1, <2>2
<1>7. ASSUME NEW w \in Workers, Spawn(w) PROVE jobMsg'[j] = jobMsg[j]
  <2>1. worker[w].pc = "spawn" /\ Busy(w)
    BY <1>7 DEF Spawn, Busy
  <2>2. /\ AtWork(w) /\ worker[w].ok \in BOOLEAN /\ Job(w) \in Jobs
        /\ worker[w].i \in DOMAIN Kids(Job(w), worker[w].ok)
    BY <1>t, <2>1, AtWorkFacts DEF WorkerOK
  <2>3. Kid(w) \in Jobs /\ ~Known(Kid(w))
    <3>1. LoopKids(w) /\ worker[w].i \in Nat
      BY <2>1, <2>2, AtWorkFacts DEF AtWork, Settling
    <3>. QED
      BY <2>1, <2>2, <3>1, KidsType DEF LoopKids, Kid
  <2>4. Kid(w) # j
    BY <2>3 DEF Known, Final
  <2>5. PICK r \in CtxReplies : SetJob(r, Kid(w), "queued", 0)
    BY <1>7 DEF Spawn
  <2>. QED
    BY <1>1, <2>3, <2>4, <2>5
<1>8. \/ jobMsg' = jobMsg
      \/ \E c \in Roots : ClientRecord(c)
      \/ \E w \in Workers : Begin(w) \/ MarkRetry(w) \/ Finish(w) \/ Spawn(w)
  BY DEF Next, WorkerStep, vars, store, ClientPush, Consume, Lose, Deliver, CloseWork, NoHandler, Cancelled,
         Requeue, Fetch, PushKid, Index, Exit, Deadline, CallbackSave, HandlerReturn, Save, LateReturn,
         Cancel, Crash
<1>. QED
  BY <1>3, <1>4, <1>5, <1>6, <1>7, <1>8

(* The action property of FinalStep, for every behaviour.                  *)
THEOREM FinalForever == Spec => FinalIsFinal
<1>1. IInv /\ [Next]_vars => [\A j \in Jobs : jobMsg[j].status \in Final => jobMsg'[j] = jobMsg[j]]_vars
  BY FinalStep
<1>. QED
  BY <1>1, Inductive, PTL DEF Spec, FinalIsFinal

-----------------------------------------------------------------------------
(* What never goes back: a job stays known, the attempts are counted up.   *)

LEMMA Writes ==
  ASSUME IInv, [Next]_vars
  PROVE  \/ jobMsg' = jobMsg
         \/ \E r \in {"ok", "lost", "failed"}, j \in Jobs, st \in Status \ {"none"}, n \in Nat : SetJob(r, j, st, n)
<1>t. TypeOK /\ WorkerOK /\ Replies \subseteq {"ok", "lost", "failed"} /\ CtxReplies \subseteq {"ok", "lost", "failed"}
  BY DEF IInv, Replies, CtxReplies
<1>s. \A st \in {"queued", "processing", "retrying", "successful", "failed"} : st \in Status \ {"none"}
  BY DEF Status
<1>1. ASSUME NEW c \in Roots, ClientRecord(c)
      PROVE  \E r \in {"ok", "lost", "failed"} : SetJob(r, c, "queued", 0) /\ c \in Jobs
  BY <1>1, <1>t, TypeAssumption DEF ClientRecord
<1>2. ASSUME NEW w \in Workers, Begin(w) \/ MarkRetry(w) \/ Finish(w) \/ Spawn(w)
      PROVE  \E r \in {"ok", "lost", "failed"}, j \in Jobs, st \in Status \ {"none"}, n \in Nat : SetJob(r, j, st, n)
  <2>1. Busy(w)
    BY <1>2 DEF Begin, MarkRetry, Finish, Spawn, Busy
  <2>2. /\ Job(w) \in Jobs /\ worker[w].msg.retried \in Nat
        /\ worker[w].pc = "spawn" => Kid(w) \in Jobs
    BY <1>t, <2>1, BusyFacts
  <2>3. CASE Begin(w)
    BY <1>t, <1>s, <2>2, <2>3 DEF Begin, Job
  <2>4. CASE MarkRetry(w)
    BY <1>t, <1>s, <2>2, <2>4 DEF MarkRetry
  <2>5. CASE Finish(w)
    <3>1. FinalStatus(w) \in Status \ {"none"}
      BY <1>s DEF FinalStatus
    <3>. QED
      BY <1>t, <2>2, <2>5, <3>1 DEF Finish
  <2>6. CASE Spawn(w)
    BY <1>t, <1>s, <2>2, <2>6 DEF Spawn
  <2>. QED
    BY <1>2, <2>3, <2>4, <2>5, <2>6
<1>3. \/ jobMsg' = jobMsg
      \/ \E c \in Roots : ClientRecord(c)
      \/ \E w \in Workers : Begin(w) \/ MarkRetry(w) \/ Finish(w) \/ Spawn(w)
  BY DEF Next, WorkerStep, vars, store, ClientPush, Consume, Lose, Deliver, CloseWork, NoHandler, Cancelled,
         Requeue, Fetch, PushKid, Index, Exit, Deadline, CallbackSave, HandlerReturn, Save, LateReturn,
         Cancel, Crash
<1>. QED
  BY <1>1, <1>2, <1>3, <1>s

Onward(j) == attempts[j] <= attempts'[j] /\ (Known(j) => Known(j)')

LEMMA OnwardStep ==
  ASSUME IInv, [Next]_vars, NEW j \in Jobs
  PROVE  Onward(j)
<1>t. TypeOK /\ WorkerOK
  BY DEF IInv
<1>1. Known(j) => Known(j)'
  <2>1. CASE jobMsg' = jobMsg
    BY <2>1 DEF Known
  <2>2. ASSUME NEW r \in {"ok", "lost", "failed"}, NEW k \in Jobs, NEW st \in Status \ {"none"}, NEW n \in Nat,
               SetJob(r, k, st, n)
        PROVE  Known(j) => Known(j)'
    <3>1. jobMsg \in [Jobs -> [status : Status, retried : Nat]]
      BY <1>t DEF TypeOK
    <3>2. \/ jobMsg'[j] = jobMsg[j]
          \/ jobMsg'[j] = [status |-> st, retried |-> n]
      BY <2>2, <3>1 DEF SetJob
    <3>. QED
      BY <3>2 DEF Known
  <2>. QED
    BY <2>1, <2>2, Writes
<1>2. attempts[j] <= attempts'[j]
  <2>1. attempts' = attempts \/ \E w \in Workers : Begin(w)
    BY DEF Next, WorkerStep, vars, history, ClientRecord, ClientPush, Consume, Lose, Deliver, CloseWork, NoHandler,
           Cancelled, MarkRetry, Finish, Spawn, Requeue, Fetch, PushKid, Index, Exit, Deadline, CallbackSave,
           HandlerReturn, Save, LateReturn, Cancel, Crash
  <2>2. ASSUME NEW w \in Workers, Begin(w) PROVE attempts[j] <= attempts'[j]
    <3>1. attempts' = attempts \/ attempts' = [attempts EXCEPT ![Job(w)] = @ + 1]
      BY <2>2 DEF Begin, Job
    <3>. QED
      BY <1>t, <3>1 DEF TypeOK
  <2>. QED
    BY <1>t, <2>1, <2>2 DEF TypeOK
<1>. QED
  BY <1>1, <1>2 DEF Onward

-----------------------------------------------------------------------------
(* RInv is inductive.                                                      *)

LEMMA CarryingStays ==
  ASSUME IInv, IInv', \A j \in Jobs : Onward(j), NEW m, Carrying(m)
  PROVE  Carrying(m)'
<1>1. \A p \in Parents(m.id) : attempts[p] \in Nat /\ attempts'[p] \in Nat /\ attempts[p] <= attempts'[p]
  BY DEF Parents, IInv, TypeOK, Onward
<1>. QED
  BY <1>1 DEF Carrying, Parents

(* A worker that a step leaves alone, and one that is not in the loop.     *)
LEMMA PassedStays ==
  ASSUME IInv, IInv', \A j \in Jobs : Onward(j), NEW w \in Workers,
         \/ worker'[w] = worker[w] /\ Passed(w) /\ Fetched(w)
         \/ worker'[w].pc \in {"idle", "exit", "recv", "run", "retrying", "requeue"}
  PROVE  Passed(w)' /\ Fetched(w)'
<1>1. CASE worker'[w].pc \in {"idle", "exit", "recv", "run", "retrying", "requeue"}
  BY <1>1 DEF Passed, Fetched, Settling
<1>2. CASE worker'[w] = worker[w] /\ Passed(w) /\ Fetched(w) /\ worker[w].pc \in Settling
  <2>1. Busy(w)
    BY <1>2 DEF Busy, Settling
  <2>2. Job(w) \in Jobs /\ worker[w].ok \in BOOLEAN /\ Job(w)' = Job(w)
    BY <1>2, <2>1, AtWorkFacts DEF Job
  <2>3. \A j \in Jobs, ok \in BOOLEAN : \A k \in DOMAIN Kids(j, ok) :
          Known(Kids(j, ok)[k]) => Known(Kids(j, ok)[k])'
    BY KidsType DEF Onward
  <2>4. attempts[Job(w)] \in Nat /\ attempts'[Job(w)] \in Nat /\ attempts[Job(w)] <= attempts'[Job(w)]
    BY <2>2 DEF IInv, TypeOK, Onward
  <2>5. Passed(w)'
    BY <1>2, <2>2, <2>3 DEF Passed
  <2>6. Fetched(w)'
    BY <1>2, <2>2, <2>4 DEF Fetched
  <2>. QED
    BY <2>5, <2>6
<1>3. CASE worker'[w] = worker[w] /\ worker[w].pc \notin Settling
  BY <1>3 DEF Passed, Fetched, Settling
<1>. QED
  BY <1>1, <1>2, <1>3

(* What a step has to show: of the messages it makes, and of the worker    *)
(* that takes it, if it is in the loop.                                    *)
LEMMA RFrame ==
  ASSUME RInv, IInv', \A j \in Jobs : Onward(j),
         SavedByAttempts',
         \A m \in queue' \cup hand' : m \in Travelling \/ Carrying(m)',
         \A v \in Workers :
           \/ worker'[v] = worker[v]
           \/ worker'[v].pc \in {"idle", "exit"}
           \/ /\ \A m : m = worker'[v].msg => m \in Travelling \/ Carrying(m)'
              /\ \/ worker'[v].pc \in {"recv", "run", "retrying", "requeue"}
                 \/ Passed(v)' /\ Fetched(v)'
  PROVE  RInv'
<1>0. IInv /\ \A m \in Travelling : Carrying(m)
  BY DEF RInv
<1>1. \A m \in Travelling : Carrying(m)'
  BY <1>0, CarryingStays
<1>2. ASSUME NEW v \in Workers PROVE Passed(v)' /\ Fetched(v)'
  BY <1>0, PassedStays DEF RInv
<1>3. ASSUME NEW v \in Workers, Busy(v)', NEW m, m = worker'[v].msg PROVE Carrying(m)'
  <2>1. worker'[v] = worker[v] => m \in Travelling
    BY <1>3 DEF Travelling, Busy
  <2>2. worker'[v].pc \notin {"idle", "exit"}
    BY <1>3 DEF Busy
  <2>3. m \in Travelling \/ Carrying(m)'
    BY <1>3, <2>1, <2>2
  <2>. QED
    BY <1>1, <2>3
<1>4. ASSUME NEW m \in Travelling' PROVE Carrying(m)'
  <2>1. m \in queue' \cup hand' \/ \E v \in Workers : Busy(v)' /\ m = worker'[v].msg
    BY DEF Travelling
  <2>. QED
    BY <1>1, <1>3, <2>1
<1>. QED
  BY <1>2, <1>4 DEF RInv

LEMMA SavedStays ==
  ASSUME IInv, IInv', SavedByAttempts, \A j \in Jobs : Onward(j),
         saved' = saved, running' \subseteq running
  PROVE  SavedByAttempts'
<1>1. /\ \A j \in Jobs : attempts[j] \in Nat /\ attempts'[j] \in Nat /\ saved[j] \in Nat
                        /\ attempts[j] <= attempts'[j]
      /\ \A a \in running : a.id \in Jobs /\ a.n \in Nat
  BY DEF IInv, TypeOK, Onward
<1>. QED
  BY <1>1 DEF SavedByAttempts

(* Where a message's result comes from: the forest of continuations.       *)
LEMMA RootParents ==
  ASSUME NEW c \in Roots
  PROVE  Parents(c) = {}
<1>1. \A p \in Jobs : \A k \in DOMAIN Kids(p, TRUE) : Kids(p, TRUE)[k] \notin Roots
  BY OnePlace
<1>. QED
  BY <1>1 DEF Parents, Kids

LEMMA KidParents ==
  ASSUME NEW t \in Jobs, NEW ok \in BOOLEAN, NEW k \in DOMAIN Kids(t, ok)
  PROVE  Parents(Kids(t, ok)[k]) = IF ok THEN {t} ELSE {}
<1>1. \A p \in Jobs : \A i \in DOMAIN Kids(p, TRUE) :
        Kids(p, TRUE)[i] = Kids(t, ok)[k] => p = t /\ ok = TRUE
  <2>1. \A p \in Jobs, ok2 \in BOOLEAN : \A i \in DOMAIN Kids(p, ok2) :
          Kids(p, ok2)[i] = Kids(t, ok)[k] => p = t /\ ok2 = ok
    BY OnePlace
  <2>2. \A p \in Jobs : \A i \in DOMAIN Kids(p, TRUE) :
          Kids(p, TRUE)[i] = Kids(t, ok)[k] => p = t /\ TRUE = ok
    BY <2>1, Zenon
  <2>. QED
    BY <2>2
<1>2. CASE ok = TRUE
  <2>1. \A p \in Parents(Kids(t, ok)[k]) : p = t
    BY <1>1 DEF Parents, Kids
  <2>2. t \in Parents(Kids(t, ok)[k])
    BY <1>2 DEF Parents, Kids
  <2>. QED
    BY <1>2, <2>1, <2>2
<1>3. CASE ok = FALSE
  BY <1>1, <1>3 DEF Parents, Kids
<1>. QED
  BY <1>2, <1>3

(* What Resolve and the loop say of the fields that ResolveFacts leaves    *)
(* out.                                                                    *)
LEMMA ResolveResult ==
  ASSUME WorkerType, NEW w \in Workers, worker[w].msg \in Msg, NEW ok \in BOOLEAN, Resolve(w, ok)
  PROVE  /\ worker'[w].msg.id = worker[w].msg.id
         /\ worker'[w].msg.prev = worker[w].msg.prev
         /\ worker'[w].res = 0
<1> DEFINE m == worker[w].msg
           m2 == [m EXCEPT !.retried = @ + 1]
           r == [Resting EXCEPT !.pc = "retrying", !.msg = m2]
           p == LoopPC(m.id, ok, 1)
           s == [Resting EXCEPT !.pc = p, !.msg = m, !.ok = ok, !.i = 1]
<1>1. m2.id = m.id /\ m2.prev = m.prev
  BY DEF Msg
<1>2. r.msg = m2 /\ r.res = 0 /\ s.msg = m /\ s.res = 0
  <2> HIDE DEF m2, p, m
  <2>. QED
    BY DEF Resting
<1>3. worker' = [worker EXCEPT ![w] = IF ~ok /\ RetriesLeft(m) THEN r ELSE s]
  BY DEF Resolve
<1>4. worker'[w] = r \/ worker'[w] = s
  <2> HIDE DEF r, s, m
  <2>. QED
    BY <1>3 DEF WorkerType
<1> HIDE DEF r, s, m2
<1>. QED
  BY <1>1, <1>2, <1>4

LEMMA LoopStart ==
  ASSUME NEW j \in Jobs, NEW ok \in BOOLEAN, NEW i \in Nat
  PROVE  /\ i \in DOMAIN Kids(j, ok) /\ i + 1 \notin DOMAIN Kids(j, ok)
              => \A k \in DOMAIN Kids(j, ok) : k < i \/ k = i
         /\ 1 \notin DOMAIN Kids(j, ok) => DOMAIN Kids(j, ok) = {}
         /\ \A k \in DOMAIN Kids(j, ok) : k \in Nat \ {0}
         /\ LoopPC(j, ok, i) = "index" => i \notin DOMAIN Kids(j, ok)
         /\ LoopPC(j, ok, i) = "fetch" => ok
         /\ LoopPC(j, ok, i) = "spawn" => ~ok
<1>1. Kids(j, ok) \in Seq(Jobs)
  BY KidsType
<1>. QED
  BY <1>1 DEF LoopPC

(* A worker that has just received an answer from its handler, or the end  *)
(* of its context instead.                                                 *)
LEMMA ResolveKeeps ==
  ASSUME RInv, IInv', \A j \in Jobs : Onward(j),
         NEW w \in Workers, worker[w].pc = "run", NEW ok \in BOOLEAN, Resolve(w, ok),
         UNCHANGED <<queue, hand, saved>>, running' \subseteq running
  PROVE  RInv'
<1>1. /\ Busy(w) /\ IInv /\ worker[w].msg \in Msg /\ Job(w) \in Jobs /\ WorkerType
      /\ Job(w) = worker[w].msg.id /\ worker[w].msg \in Travelling
  BY AtWorkFacts DEF RInv, Busy, Travelling
<1>2. Carrying(worker[w].msg) /\ SavedByAttempts'
  BY <1>1, SavedStays DEF RInv
<1>3. Others(w)
  BY <1>1, ResolveFacts
<1>4. ASSUME NEW m, m = worker'[w].msg PROVE Carrying(m)'
  <2>1. m.id = worker[w].msg.id /\ m.prev = worker[w].msg.prev
    BY <1>1, <1>4, ResolveResult
  <2>2. Carrying(m)
    BY <1>2, <2>1 DEF Carrying
  <2>. QED
    BY <1>1, <2>2, CarryingStays
<1>5. worker'[w].pc = "retrying" \/ (Passed(w)' /\ Fetched(w)')
  <2>1. CASE worker'[w].pc # "retrying"
    <3> DEFINE t == Job(w)
    <3>1. /\ worker'[w].pc = LoopPC(t, ok, 1) /\ worker'[w].msg = worker[w].msg
          /\ worker'[w].ok = ok /\ worker'[w].i = 1 /\ worker'[w].res = 0
      BY <1>1, <2>1, ResolveFacts, ResolveResult
    <3>2. /\ LoopPC(t, ok, 1) \in {"index", "fetch", "spawn"}
          /\ \A k \in DOMAIN Kids(t, ok) : ~(k < 1)
          /\ LoopPC(t, ok, 1) = "index" => DOMAIN Kids(t, ok) = {}
          /\ LoopPC(t, ok, 1) = "fetch" => ok
          /\ LoopPC(t, ok, 1) = "spawn" => ~ok
      BY <1>1, LoopPCFacts, LoopStart
    <3>3. Job(w)' = t
      BY <1>1, <3>1 DEF Job
    <3> HIDE DEF t
    <3>. QED
      BY <3>1, <3>2, <3>3 DEF Passed, Fetched
  <2>. QED
    BY <2>1, Zenon
<1>6. \A m \in queue' \cup hand' : m \in Travelling
  BY DEF Travelling
<1>7. \A v \in Workers :
        \/ worker'[v] = worker[v]
        \/ /\ \A m : m = worker'[v].msg => m \in Travelling \/ Carrying(m)'
           /\ worker'[v].pc = "retrying" \/ (Passed(v)' /\ Fetched(v)')
  BY <1>3, <1>4, <1>5 DEF Others
<1>. QED
  BY <1>1, <1>2, <1>6, <1>7, RFrame

(* A step that at most moves messages and makes workers idle.              *)
LEMMA MovesKeep ==
  ASSUME RInv, IInv', \A j \in Jobs : Onward(j), saved' = saved, running' \subseteq running,
         \A m \in queue' \cup hand' : m \in Travelling \/ Carrying(m)',
         \A v \in Workers : worker'[v] = worker[v] \/ worker'[v].pc \in {"idle", "exit"}
  PROVE  RInv'
<1>1. SavedByAttempts'
  BY SavedStays DEF RInv
<1>. QED
  BY <1>1, RFrame

(* A worker goes on with the same message.                                 *)
LEMMA GoesOn ==
  ASSUME RInv, IInv', \A j \in Jobs : Onward(j),
         NEW w \in Workers, Busy(w), Others(w), worker'[w].msg = worker[w].msg,
         \/ worker'[w].pc \in {"run", "requeue"}
         \/ Passed(w)' /\ Fetched(w)',
         \A m \in queue' \cup hand' : m \in Travelling \/ Carrying(m)',
         SavedByAttempts'
  PROVE  RInv'
<1>1. worker[w].msg \in Travelling
  BY DEF Travelling
<1>. QED
  BY <1>1, RFrame DEF Others

(* A worker that keeps its place in the loop.                              *)
LEMMA PassedOn ==
  ASSUME IInv, \A j \in Jobs : Onward(j), NEW w \in Workers, worker[w].pc \in Settling, Passed(w),
         worker'[w].msg = worker[w].msg, worker'[w].ok = worker[w].ok, worker'[w].i = worker[w].i,
         worker'[w].pc \in {"index", "final"} => worker[w].pc \in {"index", "final"}
  PROVE  Passed(w)'
<1>1. Busy(w)
  BY DEF Busy, Settling
<1>2. Job(w) \in Jobs /\ worker[w].ok \in BOOLEAN /\ Job(w)' = Job(w)
  BY <1>1, AtWorkFacts DEF Job
<1>3. \A j \in Jobs, ok \in BOOLEAN : \A k \in DOMAIN Kids(j, ok) :
        Known(Kids(j, ok)[k]) => Known(Kids(j, ok)[k])'
  BY KidsType DEF Onward
<1>. QED
  BY <1>2, <1>3 DEF Passed

(* The message of a continuation, and the loop after it.                   *)
LEMMA PushKidKeeps ==
  ASSUME RInv, IInv', \A j \in Jobs : Onward(j), NEW w \in Workers, PushKid(w)
  PROVE  RInv'
<1> DEFINE t == Job(w)
           ok == worker[w].ok
           i == worker[w].i
           n == NewMsg(Kid(w), worker[w].res)
           p == LoopPC(t, ok, i + 1)
           kids == Kids(t, ok)
<1>i. IInv /\ SavedByAttempts /\ TypeOK /\ WorkerType /\ WorkerOK
  BY DEF RInv, IInv, TypeOK, WorkerType, WorkerState
<1>1. /\ Busy(w) /\ worker[w].pc = "push" /\ t \in Jobs /\ ok \in BOOLEAN /\ i \in Nat
      /\ i \in DOMAIN kids /\ Known(kids[i]) /\ Kid(w) = kids[i]
  <2>1. Busy(w) /\ worker[w].pc = "push"
    BY DEF PushKid, Busy
  <2>2. t \in Jobs /\ ok \in BOOLEAN /\ i \in Nat /\ i \in DOMAIN kids /\ AtWork(w)
    BY <1>i, <2>1, AtWorkFacts DEF WorkerOK
  <2>3. Queued(NewMsg(Kid(w), 0))
    BY <2>1, <2>2 DEF AtWork
  <2>4. Known(Kid(w))
    BY <2>3 DEF Queued, NewMsg, Known
  <2>. QED
    BY <2>1, <2>2, <2>4 DEF Kid
<1>2. /\ Fetched(w) /\ Passed(w)
      /\ \A k \in DOMAIN kids : k < i => Known(kids[k])
  BY <1>1 DEF RInv, Passed, Settling
<1>3. ASSUME NEW m, m = n PROVE Carrying(m)'
  <2>1. m.id = kids[i] /\ m.prev = worker[w].res
    BY <1>1, <1>3 DEF NewMsg
  <2>2. Parents(m.id) = IF ok THEN {t} ELSE {}
    <3> HIDE DEF t, ok, i
    <3>. QED
      BY <1>1, <2>1, KidParents
  <2>3. Carrying(m)
    BY <1>1, <1>2, <2>1, <2>2 DEF Carrying, Fetched
  <2>. QED
    BY <1>i, <2>3, CarryingStays
<1>4. queue' \subseteq queue \cup {n} /\ hand' = hand
  BY DEF PushKid, Push
<1>5. \A m \in queue' \cup hand' : m \in Travelling \/ Carrying(m)'
  BY <1>3, <1>4 DEF Travelling
<1>6. CASE Rest(w)
  <2>1. \A v \in Workers : worker'[v] = worker[v] \/ worker'[v].pc \in {"idle", "exit"}
    BY <1>i, <1>6, RestFacts DEF Others
  <2>. QED
    BY <1>i, <1>5, <2>1, MovesKeep DEF PushKid, store
<1>7. CASE worker' = [worker EXCEPT ![w].pc = p, ![w].i = i + 1, ![w].res = 0]
  <2>1. /\ p \in {"index", "fetch", "spawn"} /\ p \in PC
        /\ p = "index" => \A k \in DOMAIN kids : k < i \/ k = i
        /\ p = "fetch" => ok
        /\ p = "spawn" => ~ok
        /\ \A k \in DOMAIN kids : k \in Nat
    BY <1>1, LoopPCFacts, LoopStart
  <2>2. /\ Others(w) /\ worker'[w].pc = p /\ worker'[w].msg = worker[w].msg
        /\ worker'[w].ok = ok /\ worker'[w].i = i + 1 /\ worker'[w].res = 0
    <3>1. ASSUME NEW q \in PC, NEW k \in Nat,
                 worker' = [worker EXCEPT ![w].pc = q, ![w].i = k, ![w].res = 0]
          PROVE  /\ Others(w) /\ worker'[w].pc = q /\ worker'[w].msg = worker[w].msg
                 /\ worker'[w].ok = worker[w].ok /\ worker'[w].i = k /\ worker'[w].res = 0
      BY <1>i, <3>1 DEF WorkerType, WorkerState, Others
    <3>2. i + 1 \in Nat
      BY <1>1
    <3>. QED
      BY <1>7, <2>1, <3>1, <3>2
  <2>3. Job(w)' = t
    BY <2>2 DEF Job
  <2>4. \A j \in Jobs, o \in BOOLEAN : \A k \in DOMAIN Kids(j, o) :
          Known(Kids(j, o)[k]) => Known(Kids(j, o)[k])'
    BY KidsType DEF Onward
  <2>5. \A k \in DOMAIN kids : k < i \/ k = i => jobMsg'[kids[k]].status # "none"
    BY <1>1, <1>2, <2>4 DEF Known
  <2>6. Passed(w)'
    <3>1. \A k \in DOMAIN kids : k < i + 1 => k < i \/ k = i
      BY <1>1, <2>1
    <3> HIDE DEF t, ok, i, p
    <3>. QED
      BY <1>1, <2>1, <2>2, <2>3, <2>5, <3>1 DEF Passed, Known, Settling
  <2>7. Fetched(w)'
    <3> HIDE DEF t, ok, i, p
    <3>. QED
      BY <2>1, <2>2 DEF Fetched
  <2>8. SavedByAttempts'
    BY <1>i, SavedStays DEF PushKid, store
  <2>. QED
    BY <1>i, <1>1, <1>5, <2>2, <2>6, <2>7, <2>8, GoesOn
<1>. QED
  BY <1>6, <1>7 DEF PushKid

LEMMA RStep == RInv /\ [Next]_vars => RInv'
<1> SUFFICES ASSUME RInv, [Next]_vars PROVE RInv'
  OBVIOUS
<1>i. IInv /\ IInv' /\ SavedByAttempts /\ TypeOK /\ TypeOK' /\ WorkerType
  BY IInvStep DEF RInv, IInv, TypeOK, WorkerType, WorkerState
<1>j. \A j \in Jobs : Onward(j)
  BY <1>i, OnwardStep
<1>q. \A m \in queue \cup hand : m \in Travelling
  BY DEF Travelling
<1>r. ASSUME NEW w \in Workers, Rest(w) PROVE \A v \in Workers : worker'[v] = worker[v] \/ worker'[v].pc \in {"idle", "exit"}
  BY <1>i, <1>r, RestFacts DEF Others
<1>0. CASE UNCHANGED vars
  BY <1>i, <1>j, <1>q, <1>0, MovesKeep DEF vars, store, broker
<1>1. ASSUME NEW j \in Roots, ClientRecord(j) PROVE RInv'
  BY <1>i, <1>j, <1>q, <1>1, MovesKeep DEF ClientRecord, broker
<1>2. ASSUME NEW j \in Roots, ClientPush(j) PROVE RInv'
  <2>1. Carrying(NewMsg(j, 0))'
    BY RootParents DEF Carrying, NewMsg
  <2>2. queue' \subseteq queue \cup {NewMsg(j, 0)} /\ hand' = hand
    BY <1>2 DEF ClientPush, Push
  <2>3. \A m \in queue' \cup hand' : m \in Travelling \/ Carrying(m)'
    BY <1>q, <2>1, <2>2
  <2>. QED
    BY <1>i, <1>j, <1>2, <2>3, MovesKeep DEF ClientPush, store
<1>3. ASSUME NEW m \in queue, Consume(m) \/ Lose(m) PROVE RInv'
  BY <1>i, <1>j, <1>q, <1>3, MovesKeep DEF Consume, Lose, store
<1>4. ASSUME NEW w \in Workers, NEW m \in hand, Deliver(w, m) PROVE RInv'
  <2>1. Others(w) /\ worker'[w].pc = "recv" /\ worker'[w].msg = m
    BY <1>i, <1>4, DeliverFacts DEF Deliver, TypeOK
  <2>2. SavedByAttempts'
    BY <1>i, <1>j, <1>4, SavedStays DEF Deliver, store
  <2>. QED
    BY <1>i, <1>j, <1>q, <1>4, <2>1, <2>2, RFrame DEF Deliver, Others
<1>5. ASSUME NEW q \in Queues, CloseWork(q) PROVE RInv'
  BY <1>i, <1>j, <1>q, <1>5, MovesKeep DEF CloseWork, store
<1>6. ASSUME NEW w \in Workers, NoHandler(w) PROVE RInv'
  BY <1>i, <1>j, <1>q, <1>r, <1>6, MovesKeep DEF NoHandler, store, broker
<1>7. ASSUME NEW w \in Workers, Begin(w) PROVE RInv'
  <2>1. /\ Busy(w) /\ worker[w].pc = "recv" /\ Job(w) \in Jobs /\ Queued(worker[w].msg)
        /\ Job(w) = worker[w].msg.id /\ worker[w].msg.retried \in Nat
    BY <1>i, <1>7, AtWorkFacts DEF Begin, Busy, AtWork
  <2>2. CASE Rest(w) /\ UNCHANGED running
    BY <1>i, <1>j, <1>q, <1>r, <1>7, <2>2, MovesKeep DEF Begin, broker
  <2>3. CASE /\ Goto(w, "run")
             /\ running' = running \cup {[id |-> Job(w), n |-> worker[w].msg.retried + 1]}
             /\ attempts' = [attempts EXCEPT ![Job(w)] = @ + 1]
    <3>1. Others(w) /\ worker'[w].pc = "run" /\ worker'[w].msg = worker[w].msg
      BY <1>i, <2>3, GotoFacts DEF PC
    <3>2. saved' = saved
      BY <1>7 DEF Begin
    <3>3. attempts[Job(w)] = worker[w].msg.retried
      BY <2>1 DEF Queued
    <3>4. /\ \A j \in Jobs : attempts[j] \in Nat /\ attempts'[j] \in Nat /\ saved[j] \in Nat
                           /\ attempts[j] <= attempts'[j]
          /\ \A a \in running : a.id \in Jobs /\ a.n \in Nat
          /\ attempts'[Job(w)] = worker[w].msg.retried + 1
      BY <1>i, <1>j, <2>1, <2>3, <3>3 DEF TypeOK, Onward
    <3>5. \A a \in running' : a.n \in 1 .. attempts'[a.id]
      <4>1. ASSUME NEW a \in running PROVE a.n \in 1 .. attempts'[a.id]
        BY <1>i, <3>4 DEF SavedByAttempts
      <4>. QED
        BY <2>1, <2>3, <3>4, <4>1
    <3>6. SavedByAttempts'
      BY <1>i, <3>2, <3>4, <3>5 DEF SavedByAttempts
    <3>. QED
      BY <1>i, <1>j, <1>q, <1>7, <2>1, <3>1, <3>6, GoesOn DEF Begin, broker
  <2>. QED
    BY <1>7, <2>1, <2>2, <2>3 DEF Begin
<1>8. ASSUME NEW w \in Workers, (\E x \in Answers : HandlerReturn(w, x)) \/ Cancelled(w) \/ Deadline(w)
      PROVE  RInv'
  <2>1. Job(w) \in Jobs
    BY <1>i, <1>8, AtWorkFacts DEF HandlerReturn, Cancelled, Deadline, Busy
  <2>2. /\ worker[w].pc = "run" /\ running' \subseteq running /\ UNCHANGED <<queue, hand, saved>>
        /\ Resolve(w, FALSE) \/ Resolve(w, TRUE)
    BY <1>i, <1>8, <2>1, ReturnFacts DEF store, broker
  <2>. QED
    BY <1>i, <1>j, <2>2, ResolveKeeps
<1>11. ASSUME NEW w \in Workers, MarkRetry(w) PROVE RInv'
  <2>1. CASE Rest(w)
    BY <1>i, <1>j, <1>q, <1>r, <1>11, <2>1, MovesKeep DEF MarkRetry, broker
  <2>2. CASE Goto(w, "requeue")
    <3>1. Busy(w) /\ Others(w) /\ worker'[w].pc = "requeue" /\ worker'[w].msg = worker[w].msg
      BY <1>i, <1>11, <2>2, GotoFacts DEF PC, Busy, MarkRetry
    <3>2. SavedByAttempts'
      BY <1>i, <1>j, <1>11, SavedStays DEF MarkRetry
    <3>. QED
      BY <1>i, <1>j, <1>q, <1>11, <3>1, <3>2, GoesOn DEF MarkRetry, broker
  <2>. QED
    BY <1>11, <2>1, <2>2 DEF MarkRetry
<1>12. ASSUME NEW w \in Workers, Requeue(w) PROVE RInv'
  <2>1. worker[w].msg \in Travelling
    BY <1>12 DEF Requeue, Travelling, Busy
  <2>2. queue' \subseteq queue \cup {worker[w].msg} /\ hand' = hand
    BY <1>12 DEF Requeue, Push
  <2>3. \A m \in queue' \cup hand' : m \in Travelling
    BY <1>q, <2>1, <2>2
  <2>. QED
    BY <1>i, <1>j, <1>r, <1>12, <2>3, MovesKeep DEF Requeue, store

<1>13. ASSUME NEW w \in Workers, Fetch(w) PROVE RInv'
  <2>1. CASE Rest(w)
    BY <1>i, <1>j, <1>q, <1>r, <1>13, <2>1, MovesKeep DEF Fetch, store, broker
  <2>2. CASE saved[Job(w)] # 0 /\ worker' = [worker EXCEPT ![w].pc = "spawn", ![w].res = saved[Job(w)]]
    <3>1. /\ Busy(w) /\ Job(w) \in Jobs /\ worker[w].pc = "fetch" /\ worker[w].ok /\ Passed(w)
          /\ attempts[Job(w)] \in Nat /\ saved[Job(w)] \in 1 .. attempts[Job(w)]
      <4>1. Busy(w) /\ worker[w].pc = "fetch"
        BY <1>13 DEF Busy, Fetch
      <4>2. Job(w) \in Jobs /\ attempts[Job(w)] \in Nat /\ worker[w].ok /\ Passed(w)
        BY <1>i, <4>1, AtWorkFacts DEF RInv, Fetched
      <4>. QED
        BY <1>i, <2>2, <4>1, <4>2 DEF SavedByAttempts, TypeOK
    <3>2. /\ Others(w) /\ worker'[w].pc = "spawn" /\ worker'[w].msg = worker[w].msg
          /\ worker'[w].ok = worker[w].ok /\ worker'[w].i = worker[w].i
      <4>1. saved[Job(w)] \in Nat
        BY <1>i, <3>1 DEF TypeOK
      <4>. QED
        BY <1>i, <2>2, <4>1, FetchFacts
    <3>3. worker'[w].res = saved[Job(w)]
      BY <1>i, <2>2 DEF WorkerType, WorkerState
    <3>4. Passed(w)'
      BY <1>i, <1>j, <3>1, <3>2, PassedOn DEF Settling
    <3>5. Job(w)' = Job(w) /\ attempts' = attempts
      BY <1>13, <3>2 DEF Fetch, Job, history
    <3>6. Fetched(w)'
      BY <3>1, <3>2, <3>3, <3>5 DEF Fetched
    <3>7. SavedByAttempts'
      BY <1>i, <1>j, <1>13, SavedStays DEF Fetch, store
    <3>. QED
      BY <1>i, <1>j, <1>q, <1>13, <3>1, <3>2, <3>4, <3>6, <3>7, GoesOn DEF Fetch, broker
  <2>. QED
    BY <1>13, <2>1, <2>2 DEF Fetch
<1>14. ASSUME NEW w \in Workers, Spawn(w) PROVE RInv'
  <2>1. CASE Rest(w)
    BY <1>i, <1>j, <1>q, <1>r, <1>14, <2>1, MovesKeep DEF Spawn, broker
  <2>2. CASE Goto(w, "push")
    <3>1. Busy(w) /\ worker[w].pc = "spawn" /\ Passed(w) /\ Fetched(w)
      BY <1>14 DEF Spawn, Busy, RInv
    <3>2. /\ Others(w) /\ worker'[w].pc = "push" /\ worker'[w].msg = worker[w].msg
          /\ worker'[w].ok = worker[w].ok /\ worker'[w].i = worker[w].i /\ worker'[w].res = worker[w].res
      BY <1>i, <2>2, GotoFacts DEF PC
    <3>3. Passed(w)'
      BY <1>i, <1>j, <3>1, <3>2, PassedOn DEF Settling
    <3>4. Job(w)' = Job(w) /\ attempts' = attempts
      BY <1>14, <3>2 DEF Spawn, Job, history
    <3>5. Fetched(w)'
      BY <3>1, <3>2, <3>4 DEF Fetched
    <3>6. SavedByAttempts'
      BY <1>i, <1>j, <1>14, SavedStays DEF Spawn
    <3>. QED
      BY <1>i, <1>j, <1>q, <1>14, <3>1, <3>2, <3>3, <3>5, <3>6, GoesOn DEF Spawn, broker
  <2>. QED
    BY <1>14, <2>1, <2>2 DEF Spawn
<1>15. ASSUME NEW w \in Workers, PushKid(w) PROVE RInv'
  BY <1>i, <1>j, <1>15, PushKidKeeps
<1>16. ASSUME NEW w \in Workers, Index(w) PROVE RInv'
  <2>1. CASE Rest(w)
    BY <1>i, <1>j, <1>q, <1>r, <1>16, <2>1, MovesKeep DEF Index, broker
  <2>2. CASE Goto(w, "final")
    <3>1. Busy(w) /\ worker[w].pc = "index" /\ Passed(w)
      BY <1>16 DEF Index, Busy, RInv
    <3>2. /\ Others(w) /\ worker'[w].pc = "final" /\ worker'[w].msg = worker[w].msg
          /\ worker'[w].ok = worker[w].ok /\ worker'[w].i = worker[w].i
      BY <1>i, <2>2, GotoFacts DEF PC
    <3>3. Passed(w)'
      BY <1>i, <1>j, <3>1, <3>2, PassedOn DEF Settling
    <3>4. Fetched(w)'
      BY <3>2 DEF Fetched
    <3>5. SavedByAttempts'
      BY <1>i, <1>j, <1>16, SavedStays DEF Index
    <3>. QED
      BY <1>i, <1>j, <1>q, <1>16, <3>1, <3>2, <3>3, <3>4, <3>5, GoesOn DEF Index, broker
  <2>. QED
    BY <1>16, <2>1, <2>2 DEF Index
<1>17. ASSUME NEW w \in Workers, Finish(w) PROVE RInv'
  BY <1>i, <1>j, <1>q, <1>r, <1>17, MovesKeep DEF Finish, broker
<1>18. ASSUME NEW w \in Workers, Exit(w) PROVE RInv'
  <2>1. Goto(w, "exit")
    BY <1>18 DEF Exit, Goto
  <2>2. Others(w) /\ worker'[w].pc = "exit"
    BY <1>i, <2>1, GotoFacts DEF PC
  <2>. QED
    BY <1>i, <1>j, <1>q, <1>18, <2>2, MovesKeep DEF Exit, store, broker, Others
<1>19. ASSUME NEW a \in running, Save(a) PROVE RInv'
  <2>1. a.id \in Jobs /\ a.n \in 1 .. attempts[a.id] /\ saved' = [saved EXCEPT ![a.id] = a.n]
    BY <1>i, <1>19 DEF Save, Store, TypeOK, SavedByAttempts
  <2>2. SavedByAttempts'
    BY <1>i, <1>19, <2>1 DEF Save, history, SavedByAttempts, TypeOK
  <2>. QED
    BY <1>i, <1>j, <1>q, <1>19, <2>2, RFrame DEF Save, broker
<1>20. ASSUME NEW w \in Workers, CallbackSave(w) PROVE RInv'
  <2>1. Busy(w)
    BY <1>20 DEF CallbackSave, Busy
  <2>2. Job(w) \in Jobs /\ saved' = [saved EXCEPT ![Job(w)] = attempts[Job(w)]]
    BY <1>i, <1>20, <2>1, AtWorkFacts DEF CallbackSave, Store
  <2>3. SavedByAttempts'
    BY <1>i, <1>20, <2>2 DEF CallbackSave, history, SavedByAttempts, TypeOK
  <2>. QED
    BY <1>i, <1>j, <1>q, <1>20, <2>3, RFrame DEF CallbackSave, broker
<1>21. ASSUME NEW a \in running, LateReturn(a) PROVE RInv'
  BY <1>i, <1>j, <1>q, <1>21, MovesKeep DEF LateReturn, store, broker
<1>22. CASE Cancel
  BY <1>i, <1>j, <1>q, <1>22, MovesKeep DEF Cancel, store, broker
<1>23. CASE Crash
  <2>1. \A v \in Workers : worker'[v].pc = "idle"
    BY <1>23, RestingType DEF Crash
  <2>. QED
    BY <1>i, <1>j, <1>q, <1>23, <2>1, MovesKeep DEF Crash, store
<1>. QED
  BY <1>0, <1>1, <1>2, <1>3, <1>4, <1>5, <1>6, <1>7, <1>8, <1>11, <1>12, <1>13, <1>14,
     <1>15, <1>16, <1>17, <1>18, <1>19, <1>20, <1>21, <1>22, <1>23 DEF Next, WorkerStep

LEMMA RInit == Init => RInv
<1> SUFFICES ASSUME Init PROVE RInv
  OBVIOUS
<1>1. IInv
  BY IInvInit
<1>2. \A w \in Workers : worker[w].pc = "idle" /\ worker[w].msg = NoMsg
  BY RestingType DEF Init
<1>3. SavedByAttempts
  BY DEF Init, SavedByAttempts
<1>4. \A m \in Travelling : Carrying(m)
  BY <1>2 DEF Init, Travelling, Busy
<1>. QED
  BY <1>1, <1>2, <1>3, <1>4 DEF RInv, Passed, Fetched, Settling

(* What the loop over the continuations has done, and which results are    *)
(* saved and carried, at every step (execJob, enqueueWithMeta, Save).      *)
THEOREM InductiveToo == Spec => []RInv
BY RInit, RStep, PTL DEF Spec

(* A result travels only to the success continuations of the job whose     *)
(* attempt saved it, and they are not sent without it if it was stored     *)
(* when the handler returned nil (GetResult, enqueueWithMeta, retryJob).   *)
THEOREM ResultsTravel == Spec => []ContinuationCarriesResult
<1>1. RInv => ContinuationCarriesResult
  BY DEF RInv, ContinuationCarriesResult, Carrying, Parents
<1>. QED
  BY <1>1, InductiveToo, PTL

-----------------------------------------------------------------------------
(* The stored job messages behave as JobStatus promises.                   *)

LEMMA ObservedInit == Init => Observed!Init
BY DEF Init, Observed!Init

(* One write of a job's status, as an observer sees it.                    *)
SeenStatus == [j \in Jobs |-> jobMsg[j].status]
SeenRetried == [j \in Jobs |-> jobMsg[j].retried]

LEMMA ObservedWrite ==
  ASSUME TypeOK, NEW r, NEW j \in Jobs, NEW st, NEW n, SetJob(r, j, st, n)
  PROVE  \/ UNCHANGED <<SeenStatus, SeenRetried>>
         \/ /\ SeenStatus' = [SeenStatus EXCEPT ![j] = st]
            /\ SeenRetried' = [SeenRetried EXCEPT ![j] = n]
<1>1. CASE jobMsg' = jobMsg
  BY <1>1 DEF SeenStatus, SeenRetried
<1>2. CASE jobMsg' = [jobMsg EXCEPT ![j] = [status |-> st, retried |-> n]]
  BY <1>2 DEF TypeOK, SeenStatus, SeenRetried
<1>. QED
  BY <1>1, <1>2 DEF SetJob

LEMMA ObservedFacts ==
  /\ UNCHANGED <<SeenStatus, SeenRetried>> => UNCHANGED Observed!vars
  /\ \A j \in Jobs : SeenStatus[j] = jobMsg[j].status /\ SeenRetried[j] = jobMsg[j].retried
  /\ DOMAIN SeenRetried = Jobs
BY DEF SeenStatus, SeenRetried, Observed!vars

LEMMA ObservedStep == RInv /\ [Next]_vars => [Observed!Next]_Observed!vars
<1> SUFFICES ASSUME RInv, [Next]_vars PROVE [Observed!Next]_Observed!vars
  OBVIOUS
<1>t. IInv /\ TypeOK /\ Holding /\ WorkerOK
  BY DEF RInv, IInv
<1>k. /\ \A j \in Jobs : [k \in Jobs |-> jobMsg[k].status][j] = jobMsg[j].status
      /\ \A j \in Jobs : [k \in Jobs |-> jobMsg[k].retried][j] = jobMsg[j].retried
      /\ \A j \in Jobs : Observed!Known(j) <=> Known(j)
      /\ \A j \in Jobs, ok \in BOOLEAN : Observed!Kids(j, ok) = Kids(j, ok)
  BY DEF Known, Kids, Observed!Known, Observed!Kids
<1>f. \A j \in Jobs, ok \in BOOLEAN :
        Observed!NoKidKnown(j, ok) <=> \A k \in DOMAIN Kids(j, ok) : ~Known(Kids(j, ok)[k])
  BY <1>k, KidsType DEF Observed!NoKidKnown
<1>1. ASSUME NEW c \in Roots, ClientRecord(c) PROVE [Observed!Next]_Observed!vars
  <2>1. c \in Jobs /\ ~Known(c)
    BY <1>t, <1>1, TypeAssumption DEF ClientRecord, Holding, Client
  <2>2. PICK r \in Replies : SetJob(r, c, "queued", 0)
    BY <1>1 DEF ClientRecord
  <2>3. \/ UNCHANGED Observed!vars
        \/ Observed!Admit(c)
    <3>1. \/ UNCHANGED <<SeenStatus, SeenRetried>>
          \/ /\ SeenStatus' = [SeenStatus EXCEPT ![c] = "queued"]
             /\ SeenRetried' = [SeenRetried EXCEPT ![c] = 0]
      BY <1>t, <2>1, <2>2, ObservedWrite
    <3>. QED
      BY <1>k, <2>1, <3>1, ObservedFacts DEF Observed!Admit, SeenStatus, SeenRetried
  <2>. QED
    BY <2>1, <2>3 DEF Observed!Next
<1>2. ASSUME NEW w \in Workers, Begin(w) PROVE [Observed!Next]_Observed!vars
  <2>1. Busy(w) /\ worker[w].pc = "recv"
    BY <1>2 DEF Begin, Busy
  <2>2. Job(w) \in Jobs /\ Job(w) = worker[w].msg.id /\ Queued(worker[w].msg)
    BY <1>t, <2>1, AtWorkFacts DEF AtWork
  <2>3. jobMsg[Job(w)].status \in {"queued", "retrying"} /\ jobMsg[Job(w)].retried = worker[w].msg.retried
    BY <2>2 DEF Queued
  <2>4. PICK r \in CtxReplies : SetJob(r, Job(w), "processing", worker[w].msg.retried)
    BY <1>2 DEF Begin, Job
  <2>5. \/ UNCHANGED <<SeenStatus, SeenRetried>>
        \/ /\ SeenStatus' = [SeenStatus EXCEPT ![Job(w)] = "processing"]
           /\ SeenRetried' = SeenRetried
    <3>1. [SeenRetried EXCEPT ![Job(w)] = worker[w].msg.retried] = SeenRetried
      BY <2>2, <2>3 DEF SeenRetried
    <3>. QED
      BY <1>t, <2>2, <2>4, <3>1, ObservedWrite
  <2>6. ASSUME NEW t \in Jobs, t = Job(w)
        PROVE  UNCHANGED Observed!vars \/ Observed!Take(t)
    BY <2>3, <2>5, <2>6, ObservedFacts DEF Observed!Take, SeenStatus, SeenRetried
  <2>. QED
    BY <2>2, <2>6 DEF Observed!Next
<1>3. ASSUME NEW w \in Workers, MarkRetry(w) PROVE [Observed!Next]_Observed!vars
  <2>1. Busy(w) /\ worker[w].pc = "retrying"
    BY <1>3 DEF MarkRetry, Busy
  <2>2. /\ Job(w) \in Jobs /\ Job(w) = worker[w].msg.id /\ Retrying(worker[w].msg) /\ Fresh(Job(w))
        /\ worker[w].msg.retried \in Nat /\ MaxRetries[Job(w)] \in Nat
    BY <1>t, <2>1, AtWorkFacts DEF AtWork
  <2>3. /\ jobMsg[Job(w)].status = "processing" /\ jobMsg[Job(w)].retried + 1 = worker[w].msg.retried
        /\ jobMsg[Job(w)].retried < MaxRetries[Job(w)]
    BY <1>t, <2>2 DEF Retrying, TypeOK
  <2>4. PICK r \in CtxReplies : SetJob(r, Job(w), "retrying", worker[w].msg.retried)
    BY <1>3 DEF MarkRetry
  <2>5. ASSUME NEW t \in Jobs, t = Job(w)
        PROVE  UNCHANGED Observed!vars \/ Observed!Retry(t)
    <3>1. \A ok \in BOOLEAN : Observed!NoKidKnown(t, ok)
      BY <1>f, <2>2, <2>5 DEF Fresh
    <3>2. \/ UNCHANGED <<SeenStatus, SeenRetried>>
          \/ /\ SeenStatus' = [SeenStatus EXCEPT ![t] = "retrying"]
             /\ SeenRetried' = [SeenRetried EXCEPT ![t] = @ + 1]
      <4>1. SeenRetried[t] + 1 = worker[w].msg.retried
        BY <2>3, <2>5, ObservedFacts
      <4>. QED
        BY <1>t, <2>4, <2>5, <4>1, ObservedWrite
    <3>. QED
      BY <2>3, <2>5, <3>1, <3>2, ObservedFacts DEF Observed!Retry, SeenStatus, SeenRetried
  <2>. QED
    BY <2>2, <2>5 DEF Observed!Next
<1>4. ASSUME NEW w \in Workers, worker[w].pc \in Settling
      PROVE  /\ Job(w) \in Jobs /\ worker[w].ok \in BOOLEAN
             /\ Observed!MaySettle(Job(w), worker[w].ok)
             /\ Job(w) = worker[w].msg.id
             /\ jobMsg[Job(w)].retried = worker[w].msg.retried
             /\ LoopKids(w)
  <2>1. Busy(w)
    BY <1>4 DEF Busy, Settling
  <2>2. /\ Job(w) \in Jobs /\ worker[w].ok \in BOOLEAN /\ Job(w) = worker[w].msg.id
        /\ Executing(worker[w].msg) /\ LoopKids(w)
        /\ worker[w].ok \/ worker[w].msg.retried = MaxRetries[worker[w].msg.id]
    BY <1>t, <1>4, <2>1, AtWorkFacts DEF AtWork
  <2>3. ASSUME NEW t \in Jobs, t = Job(w), NEW ok \in BOOLEAN, ok = worker[w].ok PROVE Observed!MaySettle(t, ok)
    <3>1. Observed!NoKidKnown(t, ~ok)
      <4>1. (~ok) \in BOOLEAN /\ (~ok) # ok
        OBVIOUS
      <4>2. \A k \in DOMAIN Kids(t, ~ok) : ~Known(Kids(t, ~ok)[k])
        BY <2>2, <2>3, <4>1 DEF LoopKids
      <4>. QED
        BY <1>f, <4>1, <4>2
    <3>. QED
      BY <1>k, <2>2, <2>3, <3>1 DEF Observed!MaySettle, Executing
  <2>. QED
    BY <2>2, <2>3 DEF Executing

<1>5. ASSUME NEW w \in Workers, Spawn(w) PROVE [Observed!Next]_Observed!vars
  <2> DEFINE t == Job(w)
             o == worker[w].ok
             i == worker[w].i
  <2>1. worker[w].pc = "spawn" /\ worker[w].pc \in Settling /\ Busy(w)
    BY <1>5 DEF Spawn, Settling, Busy
  <2>2. /\ t \in Jobs /\ o \in BOOLEAN /\ Observed!MaySettle(t, o) /\ LoopKids(w)
        /\ i \in DOMAIN Kids(t, o) /\ i \in Nat
    BY <1>4, <1>t, <2>1, AtWorkFacts DEF WorkerOK
  <2>3. PICK r \in CtxReplies : SetJob(r, Kid(w), "queued", 0)
    BY <1>5 DEF Spawn
  <2>4. Kid(w) = Kids(t, o)[i] /\ Kid(w) \in Jobs /\ ~Known(Kid(w))
    BY <2>1, <2>2, KidsType DEF Kid, LoopKids
  <2>5. \A k \in 1 .. (i - 1) : Known(Kids(t, o)[k]) /\ Kids(t, o)[k] \in Jobs
    <3>1. \A k \in DOMAIN Kids(t, o) : k < i => Known(Kids(t, o)[k])
      BY <2>1 DEF RInv, Passed
    <3>2. Kids(t, o) \in Seq(Jobs)
      BY <2>2, KidsType
    <3>3. \A k \in 1 .. (i - 1) : k \in DOMAIN Kids(t, o) /\ k < i
      BY <2>2, <3>2
    <3>. QED
      BY <3>1, <3>2, <3>3
  <2>6. ASSUME NEW j \in Jobs, j = Kid(w) PROVE UNCHANGED Observed!vars \/ Observed!Admit(j)
    <3>1. ~Observed!Known(j)
      BY <1>k, <2>4, <2>6
    <3>2. \E p \in Jobs, ok \in BOOLEAN : \E k \in DOMAIN Observed!Kids(p, ok) :
            /\ Observed!Kids(p, ok)[k] = j
            /\ Observed!MaySettle(p, ok)
            /\ \A l \in 1 .. (k - 1) : Observed!Known(Observed!Kids(p, ok)[l])
      <4>1. Observed!Kids(t, o) = Kids(t, o)
        BY <1>k, <2>2
      <4>2. \A l \in 1 .. (i - 1) : Observed!Known(Observed!Kids(t, o)[l])
        BY <1>k, <2>5, <4>1
      <4> HIDE DEF t, o, i
      <4>. QED
        BY <2>2, <2>4, <2>6, <4>1, <4>2
    <3>3. \/ UNCHANGED <<SeenStatus, SeenRetried>>
          \/ /\ SeenStatus' = [SeenStatus EXCEPT ![j] = "queued"]
             /\ SeenRetried' = [SeenRetried EXCEPT ![j] = 0]
      BY <1>t, <2>3, <2>6, ObservedWrite
    <3>. QED
      BY <3>1, <3>2, <3>3, ObservedFacts DEF Observed!Admit, SeenStatus, SeenRetried
  <2>. QED
    BY <2>4, <2>6 DEF Observed!Next
<1>6. ASSUME NEW w \in Workers, Finish(w) PROVE [Observed!Next]_Observed!vars
  <2>1. worker[w].pc = "final" /\ worker[w].pc \in Settling
    BY <1>6 DEF Finish, Settling
  <2>2. /\ Job(w) \in Jobs /\ worker[w].ok \in BOOLEAN /\ Observed!MaySettle(Job(w), worker[w].ok)
        /\ jobMsg[Job(w)].retried = worker[w].msg.retried
    BY <1>4, <2>1
  <2>3. PICK r \in CtxReplies : SetJob(r, Job(w), FinalStatus(w), worker[w].msg.retried)
    BY <1>6 DEF Finish
  <2>4. ASSUME NEW t \in Jobs, t = Job(w), NEW o \in BOOLEAN, o = worker[w].ok
        PROVE  UNCHANGED Observed!vars \/ Observed!Settle(t, o)
    <3>1. \A k \in DOMAIN Kids(t, o) : Known(Kids(t, o)[k])
      BY <2>1, <2>4 DEF RInv, Passed
    <3>2. Observed!AllKidsKnown(t, o)
      BY <1>k, <3>1, KidsType DEF Observed!AllKidsKnown
    <3>3. \/ UNCHANGED <<SeenStatus, SeenRetried>>
          \/ /\ SeenStatus' = [SeenStatus EXCEPT ![t] = IF o THEN "successful" ELSE "failed"]
             /\ SeenRetried' = SeenRetried
      <4>1. [SeenRetried EXCEPT ![t] = worker[w].msg.retried] = SeenRetried
        BY <2>2, <2>4 DEF SeenRetried
      <4>2. FinalStatus(w) = IF o THEN "successful" ELSE "failed"
        BY <2>4 DEF FinalStatus
      <4>. QED
        BY <1>t, <2>3, <2>4, <4>1, <4>2, ObservedWrite
    <3>. QED
      BY <2>2, <2>4, <3>2, <3>3, ObservedFacts DEF Observed!Settle, SeenStatus, SeenRetried
  <2>. QED
    BY <2>2, <2>4 DEF Observed!Next
<1>7. CASE jobMsg' = jobMsg
  BY <1>7 DEF Observed!vars
<1>8. \/ jobMsg' = jobMsg
      \/ \E c \in Roots : ClientRecord(c)
      \/ \E w \in Workers : Begin(w) \/ MarkRetry(w) \/ Finish(w) \/ Spawn(w)
  BY DEF Next, WorkerStep, vars, store, ClientPush, Consume, Lose, Deliver, CloseWork, NoHandler, Cancelled,
         Requeue, Fetch, PushKid, Index, Exit, Deadline, CallbackSave, HandlerReturn, Save, LateReturn,
         Cancel, Crash
<1>. QED
  BY <1>1, <1>2, <1>3, <1>5, <1>6, <1>7, <1>8

(* Everything that happens to jobs, under any failures, looks to a caller  *)
(* of GetJob as JobStatus allows: retries in order, the continuations one  *)
(* by one before the final status (setJobMessage and its callers).         *)
THEOREM StatusRefined == Spec => ImplementsJobStatus
<1>1. Init => Observed!Init
  BY ObservedInit
<1>2. RInv /\ [Next]_vars => [Observed!Next]_Observed!vars
  BY ObservedStep
<1>. QED
  BY <1>1, <1>2, InductiveToo, PTL DEF Spec, ImplementsJobStatus, Observed!Spec

-----------------------------------------------------------------------------
(* The broker is used as Broker allows.                                    *)

LEMMA IsCarryable ==
  ASSUME IInv, NEW m \in Msg, m.retried <= MaxRetries[m.id], Carrying(m)
  PROVE  m \in Carryable
<1> DEFINE attempt == UNION {1 .. (MaxRetries[p] + 1) : p \in Jobs}
           some(j) == [id : {j}, retried : 0 .. MaxRetries[j], prev : {0} \cup attempt]
<1>1. m.prev \in {0} \cup attempt
  <2>1. CASE Parents(m.id) = {}
    BY <2>1 DEF Carrying
  <2>2. ASSUME NEW p \in Parents(m.id) PROVE m.prev \in attempt
    <3>1. p \in Jobs /\ m.prev \in 1 .. attempts[p]
      BY <2>2 DEF Carrying, Parents
    <3>2. /\ attempts[p] \in Nat /\ MaxRetries[p] \in Nat
          /\ attempts[p] <= MaxRetries[p] + 1
      BY <3>1, TypeAssumption DEF IInv, TypeOK, Holding, Recorded
    <3>3. m.prev \in 1 .. (MaxRetries[p] + 1)
      BY <3>1, <3>2
    <3>. QED
      BY <3>1, <3>3
  <2>. QED
    BY <2>1, <2>2
<1>2. m.id \in Jobs /\ m.retried \in 0 .. MaxRetries[m.id] /\ m = [id |-> m.id, retried |-> m.retried, prev |-> m.prev]
  BY TypeAssumption DEF Msg
<1>3. m \in some(m.id)
  <2> HIDE DEF attempt
  <2>. QED
    BY <1>1, <1>2
<1>4. Carryable = UNION {some(j) : j \in Jobs}
  BY DEF Carryable
<1>. QED
  <2> HIDE DEF some
  <2>. QED
    BY <1>2, <1>3, <1>4

LEMMA BrokerStep == RInv /\ [Next]_vars => [Carried!Next]_Carried!vars
<1> SUFFICES ASSUME RInv, [Next]_vars PROVE [Carried!Next]_Carried!vars
  OBVIOUS
<1>t. IInv /\ TypeOK /\ Holding /\ WorkerOK /\ Unique
  BY DEF RInv, IInv
<1>q. \A m \in queue : m \in Carryable
  <2>1. ASSUME NEW m \in queue PROVE m \in Carryable
    <3>1. m \in Msg /\ Queued(m) /\ Carrying(m)
      BY <1>t DEF TypeOK, Holding, InBroker, RInv, Travelling
    <3>. QED
      BY <1>t, <3>1, IsCarryable DEF Queued
  <2>. QED
    BY <2>1
<1>h. \A m \in hand : m \in Carryable
  <2>1. ASSUME NEW m \in hand PROVE m \in Carryable
    <3>1. m \in Msg /\ Queued(m) /\ Carrying(m)
      BY <1>t DEF TypeOK, Holding, InBroker, RInv, Travelling
    <3>. QED
      BY <1>t, <3>1, IsCarryable DEF Queued
  <2>. QED
    BY <2>1
<1>p. ASSUME NEW r, NEW m \in Carryable, Push(r, m), \A n \in InBroker : n.id # m.id, hand' = hand
      PROVE  [Carried!Next]_Carried!vars
  <2>1. m \notin queue \cup hand
    BY <1>p DEF InBroker
  <2>. QED
    BY <1>p, <2>1 DEF Push, Carried!Next, Carried!Enqueue, Carried!vars
<1>0. CASE UNCHANGED <<queue, hand>>
  BY <1>0 DEF Carried!vars
<1>1. ASSUME NEW c \in Roots, ClientPush(c) PROVE [Carried!Next]_Carried!vars
  <2>1. c \in Jobs /\ client[c] = "pushing"
    BY <1>1, TypeAssumption DEF ClientPush
  <2>2. PICK r \in Replies : Push(r, NewMsg(c, 0))
    BY <1>1 DEF ClientPush
  <2>3. NewMsg(c, 0) \in Msg /\ NewMsg(c, 0).id = c /\ NewMsg(c, 0).retried = 0 /\ MaxRetries[c] \in Nat
    BY <2>1, TypeAssumption DEF NewMsg, Msg
  <2>4. Carrying(NewMsg(c, 0))
    BY RootParents DEF Carrying, NewMsg
  <2>5. NewMsg(c, 0) \in Carryable
    BY <1>t, <2>3, <2>4, IsCarryable
  <2>6. \A n \in InBroker : n.id # c
    BY <1>t, <2>1 DEF Unique, ClientUnique
  <2>. QED
    BY <1>1, <1>p, <2>2, <2>3, <2>5, <2>6 DEF ClientPush
<1>2. ASSUME NEW w \in Workers, Requeue(w) PROVE [Carried!Next]_Carried!vars
  <2>1. Busy(w) /\ worker[w].pc = "requeue"
    BY <1>2 DEF Requeue, Busy
  <2>2. worker[w].msg \in Msg /\ Queued(worker[w].msg) /\ Job(w) = worker[w].msg.id
    BY <1>t, <2>1, AtWorkFacts DEF AtWork
  <2>3. Carrying(worker[w].msg)
    BY <2>1 DEF RInv, Travelling
  <2>4. worker[w].msg \in Carryable
    BY <1>t, <2>2, <2>3, IsCarryable DEF Queued
  <2>5. \A n \in InBroker : n.id # worker[w].msg.id
    BY <1>t, <2>1, <2>2 DEF Unique, WorkerUnique
  <2>6. PICK r \in CtxReplies : Push(r, worker[w].msg)
    BY <1>2 DEF Requeue
  <2>. QED
    BY <1>2, <1>p, <2>4, <2>5, <2>6 DEF Requeue
<1>3. ASSUME NEW w \in Workers, PushKid(w) PROVE [Carried!Next]_Carried!vars
  <2> DEFINE n == NewMsg(Kid(w), worker[w].res)
  <2>1. Busy(w) /\ worker[w].pc = "push"
    BY <1>3 DEF PushKid, Busy
  <2>2. /\ Job(w) \in Jobs /\ worker[w].ok \in BOOLEAN /\ Kid(w) \in Jobs /\ worker[w].res \in Nat
        /\ worker[w].i \in DOMAIN Kids(Job(w), worker[w].ok)
    BY <1>t, <2>1, AtWorkFacts, BusyFacts DEF WorkerOK, WorkerType, WorkerState
  <2>3. n \in Msg /\ n.id = Kid(w) /\ n.retried = 0 /\ n.prev = worker[w].res /\ MaxRetries[Kid(w)] \in Nat
    BY <2>2, TypeAssumption DEF NewMsg, Msg
  <2>4. Parents(Kid(w)) = IF worker[w].ok THEN {Job(w)} ELSE {}
    BY <2>2, KidParents DEF Kid
  <2>5. Fetched(w)
    BY DEF RInv
  <2>6. n \in Carryable
    <3>1. Carrying(n)
      <4> HIDE DEF n
      <4>. QED
        BY <2>1, <2>3, <2>4, <2>5 DEF Carrying, Fetched
    <3> HIDE DEF n
    <3>. QED
      BY <1>t, <2>3, <3>1, IsCarryable
  <2>7. \A m \in InBroker : m.id # n.id
    BY <1>t, <2>1, <2>3 DEF Unique, SpawnUnique
  <2>8. PICK r \in CtxReplies : Push(r, n)
    BY <1>3 DEF PushKid
  <2> HIDE DEF n
  <2>. QED
    BY <1>3, <1>p, <2>6, <2>7, <2>8 DEF PushKid
<1>4. ASSUME NEW m \in queue, Consume(m) PROVE [Carried!Next]_Carried!vars
  <2>1. Carried!Take(m)
    BY <1>4 DEF Consume, HandEmpty, LaneOf, Carried!Take
  <2>. QED
    BY <1>q, <2>1 DEF Carried!Next
<1>l. ASSUME NEW m \in queue, Lose(m) PROVE [Carried!Next]_Carried!vars
  <2>1. Carried!Lose
    BY <1>l DEF Lose, Carried!Lose
  <2>. QED
    BY <2>1 DEF Carried!Next
<1>5. ASSUME NEW w \in Workers, NEW m \in hand, Deliver(w, m) PROVE [Carried!Next]_Carried!vars
  <2>1. Carried!Give(m)
    BY <1>5 DEF Deliver, Carried!Give
  <2>. QED
    BY <1>h, <2>1 DEF Carried!Next
<1>6. CASE Crash
  BY <1>6 DEF Crash, Carried!Next, Carried!Die
<1>7. \/ UNCHANGED <<queue, hand>>
      \/ \E c \in Roots : ClientPush(c)
      \/ \E w \in Workers : Requeue(w) \/ PushKid(w)
      \/ \E m \in queue : Consume(m) \/ Lose(m)
      \/ \E w \in Workers, m \in hand : Deliver(w, m)
      \/ Crash
  BY DEF Next, WorkerStep, vars, broker, ClientRecord, CloseWork, NoHandler, Cancelled, Begin, MarkRetry, Spawn,
         Finish, Fetch, Index, Exit, Deadline, CallbackSave, HandlerReturn, Save, LateReturn, Cancel
<1>. QED
  BY <1>0, <1>1, <1>2, <1>3, <1>4, <1>5, <1>6, <1>7, <1>l

(* The server asks of a broker no more than Broker promises: a message is  *)
(* enqueued only while it is nowhere in the broker, with a bounded number  *)
(* of retries and a result of its parent (Enqueue, retryJob, statusDone).  *)
THEOREM BrokerUsed == Spec => UsesBroker
<1>1. Init => Carried!Init
  BY DEF Init, Carried!Init
<1>2. RInv /\ [Next]_vars => [Carried!Next]_Carried!vars
  BY BrokerStep
<1>. QED
  BY <1>1, <1>2, InductiveToo, PTL DEF Spec, UsesBroker, Carried!Spec

-----------------------------------------------------------------------------
(* A job is completed once.                                                *)

(* What a step has to show that takes no job for completed: of the lists,  *)
(* of the messages it makes and of the worker that takes it.               *)
LEMMA ConcludedFrame ==
  ASSUME IInv, Concluded, ended' = ended, \A j \in Jobs : Onward(j),
         \A j \in Jobs : j \in failed' => j \in failed \/ ~Completed(j),
         \A j \in Jobs : j \in success' => j \in success \/ Completed(j),
         \A c \in Roots : client'[c] = "pushing" => client[c] \in {"new", "pushing"},
         \A m \in queue' \cup hand' : m \in InBroker \/ ~Completed(m.id),
         \A v \in Workers :
           \/ worker'[v] = worker[v]
           \/ worker'[v].pc \in {"idle", "exit"}
           \/ /\ Completed(worker'[v].msg.id) <=> worker'[v].pc \in Settling /\ worker'[v].ok
              /\ worker'[v].pc = "push" => ~Completed(Kid(v)')
  PROVE  Concluded'
<1>0. \A j : Completed(j)' <=> Completed(j)
  BY DEF Completed
<1>1. ASSUME NEW j \in Jobs
      PROVE  /\ Completed(j)' => Known(j)' /\ j \notin failed'
             /\ j \in success' => Completed(j)'
  BY <1>0, <1>1 DEF Concluded, Onward
<1>2. ASSUME NEW c \in Roots, client'[c] = "pushing" PROVE ~Completed(c)'
  <2>1. c \in Jobs /\ (client[c] = "new" => ~Known(c))
    BY <1>2, TypeAssumption DEF IInv, Holding, Client
  <2>. QED
    BY <1>0, <1>2, <2>1 DEF Concluded
<1>3. ASSUME NEW m \in InBroker' PROVE ~Completed(m.id)'
  BY <1>0, <1>3 DEF Concluded, InBroker
<1>4. ASSUME NEW v \in Workers, Busy(v)'
      PROVE  Completed(worker'[v].msg.id) <=> worker'[v].pc \in Settling /\ worker'[v].ok
  BY <1>4 DEF Concluded, Busy, Job
<1>5. ASSUME NEW v \in Workers, worker'[v].pc = "push" PROVE ~Completed(Kid(v)')
  BY <1>5 DEF Concluded, Kid, Job
<1>. QED
  BY <1>0, <1>1, <1>2, <1>3, <1>4, <1>5 DEF Concluded, Job, Completed

(* The step that takes a job for completed.                                *)
LEMMA ConcludedEnds ==
  ASSUME IInv, Concluded, NEW w \in Workers, worker[w].pc = "run", Resolve(w, TRUE),
         NEW how \in End \ {"no"}, Ended(w, how), UNCHANGED <<store, queue, hand, client>>
  PROVE  /\ Concluded'
         /\ \A j \in Jobs : Completed(j) => ended'[j] = ended[j]
<1> DEFINE t == Job(w)
<1>1. /\ Busy(w) /\ t \in Jobs /\ worker[w].msg \in Msg /\ t = worker[w].msg.id
      /\ WorkerType /\ Known(t) /\ t \notin failed /\ ~Completed(t) /\ ended \in [Jobs -> End]
  <2>1. Busy(w)
    BY DEF Busy
  <2>2. AtWork(w) /\ TypeOK /\ WorkerType /\ t \in Jobs /\ worker[w].msg \in Msg /\ t = worker[w].msg.id
    BY <2>1, AtWorkFacts
  <2>3. Executing(worker[w].msg) /\ Unlisted(t)
    BY <2>2 DEF AtWork
  <2>4. ~Completed(t)
    BY <2>1 DEF Concluded, Settling
  <2>. QED
    BY <2>1, <2>2, <2>3, <2>4 DEF Executing, Unlisted, Known, TypeOK
<1>2. ended' = [ended EXCEPT ![t] = how]
  BY DEF Ended
<1> HIDE DEF t
<1>3. ended'[t] # "no" /\ \A j \in Jobs : j # t => ended'[j] = ended[j]
  BY <1>1, <1>2 DEF Completed, End
<1>4. /\ Others(w) /\ worker'[w].pc \in {"index", "fetch", "spawn"} /\ worker'[w].ok
      /\ worker'[w].msg = worker[w].msg
  <2>1. \/ worker'[w].pc = LoopPC(t, TRUE, 1) /\ worker'[w].ok = TRUE /\ worker'[w].msg = worker[w].msg
        \/ ~TRUE
    BY <1>1, ResolveFacts DEF t
  <2>. QED
    BY <1>1, <2>1, ResolveFacts, LoopPCFacts
<1>5. ASSUME NEW j \in Jobs
      PROVE  /\ Completed(j)' => Known(j)' /\ j \notin failed'
             /\ j \in success' => Completed(j)'
  BY <1>1, <1>3, <1>5 DEF Concluded, Completed, store, Known
<1>6. ASSUME NEW c \in Roots, client'[c] = "pushing" PROVE ~Completed(c)'
  <2>1. c \in Jobs /\ c # t
    BY <1>1, <1>6, TypeAssumption DEF IInv, Unique, ClientUnique, t
  <2>. QED
    BY <1>3, <1>6, <2>1 DEF Concluded, Completed
<1>7. ASSUME NEW m \in InBroker' PROVE ~Completed(m.id)'
  <2>1. m \in InBroker /\ m.id \in Jobs /\ m.id # t
    BY <1>1, <1>7 DEF IInv, Unique, WorkerUnique, InBroker, TypeOK, Msg, t
  <2>. QED
    BY <1>3, <2>1 DEF Concluded, Completed
<1>8. ASSUME NEW v \in Workers, Busy(v)'
      PROVE  ended'[worker'[v].msg.id] # "no" <=> worker'[v].pc \in Settling /\ worker'[v].ok
  <2>1. CASE v = w
    BY <1>1, <1>3, <1>4, <2>1 DEF Completed, Settling
  <2>2. CASE v # w
    <3>1. worker'[v] = worker[v] /\ Busy(v)
      BY <1>4, <1>8, <2>2 DEF Others, Busy
    <3>2. Job(v) # t /\ Job(v) \in Jobs
      BY <1>1, <2>2, <3>1, AtWorkFacts DEF IInv, Unique, WorkerUnique, t
    <3>. QED
      BY <1>3, <3>1, <3>2 DEF Concluded, Completed, Job
  <2>. QED
    BY <2>1, <2>2
<1>9. ASSUME NEW v \in Workers, worker'[v].pc = "push" PROVE ended'[Kid(v)'] = "no"
  <2>1. v # w /\ worker'[v] = worker[v] /\ worker[v].pc = "push"
    BY <1>4, <1>9 DEF Others
  <2>2. Kid(v)' = Kid(v) /\ Kid(v) \in Jobs
    <3>1. Busy(v) /\ TypeOK /\ WorkerOK
      BY <2>1 DEF Busy, IInv
    <3>. QED
      BY <2>1, <3>1, BusyFacts DEF Kid, Job
  <2>3. Kid(v) # t
    BY <1>1, <2>1 DEF IInv, Unique, SpawnUnique, t
  <2>. QED
    BY <1>3, <2>1, <2>2, <2>3 DEF Concluded, Completed
<1>. QED
  BY <1>1, <1>3, <1>5, <1>6, <1>7, <1>8, <1>9 DEF Concluded, Completed, Job

LEMMA ConcludedStep ==
  ASSUME IInv, Concluded, [Next]_vars
  PROVE  Concluded' /\ \A j \in Jobs : Completed(j) => ended'[j] = ended[j]
<1>i. /\ IInv' /\ TypeOK /\ WorkerOK /\ WorkerType /\ \A j \in Jobs : Onward(j)
  BY IInvStep, OnwardStep DEF IInv, TypeOK, WorkerType, WorkerState
<1> DEFINE Done == Concluded' /\ \A j \in Jobs : Completed(j) => ended'[j] = ended[j]
           Alike(v) ==
             \/ worker'[v] = worker[v]
             \/ worker'[v].pc \in {"idle", "exit"}
             \/ /\ Completed(worker'[v].msg.id) <=> worker'[v].pc \in Settling /\ worker'[v].ok
                /\ worker'[v].pc = "push" => ~Completed(Kid(v)')
           Sent == \A m \in queue' \cup hand' : m \in InBroker \/ ~Completed(m.id)
<1>f. ASSUME ended' = ended, UNCHANGED <<success, failed, client>>, Sent, \A v \in Workers : Alike(v)
      PROVE  Done
  BY <1>i, <1>f, ConcludedFrame
<1>q. ASSUME queue' \subseteq queue, hand' \subseteq queue \cup hand PROVE Sent
  BY <1>q DEF InBroker
<1>w. ASSUME worker' = worker PROVE \A v \in Workers : Alike(v)
  BY <1>w
<1>r. ASSUME NEW w \in Workers, Rest(w) PROVE \A v \in Workers : Alike(v)
  BY <1>i, <1>r, RestFacts DEF Others
<1>g. ASSUME NEW w \in Workers, Busy(w), NEW p \in PC, Goto(w, p), p # "push",
             p = "exit" \/ (p \in Settling <=> worker[w].pc \in Settling)
      PROVE  \A v \in Workers : Alike(v)
  <2>1. Others(w) /\ worker'[w].pc = p /\ worker'[w].msg = worker[w].msg /\ worker'[w].ok = worker[w].ok
    BY <1>i, <1>g, GotoFacts
  <2>2. Completed(Job(w)) <=> worker[w].pc \in Settling /\ worker[w].ok
    BY <1>g DEF Concluded
  <2>. QED
    BY <1>g, <2>1, <2>2 DEF Others, Job
<1>p. {"run", "requeue", "push", "final", "exit"} \subseteq PC
  BY DEF PC
<1> HIDE DEF Alike, Sent, Done
<1>0. ASSUME UNCHANGED vars PROVE Done
  BY <1>f, <1>q, <1>w, <1>0 DEF vars, store, broker, history
<1>1. ASSUME NEW c \in Roots, ClientRecord(c) PROVE Done
  <2>1. \A d \in Roots : client'[d] = "pushing" => client[d] \in {"new", "pushing"}
    BY <1>i, <1>1 DEF ClientRecord, TypeOK
  <2>2. Sent /\ \A v \in Workers : Alike(v)
    BY <1>q, <1>w, <1>1 DEF ClientRecord, broker
  <2>. QED
    BY <1>i, <1>1, <2>1, <2>2, ConcludedFrame DEF ClientRecord, history, Done, Sent, Alike
<1>2. ASSUME NEW c \in Roots, ClientPush(c) PROVE Done
  <2>1. \A d \in Roots : client'[d] = "pushing" => client[d] \in {"new", "pushing"}
    BY <1>i, <1>2 DEF ClientPush, TypeOK
  <2>2. queue' \subseteq queue \cup {NewMsg(c, 0)} /\ hand' = hand
    BY <1>2 DEF ClientPush, Push
  <2>3. NewMsg(c, 0).id = c /\ ~Completed(c)
    BY <1>2 DEF ClientPush, Concluded, NewMsg
  <2>4. Sent
    BY <2>2, <2>3 DEF Sent, InBroker
  <2>5. \A v \in Workers : Alike(v)
    BY <1>w, <1>2 DEF ClientPush
  <2>. QED
    BY <1>i, <1>2, <2>1, <2>4, <2>5, ConcludedFrame DEF ClientPush, store, history, Done, Sent, Alike
<1>3. ASSUME NEW m \in queue, Consume(m) \/ Lose(m) PROVE Done
  BY <1>f, <1>q, <1>w, <1>3 DEF Consume, Lose, store, history
<1>4. ASSUME NEW w \in Workers, NEW m \in hand, Deliver(w, m) PROVE Done
  <2>1. Others(w) /\ worker'[w].pc = "recv" /\ worker'[w].msg = m
    BY <1>i, <1>4, DeliverFacts DEF Deliver, TypeOK
  <2>2. ~Completed(m.id)
    BY <1>4 DEF Concluded, InBroker
  <2>3. \A v \in Workers : Alike(v)
    BY <2>1, <2>2 DEF Alike, Others, Settling
  <2>. QED
    BY <1>f, <1>q, <1>4, <2>3 DEF Deliver, store, history
<1>5. ASSUME NEW q \in Queues, CloseWork(q) PROVE Done
  BY <1>f, <1>q, <1>w, <1>5 DEF CloseWork, store, history
<1>6. ASSUME NEW w \in Workers, NoHandler(w) PROVE Done
  BY <1>f, <1>q, <1>r, <1>6 DEF NoHandler, store, broker, history
<1>7. ASSUME NEW w \in Workers, Begin(w) PROVE Done
  <2>1. Busy(w) /\ worker[w].pc \notin Settling /\ "run" \notin Settling
    BY <1>7 DEF Begin, Busy, Settling
  <2>2. Rest(w) \/ Goto(w, "run")
    BY <1>7 DEF Begin
  <2>3. \A v \in Workers : Alike(v)
    BY <1>g, <1>p, <1>r, <2>1, <2>2
  <2>. QED
    BY <1>f, <1>q, <1>7, <2>3 DEF Begin, broker
<1>8. ASSUME NEW w \in Workers, (\E x \in Answers : HandlerReturn(w, x)) \/ Cancelled(w) \/ Deadline(w)
      PROVE  Done
  <2>1. /\ worker[w].pc = "run" /\ Busy(w) /\ Job(w) \in Jobs /\ worker[w].msg \in Msg
        /\ Job(w) = worker[w].msg.id
    BY <1>i, <1>8, AtWorkFacts DEF HandlerReturn, Cancelled, Deadline, Busy
  <2>2. /\ UNCHANGED <<store, broker, client>>
        /\ \/ Resolve(w, FALSE) /\ ended' = ended
           \/ Resolve(w, TRUE) /\ \E how \in End \ {"no"} : Ended(w, how)
    BY <1>i, <1>8, <2>1, ReturnFacts
  <2>3. CASE Resolve(w, FALSE) /\ ended' = ended
    <3>1. ~Completed(Job(w))
      BY <2>1 DEF Concluded, Settling
    <3>2. /\ Others(w) /\ worker'[w].msg.id = Job(w) /\ worker'[w].pc # "push"
          /\ worker'[w].pc = "retrying" \/ worker'[w].ok = FALSE
      BY <1>i, <2>1, <2>3, ResolveFacts, LoopPCFacts
    <3>3. \A v \in Workers : Alike(v)
      BY <3>1, <3>2 DEF Alike, Others, Settling
    <3>. QED
      BY <1>f, <1>q, <2>2, <2>3, <3>3 DEF store, broker
  <2>4. ASSUME Resolve(w, TRUE), NEW how \in End \ {"no"}, Ended(w, how) PROVE Done
    <3>1. UNCHANGED <<store, queue, hand, client>>
      BY <2>2 DEF broker
    <3>. QED
      BY <2>1, <2>4, <3>1, ConcludedEnds DEF Done
  <2>. QED
    BY <2>2, <2>3, <2>4
<1>9. ASSUME NEW w \in Workers, MarkRetry(w) PROVE Done
  <2>1. Busy(w) /\ worker[w].pc \notin Settling /\ "requeue" \notin Settling
    BY <1>9 DEF MarkRetry, Busy, Settling
  <2>2. Rest(w) \/ Goto(w, "requeue")
    BY <1>9 DEF MarkRetry
  <2>3. \A v \in Workers : Alike(v)
    BY <1>g, <1>p, <1>r, <2>1, <2>2
  <2>. QED
    BY <1>f, <1>q, <1>9, <2>3 DEF MarkRetry, broker, history
<1>10. ASSUME NEW w \in Workers, Requeue(w) PROVE Done
  <2>1. ~Completed(worker[w].msg.id)
    BY <1>10 DEF Requeue, Concluded, Busy, Settling, Job
  <2>2. queue' \subseteq queue \cup {worker[w].msg} /\ hand' = hand
    BY <1>10 DEF Requeue, Push
  <2>3. Sent
    BY <2>1, <2>2 DEF Sent, InBroker
  <2>. QED
    BY <1>f, <1>r, <1>10, <2>3 DEF Requeue, store, history
<1>11. ASSUME NEW w \in Workers, Fetch(w) PROVE Done
  <2>1. CASE Rest(w)
    BY <1>f, <1>q, <1>r, <1>11, <2>1 DEF Fetch, store, broker, history
  <2>2. CASE worker' = [worker EXCEPT ![w].pc = "spawn", ![w].res = saved[Job(w)]]
    <3>1. Busy(w) /\ worker[w].pc \in Settling /\ saved[Job(w)] \in Nat
      BY <1>i, <1>11, AtWorkFacts DEF Fetch, Busy, Settling, TypeOK
    <3>2. Others(w) /\ worker'[w].pc = "spawn" /\ worker'[w].msg = worker[w].msg /\ worker'[w].ok = worker[w].ok
      BY <1>i, <2>2, <3>1, FetchFacts
    <3>3. \A v \in Workers : Alike(v)
      BY <3>1, <3>2 DEF Alike, Others, Settling, Concluded, Job
    <3>. QED
      BY <1>f, <1>q, <1>11, <3>3 DEF Fetch, store, broker, history
  <2>. QED
    BY <1>11, <2>1, <2>2 DEF Fetch
<1>12. ASSUME NEW w \in Workers, Spawn(w) PROVE Done
  <2>1. CASE Rest(w)
    BY <1>f, <1>q, <1>r, <1>12, <2>1 DEF Spawn, broker, history
  <2>2. CASE Goto(w, "push")
    <3>1. /\ Busy(w) /\ worker[w].pc = "spawn" /\ AtWork(w) /\ Job(w) \in Jobs /\ worker[w].ok \in BOOLEAN
          /\ worker[w].i \in Nat /\ worker[w].i \in DOMAIN Kids(Job(w), worker[w].ok)
      BY <1>i, <1>12, AtWorkFacts DEF Spawn, Busy, WorkerOK
    <3>2. /\ Others(w) /\ worker'[w].pc = "push" /\ worker'[w].msg = worker[w].msg
          /\ worker'[w].ok = worker[w].ok /\ worker'[w].i = worker[w].i
      BY <1>i, <1>p, <2>2, GotoFacts
    <3>3. Kid(w)' = Kid(w) /\ Kid(w) \in Jobs /\ ~Known(Kid(w))
      <4>1. LoopKids(w)
        BY <3>1 DEF AtWork, Settling
      <4>2. Kid(w) \in Jobs /\ ~Known(Kid(w))
        BY <3>1, <4>1, KidsType DEF LoopKids, Kid
      <4>. QED
        BY <3>2, <4>2 DEF Kid, Job
    <3>4. ~Completed(Kid(w))
      BY <3>3 DEF Concluded
    <3>5. \A v \in Workers : Alike(v)
      BY <3>1, <3>2, <3>3, <3>4 DEF Alike, Others, Settling, Concluded, Job
    <3>. QED
      BY <1>f, <1>q, <1>12, <3>5 DEF Spawn, broker, history
  <2>. QED
    BY <1>12, <2>1, <2>2 DEF Spawn
<1>13. ASSUME NEW w \in Workers, PushKid(w) PROVE Done
  <2> DEFINE i == worker[w].i + 1
             p == LoopPC(Job(w), worker[w].ok, i)
  <2>1. /\ Busy(w) /\ worker[w].pc = "push" /\ worker[w].pc \in Settling
        /\ worker[w].i \in Nat /\ worker[w].ok \in BOOLEAN
    BY <1>i, <1>13, AtWorkFacts DEF PushKid, Busy, Settling
  <2>2. ~Completed(Kid(w))
    BY <2>1 DEF Concluded
  <2>3. queue' \subseteq queue \cup {NewMsg(Kid(w), worker[w].res)} /\ hand' = hand
    BY <1>13 DEF PushKid, Push
  <2>4. Sent
    BY <2>2, <2>3 DEF Sent, InBroker, NewMsg
  <2>5. CASE Rest(w)
    BY <1>f, <1>r, <1>13, <2>4, <2>5 DEF PushKid, store, history
  <2>6. CASE worker' = [worker EXCEPT ![w].pc = p, ![w].i = i, ![w].res = 0]
    <3>1. p \in {"index", "fetch", "spawn"} /\ p \in PC /\ i \in Nat
      BY <2>1, LoopPCFacts
    <3> HIDE DEF p, i
    <3>2. Others(w) /\ worker'[w].pc = p /\ worker'[w].msg = worker[w].msg /\ worker'[w].ok = worker[w].ok
      BY <1>i, <2>6, <3>1, LoopFacts
    <3>3. \A v \in Workers : Alike(v)
      BY <2>1, <3>1, <3>2 DEF Alike, Others, Settling, Concluded, Job
    <3>. QED
      BY <1>f, <1>13, <2>4, <3>3 DEF PushKid, store, history
  <2>. QED
    BY <1>13, <2>5, <2>6 DEF PushKid
<1>14. ASSUME NEW w \in Workers, Index(w) PROVE Done
  <2>1. /\ Busy(w) /\ worker[w].pc \in Settling /\ "final" \in Settling
        /\ Completed(Job(w)) <=> worker[w].ok
    BY <1>14 DEF Index, Busy, Settling, Concluded
  <2>2. \/ worker[w].ok /\ failed' = failed /\ success' \subseteq success \cup {Job(w)}
        \/ ~worker[w].ok /\ success' = success /\ failed' \subseteq failed \cup {Job(w)}
    BY <1>14 DEF Index
  <2>3. Rest(w) \/ Goto(w, "final")
    BY <1>14 DEF Index
  <2>4. \A v \in Workers : Alike(v)
    BY <1>g, <1>p, <1>r, <2>1, <2>3
  <2>5. Sent
    BY <1>q, <1>14 DEF Index, broker
  <2>. QED
    BY <1>i, <1>14, <2>1, <2>2, <2>4, <2>5, ConcludedFrame DEF Index, history, Done, Sent, Alike
<1>15. ASSUME NEW w \in Workers, Finish(w) PROVE Done
  BY <1>f, <1>q, <1>r, <1>15 DEF Finish, broker, history
<1>16. ASSUME NEW w \in Workers, Exit(w) PROVE Done
  <2>1. Goto(w, "exit")
    BY <1>16 DEF Exit, Goto
  <2>2. Others(w) /\ worker'[w].pc = "exit"
    BY <1>i, <1>p, <2>1, GotoFacts
  <2>3. \A v \in Workers : Alike(v)
    BY <2>2 DEF Alike, Others
  <2>. QED
    BY <1>f, <1>q, <1>16, <2>3 DEF Exit, store, broker, history
<1>17. ASSUME NEW a \in running, Save(a) \/ LateReturn(a) PROVE Done
  BY <1>f, <1>q, <1>w, <1>17 DEF Save, LateReturn, Store, store, broker, history
<1>18. ASSUME NEW w \in Workers, CallbackSave(w) PROVE Done
  BY <1>f, <1>q, <1>w, <1>18 DEF CallbackSave, Store, broker, history
<1>19. ASSUME Cancel PROVE Done
  BY <1>f, <1>q, <1>w, <1>19 DEF Cancel, store, broker, history
<1>20. ASSUME Crash PROVE Done
  <2>1. \A v \in Workers : worker'[v].pc = "idle"
    BY <1>20, RestingType DEF Crash
  <2>2. \A v \in Workers : Alike(v)
    BY <2>1 DEF Alike
  <2>. QED
    BY <1>f, <1>q, <1>20, <2>2 DEF Crash, store, history
<1>. QED
  <2>1. Done
    BY <1>0, <1>1, <1>2, <1>3, <1>4, <1>5, <1>6, <1>7, <1>8, <1>9, <1>10, <1>11, <1>12, <1>13, <1>14,
       <1>15, <1>16, <1>17, <1>18, <1>19, <1>20 DEF Next, WorkerStep
  <2>. QED
    BY <2>1 DEF Done

(* A job taken for completed is not executed again and never failed, and   *)
(* only such a job becomes successful, whatever fails, is cancelled or     *)
(* killed before its status is written (execJob, statusDone, retryJob).    *)
THEOREM DoneOnce == Spec => CompletedOnce
<1>1. Init => IInv /\ Concluded
  <2>1. Init => \A w \in Workers : worker[w].pc = "idle"
    BY RestingType DEF Init
  <2>2. Init => \A j \in Jobs : ~Completed(j)
    BY DEF Init, Completed
  <2>. QED
    BY <2>1, <2>2, IInvInit, TypeAssumption DEF Init, Concluded, InBroker, Busy
<1>2. IInv /\ Concluded /\ [Next]_vars => (IInv /\ Concluded)'
  BY IInvStep, ConcludedStep
<1>3. IInv /\ Concluded => \A j \in Jobs : j \in success \/ jobMsg[j].status = "successful" => Completed(j)
  BY DEF IInv, Holding, Recorded, Concluded
<1>4. IInv /\ Concluded /\ [Next]_vars =>
        [\A j \in Jobs : Completed(j) =>
           /\ attempts'[j] = attempts[j] /\ ended'[j] = ended[j]
           /\ j \notin failed' /\ jobMsg'[j].status # "failed"]_vars
  <2> SUFFICES ASSUME IInv, Concluded, [Next]_vars, NEW j \in Jobs, Completed(j)
               PROVE  /\ attempts'[j] = attempts[j] /\ ended'[j] = ended[j]
                      /\ j \notin failed' /\ jobMsg'[j].status # "failed"
    OBVIOUS
  <2>1. Concluded' /\ ended'[j] = ended[j] /\ IInv'
    BY IInvStep, ConcludedStep
  <2>2. j \notin failed' /\ jobMsg'[j].status # "failed"
    BY <2>1 DEF Concluded, Completed, IInv, Holding, Recorded
  <2>3. attempts' = attempts \/ \E w \in Workers : Begin(w)
    BY DEF Next, WorkerStep, vars, history, ClientRecord, ClientPush, Consume, Lose, Deliver, CloseWork, NoHandler,
           Cancelled, MarkRetry, Finish, Spawn, Requeue, Fetch, PushKid, Index, Exit, Deadline, CallbackSave,
           HandlerReturn, Save, LateReturn, Cancel, Crash
  <2>4. ASSUME NEW w \in Workers, Begin(w) PROVE attempts'[j] = attempts[j]
    <3>1. attempts' = attempts \/ attempts' = [attempts EXCEPT ![Job(w)] = @ + 1]
      BY <2>4 DEF Begin, Job
    <3>2. Job(w) # j
      BY <2>4 DEF Begin, Concluded, Busy, Settling
    <3>. QED
      BY <3>1, <3>2 DEF IInv, TypeOK
  <2>. QED
    BY <2>1, <2>2, <2>3, <2>4
<1>. QED
  BY <1>1, <1>2, <1>3, <1>4, PTL DEF Spec, CompletedOnce

-----------------------------------------------------------------------------
(* How a worker comes to complete a job: its handler returned, or the      *)
(* context of the server was cancelled while it ran.                       *)

Returns(w) == \E x \in Answers \ {"error"} : HandlerReturn(w, x)

LEMMA SettlesFrom ==
  ASSUME IInv, [Next]_vars, NEW w \in Workers, worker'[w].pc \in Settling, worker'[w].ok
  PROVE  \/ /\ worker[w].pc \in Settling /\ worker[w].ok /\ Job(w)' = Job(w)
            /\ ~Crash
         \/ Returns(w) /\ Job(w)' = Job(w)
         \/ Cancelled(w)
<1> DEFINE Stays == worker[w].pc \in Settling /\ worker[w].ok /\ Job(w)' = Job(w)
<1>t. WorkerType /\ TypeOK /\ WorkerOK /\ worker'[w].pc \notin {"idle", "recv", "run", "retrying", "requeue", "exit"}
  BY DEF IInv, TypeOK, WorkerType, WorkerState, Settling
<1>u. ASSUME worker'[w] = worker[w] PROVE Stays
  BY <1>u DEF Job
<1>r. ASSUME NEW v \in Workers, Rest(v) PROVE Stays
  <2>1. Others(v) /\ worker'[v].pc = "idle"
    BY <1>t, <1>r, RestFacts
  <2>. QED
    BY <1>t, <1>u, <2>1 DEF Others
<1>g. ASSUME NEW v \in Workers, NEW p \in PC, Goto(v, p), p \in {"run", "requeue", "exit"} \/ worker[v].pc \in Settling
      PROVE  Stays
  <2>1. Others(v) /\ worker'[v].pc = p /\ worker'[v].msg = worker[v].msg /\ worker'[v].ok = worker[v].ok
    BY <1>t, <1>g, GotoFacts
  <2>. QED
    BY <1>t, <1>u, <1>g, <2>1 DEF Others, Job
<1>a. ASSUME NEW v \in Workers, NEW ok \in BOOLEAN, worker[v].pc = "run", Resolve(v, ok)
      PROVE  \/ Stays
             \/ v = w /\ ok = TRUE /\ Job(w)' = Job(w)
  <2>1. worker[v].msg \in Msg
    BY <1>t, <1>a, BusyFacts DEF Busy
  <2>2. /\ Others(v)
        /\ \/ worker'[v].pc = "retrying"
           \/ worker'[v].ok = ok /\ worker'[v].msg = worker[v].msg
    BY <1>t, <1>a, <2>1, ResolveFacts
  <2>. QED
    BY <1>t, <1>u, <2>2 DEF Others, Job
<1>p. {"run", "requeue", "push", "final", "exit"} \subseteq PC
  BY DEF PC
<1>1. ASSUME worker' = worker PROVE Stays
  <2>1. worker'[w] = worker[w]
    BY <1>1, Zenon
  <2>. QED
    BY <1>u, <2>1
<1>2. ASSUME Crash PROVE Stays
  BY <1>t, <1>2, RestingType DEF Crash
<1>3. ASSUME NEW v \in Workers, NEW m \in hand, Deliver(v, m) PROVE Stays
  <2>1. Others(v) /\ worker'[v].pc = "recv"
    BY <1>t, <1>3, DeliverFacts DEF Deliver, TypeOK
  <2>. QED
    BY <1>t, <1>u, <2>1 DEF Others
<1>4. ASSUME NEW v \in Workers, WorkerStep(v), ~Cancelled(v) PROVE Stays
  <2>1. CASE NoHandler(v) \/ Begin(v) \/ MarkRetry(v) \/ Requeue(v) \/ Spawn(v) \/ Index(v) \/ Finish(v) \/ Exit(v)
    <3>1. \/ Rest(v) \/ Goto(v, "run") \/ Goto(v, "requeue") \/ Goto(v, "exit")
          \/ worker[v].pc \in Settling /\ (Goto(v, "push") \/ Goto(v, "final"))
      BY <2>1 DEF NoHandler, Begin, MarkRetry, Requeue, Spawn, Index, Finish, Exit, Goto, Settling
    <3>. QED
      BY <1>r, <1>g, <1>p, <3>1
  <2>2. CASE Fetch(v)
    <3>1. CASE Rest(v)
      BY <1>r, <3>1
    <3>2. CASE worker' = [worker EXCEPT ![v].pc = "spawn", ![v].res = saved[Job(v)]]
      <4>1. saved[Job(v)] \in Nat /\ worker[v].pc \in Settling
        BY <1>t, <2>2, BusyFacts DEF Fetch, Busy, TypeOK, Settling
      <4>2. Others(v) /\ worker'[v].msg = worker[v].msg /\ worker'[v].ok = worker[v].ok
        BY <1>t, <3>2, <4>1, FetchFacts
      <4>. QED
        BY <1>u, <4>1, <4>2 DEF Others, Job
    <3>. QED
      BY <2>2, <3>1, <3>2 DEF Fetch
  <2>3. CASE PushKid(v)
    <3> DEFINE i == worker[v].i + 1
               p == LoopPC(Job(v), worker[v].ok, i)
    <3>1. CASE Rest(v)
      BY <1>r, <3>1
    <3>2. CASE worker' = [worker EXCEPT ![v].pc = p, ![v].i = i, ![v].res = 0]
      <4>1. worker[v].pc \in Settling /\ i \in Nat /\ p \in PC
        <5>1. worker[v].pc = "push" /\ Busy(v)
          BY <2>3 DEF PushKid, Busy
        <5>2. worker[v].i \in Nat /\ worker[v].ok \in BOOLEAN
          BY <1>t, <5>1, BusyFacts
        <5>. QED
          BY <5>1, <5>2, LoopPCFacts DEF Settling
      <4>2. Others(v) /\ worker'[v].msg = worker[v].msg /\ worker'[v].ok = worker[v].ok
        <5> HIDE DEF i, p
        <5>. QED
          BY <1>t, <3>2, <4>1, LoopFacts
      <4>. QED
        BY <1>u, <4>1, <4>2 DEF Others, Job
    <3>. QED
      BY <2>3, <3>1, <3>2 DEF PushKid
  <2>. QED
    BY <1>4, <2>1, <2>2, <2>3 DEF WorkerStep
<1>5. ASSUME NEW v \in Workers, NEW x \in Answers, HandlerReturn(v, x)
      PROVE  Stays \/ (Returns(w) /\ Job(w)' = Job(w))
  <2>1. Stays \/ (v = w /\ (x # "error") = TRUE /\ Job(w)' = Job(w))
    <3>1. worker[v].pc = "run" /\ Resolve(v, x # "error")
      BY <1>5 DEF HandlerReturn
    <3>. QED
      BY <1>a, <3>1
  <2>. QED
    BY <1>5, <2>1 DEF Returns
<1>6. ASSUME NEW v \in Workers, Deadline(v) PROVE Stays
  <2>1. Stays \/ (v = w /\ FALSE = TRUE /\ Job(w)' = Job(w))
    BY <1>a, <1>6 DEF Deadline
  <2>. QED
    BY <2>1
<1>7. ASSUME NEW v \in Workers, Cancelled(v) PROVE Stays \/ Cancelled(w)
  <2>1. Stays \/ (v = w /\ TRUE = TRUE /\ Job(w)' = Job(w))
    BY <1>a, <1>7 DEF Cancelled
  <2>. QED
    BY <1>7, <2>1
<1>9. \/ worker' = worker
      \/ Crash
      \/ \E v \in Workers, m \in hand : Deliver(v, m)
      \/ \E v \in Workers : WorkerStep(v) \/ Deadline(v)
      \/ \E v \in Workers, x \in Answers : HandlerReturn(v, x)
  BY DEF Next, vars, ClientRecord, ClientPush, Consume, Lose, CloseWork, CallbackSave, Save, LateReturn, Cancel
<1> HIDE DEF Stays
<1>10. Stays \/ (Returns(w) /\ Job(w)' = Job(w)) \/ Cancelled(w)
  <2>1. ASSUME NEW v \in Workers, WorkerStep(v) PROVE Stays \/ Cancelled(w)
    BY <1>4, <1>7, <2>1, Zenon
  <2>2. ASSUME NEW v \in Workers, NEW x \in Answers, HandlerReturn(v, x)
        PROVE  Stays \/ (Returns(w) /\ Job(w)' = Job(w))
    BY <1>5, <2>2
  <2>3. ASSUME NEW v \in Workers, Deadline(v) PROVE Stays
    BY <1>6, <2>3
  <2>4. ASSUME NEW v \in Workers, NEW m \in hand, Deliver(v, m) PROVE Stays
    BY <1>3, <2>4
  <2>5. worker' = worker \/ Crash => Stays
    BY <1>1, <1>2
  <2>. QED
    BY <1>9, <2>1, <2>2, <2>3, <2>4, <2>5, ZenonT(30)
<1>11. ~Crash
  BY <1>t, RestingType DEF Crash
<1>. QED
  BY <1>10, <1>11 DEF Stays

-----------------------------------------------------------------------------
(* No job is lost while nothing fails and nobody stops the server.         *)

LEMMA SavedFirstStep ==
  ASSUME RInv, SavedFirst, [Next]_vars
  PROVE  SavedFirst'
<1>t. IInv /\ TypeOK /\ WorkerOK
  BY DEF RInv, IInv
<1>1. \A j \in Jobs : saved[j] # 0 => saved'[j] # 0
  <2>1. ASSUME NEW a \in running, Save(a) PROVE \A j \in Jobs : saved[j] # 0 => saved'[j] # 0
    <3>1. a.id \in Jobs /\ a.n \in Nat /\ attempts[a.id] \in Nat /\ a.n \in 1 .. attempts[a.id]
      BY <1>t DEF TypeOK, RInv, SavedByAttempts
    <3>. QED
      BY <1>t, <2>1, <3>1 DEF Save, Store, TypeOK
  <2>2. ASSUME NEW w \in Workers, CallbackSave(w) PROVE \A j \in Jobs : saved[j] # 0 => saved'[j] # 0
    <3>1. Busy(w) /\ worker[w].pc \in {"retrying", "fetch", "spawn", "index"}
      BY <2>2 DEF CallbackSave, Busy
    <3>2. /\ Job(w) \in Jobs /\ Job(w) = worker[w].msg.id
          /\ Executing(worker[w].msg) \/ Retrying(worker[w].msg)
          /\ attempts[Job(w)] \in Nat /\ jobMsg[Job(w)].retried \in Nat /\ worker[w].msg.retried \in Nat
      BY <1>t, <3>1, AtWorkFacts DEF AtWork, Settling, TypeOK
    <3>3. attempts[Job(w)] # 0
      BY <3>2 DEF Executing, Retrying
    <3>. QED
      BY <1>t, <2>2, <3>2, <3>3 DEF CallbackSave, Store, TypeOK
  <2>3. saved' = saved \/ (\E a \in running : Save(a)) \/ (\E w \in Workers : CallbackSave(w))
    BY DEF Next, vars, store, WorkerStep, ClientRecord, ClientPush, Consume, Lose, Deliver, CloseWork, NoHandler, Begin,
           Cancelled, MarkRetry, Requeue, Fetch, Spawn, PushKid, Index, Finish, Exit, Deadline,
           HandlerReturn, LateReturn, Cancel, Crash
  <2>. QED
    BY <2>1, <2>2, <2>3
<1>2. ASSUME NEW w \in Workers, ~ctxDone', worker'[w].pc \in Settling, worker'[w].ok, Job(w)' \in Savers
      PROVE  saved'[Job(w)'] # 0
  <2>1. \/ worker[w].pc \in Settling /\ worker[w].ok /\ Job(w)' = Job(w) /\ ~Crash
        \/ Returns(w) /\ Job(w)' = Job(w)
        \/ Cancelled(w)
    BY <1>t, <1>2, SettlesFrom
  <2>2. CASE worker[w].pc \in Settling /\ worker[w].ok /\ Job(w)' = Job(w) /\ ~Crash
    <3>1. ~ctxDone
      BY <1>2, <2>2 DEF Next, vars, history, WorkerStep, ClientRecord, ClientPush, Consume, Lose, Deliver, CloseWork,
             NoHandler, Begin, Cancelled, MarkRetry, Requeue, Fetch, Spawn, PushKid, Index, Finish, Exit, Deadline,
             CallbackSave, HandlerReturn, Save, LateReturn, Cancel
    <3>2. Busy(w)
      BY <2>2 DEF Busy, Settling
    <3>3. Job(w) \in Jobs /\ saved[Job(w)] # 0
      BY <1>t, <1>2, <2>2, <3>1, <3>2, AtWorkFacts DEF SavedFirst
    <3>. QED
      BY <1>1, <2>2, <3>3
  <2>3. CASE Returns(w) /\ Job(w)' = Job(w)
    BY <1>2, <2>3 DEF Returns, HandlerReturn, store
  <2>4. CASE Cancelled(w)
    BY <1>2, <2>4 DEF Cancelled
  <2>. QED
    BY <2>1, <2>2, <2>3, <2>4
<1>. QED
  BY <1>2 DEF SavedFirst

(* Someone has job j, case by case as in Holders.                          *)
Held(j) ==
  \/ \E c \in Roots : c = j /\ client[c] = "pushing"
  \/ \E m \in InBroker : m.id = j
  \/ \E w \in Workers : Busy(w) /\ Job(w) = j
  \/ \E w \in Workers : worker[w].pc = "push" /\ Kid(w) = j

LEMMA HeldIsHeld == ASSUME NEW j, Held(j) PROVE Holders(j) # {}
<1>1. ASSUME NEW c \in Roots, c = j, client[c] = "pushing" PROVE <<"client", c>> \in Holders(j)
  BY <1>1 DEF Holders
<1>2. ASSUME NEW m \in queue, m.id = j PROVE <<"queue", m>> \in Holders(j)
  BY <1>2 DEF Holders
<1>3. ASSUME NEW m \in hand, m.id = j PROVE <<"hand", m>> \in Holders(j)
  BY <1>3 DEF Holders
<1>4. ASSUME NEW w \in Workers, Busy(w), Job(w) = j PROVE <<"worker", w>> \in Holders(j)
  BY <1>4 DEF Holders
<1>5. ASSUME NEW w \in Workers, worker[w].pc = "push", Kid(w) = j PROVE <<"spawner", w>> \in Holders(j)
  BY <1>5 DEF Holders
<1>. QED
  BY <1>1, <1>2, <1>3, <1>4, <1>5 DEF Held, InBroker

(* What the code needs for it: calls answer, the store keeps the lists,    *)
(* and a parent whose handler returns nil has saved a result.              *)
NothingFails ==
  /\ ~Faults /\ ~Crashes /\ Indexed
  /\ \A j \in Registered : OnSuccess[j] # <<>> => j \in Savers

LEMMA HeldStep ==
  ASSUME NothingFails, RInv, SavedFirst, ~ctxDone, [Next]_vars, NEW j \in Registered, Held(j)
  PROVE  Held(j)' \/ jobMsg'[j].status \in Final
<1>t. IInv /\ TypeOK /\ WorkerOK /\ WorkerType /\ j \in Jobs
  BY TypeAssumption DEF RInv, IInv, TypeOK, WorkerType, WorkerState
<1>o. Replies = {"ok"} /\ CtxReplies = {"ok"}
  BY DEF NothingFails, Replies, CtxReplies
<1>f. ASSUME UNCHANGED client \/ \E c \in Roots : client' = [client EXCEPT ![c] = "pushing"],
             InBroker \subseteq InBroker', NEW w \in Workers, Others(w),
             Job(w) = j /\ Busy(w) => Held(j)', worker[w].pc = "push" /\ Kid(w) = j => Held(j)'
      PROVE  Held(j)'
  <2>1. CASE \E c \in Roots : c = j /\ client[c] = "pushing"
    <3>1. \A c \in Roots : client[c] = "pushing" => client'[c] = "pushing"
      BY <1>t, <1>f DEF TypeOK
    <3>. QED
      BY <2>1, <3>1 DEF Held
  <2>2. CASE \E m \in InBroker : m.id = j
    BY <1>f, <2>2 DEF Held
  <2>3. CASE \E v \in Workers : Busy(v) /\ Job(v) = j
    BY <1>f, <2>3 DEF Held, Others, Busy, Job
  <2>4. CASE \E v \in Workers : worker[v].pc = "push" /\ Kid(v) = j
    BY <1>f, <2>4 DEF Held, Others, Kid, Job
  <2>. QED
    BY <2>1, <2>2, <2>3, <2>4 DEF Held
<1>u. ASSUME UNCHANGED worker, UNCHANGED client \/ \E c \in Roots : client' = [client EXCEPT ![c] = "pushing"],
             InBroker \subseteq InBroker'
      PROVE  Held(j)'
  <2>1. \A v \in Workers : Busy(v)' = Busy(v) /\ Job(v)' = Job(v) /\ Kid(v)' = Kid(v)
                           /\ worker'[v] = worker[v]
    BY <1>u DEF Busy, Job, Kid
  <2>2. \A c \in Roots : client[c] = "pushing" => client'[c] = "pushing"
    BY <1>t, <1>u DEF TypeOK
  <2>. QED
    BY <1>u, <2>1, <2>2 DEF Held
<1>b. ASSUME UNCHANGED <<queue, hand>> PROVE InBroker' = InBroker
  BY <1>b DEF InBroker
<1>g. ASSUME NEW w \in Workers, NEW p \in PC \ {"idle", "exit"}, Goto(w, p), worker[w].pc # "push",
             UNCHANGED <<queue, hand, client>>
      PROVE  Held(j)'
  <2>1. Others(w) /\ worker'[w].pc = p /\ worker'[w].msg = worker[w].msg
    BY <1>t, <1>g, GotoFacts
  <2>2. Job(w) = j => Held(j)'
    BY <1>g, <2>1 DEF Held, Busy, Job
  <2>. QED
    BY <1>b, <1>f, <1>g, <2>1, <2>2
<1>a. ASSUME NEW w \in Workers, NEW ok \in BOOLEAN, worker[w].pc = "run", Resolve(w, ok), UNCHANGED <<queue, hand, client>>
      PROVE  Held(j)'
  <2>1. worker[w].msg \in Msg
    BY <1>t, <1>a, BusyFacts DEF Busy
  <2>2. Others(w) /\ worker'[w].pc \notin {"idle", "exit"} /\ worker'[w].msg.id = Job(w)
    BY <1>t, <1>a, <2>1, ResolveFacts, LoopPCFacts DEF Job
  <2>3. Job(w) = j => Held(j)'
    BY <2>2 DEF Held, Busy, Job
  <2>. QED
    BY <1>a, <1>b, <1>f, <2>2, <2>3
<1>p. {"run", "requeue", "push", "final", "spawn"} \subseteq PC \ {"idle", "exit"}
  BY DEF PC
<1>0. CASE UNCHANGED vars
  BY <1>0, <1>u, <1>b DEF vars, broker
<1>1. ASSUME NEW c \in Roots, ClientRecord(c) PROVE Held(j)'
  <2>1. client' = [client EXCEPT ![c] = "pushing"]
    BY <1>o, <1>1 DEF ClientRecord
  <2>. QED
    BY <1>1, <2>1, <1>u, <1>b DEF ClientRecord, broker
<1>2. ASSUME NEW c \in Roots, ClientPush(c) PROVE Held(j)'
  <2>1. /\ queue' = queue \cup {NewMsg(c, 0)} /\ client' = [client EXCEPT ![c] = "accepted"]
        /\ worker' = worker /\ hand' = hand
    BY <1>o, <1>2 DEF ClientPush, Push
  <2>2. c = j => Held(j)'
    <3>1. NewMsg(c, 0).id = c /\ NewMsg(c, 0) \in InBroker'
      BY <2>1 DEF InBroker, NewMsg
    <3>. QED
      BY <3>1 DEF Held
  <2>3. CASE c # j
    <3>1. \A d \in Roots : d = j => client'[d] = client[d]
      BY <1>t, <2>1, <2>3 DEF TypeOK
    <3>2. \A v \in Workers : Busy(v)' = Busy(v) /\ Job(v)' = Job(v) /\ Kid(v)' = Kid(v)
                             /\ worker'[v] = worker[v]
      BY <2>1 DEF Busy, Job, Kid
    <3>. QED
      BY <2>1, <3>1, <3>2 DEF Held, InBroker
  <2>. QED
    BY <2>2, <2>3
<1>3. ASSUME NEW m \in queue, Consume(m) PROVE Held(j)'
  <2>1. InBroker \subseteq InBroker'
    BY <1>3 DEF Consume, InBroker
  <2>. QED
    BY <1>3, <2>1, <1>u DEF Consume
<1>4. ASSUME NEW w \in Workers, NEW m \in hand, Deliver(w, m) PROVE Held(j)'
  <2>1. Others(w) /\ worker'[w].pc = "recv" /\ worker'[w].msg = m /\ worker[w].pc = "idle"
    BY <1>t, <1>4, DeliverFacts DEF Deliver, TypeOK
  <2>2. m.id = j => Held(j)'
    BY <2>1 DEF Held, Busy, Job
  <2>3. /\ \A n \in InBroker : n = m \/ n \in InBroker'
        /\ client' = client
    BY <1>4 DEF Deliver, InBroker
  <2>4. \A v \in Workers : v # w => Busy(v)' = Busy(v) /\ Job(v)' = Job(v) /\ Kid(v)' = Kid(v)
                                    /\ worker'[v] = worker[v]
    BY <2>1 DEF Others, Busy, Job, Kid
  <2>. QED
    BY <2>1, <2>2, <2>3, <2>4 DEF Held, Busy
<1>r. ASSUME NEW w \in Workers, Rest(w), worker[w].pc # "push", Job(w) = j /\ Busy(w) => Held(j)',
             client' = client, InBroker \subseteq InBroker'
      PROVE  Held(j)'
  <2>1. Others(w)
    BY <1>t, <1>r, RestFacts
  <2>. QED
    BY <1>f, <1>r, <2>1
<1>5. ASSUME NEW w \in Workers, NoHandler(w) PROVE Held(j)'
  BY <1>b, <1>r, <1>5 DEF NoHandler, broker
<1>6. ASSUME NEW w \in Workers, Begin(w) PROVE Held(j)'
  BY <1>o, <1>p, <1>g, <1>6 DEF Begin, broker
<1>7. ASSUME NEW w \in Workers, MarkRetry(w) PROVE Held(j)'
  BY <1>o, <1>p, <1>g, <1>7 DEF MarkRetry, broker
<1>8. ASSUME NEW w \in Workers, Requeue(w) PROVE Held(j)'
  <2>1. queue' = queue \cup {worker[w].msg} /\ hand' = hand
    BY <1>o, <1>8 DEF Requeue, Push
  <2>2. Job(w) = j => Held(j)'
    BY <2>1 DEF Held, InBroker, Job
  <2>3. InBroker \subseteq InBroker'
    BY <2>1 DEF InBroker
  <2>. QED
    BY <1>r, <1>8, <2>2, <2>3 DEF Requeue
<1>9. ASSUME NEW w \in Workers, Fetch(w) PROVE Held(j)'
  <2>1. Busy(w) /\ worker[w].pc = "fetch" /\ UNCHANGED <<queue, hand, client>>
    BY <1>9 DEF Fetch, Busy, broker
  <2>2. Job(w) \in Jobs /\ worker[w].ok /\ worker[w].i \in DOMAIN Kids(Job(w), worker[w].ok) /\ saved[Job(w)] \in Nat
    BY <1>t, <2>1, AtWorkFacts DEF RInv, Fetched, WorkerOK, TypeOK
  <2>3. Job(w) = j => saved[j] # 0
    <3>1. ASSUME Job(w) = j PROVE j \in Savers
      <4>1. worker[w].i \in DOMAIN OnSuccess[j] /\ OnSuccess[j] \in Seq(Jobs)
        BY <1>t, <2>2, <3>1, TypeAssumption DEF Kids
      <4>2. OnSuccess[j] # <<>>
        BY <4>1
      <4>. QED
        BY <4>2 DEF NothingFails
    <3>. QED
      BY <2>1, <2>2, <3>1 DEF SavedFirst, Settling
  <2>4. CASE saved[Job(w)] = 0
    <3>1. Rest(w)
      BY <1>9, <2>4 DEF Fetch
    <3>. QED
      BY <1>b, <1>r, <2>1, <2>3, <2>4, <3>1
  <2>5. CASE worker' = [worker EXCEPT ![w].pc = "spawn", ![w].res = saved[Job(w)]]
    <3>1. Others(w) /\ worker'[w].pc = "spawn" /\ worker'[w].msg = worker[w].msg
      BY <1>t, <2>2, <2>5, FetchFacts
    <3>2. Job(w) = j => Held(j)'
      BY <3>1 DEF Held, Busy, Job
    <3>. QED
      BY <1>b, <1>f, <2>1, <3>1, <3>2
  <2>. QED
    BY <1>o, <1>9, <2>4, <2>5 DEF Fetch
<1>10. ASSUME NEW w \in Workers, Spawn(w) PROVE Held(j)'
  BY <1>o, <1>p, <1>g, <1>10 DEF Spawn, broker
<1>11. ASSUME NEW w \in Workers, PushKid(w) PROVE Held(j)'
  <2> DEFINE i == worker[w].i + 1
             p == LoopPC(Job(w), worker[w].ok, i)
             n == NewMsg(Kid(w), worker[w].res)
  <2>1. Busy(w) /\ worker[w].i \in Nat /\ worker[w].ok \in BOOLEAN
    <3>1. Busy(w)
      BY <1>11 DEF PushKid, Busy
    <3>. QED
      BY <1>t, <3>1, BusyFacts
  <2>2. /\ worker' = [worker EXCEPT ![w].pc = p, ![w].i = i, ![w].res = 0]
        /\ queue' = queue \cup {n} /\ hand' = hand /\ client' = client
    BY <1>o, <1>11 DEF PushKid, Push
  <2>3. i \in Nat /\ p \in PC /\ p \in {"index", "fetch", "spawn"}
    BY <2>1, LoopPCFacts
  <2>4. n.id = Kid(w)
    BY DEF NewMsg
  <2> HIDE DEF i, p, n
  <2>5. Others(w) /\ worker'[w].pc = p /\ worker'[w].msg = worker[w].msg
    BY <1>t, <2>2, <2>3, LoopFacts
  <2>6. Job(w) = j => Held(j)'
    BY <2>3, <2>5 DEF Held, Busy, Job
  <2>7. Kid(w) = j => Held(j)'
    BY <2>2, <2>4 DEF Held, InBroker
  <2>8. InBroker \subseteq InBroker'
    BY <2>2 DEF InBroker
  <2>. QED
    BY <1>f, <2>2, <2>5, <2>6, <2>7, <2>8
<1>12. ASSUME NEW w \in Workers, Index(w) PROVE Held(j)'
  <2>1. Goto(w, "final") /\ UNCHANGED <<queue, hand, client>> /\ worker[w].pc # "push"
    BY <1>o, <1>12 DEF Index, NothingFails, broker
  <2>. QED
    BY <1>p, <1>g, <2>1
<1>13. ASSUME NEW w \in Workers, Finish(w) PROVE Held(j)' \/ jobMsg'[j].status \in Final
  <2>1. CASE Job(w) = j
    <3>1. jobMsg' = [jobMsg EXCEPT ![j] = [status |-> FinalStatus(w), retried |-> worker[w].msg.retried]]
      BY <1>o, <1>13, <2>1 DEF Finish, SetJob
    <3>2. FinalStatus(w) \in Final
      BY DEF FinalStatus, Final
    <3>. QED
      BY <1>t, <3>1, <3>2 DEF TypeOK
  <2>2. CASE Job(w) # j
    BY <1>b, <1>r, <1>13, <2>2 DEF Finish, broker
  <2>. QED
    BY <2>1, <2>2
<1>14. ASSUME NEW w \in Workers, Exit(w) PROVE Held(j)'
  <2>1. Others(w)
    BY <1>t, <1>14 DEF Exit, WorkerType, Others
  <2>. QED
    BY <1>b, <1>f, <1>14, <2>1 DEF Exit, Busy, broker
<1>15. ASSUME NEW w \in Workers, CallbackSave(w) PROVE Held(j)'
  BY <1>b, <1>u, <1>15 DEF CallbackSave, broker
<1>16. ASSUME NEW w \in Workers, NEW x \in Answers, HandlerReturn(w, x) PROVE Held(j)'
  BY <1>a, <1>16 DEF HandlerReturn, broker
<1>17. ASSUME NEW w \in Workers, Deadline(w) PROVE Held(j)'
  BY <1>a, <1>17 DEF Deadline, broker
<1>18. ASSUME NEW a \in running, Save(a) PROVE Held(j)'
  BY <1>b, <1>u, <1>18 DEF Save, broker
<1>19. ASSUME NEW a \in running, LateReturn(a) PROVE Held(j)'
  BY <1>b, <1>u, <1>19 DEF LateReturn, broker
<1>20. CASE Cancel
  BY <1>b, <1>u, <1>20 DEF Cancel, broker
<1>21. ~Crash /\ (\A q \in Queues : ~CloseWork(q))
  BY DEF NothingFails, Crash, CloseWork
<1>22. ASSUME NEW w \in Workers, WorkerStep(w) PROVE Held(j)' \/ jobMsg'[j].status \in Final
  <2>1. ~Cancelled(w)
    BY DEF Cancelled
  <2>. QED
    BY <1>5, <1>6, <1>7, <1>8, <1>9, <1>10, <1>11, <1>12, <1>13, <1>14, <1>22, <2>1 DEF WorkerStep
<1>23. \A m \in queue : ~Lose(m)
  BY DEF Lose, NothingFails
<1>. QED
  BY <1>0, <1>1, <1>2, <1>3, <1>4, <1>15, <1>16, <1>17, <1>18, <1>19, <1>20, <1>21, <1>22, <1>23 DEF Next

LostInv ==
  /\ RInv /\ SavedFirst
  /\ ~ctxDone => \A j \in Registered : Known(j) => Held(j) \/ jobMsg[j].status \in Final

LEMMA LostStep ==
  ASSUME NothingFails, LostInv, [Next]_vars
  PROVE  LostInv'
<1>t. /\ RInv /\ SavedFirst /\ IInv /\ TypeOK /\ WorkerOK /\ WorkerType
      /\ Replies = {"ok"} /\ CtxReplies \subseteq {"ok", "failed"}
  BY DEF LostInv, RInv, IInv, TypeOK, WorkerType, WorkerState, NothingFails, Replies, CtxReplies
<1>1. RInv' /\ SavedFirst'
  BY <1>t, RStep, SavedFirstStep
<1>2. ctxDone => ctxDone'
  BY DEF NothingFails, Next, vars, history, WorkerStep, ClientRecord, ClientPush, Consume, Lose, Deliver, CloseWork,
         NoHandler, Begin, Cancelled, MarkRetry, Requeue, Fetch, Spawn, PushKid, Index, Finish, Exit, Deadline,
         CallbackSave, HandlerReturn, Save, LateReturn, Cancel, Crash
<1>3. ASSUME ~ctxDone, NEW j \in Registered, ~Known(j), Known(j)' PROVE Held(j)'
  <2>0. j \in Jobs
    BY TypeAssumption
  <2>1. ASSUME NEW c \in Roots, ClientRecord(c) PROVE Held(j)'
    <3>1. /\ client' = [client EXCEPT ![c] = "pushing"]
          /\ SetJob("ok", c, "queued", 0)
      BY <1>t, <2>1 DEF ClientRecord
    <3>2. c = j
      BY <1>t, <1>3, <2>0, <3>1 DEF SetJob, TypeOK, Known
    <3>3. client'[c] = "pushing"
      BY <1>t, <3>1 DEF TypeOK
    <3>. QED
      BY <3>2, <3>3 DEF Held
  <2>2. ASSUME NEW w \in Workers, Spawn(w) PROVE Held(j)'
    <3>1. PICK r \in CtxReplies : SetJob(r, Kid(w), "queued", 0) /\ IF r = "ok" THEN Goto(w, "push") ELSE Rest(w)
      BY <2>2 DEF Spawn
    <3>2. r = "ok" /\ Kid(w) = j
      BY <1>t, <1>3, <2>0, <3>1 DEF SetJob, TypeOK, Known
    <3>3. worker'[w].pc = "push" /\ Kid(w)' = Kid(w)
      BY <1>t, <3>1, <3>2, GotoFacts DEF Kid, Job, PC
    <3>. QED
      BY <3>2, <3>3 DEF Held
  <2>3. ASSUME NEW w \in Workers, Begin(w) \/ MarkRetry(w) \/ Finish(w) PROVE FALSE
    <3>1. Busy(w)
      BY <2>3 DEF Begin, MarkRetry, Finish, Busy
    <3>2. Known(Job(w)) /\ Job(w) # j
      BY <1>t, <1>3, <3>1, AtWorkFacts
    <3>3. \E r \in CtxReplies : \E st, n : SetJob(r, Job(w), st, n)
      BY <2>3 DEF Begin, MarkRetry, Finish, Job
    <3>. QED
      BY <1>t, <1>3, <2>0, <3>2, <3>3 DEF SetJob, TypeOK, Known
  <2>4. \/ jobMsg' = jobMsg
        \/ \E c \in Roots : ClientRecord(c)
        \/ \E w \in Workers : Begin(w) \/ MarkRetry(w) \/ Finish(w) \/ Spawn(w)
    BY DEF Next, WorkerStep, vars, store, ClientPush, Consume, Lose, Deliver, CloseWork, NoHandler, Cancelled,
           Requeue, Fetch, PushKid, Index, Exit, Deadline, CallbackSave, HandlerReturn, Save, LateReturn,
           Cancel, Crash
  <2>5. jobMsg' # jobMsg
    BY <1>3 DEF Known
  <2>. QED
    BY <2>1, <2>2, <2>3, <2>4, <2>5
<1>4. ASSUME ~ctxDone', NEW j \in Registered, Known(j)' PROVE Held(j)' \/ jobMsg'[j].status \in Final
  <2>1. ~ctxDone /\ j \in Jobs
    BY <1>2, <1>4, TypeAssumption
  <2>2. CASE ~Known(j)
    BY <1>3, <1>4, <2>1, <2>2
  <2>3. CASE Known(j) /\ Held(j)
    BY <1>t, <2>1, <2>3, HeldStep
  <2>4. CASE jobMsg[j].status \in Final
    BY <1>t, <2>1, <2>4, FinalStep
  <2>. QED
    BY <2>1, <2>2, <2>3, <2>4 DEF LostInv
<1>. QED
  BY <1>1, <1>4 DEF LostInv

(* No job is lost: while nothing fails, a job that was recorded is held by *)
(* someone until it has a final status (process, retryJob,                 *)
(* enqueueWithMeta); the parents of continuations must save a result.      *)
THEOREM NothingLost ==
  ASSUME NothingFails
  PROVE  Spec => []NoJobLost
<1>1. Init => LostInv
  <2>1. Init => \A w \in Workers : worker[w].pc = "idle"
    BY RestingType DEF Init
  <2>2. ASSUME Init, NEW j \in Registered PROVE ~Known(j)
    <3>1. j \in Jobs /\ jobMsg = [k \in Jobs |-> [status |-> "none", retried |-> 0]]
      BY <2>2, TypeAssumption DEF Init
    <3>. QED
      BY <3>1 DEF Known
  <2>. QED
    BY <2>1, <2>2, RInit DEF LostInv, SavedFirst, Settling
<1>2. LostInv /\ [Next]_vars => LostInv'
  BY LostStep
<1>3. LostInv => NoJobLost
  BY HeldIsHeld DEF LostInv, NoJobLost
<1>. QED
  BY <1>1, <1>2, <1>3, PTL DEF Spec

===============================================================================
