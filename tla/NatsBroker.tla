------------------------------ MODULE NatsBroker ------------------------------
(***************************************************************************)
(* brokers/nats-js/broker.go, one queue of it: a JetStream stream that     *)
(* Enqueue publishes to, and the durable push consumer that the first      *)
(* server to call Consume binds.  The stream, the consumer and the client  *)
(* library are external: the library acknowledges a message when the       *)
(* callback returns, the server sends it again when no acknowledgement     *)
(* came within AckWait.  Consume never unsubscribes and never closes the   *)
(* work channel.                                                           *)
(***************************************************************************)
EXTENDS Naturals, FiniteSets, SequencesExt

CONSTANTS
  Jobs,       \* messages
  Procs,      \* processes that call Start
  MaxFaults,  \* bound: publishes without an answer, late or lost acks, crashes
  None        \* no process, no message

ASSUME NatsAssumption == None \notin Jobs \cup Procs /\ MaxFaults \in Nat

VARIABLES
  stream,    \* messages stored
  out,       \* messages sent to the client and not acknowledged
  acked,     \* messages acknowledged
  bound,     \* the process whose subscription has the durable consumer
  inbox,     \* messages in the memory of each process, in order
  callback,  \* the subscription's callback of each process
  consume,   \* the Consume call of each process
  ctxDone,   \* processes whose context is cancelled
  answer,    \* what Enqueue told the caller
  given,     \* history: how often a message was handed to a worker
  faults     \* faults so far

jetstream == <<stream, out, acked, bound>>
vars == <<jetstream, inbox, callback, consume, ctxDone, answer, given, faults>>

TypeOK ==
  /\ stream \subseteq Jobs /\ out \subseteq stream /\ acked \subseteq stream \ out
  /\ bound \in Procs \cup {None}
  /\ inbox \in [Procs -> Seq(Jobs)]
  /\ callback \in [Procs -> [pc : {"idle", "hand", "ack"}, msg : Jobs \cup {None}]]
  /\ consume \in [Procs -> {"off", "subscribed", "refused", "returned"}]
  /\ ctxDone \subseteq Procs
  /\ answer \in [Jobs -> {"none", "ok", "error"}]
  /\ given \in [Jobs -> Nat] /\ faults \in 0 .. MaxFaults

Idle == [pc |-> "idle", msg |-> None]

Init ==
  /\ stream = {} /\ out = {} /\ acked = {} /\ bound = None
  /\ inbox = [p \in Procs |-> <<>>]
  /\ callback = [p \in Procs |-> Idle]
  /\ consume = [p \in Procs |-> "off"]
  /\ ctxDone = {}
  /\ answer = [j \in Jobs |-> "none"]
  /\ given = [j \in Jobs |-> 0] /\ faults = 0

Fault ==
  /\ faults < MaxFaults
  /\ faults' = faults + 1

-----------------------------------------------------------------------------
(* Enqueue                                                                 *)

Publish(j, r) ==
  /\ answer[j] = "none"
  /\ stream' = IF r = "failed" THEN stream ELSE stream \cup {j}
  /\ answer' = [answer EXCEPT ![j] = IF r = "ok" THEN "ok" ELSE "error"]
  /\ IF r = "ok" THEN UNCHANGED faults ELSE Fault
  /\ UNCHANGED <<out, acked, bound, inbox, callback, consume, ctxDone, given>>

-----------------------------------------------------------------------------
(* Consume: Subscribe, then wait for the context.                          *)

(* The durable consumer takes one subscription; an error is only logged.   *)
Subscribe(p) ==
  /\ consume[p] = "off"
  /\ IF bound = None
     THEN consume' = [consume EXCEPT ![p] = "subscribed"] /\ bound' = p
     ELSE consume' = [consume EXCEPT ![p] = "refused"] /\ UNCHANGED bound
  /\ UNCHANGED <<stream, out, acked, inbox, callback, ctxDone, answer, given, faults>>

Cancel(p) ==
  /\ p \notin ctxDone /\ consume[p] # "off"
  /\ ctxDone' = ctxDone \cup {p}
  /\ UNCHANGED <<jetstream, inbox, callback, consume, answer, given, faults>>

(* The subscription stays.                                                 *)
Return(p) ==
  /\ consume[p] \in {"subscribed", "refused"} /\ p \in ctxDone
  /\ consume' = [consume EXCEPT ![p] = "returned"]
  /\ UNCHANGED <<jetstream, inbox, callback, ctxDone, answer, given, faults>>

-----------------------------------------------------------------------------
(* The durable consumer and the library's callback.                        *)

Send(j) == inbox' = [inbox EXCEPT ![bound] = Append(@, j)]

(* Mutated form: nats.AckNone(), no acknowledgement is asked for.          *)
DeliverAckNone(j) ==
  /\ bound # None /\ j \in stream \ (out \cup acked)
  /\ acked' = acked \cup {j}
  /\ Send(j)
  /\ UNCHANGED <<stream, out, bound, callback, consume, ctxDone, answer, given, faults>>

Deliver(j) ==
  /\ bound # None /\ j \in stream \ (out \cup acked)
  /\ out' = out \cup {j}
  /\ Send(j)
  /\ UNCHANGED <<stream, acked, bound, callback, consume, ctxDone, answer, given, faults>>

Waits(j) == \E p \in Procs : j \in ToSet(inbox[p]) \/ callback[p].msg = j

(* AckWait is over.  It runs from the sending, so a message that waits for *)
(* a free worker long enough is sent twice: that counts as a fault.        *)
Redeliver(j) ==
  /\ bound # None /\ j \in out
  /\ IF Waits(j) THEN Fault ELSE UNCHANGED faults
  /\ Send(j)
  /\ UNCHANGED <<jetstream, callback, consume, ctxDone, answer, given>>

(* Mutated form: the message is acknowledged when the callback gets it.    *)
CallbackAcks(p) ==
  /\ callback[p].pc = "idle" /\ inbox[p] # <<>>
  /\ callback' = [callback EXCEPT ![p] = [pc |-> "hand", msg |-> Head(inbox[p])]]
  /\ inbox' = [inbox EXCEPT ![p] = Tail(@)]
  /\ out' = out \ {Head(inbox[p])} /\ acked' = acked \cup {Head(inbox[p])}
  /\ UNCHANGED <<stream, bound, consume, ctxDone, answer, given, faults>>

Callback(p) ==
  /\ callback[p].pc = "idle" /\ inbox[p] # <<>>
  /\ callback' = [callback EXCEPT ![p] = [pc |-> "hand", msg |-> Head(inbox[p])]]
  /\ inbox' = [inbox EXCEPT ![p] = Tail(@)]
  /\ UNCHANGED <<jetstream, consume, ctxDone, answer, given, faults>>

(* Workers never end, as the work channel is never closed.                 *)
Hand(p) ==
  /\ callback[p].pc = "hand"
  /\ given' = [given EXCEPT ![callback[p].msg] = @ + 1]
  /\ callback' = [callback EXCEPT ![p].pc = "ack"]
  /\ UNCHANGED <<jetstream, inbox, consume, ctxDone, answer, faults>>

(* Mutated form: no acknowledgement is sent.                               *)
AckNot(p) ==
  /\ callback[p].pc = "ack"
  /\ callback' = [callback EXCEPT ![p] = Idle]
  /\ UNCHANGED <<jetstream, inbox, consume, ctxDone, answer, given, faults>>

Ack(p) ==
  /\ callback[p].pc = "ack"
  /\ out' = out \ {callback[p].msg} /\ acked' = acked \cup {callback[p].msg}
  /\ callback' = [callback EXCEPT ![p] = Idle]
  /\ UNCHANGED <<stream, bound, inbox, consume, ctxDone, answer, given, faults>>

(* The acknowledgement does not arrive.                                    *)
AckLost(p) ==
  /\ callback[p].pc = "ack" /\ Fault
  /\ callback' = [callback EXCEPT ![p] = Idle]
  /\ UNCHANGED <<jetstream, inbox, consume, ctxDone, answer, given>>

-----------------------------------------------------------------------------

(* The process dies, or is killed as Start does not return, and may be     *)
(* started again.                                                          *)
Crash(p) ==
  /\ consume[p] # "off" /\ Fault
  /\ bound' = IF bound = p THEN None ELSE bound
  /\ inbox' = [inbox EXCEPT ![p] = <<>>]
  /\ callback' = [callback EXCEPT ![p] = Idle]
  /\ consume' = [consume EXCEPT ![p] = "off"]
  /\ ctxDone' = ctxDone \ {p}
  /\ UNCHANGED <<stream, out, acked, answer, given>>

InCallback(p) == Callback(p) \/ Hand(p) \/ Ack(p)

Next ==
  \/ \E j \in Jobs :
       \/ \E r \in {"ok", "failed", "lost"} : Publish(j, r)
       \/ Deliver(j) \/ Redeliver(j)
  \/ \E p \in Procs :
       \/ Subscribe(p) \/ Cancel(p) \/ Return(p)
       \/ InCallback(p) \/ AckLost(p) \/ Crash(p)

Spec == Init /\ [][Next]_vars

(* The NATS server sends what it has to send, the library calls back, and  *)
(* a process that died is started again.                                   *)
Fairness ==
  /\ \A j \in Jobs : WF_vars(Deliver(j)) /\ WF_vars(~Waits(j) /\ Redeliver(j))
  /\ \A p \in Procs : WF_vars(InCallback(p)) /\ WF_vars(Subscribe(p))

FairSpec == Spec /\ Fairness

-----------------------------------------------------------------------------
(* Properties                                                              *)

(* interfaces.go:28: Enqueue places a task in the queue: a message whose   *)
(* call returned without an error was handed to a worker, or is stored and *)
(* not acknowledged, so that a death of the process that has it in its     *)
(* memory does not lose it (Consume: the callback blocks until a worker    *)
(* took the message, and only then returns).                               *)
NotForgotten ==
  \A j \in Jobs : answer[j] = "ok" \/ j \in acked => given[j] > 0 \/ j \in stream \ acked

(* Exactly once but for faults, each of which may double one delivery:     *)
(* a message that waited for a worker longer than AckWait, an              *)
(* acknowledgement that was lost, a process that died after handing it     *)
(* over.  A second server, a cancelled context and a message of which the  *)
(* caller was told that Publish failed double none (Consume, Enqueue).     *)
DeliveriesBounded ==
  /\ TypeOK
  /\ \A j \in Jobs : given[j] <= 1 + faults

(* interfaces.go:35: Consume listens for the tasks on the queue: what is   *)
(* in the stream reaches a worker, over deaths, restarts, and cancelled    *)
(* contexts: the subscription outlives Consume.  A server that was refused *)
(* the consumer does not take over from one that died: the message waits   *)
(* for a server that is started afterwards (Consume).                      *)
StoredIsGiven == \A j \in Jobs : j \in stream ~> given[j] > 0

-----------------------------------------------------------------------------
(* Messages no callback has, and the one that waits for a worker: what the *)
(* rest of Tasqueue sees of the queue.                                     *)

Waiting == {j \in stream : given[j] = 0 /\ \A p \in Procs : callback[p] # [pc |-> "hand", msg |-> j]}
Passing == {j \in Jobs : \E p \in Procs : callback[p] = [pc |-> "hand", msg |-> j]}
OneLane(j) == 0
Promised == INSTANCE Broker WITH
  Msg <- Jobs, queue <- Waiting, hand <- Passing, Lane <- OneLane, Lossy <- FALSE
ImplementsBroker == Promised!Spec

=============================================================================
