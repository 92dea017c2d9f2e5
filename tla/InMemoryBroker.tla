--------------------------- MODULE InMemoryBroker ---------------------------
(***************************************************************************)
(* brokers/in-memory/broker.go, one queue of it: a map from queue names to *)
(* buffered channels, a list of pending messages kept beside the channel   *)
(* under another lock, producers in Enqueue, the consumer goroutine of     *)
(* Server.consume in Consume, and the processors, which enqueue as well.   *)
(* Each critical section and each channel operation is one step.           *)
(***************************************************************************)
EXTENDS Pagination, FiniteSets

CONSTANTS
  Ids,        \* jobs
  Clients,    \* goroutines that call Server.Enqueue
  Owner,      \* [Ids -> Clients]: who enqueues a job
  Workers,    \* process() goroutines of the queue
  Consumer,   \* the goroutine running Consume
  Cap,        \* capacity of a channel: 100 in the code
  Retries,    \* how often a worker may put a job back
  None        \* no channel, no message

Callers == Clients \cup Workers
Makers  == Callers \cup {Consumer}
Msg     == [id : Ids, n : 0 .. Retries]

ASSUME BrokerAssumption ==
  /\ Owner \in [Ids -> Clients]
  /\ Cap \in Nat \ {0} /\ Retries \in Nat
  /\ Clients \cap Workers = {} /\ Consumer \notin Callers /\ None \notin Makers \cup Msg

VARIABLES
  queues,    \* Broker.queues[queue]: the channel, named after its maker
  buf,       \* the contents of each channel
  pending,   \* Broker.pending[queue]
  caller,    \* Enqueue calls, and the processors between them
  consumer,  \* the Consume call
  unsent,    \* jobs not yet passed to Enqueue
  ctxDone    \* the context of Consume is cancelled

vars == <<queues, buf, pending, caller, consumer, unsent, ctxDone>>

CallPC == {"idle", "look", "make", "note", "send", "busy", "exit"}
ConsumePC == {"off", "look", "make", "loop", "pop", "hand", "closed", "panic"}

TypeOK ==
  /\ queues \in Makers \cup {None}
  /\ buf \in [Makers -> Seq(Msg)] /\ \A c \in Makers : Len(buf[c]) <= Cap
  /\ pending \in Seq(Msg)
  /\ caller \in [Callers -> [pc : CallPC, ch : Makers \cup {None}, msg : Msg \cup {None}]]
  /\ consumer \in [pc : ConsumePC, ch : Makers \cup {None}, msg : Msg \cup {None}]
  /\ unsent \subseteq Ids
  /\ ctxDone \in BOOLEAN

At(pc) == [pc |-> pc, ch |-> None, msg |-> None]

Init ==
  /\ queues = None
  /\ buf = [c \in Makers |-> <<>>]
  /\ pending = <<>>
  /\ caller = [a \in Callers |-> At("idle")]
  /\ consumer = At("off")
  /\ unsent = Ids
  /\ ctxDone = FALSE

-----------------------------------------------------------------------------
(* Enqueue                                                                 *)

Enqueue(a, m) == caller' = [caller EXCEPT ![a] = [At("look") EXCEPT !.msg = m]]

Call(c, j) ==
  /\ caller[c].pc = "idle" /\ j \in unsent /\ Owner[j] = c
  /\ unsent' = unsent \ {j}
  /\ Enqueue(c, [id |-> j, n |-> 0])
  /\ UNCHANGED <<queues, buf, pending, consumer, ctxDone>>

Look(a) ==
  /\ caller[a].pc = "look"
  /\ caller' = [caller EXCEPT ![a].pc = IF queues = None THEN "make" ELSE "note",
                              ![a].ch = queues]
  /\ UNCHANGED <<queues, buf, pending, consumer, unsent, ctxDone>>

(* Mutated form: the list of pending messages is made with the channel.    *)
MakeBoth(a) ==
  /\ caller[a].pc = "make"
  /\ queues' = a /\ pending' = <<>>
  /\ caller' = [caller EXCEPT ![a].pc = "note", ![a].ch = a]
  /\ UNCHANGED <<buf, consumer, unsent, ctxDone>>

(* The entry is written without looking again.                             *)
Make(a) ==
  /\ caller[a].pc = "make"
  /\ queues' = a
  /\ caller' = [caller EXCEPT ![a].pc = "note", ![a].ch = a]
  /\ UNCHANGED <<buf, pending, consumer, unsent, ctxDone>>

Note(a) ==
  /\ caller[a].pc = "note"
  /\ pending' = Append(pending, caller[a].msg)
  /\ caller' = [caller EXCEPT ![a].pc = "send"]
  /\ UNCHANGED <<queues, buf, consumer, unsent, ctxDone>>

Send(a) ==
  LET ch == caller[a].ch IN
  /\ caller[a].pc = "send" /\ Len(buf[ch]) < Cap
  /\ buf' = [buf EXCEPT ![ch] = Append(@, caller[a].msg)]
  /\ caller' = [caller EXCEPT ![a] = At("idle")]
  /\ UNCHANGED <<queues, pending, consumer, unsent, ctxDone>>

-----------------------------------------------------------------------------
(* Consume                                                                 *)

Start ==
  /\ consumer.pc = "off"
  /\ consumer' = At("look")
  /\ UNCHANGED <<queues, buf, pending, caller, unsent, ctxDone>>

(* Mutated form: the consumer makes a channel without looking for one.     *)
ConsumerLookSkipped ==
  /\ consumer.pc = "look"
  /\ consumer' = [consumer EXCEPT !.pc = "make"]
  /\ UNCHANGED <<queues, buf, pending, caller, unsent, ctxDone>>

ConsumerLook ==
  /\ consumer.pc = "look"
  /\ consumer' = [consumer EXCEPT !.pc = IF queues = None THEN "make" ELSE "loop",
                                  !.ch = queues]
  /\ UNCHANGED <<queues, buf, pending, caller, unsent, ctxDone>>

ConsumerMake ==
  /\ consumer.pc = "make"
  /\ queues' = Consumer
  /\ consumer' = [consumer EXCEPT !.pc = "loop", !.ch = Consumer]
  /\ UNCHANGED <<buf, pending, caller, unsent, ctxDone>>

(* Mutated form: the message is read and left in the channel.              *)
ReceivePeeks ==
  LET ch == consumer.ch IN
  /\ consumer.pc = "loop" /\ buf[ch] # <<>>
  /\ consumer' = [consumer EXCEPT !.pc = "pop", !.msg = Head(buf[ch])]
  /\ UNCHANGED <<queues, buf, pending, caller, unsent, ctxDone>>

Receive ==
  LET ch == consumer.ch IN
  /\ consumer.pc = "loop" /\ buf[ch] # <<>>
  /\ buf' = [buf EXCEPT ![ch] = Tail(@)]
  /\ consumer' = [consumer EXCEPT !.pc = "pop", !.msg = Head(buf[ch])]
  /\ UNCHANGED <<queues, pending, caller, unsent, ctxDone>>

(* pending[1:] of an empty list panics.                                    *)
Pop ==
  /\ consumer.pc = "pop"
  /\ IF pending = <<>>
     THEN consumer' = At("panic") /\ UNCHANGED pending
     ELSE consumer' = [consumer EXCEPT !.pc = "hand"] /\ pending' = Tail(pending)
  /\ UNCHANGED <<queues, buf, caller, unsent, ctxDone>>

(* Mutated forms: Consume returns after one message; it gives up on a      *)
(* message in hand once the context is done, without closing the channel.  *)
HandOnce(w) ==
  /\ consumer.pc = "hand" /\ caller[w].pc = "idle"
  /\ caller' = [caller EXCEPT ![w] = [At("busy") EXCEPT !.msg = consumer.msg]]
  /\ consumer' = At("closed")
  /\ UNCHANGED <<queues, buf, pending, unsent, ctxDone>>

HandUnlessDone(w) ==
  /\ consumer.pc = "hand" /\ caller[w].pc = "idle" /\ ~ctxDone
  /\ caller' = [caller EXCEPT ![w] = [At("busy") EXCEPT !.msg = consumer.msg]]
  /\ consumer' = [consumer EXCEPT !.pc = "loop", !.msg = None]
  /\ UNCHANGED <<queues, buf, pending, unsent, ctxDone>>

(* The unbuffered work channel.                                            *)
Hand(w) ==
  /\ consumer.pc = "hand" /\ caller[w].pc = "idle"
  /\ caller' = [caller EXCEPT ![w] = [At("busy") EXCEPT !.msg = consumer.msg]]
  /\ consumer' = [consumer EXCEPT !.pc = "loop", !.msg = None]
  /\ UNCHANGED <<queues, buf, pending, unsent, ctxDone>>

(* Mutated form: what the channel holds is drained when Consume returns.   *)
StopDrains ==
  /\ consumer.pc = "loop" /\ ctxDone
  /\ buf' = [buf EXCEPT ![consumer.ch] = <<>>]
  /\ consumer' = At("closed")
  /\ UNCHANGED <<queues, pending, caller, unsent, ctxDone>>

(* ctx.Done() is picked, and the deferred close(work) runs.                *)
Stop ==
  /\ consumer.pc = "loop" /\ ctxDone
  /\ consumer' = At("closed")
  /\ UNCHANGED <<queues, buf, pending, caller, unsent, ctxDone>>

-----------------------------------------------------------------------------
(* Processors: a job is settled or put back (Server.retryJob).             *)

Settle(w) ==
  /\ caller[w].pc = "busy"
  /\ caller' = [caller EXCEPT ![w] = At("idle")]
  /\ UNCHANGED <<queues, buf, pending, consumer, unsent, ctxDone>>

Retry(w) ==
  /\ caller[w].pc = "busy" /\ caller[w].msg.n < Retries
  /\ Enqueue(w, [caller[w].msg EXCEPT !.n = @ + 1])
  /\ UNCHANGED <<queues, buf, pending, consumer, unsent, ctxDone>>

Exit(w) ==
  /\ caller[w].pc = "idle" /\ consumer.pc = "closed"
  /\ caller' = [caller EXCEPT ![w].pc = "exit"]
  /\ UNCHANGED <<queues, buf, pending, consumer, unsent, ctxDone>>

Cancel ==
  /\ ~ctxDone
  /\ ctxDone' = TRUE
  /\ UNCHANGED <<queues, buf, pending, caller, consumer, unsent>>

-----------------------------------------------------------------------------

InEnqueue(a) == Look(a) \/ Make(a) \/ Note(a) \/ Send(a)
InConsume == ConsumerLook \/ ConsumerMake \/ Receive \/ Pop \/ Stop \/ \E w \in Workers : Hand(w)

Next ==
  \/ \E c \in Clients, j \in Ids : Call(c, j)
  \/ \E a \in Callers : InEnqueue(a)
  \/ Start
  \/ InConsume
  \/ \E w \in Workers : Settle(w) \/ Retry(w) \/ Exit(w)
  \/ Cancel

Spec == Init /\ [][Next]_vars

(* Goroutines are scheduled, and the handler of a job ends.  Nobody has to *)
(* call Enqueue or to cancel; Start is called.                             *)
Fairness ==
  /\ \A a \in Callers : WF_vars(InEnqueue(a))
  /\ WF_vars(Start)
  /\ WF_vars(InConsume)
  /\ \A w \in Workers : WF_vars(Settle(w) \/ Retry(w) \/ Exit(w))

FairSpec == Spec /\ Fairness

-----------------------------------------------------------------------------
(* Properties                                                              *)

Calling(a) == caller[a].pc \in {"look", "make", "note", "send"}
Stored == UNION {{buf[c][k] : k \in DOMAIN buf[c]} : c \in Makers}
Held == IF consumer.pc \in {"pop", "hand"} THEN {consumer.msg} ELSE {}

(* The list of pending messages is never shorter than the messages about   *)
(* to be popped from it, so "pending[queue][1:]" never panics: it counts   *)
(* every message in a channel, one not yet sent by a producer that noted   *)
(* it, and one received by the consumer but not yet popped (Enqueue notes  *)
(* before it sends, Consume pops after it received).                       *)
PendingCounts ==
  /\ consumer.pc # "panic"
  /\ Len(pending) = Cardinality(Stored)
                    + Cardinality({a \in Callers : caller[a].pc = "send"})
                    + (IF consumer.pc = "pop" THEN 1 ELSE 0)

(* A message is in one place: a caller, a channel, the consumer or a       *)
(* processor; nothing is delivered twice, also when two goroutines both    *)
(* made a channel for the queue (Enqueue, Consume).                        *)
OnePlace ==
  /\ TypeOK
  /\ \A a, b \in Callers : a # b /\ caller[a].msg # None => caller[a].msg # caller[b].msg
  /\ \A a \in Callers : caller[a].msg \notin Stored \cup Held
  /\ Stored \cap Held = {}
  /\ \A c, d \in Makers : \A i \in DOMAIN buf[c], k \in DOMAIN buf[d] :
       buf[c][i] = buf[d][k] => c = d /\ i = k

Offsets == -1 .. Len(pending) + 1
Limits  == -1 .. MaxLimit + 1

(* interfaces.go:42: GetPendingWithPagination returns at most limit        *)
(* messages from a 0-based offset, and the total: for every offset and     *)
(* limit, in or out of range, the page is that part of the list; pages of  *)
(* one limit, one after the other, are the list, each message once; and    *)
(* the Redis broker answers the same from a list of its own, and never     *)
(* more than a page of the new list when the list changes between its two  *)
(* reads (GetPendingWithPagination).                                       *)
PagesAreRight ==
  \A limit \in Limits :
    /\ Walk(pending, limit) = pending
    /\ \A offset \in Offsets :
         LET page == MemoryPage(pending, offset, limit) IN
         /\ page.total = Len(pending) /\ IsPage(page, pending, offset, limit)
         /\ RedisPage(Len(pending), pending, offset, limit) = page
         /\ \A total \in 0 .. Len(pending) + 1 :
              RedisPage(total, pending, offset, limit).items \in {<<>>, page.items}

Full(c) == Len(buf[c]) = Cap

(* The consumer waits for a worker, and each worker for room in a channel  *)
(* nobody reads meanwhile: the code has no way out of this.                *)
Jam ==
  /\ consumer.pc = "hand"
  /\ \A w \in Workers : caller[w].pc = "send" /\ Full(caller[w].ch)

(* The calls that wait for ever: in a jam, for room in a channel whose     *)
(* reader was cancelled, or in one that was overwritten in the map.        *)
Stuck(a) ==
  /\ caller[a].pc = "send" /\ Full(caller[a].ch)
  /\ \/ Jam
     \/ ctxDone /\ consumer.pc = "closed"
     \/ consumer.ch \notin {None, caller[a].ch}

(* What lies in the channel that is in the map to stay, as nobody is about *)
(* to make another one, and that the consumer reads or is going to find.   *)
Awaited ==
  {m \in Stored :
     /\ \A a \in Callers : caller[a].pc # "make"
     /\ consumer.pc \notin {"make", "closed"}
     /\ m \in {buf[queues][k] : k \in DOMAIN buf[queues]}
     /\ consumer.ch \in {None, queues}}

(* Consume takes every message out of the channel it reads, whoever else   *)
(* made one and whatever the workers put back, until it is cancelled or    *)
(* waits for workers that wait for it.  (interfaces.go:35 says no less of  *)
(* the messages in an overwritten channel, which nobody reads.)            *)
EnqueuedIsConsumed ==
  \A m \in Msg : m \in Awaited ~> m \notin Stored \/ ctxDone \/ Jam

(* Every call of Enqueue returns (interfaces.go:28), but for the ones that *)
(* found the queue full in one of three situations: nobody reads the       *)
(* channel, as Consume was cancelled or reads another one, or all workers  *)
(* wait in Enqueue for the consumer, which waits for them.                 *)
EnqueueReturns == \A a \in Callers : Calling(a) ~> ~Calling(a) \/ Stuck(a)

(* A message the consumer has taken reaches a worker, even though the      *)
(* context is cancelled meanwhile; then every worker returns that is not   *)
(* stuck in Enqueue.                                                       *)
TakenIsDelivered ==
  /\ consumer.pc \in {"pop", "hand"} ~> consumer.pc \in {"loop", "closed"} \/ Jam
  /\ ctxDone /\ consumer.pc # "off" ~>
       \A w \in Workers : caller[w].pc = "exit" \/ Stuck(w)

(* The channels, the list and the consumer are the broker that the rest of *)
(* the system relies on.                                                   *)
OneLane(m) == 0
Promised == INSTANCE Broker WITH queue <- Stored, hand <- Held, Lane <- OneLane, Lossy <- FALSE
ImplementsBroker == Promised!Spec

=============================================================================
