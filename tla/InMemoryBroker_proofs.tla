------------------------ MODULE InMemoryBroker_proofs ------------------------
(***************************************************************************)
(* Proofs about InMemoryBroker, for every set of jobs, clients and         *)
(* workers, every capacity and every number of retries: a message is in    *)
(* one place, the pending list counts them, the broker keeps its promise.  *)
(***************************************************************************)
EXTENDS InMemoryBroker, FiniteSetTheorems, SequenceTheorems, WellFoundedInduction, TLAPS

-----------------------------------------------------------------------------
(* The inductive invariant                                                 *)

CallerState   == [pc : CallPC, ch : Makers \cup {None}, msg : Msg \cup {None}]
ConsumerState == [pc : ConsumePC, ch : Makers \cup {None}, msg : Msg \cup {None}]

(* Who works on a message has one, who uses a channel has one.             *)
TInv ==
  /\ TypeOK
  /\ \A a \in Callers :
       /\ caller[a].pc \notin {"idle", "exit"} <=> caller[a].msg # None
       /\ caller[a].pc \in {"note", "send"} => caller[a].ch \in Makers
  /\ consumer.pc \in {"loop", "pop", "hand"} => consumer.ch \in Makers
  /\ consumer.pc \in {"pop", "hand"} => consumer.msg \in Msg

(* The jobs a caller works on, those in a channel, the consumer's.         *)
JobOf(m)     == IF m = None THEN {} ELSE {m.id}
CallerJob(a) == JobOf(caller[a].msg)
ChannelJobs  == {m.id : m \in Stored}
HandJob      == IF consumer.pc \in {"pop", "hand"} THEN {consumer.msg.id} ELSE {}

Distinct == \A c, d \in Makers : \A i \in DOMAIN buf[c], k \in DOMAIN buf[d] :
             buf[c][i].id = buf[d][k].id => c = d /\ i = k

(* A job is in one place, as one message, and nowhere before it is sent.   *)
OneJob ==
  /\ \A a, b \in Callers : a # b => CallerJob(a) \cap CallerJob(b) = {}
  /\ \A a \in Callers : CallerJob(a) \cap (ChannelJobs \cup HandJob \cup unsent) = {}
  /\ ChannelJobs \cap (HandJob \cup unsent) = {}
  /\ HandJob \cap unsent = {}
  /\ Distinct

Sending == {a \in Callers : caller[a].pc = "send"}
Popping == IF consumer.pc = "pop" THEN 1 ELSE 0

Counted ==
  /\ IsFiniteSet(Stored) /\ IsFiniteSet(Sending)
  /\ consumer.pc # "panic"
  /\ Len(pending) = Cardinality(Stored) + Cardinality(Sending) + Popping

IInv == TInv /\ OneJob /\ Counted

LEMMA MsgType == \A m \in Msg : m.id \in Ids /\ m # None /\ JobOf(m) = {m.id}
BY BrokerAssumption DEF Msg, JobOf

LEMMA InitHolds == Init => IInv
<1> SUFFICES ASSUME Init PROVE IInv
  OBVIOUS
<1> USE DEF Init, At
<1>1. TypeOK
  <2>1. /\ buf \in [Makers -> Seq(Msg)] /\ \A c \in Makers : Len(buf[c]) <= Cap
        /\ pending \in Seq(Msg)
    BY BrokerAssumption
  <2>2. caller \in [Callers -> [pc : CallPC, ch : Makers \cup {None}, msg : Msg \cup {None}]]
    BY DEF CallPC
  <2>3. consumer \in [pc : ConsumePC, ch : Makers \cup {None}, msg : Msg \cup {None}]
    BY DEF ConsumePC
  <2>. QED
    BY <2>1, <2>2, <2>3 DEF TypeOK
<1>2. TInv
  BY <1>1 DEF TInv
<1>3. Stored = {} /\ Sending = {}
  BY DEF Stored, Sending
<1>4. OneJob
  BY <1>3 DEF OneJob, CallerJob, JobOf, ChannelJobs, HandJob, Distinct
<1>5. Counted
  BY <1>3, FS_EmptySet DEF Counted, Popping
<1>. QED
  BY <1>2, <1>4, <1>5 DEF IInv

-----------------------------------------------------------------------------
(* What a step of a caller and a step on a channel do                      *)

LEMMA CallerStep ==
  ASSUME TInv, NEW a \in Callers, NEW r \in CallerState,
         caller' = [caller EXCEPT ![a] = r],
         r.pc \notin {"idle", "exit"} <=> r.msg # None,
         r.pc \in {"note", "send"} => r.ch \in Makers
  PROVE  /\ caller' \in [Callers -> CallerState]
         /\ \A b \in Callers :
              /\ caller'[b].pc \notin {"idle", "exit"} <=> caller'[b].msg # None
              /\ caller'[b].pc \in {"note", "send"} => caller'[b].ch \in Makers
         /\ \A b \in Callers \ {a} : CallerJob(b)' = CallerJob(b)
         /\ CallerJob(a)' = JobOf(r.msg)
         /\ r.pc = "send" => Sending' = Sending \cup {a}
         /\ r.pc # "send" => Sending' = Sending \ {a}
<1>1. caller \in [Callers -> CallerState]
  BY DEF TInv, TypeOK, CallerState
<1>2. caller' \in [Callers -> CallerState] /\ caller'[a] = r /\ \A b \in Callers \ {a} : caller'[b] = caller[b]
  BY <1>1
<1>3. \A b \in Callers :
        /\ caller'[b].pc \notin {"idle", "exit"} <=> caller'[b].msg # None
        /\ caller'[b].pc \in {"note", "send"} => caller'[b].ch \in Makers
  BY <1>2 DEF TInv
<1>4. /\ \A b \in Callers \ {a} : CallerJob(b)' = CallerJob(b)
      /\ CallerJob(a)' = JobOf(r.msg)
  BY <1>2 DEF CallerJob, JobOf
<1>5. r.pc = "send" => Sending' = Sending \cup {a}
  BY <1>2 DEF Sending
<1>6. r.pc # "send" => Sending' = Sending \ {a}
  BY <1>2 DEF Sending
<1>. QED
  BY <1>2, <1>3, <1>4, <1>5, <1>6

LEMMA StoredIs == \A m : m \in Stored <=> \E c \in Makers : \E k \in DOMAIN buf[c] : buf[c][k] = m
BY DEF Stored

LEMMA StoredType == TypeOK => Stored \subseteq Msg
<1> SUFFICES ASSUME TypeOK, NEW m \in Stored PROVE m \in Msg
  OBVIOUS
<1>1. PICK c \in Makers : \E k \in DOMAIN buf[c] : buf[c][k] = m
  BY StoredIs
<1>2. buf[c] \in Seq(Msg)
  BY DEF TypeOK
<1>. QED
  BY <1>1, <1>2

LEMMA ChannelJob ==
  /\ \A c \in Makers : \A k \in DOMAIN buf[c] : buf[c][k] \in Stored /\ buf[c][k].id \in ChannelJobs
  /\ \A j \in ChannelJobs : \E m \in Stored : m.id = j
BY StoredIs DEF ChannelJobs

LEMMA ChannelAppend ==
  ASSUME TypeOK, Distinct, NEW ch \in Makers, NEW m \in Msg, m.id \notin ChannelJobs,
         Len(buf[ch]) < Cap, buf' = [buf EXCEPT ![ch] = Append(@, m)]
  PROVE  /\ buf' \in [Makers -> Seq(Msg)] /\ \A c \in Makers : Len(buf'[c]) <= Cap
         /\ m \notin Stored /\ Stored' = Stored \cup {m}
         /\ ChannelJobs' = ChannelJobs \cup {m.id}
         /\ Distinct'
<1>0. PICK s : s = buf[ch]
  OBVIOUS
<1>a. s \in Seq(Msg) /\ buf \in [Makers -> Seq(Msg)] /\ \A c \in Makers : Len(buf[c]) <= Cap
  BY <1>0 DEF TypeOK
<1>b. /\ Append(s, m) \in Seq(Msg) /\ Len(Append(s, m)) = Len(s) + 1 /\ Len(s) \in Nat
      /\ DOMAIN Append(s, m) = 1 .. Len(s) + 1 /\ DOMAIN s = 1 .. Len(s)
      /\ Append(s, m)[Len(s) + 1] = m /\ \A i \in 1 .. Len(s) : Append(s, m)[i] = s[i]
  BY <1>a
<1>c. PICK t : t = Append(s, m)
  OBVIOUS
<1>1. /\ buf' \in [Makers -> Seq(Msg)] /\ buf'[ch] = t
      /\ \A c \in Makers \ {ch} : buf'[c] = buf[c]
  BY <1>0, <1>a, <1>b, <1>c
<1>2. \A c \in Makers : Len(buf'[c]) <= Cap
  BY <1>0, <1>a, <1>b, <1>c, <1>1, BrokerAssumption
<1>3. m \notin Stored
  BY DEF ChannelJobs
<1>4. ASSUME NEW c \in Makers, NEW k \in DOMAIN buf'[c]
      PROVE  \/ k \in DOMAIN buf[c] /\ buf'[c][k] = buf[c][k]
             \/ c = ch /\ k = Len(s) + 1 /\ buf'[c][k] = m
  <2>1. CASE c = ch
    BY <1>0, <1>b, <1>c, <1>1, <2>1
  <2>2. CASE c # ch
    BY <1>1, <2>2
  <2>. QED
    BY <2>1, <2>2
<1>5. \A c \in Makers : \A k \in DOMAIN buf[c] : k \in DOMAIN buf'[c] /\ buf'[c][k] = buf[c][k]
  <2> TAKE c \in Makers
  <2> TAKE k \in DOMAIN buf[c]
  <2>1. CASE c = ch
    BY <1>0, <1>b, <1>c, <1>1, <2>1
  <2>2. CASE c # ch
    BY <1>1, <2>2
  <2>. QED
    BY <2>1, <2>2
<1>6. Len(s) + 1 \in DOMAIN buf'[ch] /\ buf'[ch][Len(s) + 1] = m
  BY <1>b, <1>c, <1>1
<1>7. Stored' = Stored \cup {m}
  <2>1. ASSUME NEW x \in Stored' PROVE x \in Stored \cup {m}
    <3>1. PICK c \in Makers : \E k \in DOMAIN buf'[c] : buf'[c][k] = x
      BY DEF Stored
    <3>. QED
      BY <1>4, <3>1, StoredIs
  <2>2. ASSUME NEW x \in Stored PROVE x \in Stored'
    <3>1. PICK c \in Makers : \E k \in DOMAIN buf[c] : buf[c][k] = x
      BY StoredIs
    <3>. QED
      BY <1>5, <3>1 DEF Stored
  <2>3. m \in Stored'
    BY <1>6 DEF Stored
  <2>. QED
    BY <2>1, <2>2, <2>3
<1>8. ChannelJobs' = ChannelJobs \cup {m.id}
  BY <1>7 DEF ChannelJobs
<1>9. Distinct'
  <2> SUFFICES ASSUME NEW c \in Makers, NEW d \in Makers,
                      NEW i \in DOMAIN buf'[c], NEW k \in DOMAIN buf'[d],
                      buf'[c][i].id = buf'[d][k].id
               PROVE  c = d /\ i = k
    BY DEF Distinct
  <2>1. CASE i \in DOMAIN buf[c] /\ buf'[c][i] = buf[c][i]
    <3>1. buf'[c][i].id \in ChannelJobs
      BY <2>1, ChannelJob
    <3>2. k \in DOMAIN buf[d] /\ buf'[d][k] = buf[d][k]
      BY <1>4, <3>1
    <3>. QED
      BY <2>1, <3>2 DEF Distinct
  <2>2. CASE c = ch /\ i = Len(s) + 1 /\ buf'[c][i] = m
    <3>1. ~(k \in DOMAIN buf[d] /\ buf'[d][k] = buf[d][k])
      BY <2>2, ChannelJob
    <3>. QED
      BY <1>4, <2>2, <3>1
  <2>. QED
    BY <1>4, <2>1, <2>2
<1>. QED
  BY <1>1, <1>2, <1>3, <1>7, <1>8, <1>9

LEMMA ChannelTail ==
  ASSUME TypeOK, Distinct, NEW ch \in Makers, buf[ch] # <<>>,
         buf' = [buf EXCEPT ![ch] = Tail(@)],
         NEW m, m = Head(buf[ch])
  PROVE  /\ buf' \in [Makers -> Seq(Msg)] /\ \A c \in Makers : Len(buf'[c]) <= Cap
         /\ m \in Msg /\ m \in Stored /\ Stored' = Stored \ {m}
         /\ m.id \in ChannelJobs /\ ChannelJobs' = ChannelJobs \ {m.id}
         /\ Distinct'
<1>0. PICK s : s = buf[ch]
  OBVIOUS
<1>a. s \in Seq(Msg) /\ s # <<>> /\ buf \in [Makers -> Seq(Msg)] /\ \A c \in Makers : Len(buf[c]) <= Cap
  BY <1>0 DEF TypeOK
<1>b. /\ Tail(s) \in Seq(Msg) /\ Len(Tail(s)) = Len(s) - 1 /\ Len(s) \in Nat \ {0}
      /\ DOMAIN Tail(s) = 1 .. Len(s) - 1 /\ DOMAIN s = 1 .. Len(s)
      /\ m = s[1] /\ m \in Msg /\ \A i \in 1 .. Len(s) - 1 : Tail(s)[i] = s[i + 1]
  BY <1>0, <1>a
<1>c. PICK t : t = Tail(s)
  OBVIOUS
<1>1. /\ buf' \in [Makers -> Seq(Msg)] /\ buf'[ch] = t
      /\ \A c \in Makers \ {ch} : buf'[c] = buf[c]
  BY <1>0, <1>a, <1>b, <1>c
<1>2. \A c \in Makers : Len(buf'[c]) <= Cap
  BY <1>0, <1>a, <1>b, <1>c, <1>1, BrokerAssumption
<1>3. 1 \in DOMAIN buf[ch] /\ buf[ch][1] = m
  BY <1>0, <1>b
<1>4. m \in Stored /\ m.id \in ChannelJobs
  BY <1>3, ChannelJob
(* Position k of a channel was position at(c, k) before.                   *)
<1> DEFINE at(c, k) == IF c = ch THEN k + 1 ELSE k
<1>5. ASSUME NEW c \in Makers, NEW k \in DOMAIN buf'[c]
      PROVE  /\ at(c, k) \in DOMAIN buf[c] /\ buf'[c][k] = buf[c][at(c, k)]
             /\ c = ch => at(c, k) # 1 /\ k \in Nat
  <2>1. CASE c = ch
    BY <1>0, <1>b, <1>c, <1>1, <2>1
  <2>2. CASE c # ch
    BY <1>1, <2>2
  <2>. QED
    BY <2>1, <2>2
<1>6. ASSUME NEW c \in Makers, NEW k \in DOMAIN buf[c], ~(c = ch /\ k = 1)
      PROVE  \E i \in DOMAIN buf'[c] : buf'[c][i] = buf[c][k]
  <2>1. CASE c = ch
    <3>1. k - 1 \in DOMAIN buf'[c] /\ buf'[c][k - 1] = buf[c][k]
      BY <1>0, <1>b, <1>c, <1>1, <1>6, <2>1
    <3>. QED
      BY <3>1
  <2>2. CASE c # ch
    BY <1>1, <2>2
  <2>. QED
    BY <2>1, <2>2
<1>7. \A c \in Makers : \A k \in DOMAIN buf[c] : buf[c][k].id = m.id => c = ch /\ k = 1
  BY <1>3 DEF Distinct
<1>8. ASSUME NEW x \in Stored' PROVE x \in Stored /\ x.id # m.id
  <2>1. PICK c \in Makers : \E k \in DOMAIN buf'[c] : buf'[c][k] = x
    BY DEF Stored
  <2>2. PICK k \in DOMAIN buf'[c] : buf'[c][k] = x
    BY <2>1
  <2>3. at(c, k) \in DOMAIN buf[c] /\ x = buf[c][at(c, k)] /\ ~(c = ch /\ at(c, k) = 1)
    BY <1>5, <2>2
  <2>. QED
    BY <1>7, <2>3, ChannelJob
<1>9. ASSUME NEW x \in Stored, x # m PROVE x \in Stored'
  <2>1. PICK c \in Makers : \E k \in DOMAIN buf[c] : buf[c][k] = x
    BY StoredIs
  <2>2. PICK k \in DOMAIN buf[c] : buf[c][k] = x
    BY <2>1
  <2>3. \E i \in DOMAIN buf'[c] : buf'[c][i] = x
    BY <1>3, <1>6, <1>9, <2>2
  <2>. QED
    BY <2>3 DEF Stored
<1>10. Stored' = Stored \ {m}
  BY <1>8, <1>9
<1>11. ASSUME NEW x \in Stored, x.id = m.id PROVE x = m
  BY <1>3, <1>7, <1>11, StoredIs
<1>12. ChannelJobs' = ChannelJobs \ {m.id}
  BY <1>8, <1>10, <1>11 DEF ChannelJobs
<1>13. Distinct'
  <2> SUFFICES ASSUME NEW c \in Makers, NEW d \in Makers,
                      NEW i \in DOMAIN buf'[c], NEW k \in DOMAIN buf'[d],
                      buf'[c][i].id = buf'[d][k].id
               PROVE  c = d /\ i = k
    BY DEF Distinct
  <2>1. at(c, i) \in DOMAIN buf[c] /\ at(d, k) \in DOMAIN buf[d] /\ buf[c][at(c, i)].id = buf[d][at(d, k)].id
    <3> HIDE DEF at
    <3>1. at(c, i) \in DOMAIN buf[c] /\ buf'[c][i] = buf[c][at(c, i)]
      BY <1>5
    <3>2. at(d, k) \in DOMAIN buf[d] /\ buf'[d][k] = buf[d][at(d, k)]
      BY <1>5
    <3>. QED
      BY <3>1, <3>2
  <2>2. c = d /\ at(c, i) = at(d, k)
    BY <2>1 DEF Distinct
  <2>3. c = ch => i \in Nat /\ k \in Nat
    BY <1>5, <2>2
  <2>. QED
    BY <2>2, <2>3
<1>. QED
  BY <1>1, <1>2, <1>b, <1>4, <1>10, <1>12, <1>13

-----------------------------------------------------------------------------
(* Each step preserves the invariant                                       *)

LEMMA CountedTypes == IInv => /\ Len(pending) \in Nat /\ Cardinality(Stored) \in Nat
                              /\ Cardinality(Sending) \in Nat
BY FS_CardinalityType DEF IInv, TInv, TypeOK, Counted

(* A caller goes on with the job it has.                                   *)
LEMMA Moves ==
  ASSUME IInv, NEW a \in Callers, NEW r \in CallerState,
         caller' = [caller EXCEPT ![a] = r],
         r.pc \notin {"idle", "exit"} <=> r.msg # None,
         r.pc \in {"note", "send"} => r.ch \in Makers,
         JobOf(r.msg) = CallerJob(a), r.pc # "send", caller[a].pc # "send",
         queues' \in Makers \cup {None}, UNCHANGED <<buf, pending, consumer, unsent, ctxDone>>
  PROVE  IInv'
<1>1. /\ caller' \in [Callers -> CallerState]
      /\ \A b \in Callers :
           /\ caller'[b].pc \notin {"idle", "exit"} <=> caller'[b].msg # None
           /\ caller'[b].pc \in {"note", "send"} => caller'[b].ch \in Makers
      /\ \A b \in Callers : CallerJob(b)' = CallerJob(b)
      /\ Sending' = Sending
  BY CallerStep DEF IInv, Sending
<1>2. TInv'
  BY <1>1 DEF IInv, TInv, TypeOK, CallerState
<1>3. Stored' = Stored /\ ChannelJobs' = ChannelJobs /\ HandJob' = HandJob /\ Popping' = Popping
  BY DEF Stored, ChannelJobs, HandJob, Popping
<1>4. OneJob'
  BY <1>1, <1>3 DEF IInv, OneJob, Distinct
<1>5. Counted'
  BY <1>1, <1>3 DEF IInv, Counted
<1>. QED
  BY <1>2, <1>4, <1>5 DEF IInv

(* The consumer goes on, and had and has nothing in hand.                  *)
LEMMA ConsumerMoves ==
  ASSUME IInv, NEW s \in ConsumerState, consumer' = s,
         s.pc \notin {"pop", "hand", "panic"}, consumer.pc \notin {"pop", "hand"},
         s.pc = "loop" => s.ch \in Makers,
         queues' \in Makers \cup {None}, UNCHANGED <<buf, pending, caller, unsent, ctxDone>>
  PROVE  IInv'
<1>1. TInv'
  BY DEF IInv, TInv, TypeOK, ConsumerState
<1>2. /\ Stored' = Stored /\ ChannelJobs' = ChannelJobs /\ HandJob' = HandJob
      /\ Popping' = Popping /\ Sending' = Sending /\ \A a \in Callers : CallerJob(a)' = CallerJob(a)
  BY DEF Stored, ChannelJobs, HandJob, Popping, Sending, CallerJob, JobOf
<1>3. OneJob'
  BY <1>2 DEF IInv, OneJob, Distinct
<1>4. Counted'
  BY <1>2 DEF IInv, Counted
<1>. QED
  BY <1>1, <1>3, <1>4 DEF IInv

LEMMA Entering ==
  \A m : /\ [At("look") EXCEPT !.msg = m] = [pc |-> "look", ch |-> None, msg |-> m]
         /\ [At("busy") EXCEPT !.msg = m] = [pc |-> "busy", ch |-> None, msg |-> m]
BY DEF At

LEMMA CallKept == ASSUME IInv, NEW c \in Clients, NEW j \in Ids, Call(c, j) PROVE IInv'
<1>1. PICK m : m = [id |-> j, n |-> 0]
  OBVIOUS
<1>2. m \in Msg /\ m.id = j /\ m # None /\ JobOf(m) = {j}
  BY <1>1, BrokerAssumption, MsgType DEF Msg
<1>3. PICK r : r = [pc |-> "look", ch |-> None, msg |-> m]
  OBVIOUS
<1>4. r \in CallerState /\ r.pc = "look" /\ r.msg = m
  BY <1>2, <1>3 DEF CallerState, CallPC
<1>5. c \in Callers /\ caller' = [caller EXCEPT ![c] = r] /\ caller[c].pc = "idle"
  BY <1>1, <1>3, Entering DEF Call, Enqueue, Callers
<1>6. /\ caller' \in [Callers -> CallerState]
      /\ \A b \in Callers :
           /\ caller'[b].pc \notin {"idle", "exit"} <=> caller'[b].msg # None
           /\ caller'[b].pc \in {"note", "send"} => caller'[b].ch \in Makers
      /\ \A b \in Callers \ {c} : CallerJob(b)' = CallerJob(b)
      /\ CallerJob(c)' = {j}
      /\ Sending' = Sending \ {c}
  BY <1>2, <1>4, <1>5, CallerStep DEF IInv
<1>7. Sending' = Sending
  BY <1>5, <1>6 DEF Sending
<1>8. TInv'
  BY <1>6 DEF IInv, TInv, TypeOK, CallerState, Call
<1>9. /\ Stored' = Stored /\ ChannelJobs' = ChannelJobs /\ HandJob' = HandJob /\ Popping' = Popping
      /\ unsent' = unsent \ {j} /\ j \in unsent /\ buf' = buf /\ pending' = pending /\ consumer' = consumer
  BY DEF Stored, ChannelJobs, HandJob, Popping, Call
<1>10. OneJob'
  <2>1. \A a, b \in Callers : a # b => CallerJob(a)' \cap CallerJob(b)' = {}
    BY <1>6, <1>9 DEF IInv, OneJob
  <2>2. \A a \in Callers : CallerJob(a)' \cap (ChannelJobs \cup HandJob \cup (unsent \ {j})) = {}
    BY <1>6, <1>9 DEF IInv, OneJob
  <2>3. ChannelJobs \cap (HandJob \cup (unsent \ {j})) = {} /\ HandJob \cap (unsent \ {j}) = {} /\ Distinct'
    BY <1>9 DEF IInv, OneJob, Distinct
  <2>. QED
    BY <1>9, <2>1, <2>2, <2>3 DEF OneJob
<1>11. Counted'
  BY <1>7, <1>9 DEF IInv, Counted
<1>. QED
  BY <1>8, <1>10, <1>11 DEF IInv

LEMMA LookKept == ASSUME IInv, NEW a \in Callers, Look(a) PROVE IInv'
<1>1. PICK r : r = [caller[a] EXCEPT !.pc = IF queues = None THEN "make" ELSE "note", !.ch = queues]
  OBVIOUS
<1>2. caller[a] \in CallerState /\ queues \in Makers \cup {None} /\ caller[a].msg # None
  BY DEF IInv, TInv, TypeOK, CallerState, Look
<1>3. /\ r \in CallerState /\ r.pc \in {"make", "note"} /\ r.msg = caller[a].msg
      /\ r.pc = "note" => r.ch \in Makers
  BY <1>1, <1>2 DEF CallerState, CallPC
<1>4. caller' = [caller EXCEPT ![a] = r]
  BY <1>1 DEF Look, IInv, TInv, TypeOK
<1>. QED
  BY <1>2, <1>3, <1>4, Moves DEF Look, CallerJob

LEMMA MakeKept == ASSUME IInv, NEW a \in Callers, Make(a) PROVE IInv'
<1>1. PICK r : r = [caller[a] EXCEPT !.pc = "note", !.ch = a]
  OBVIOUS
<1>2. caller[a] \in CallerState /\ a \in Makers /\ caller[a].msg # None
  BY DEF IInv, TInv, TypeOK, CallerState, Make, Makers
<1>3. r \in CallerState /\ r.pc = "note" /\ r.msg = caller[a].msg /\ r.ch = a
  BY <1>1, <1>2 DEF CallerState, CallPC
<1>4. caller' = [caller EXCEPT ![a] = r]
  BY <1>1 DEF Make, IInv, TInv, TypeOK
<1>. QED
  BY <1>2, <1>3, <1>4, Moves DEF Make, CallerJob

LEMMA RetryKept == ASSUME IInv, NEW w \in Workers, Retry(w) PROVE IInv'
<1>1. PICK m : m = [caller[w].msg EXCEPT !.n = @ + 1]
  OBVIOUS
<1>2. w \in Callers /\ caller[w] \in CallerState /\ caller[w].msg \in Msg
  BY DEF Callers, IInv, TInv, TypeOK, CallerState, Retry
<1>3. m \in Msg /\ m.id = caller[w].msg.id
  BY <1>1, <1>2, BrokerAssumption DEF Msg, Retry
<1>4. PICK r : r = [pc |-> "look", ch |-> None, msg |-> m]
  OBVIOUS
<1>5. r \in CallerState /\ r.pc = "look" /\ r.msg = m /\ m # None /\ JobOf(m) = CallerJob(w)
  BY <1>2, <1>3, <1>4, MsgType DEF CallerState, CallPC, CallerJob
<1>6. caller' = [caller EXCEPT ![w] = r]
  BY <1>1, <1>4, Entering DEF Retry, Enqueue
<1>. QED
  BY <1>2, <1>5, <1>6, Moves DEF Retry, IInv, TInv, TypeOK

LEMMA ExitKept == ASSUME IInv, NEW w \in Workers, Exit(w) PROVE IInv'
<1>1. PICK r : r = [caller[w] EXCEPT !.pc = "exit"]
  OBVIOUS
<1>2. w \in Callers /\ caller[w] \in CallerState /\ caller[w].msg = None
  BY DEF Callers, IInv, TInv, TypeOK, CallerState, Exit
<1>3. r \in CallerState /\ r.pc = "exit" /\ r.msg = None
  BY <1>1, <1>2 DEF CallerState, CallPC
<1>4. caller' = [caller EXCEPT ![w] = r]
  BY <1>1 DEF Exit, IInv, TInv, TypeOK
<1>. QED
  BY <1>2, <1>3, <1>4, Moves DEF Exit, CallerJob, IInv, TInv, TypeOK

LEMMA ConsumerKept == ASSUME IInv, Start \/ ConsumerLook \/ ConsumerMake \/ Stop PROVE IInv'
<1>1. consumer \in ConsumerState /\ queues \in Makers \cup {None} /\ Consumer \in Makers
  BY DEF IInv, TInv, TypeOK, ConsumerState, Makers
<1>2. CASE Start
  <2>1. At("look") \in ConsumerState /\ At("look").pc = "look"
    BY DEF At, ConsumerState, ConsumePC
  <2>. QED
    BY <1>1, <1>2, <2>1, ConsumerMoves DEF Start
<1>3. CASE ConsumerLook
  <2>1. PICK s : s = [consumer EXCEPT !.pc = IF queues = None THEN "make" ELSE "loop", !.ch = queues]
    OBVIOUS
  <2>2. s \in ConsumerState /\ s.pc \in {"make", "loop"} /\ (s.pc = "loop" => s.ch \in Makers)
    BY <1>1, <2>1 DEF ConsumerState, ConsumePC
  <2>. QED
    BY <1>1, <1>3, <2>1, <2>2, ConsumerMoves DEF ConsumerLook
<1>4. CASE ConsumerMake
  <2>1. PICK s : s = [consumer EXCEPT !.pc = "loop", !.ch = Consumer]
    OBVIOUS
  <2>2. s \in ConsumerState /\ s.pc = "loop" /\ s.ch = Consumer
    BY <1>1, <2>1 DEF ConsumerState, ConsumePC
  <2>. QED
    BY <1>1, <1>4, <2>1, <2>2, ConsumerMoves DEF ConsumerMake
<1>5. CASE Stop
  <2>1. At("closed") \in ConsumerState /\ At("closed").pc = "closed"
    BY DEF At, ConsumerState, ConsumePC
  <2>. QED
    BY <1>1, <1>5, <2>1, ConsumerMoves DEF Stop
<1>. QED
  BY <1>2, <1>3, <1>4, <1>5

LEMMA NoteKept == ASSUME IInv, NEW a \in Callers, Note(a) PROVE IInv'
<1>1. PICK r : r = [caller[a] EXCEPT !.pc = "send"]
  OBVIOUS
<1>2. /\ caller[a] \in CallerState /\ caller[a].pc = "note" /\ caller[a].ch \in Makers
      /\ caller[a].msg \in Msg /\ caller[a].msg # None
  BY DEF IInv, TInv, TypeOK, CallerState, Note
<1>3. r \in CallerState /\ r.pc = "send" /\ r.msg = caller[a].msg /\ r.ch = caller[a].ch
  BY <1>1, <1>2 DEF CallerState, CallPC
<1>4. caller' = [caller EXCEPT ![a] = r]
  BY <1>1 DEF Note, IInv, TInv, TypeOK
<1>5. /\ caller' \in [Callers -> CallerState]
      /\ \A b \in Callers :
           /\ caller'[b].pc \notin {"idle", "exit"} <=> caller'[b].msg # None
           /\ caller'[b].pc \in {"note", "send"} => caller'[b].ch \in Makers
      /\ \A b \in Callers : CallerJob(b)' = CallerJob(b)
      /\ Sending' = Sending \cup {a}
  BY <1>2, <1>3, <1>4, CallerStep DEF IInv, CallerJob
<1>6. pending' \in Seq(Msg) /\ Len(pending') = Len(pending) + 1
  BY <1>2 DEF Note, IInv, TInv, TypeOK
<1>7. TInv'
  BY <1>5, <1>6 DEF IInv, TInv, TypeOK, CallerState, Note
<1>8. /\ Stored' = Stored /\ ChannelJobs' = ChannelJobs /\ HandJob' = HandJob /\ Popping' = Popping
      /\ unsent' = unsent /\ consumer' = consumer /\ buf' = buf
  BY DEF Stored, ChannelJobs, HandJob, Popping, Note
<1>9. OneJob'
  BY <1>5, <1>8 DEF IInv, OneJob, Distinct
<1>10. a \notin Sending
  BY <1>2 DEF Sending
<1>11. IsFiniteSet(Sending') /\ Cardinality(Sending') = Cardinality(Sending) + 1
  BY <1>5, <1>10, FS_AddElement DEF IInv, Counted
<1>12. Len(pending') = Cardinality(Stored) + Cardinality(Sending') + Popping
  BY <1>6, <1>11, CountedTypes DEF IInv, Counted, Popping
<1>13. Counted'
  BY <1>8, <1>11, <1>12 DEF IInv, Counted
<1>. QED
  BY <1>7, <1>9, <1>13 DEF IInv

(* What a Send does to the channels: used for the refinement as well.      *)
LEMMA SendStores ==
  ASSUME IInv, NEW a \in Callers, Send(a), NEW m, m = caller[a].msg
  PROVE  /\ buf' \in [Makers -> Seq(Msg)] /\ \A c \in Makers : Len(buf'[c]) <= Cap
         /\ m \in Msg /\ CallerJob(a) = {m.id} /\ m.id \notin HandJob \cup unsent
         /\ m \notin Stored /\ Stored' = Stored \cup {m}
         /\ ChannelJobs' = ChannelJobs \cup {m.id}
         /\ Distinct'
<1>1. /\ caller[a] \in CallerState /\ caller[a].pc = "send" /\ caller[a].ch \in Makers
      /\ m \in Msg
  BY DEF IInv, TInv, TypeOK, CallerState, Send
<1>2. CallerJob(a) = {m.id} /\ m.id \notin ChannelJobs /\ m.id \notin HandJob \cup unsent
  BY <1>1, MsgType DEF CallerJob, IInv, OneJob
<1>. QED
  BY <1>1, <1>2, ChannelAppend DEF Send, IInv, TInv, OneJob

LEMMA SendKept == ASSUME IInv, NEW a \in Callers, Send(a) PROVE IInv'
<1>1. PICK m : m = caller[a].msg
  OBVIOUS
<1>2. /\ buf' \in [Makers -> Seq(Msg)] /\ \A c \in Makers : Len(buf'[c]) <= Cap
      /\ m \in Msg /\ CallerJob(a) = {m.id} /\ m.id \notin HandJob \cup unsent
      /\ m \notin Stored /\ Stored' = Stored \cup {m}
      /\ ChannelJobs' = ChannelJobs \cup {m.id}
      /\ Distinct'
  BY <1>1, SendStores
<1>3. PICK r : r = At("idle")
  OBVIOUS
<1>4. r \in CallerState /\ r.pc = "idle" /\ r.msg = None /\ JobOf(r.msg) = {}
  BY <1>3 DEF CallerState, CallPC, At, JobOf
<1>5. /\ caller' = [caller EXCEPT ![a] = r] /\ caller[a].pc = "send"
      /\ pending' = pending /\ consumer' = consumer /\ unsent' = unsent
  BY <1>3 DEF Send
<1>6. /\ caller' \in [Callers -> CallerState]
      /\ \A b \in Callers :
           /\ caller'[b].pc \notin {"idle", "exit"} <=> caller'[b].msg # None
           /\ caller'[b].pc \in {"note", "send"} => caller'[b].ch \in Makers
      /\ \A b \in Callers \ {a} : CallerJob(b)' = CallerJob(b)
      /\ CallerJob(a)' = {}
      /\ Sending' = Sending \ {a}
  BY <1>4, <1>5, CallerStep DEF IInv
<1>7. TInv'
  BY <1>2, <1>5, <1>6 DEF IInv, TInv, TypeOK, CallerState, Send
<1>8. HandJob' = HandJob /\ Popping' = Popping
  BY <1>5 DEF HandJob, Popping
<1>9. OneJob'
  <2>1. \A b, c \in Callers : b # c => CallerJob(b)' \cap CallerJob(c)' = {}
    BY <1>6 DEF IInv, OneJob
  <2>2. \A b \in Callers \ {a} : m.id \notin CallerJob(b)
    BY <1>2 DEF IInv, OneJob
  <2>3. \A b \in Callers : CallerJob(b)' \cap (ChannelJobs' \cup HandJob \cup unsent) = {}
    BY <1>2, <1>6, <2>2 DEF IInv, OneJob
  <2>4. ChannelJobs' \cap (HandJob \cup unsent) = {} /\ HandJob \cap unsent = {}
    BY <1>2 DEF IInv, OneJob
  <2>. QED
    BY <1>2, <1>5, <1>8, <2>1, <2>3, <2>4 DEF OneJob
<1>10. a \in Sending
  BY <1>5 DEF Sending
<1>11. IsFiniteSet(Sending') /\ Cardinality(Sending') = Cardinality(Sending) - 1
  BY <1>6, <1>10, FS_RemoveElement DEF IInv, Counted
<1>12. IsFiniteSet(Stored') /\ Cardinality(Stored') = Cardinality(Stored) + 1
  BY <1>2, FS_AddElement DEF IInv, Counted
<1>13. Len(pending) = Cardinality(Stored') + Cardinality(Sending') + Popping
  BY <1>11, <1>12, CountedTypes DEF IInv, Counted, Popping
<1>14. Counted'
  BY <1>5, <1>8, <1>11, <1>12, <1>13 DEF IInv, Counted
<1>. QED
  BY <1>7, <1>9, <1>14 DEF IInv

(* What a Receive takes out of the channel it reads.                       *)
LEMMA ReceiveTakes ==
  ASSUME IInv, Receive, NEW m, m = Head(buf[consumer.ch])
  PROVE  /\ buf' \in [Makers -> Seq(Msg)] /\ \A c \in Makers : Len(buf'[c]) <= Cap
         /\ m \in Msg /\ m \in Stored /\ Stored' = Stored \ {m}
         /\ m.id \in ChannelJobs /\ ChannelJobs' = ChannelJobs \ {m.id}
         /\ Distinct'
         /\ consumer'.pc = "pop" /\ consumer'.msg = m /\ consumer'.ch = consumer.ch
         /\ consumer' \in ConsumerState /\ consumer.ch \in Makers
<1>1. consumer.ch \in Makers /\ consumer \in ConsumerState /\ buf[consumer.ch] # <<>>
  BY DEF IInv, TInv, TypeOK, ConsumerState, Receive
<1>2. /\ buf' \in [Makers -> Seq(Msg)] /\ \A c \in Makers : Len(buf'[c]) <= Cap
      /\ m \in Msg /\ m \in Stored /\ Stored' = Stored \ {m}
      /\ m.id \in ChannelJobs /\ ChannelJobs' = ChannelJobs \ {m.id}
      /\ Distinct'
  BY <1>1, ChannelTail DEF Receive, IInv, TInv, OneJob
<1>3. consumer' = [consumer EXCEPT !.pc = "pop", !.msg = m]
  BY DEF Receive
<1>4. /\ consumer'.pc = "pop" /\ consumer'.msg = m /\ consumer'.ch = consumer.ch
      /\ consumer' \in ConsumerState
  BY <1>1, <1>2, <1>3 DEF ConsumerState, ConsumePC
<1>. QED
  BY <1>1, <1>2, <1>4

LEMMA ReceiveKept == ASSUME IInv, Receive PROVE IInv'
<1>1. PICK m : m = Head(buf[consumer.ch])
  OBVIOUS
<1>2. /\ buf' \in [Makers -> Seq(Msg)] /\ \A c \in Makers : Len(buf'[c]) <= Cap
      /\ m \in Msg /\ m \in Stored /\ Stored' = Stored \ {m}
      /\ m.id \in ChannelJobs /\ ChannelJobs' = ChannelJobs \ {m.id}
      /\ Distinct'
      /\ consumer'.pc = "pop" /\ consumer'.msg = m /\ consumer'.ch = consumer.ch
      /\ consumer' \in ConsumerState /\ consumer.ch \in Makers
  BY <1>1, ReceiveTakes
<1>3. pending' = pending /\ caller' = caller /\ unsent' = unsent /\ consumer.pc = "loop"
  BY DEF Receive
<1>4. TInv'
  BY <1>2 DEF IInv, TInv, TypeOK, ConsumerState, Receive
<1>5. /\ HandJob = {} /\ HandJob' = {m.id} /\ Popping = 0 /\ Popping' = 1
      /\ Sending' = Sending /\ \A a \in Callers : CallerJob(a)' = CallerJob(a)
  BY <1>2, <1>3 DEF HandJob, Popping, Sending, CallerJob, JobOf
<1>6. OneJob'
  <2>1. \A a, b \in Callers : a # b => CallerJob(a)' \cap CallerJob(b)' = {}
    BY <1>5 DEF IInv, OneJob
  <2>2. \A a \in Callers : CallerJob(a) \cap (ChannelJobs' \cup {m.id} \cup unsent) = {}
    BY <1>2 DEF IInv, OneJob
  <2>3. ChannelJobs' \cap ({m.id} \cup unsent) = {} /\ {m.id} \cap unsent = {}
    BY <1>2 DEF IInv, OneJob
  <2>. QED
    BY <1>2, <1>3, <1>5, <2>1, <2>2, <2>3 DEF OneJob
<1>7. IsFiniteSet(Stored') /\ Cardinality(Stored') = Cardinality(Stored) - 1
  BY <1>2, FS_RemoveElement DEF IInv, Counted
<1>8. Len(pending) = Cardinality(Stored') + Cardinality(Sending) + 1
  BY <1>5, <1>7, CountedTypes DEF IInv, Counted
<1>9. Counted'
  BY <1>2, <1>3, <1>5, <1>7, <1>8 DEF IInv, Counted
<1>. QED
  BY <1>4, <1>6, <1>9 DEF IInv

(* The list is not empty when the consumer pops it.                        *)
LEMMA PopFinds ==
  ASSUME IInv, Pop
  PROVE  /\ pending # <<>> /\ pending' = Tail(pending)
         /\ consumer' = [consumer EXCEPT !.pc = "hand"]
<1>1. Len(pending) # 0
  BY CountedTypes DEF IInv, Counted, Popping, Pop
<1>2. pending # <<>>
  BY <1>1
<1>. QED
  BY <1>2 DEF Pop

LEMMA PopKept == ASSUME IInv, Pop PROVE IInv'
<1>1. /\ pending # <<>> /\ pending' = Tail(pending)
      /\ consumer' = [consumer EXCEPT !.pc = "hand"]
  BY PopFinds
<1>2. /\ consumer.pc = "pop" /\ consumer.ch \in Makers /\ consumer.msg \in Msg
      /\ consumer \in ConsumerState
      /\ caller' = caller /\ unsent' = unsent /\ buf' = buf
  BY DEF Pop, IInv, TInv, TypeOK, ConsumerState
<1>3. /\ consumer' \in ConsumerState /\ consumer'.pc = "hand"
      /\ consumer'.ch = consumer.ch /\ consumer'.msg = consumer.msg
  BY <1>1, <1>2 DEF ConsumerState, ConsumePC
<1>4. pending' \in Seq(Msg) /\ Len(pending') = Len(pending) - 1
  BY <1>1 DEF IInv, TInv, TypeOK
<1>5. TInv'
  BY <1>2, <1>3, <1>4 DEF IInv, TInv, TypeOK, ConsumerState, Pop
<1>6. /\ Stored' = Stored /\ ChannelJobs' = ChannelJobs /\ Sending' = Sending
      /\ \A a \in Callers : CallerJob(a)' = CallerJob(a)
  BY <1>2 DEF Stored, ChannelJobs, Sending, CallerJob, JobOf
<1>7. HandJob' = HandJob /\ Popping = 1 /\ Popping' = 0
  BY <1>2, <1>3 DEF HandJob, Popping
<1>8. OneJob'
  BY <1>2, <1>6, <1>7 DEF IInv, OneJob, Distinct
<1>9. Len(pending') = Cardinality(Stored) + Cardinality(Sending) + 0
  BY <1>4, <1>7, CountedTypes DEF IInv, Counted
<1>10. Counted'
  BY <1>3, <1>6, <1>7, <1>9 DEF IInv, Counted
<1>. QED
  BY <1>5, <1>8, <1>10 DEF IInv

LEMMA HandKept == ASSUME IInv, NEW w \in Workers, Hand(w) PROVE IInv'
<1>1. PICK m : m = consumer.msg
  OBVIOUS
<1>2. /\ w \in Callers /\ caller[w].pc = "idle" /\ consumer.pc = "hand" /\ consumer.ch \in Makers
      /\ m \in Msg /\ m # None /\ JobOf(m) = {m.id} /\ consumer \in ConsumerState
      /\ pending' = pending /\ unsent' = unsent /\ buf' = buf
  BY <1>1, MsgType DEF Callers, Hand, IInv, TInv, TypeOK, ConsumerState
<1>3. PICK r : r = [pc |-> "busy", ch |-> None, msg |-> m]
  OBVIOUS
<1>4. r \in CallerState /\ r.pc = "busy" /\ r.msg = m
  BY <1>2, <1>3 DEF CallerState, CallPC
<1>5. caller' = [caller EXCEPT ![w] = r]
  BY <1>1, <1>3, Entering DEF Hand
<1>6. /\ caller' \in [Callers -> CallerState]
      /\ \A b \in Callers :
           /\ caller'[b].pc \notin {"idle", "exit"} <=> caller'[b].msg # None
           /\ caller'[b].pc \in {"note", "send"} => caller'[b].ch \in Makers
      /\ \A b \in Callers \ {w} : CallerJob(b)' = CallerJob(b)
      /\ CallerJob(w)' = {m.id}
      /\ Sending' = Sending \ {w}
  BY <1>2, <1>4, <1>5, CallerStep DEF IInv
<1>7. Sending' = Sending
  BY <1>2, <1>6 DEF Sending
<1>8. /\ consumer' \in ConsumerState /\ consumer'.pc = "loop" /\ consumer'.ch = consumer.ch
  BY <1>2 DEF Hand, ConsumerState, ConsumePC
<1>9. TInv'
  BY <1>2, <1>6, <1>8 DEF IInv, TInv, TypeOK, CallerState, ConsumerState, Hand
<1>10. /\ Stored' = Stored /\ ChannelJobs' = ChannelJobs
       /\ HandJob = {m.id} /\ HandJob' = {} /\ Popping = 0 /\ Popping' = 0
  BY <1>1, <1>2, <1>8 DEF Stored, ChannelJobs, HandJob, Popping
<1>11. OneJob'
  <2>1. \A a, b \in Callers : a # b => CallerJob(a)' \cap CallerJob(b)' = {}
    BY <1>6, <1>10 DEF IInv, OneJob
  <2>2. \A a \in Callers : CallerJob(a)' \cap (ChannelJobs \cup unsent) = {}
    BY <1>6, <1>10 DEF IInv, OneJob
  <2>3. ChannelJobs \cap unsent = {} /\ Distinct'
    BY <1>2 DEF IInv, OneJob, Distinct
  <2>. QED
    BY <1>2, <1>10, <2>1, <2>2, <2>3 DEF OneJob
<1>12. Counted'
  BY <1>2, <1>7, <1>8, <1>10 DEF IInv, Counted
<1>. QED
  BY <1>9, <1>11, <1>12 DEF IInv

LEMMA SettleKept == ASSUME IInv, NEW w \in Workers, Settle(w) PROVE IInv'
<1>1. PICK r : r = At("idle")
  OBVIOUS
<1>2. r \in CallerState /\ r.pc = "idle" /\ r.msg = None /\ JobOf(r.msg) = {}
  BY <1>1 DEF CallerState, CallPC, At, JobOf
<1>3. /\ w \in Callers /\ caller' = [caller EXCEPT ![w] = r] /\ caller[w].pc = "busy"
      /\ UNCHANGED <<buf, pending, consumer, unsent>>
  BY <1>1 DEF Settle, Callers
<1>4. /\ caller' \in [Callers -> CallerState]
      /\ \A b \in Callers :
           /\ caller'[b].pc \notin {"idle", "exit"} <=> caller'[b].msg # None
           /\ caller'[b].pc \in {"note", "send"} => caller'[b].ch \in Makers
      /\ \A b \in Callers \ {w} : CallerJob(b)' = CallerJob(b)
      /\ CallerJob(w)' = {}
      /\ Sending' = Sending \ {w}
  BY <1>2, <1>3, CallerStep DEF IInv
<1>5. Sending' = Sending
  BY <1>3, <1>4 DEF Sending
<1>6. TInv'
  BY <1>4 DEF IInv, TInv, TypeOK, CallerState, Settle
<1>7. Stored' = Stored /\ ChannelJobs' = ChannelJobs /\ HandJob' = HandJob /\ Popping' = Popping
  BY <1>3 DEF Stored, ChannelJobs, HandJob, Popping
<1>8. OneJob'
  <2>1. \A a, b \in Callers : a # b => CallerJob(a)' \cap CallerJob(b)' = {}
    BY <1>4 DEF IInv, OneJob
  <2>2. \A a \in Callers : CallerJob(a)' \cap (ChannelJobs \cup HandJob \cup unsent) = {}
    BY <1>4 DEF IInv, OneJob
  <2>. QED
    BY <1>3, <1>7, <2>1, <2>2 DEF IInv, OneJob, Distinct
<1>9. Counted'
  BY <1>3, <1>5, <1>7 DEF IInv, Counted
<1>. QED
  BY <1>6, <1>8, <1>9 DEF IInv

LEMMA SameKept == ASSUME IInv, Cancel \/ UNCHANGED vars PROVE IInv'
<1>1. UNCHANGED <<queues, buf, pending, caller, consumer, unsent>> /\ ctxDone' \in BOOLEAN
  BY DEF Cancel, vars, IInv, TInv, TypeOK
<1>2. TInv'
  BY <1>1 DEF IInv, TInv, TypeOK
<1>3. /\ Stored' = Stored /\ ChannelJobs' = ChannelJobs /\ HandJob' = HandJob
      /\ Popping' = Popping /\ Sending' = Sending /\ \A a \in Callers : CallerJob(a)' = CallerJob(a)
  BY <1>1 DEF Stored, ChannelJobs, HandJob, Popping, Sending, CallerJob, JobOf
<1>4. OneJob'
  BY <1>1, <1>3 DEF IInv, OneJob, Distinct
<1>5. Counted'
  BY <1>1, <1>3 DEF IInv, Counted
<1>. QED
  BY <1>2, <1>4, <1>5 DEF IInv

LEMMA NextKept == IInv /\ [Next]_vars => IInv'
<1> SUFFICES ASSUME IInv, [Next]_vars PROVE IInv'
  OBVIOUS
<1>1. CASE \E c \in Clients, j \in Ids : Call(c, j)
  BY <1>1, CallKept
<1>2. CASE \E a \in Callers : InEnqueue(a)
  BY <1>2, LookKept, MakeKept, NoteKept, SendKept DEF InEnqueue
<1>3. CASE Start
  BY <1>3, ConsumerKept
<1>4. CASE InConsume
  BY <1>4, ConsumerKept, ReceiveKept, PopKept, HandKept DEF InConsume
<1>5. CASE \E w \in Workers : Settle(w) \/ Retry(w) \/ Exit(w)
  BY <1>5, SettleKept, RetryKept, ExitKept
<1>6. CASE Cancel \/ UNCHANGED vars
  BY <1>6, SameKept
<1>. QED
  BY <1>1, <1>2, <1>3, <1>4, <1>5, <1>6 DEF Next

(***************************************************************************)
(* The inductive invariant of Enqueue, Consume and the processors: every   *)
(* job is unsent, with one caller, in one channel or in the consumer's     *)
(* hand, and the list of pending messages counts those it should.          *)
(***************************************************************************)
THEOREM Inductive == Spec => []IInv
<1>1. Init => IInv
  BY InitHolds
<1>2. IInv /\ [Next]_vars => IInv'
  BY NextKept
<1>. QED
  BY <1>1, <1>2, PTL DEF Spec

(***************************************************************************)
(* Consume never cuts an empty list: `b.pending[queue][1:]` finds an entry *)
(* for the message just received, and the list is exactly as long as the   *)
(* messages noted by Enqueue and not yet popped by Consume.                *)
(***************************************************************************)
THEOREM Counting == Spec => []PendingCounts
<1>1. IInv => PendingCounts
  BY DEF IInv, Counted, PendingCounts, Sending, Popping
<1>. QED
  BY <1>1, Inductive, PTL

(***************************************************************************)
(* Nothing is delivered twice: a message is with one caller, at one place  *)
(* of one channel, with the consumer or with one processor, however many   *)
(* goroutines made a channel for the queue (Enqueue, Consume, process).    *)
(***************************************************************************)
THEOREM Places == Spec => []OnePlace
<1> SUFFICES ASSUME IInv PROVE OnePlace
  BY Inductive, PTL
<1>1. \A a \in Callers : caller[a].msg # None => caller[a].msg \in Msg /\ CallerJob(a) = {caller[a].msg.id}
  BY MsgType DEF IInv, TInv, TypeOK, CallerJob
<1>2. \A m \in Stored : m \in Msg /\ m.id \in ChannelJobs
  BY StoredType DEF IInv, TInv, ChannelJobs
<1>3. \A m \in Held : m \in Msg /\ m.id \in HandJob
  BY DEF Held, HandJob, IInv, TInv
<1>4. \A a, b \in Callers : a # b /\ caller[a].msg # None => caller[a].msg # caller[b].msg
  BY <1>1 DEF IInv, OneJob
<1>5. \A a \in Callers : caller[a].msg \notin Stored \cup Held
  <2>1. \A a \in Callers : caller[a].msg # None => caller[a].msg \notin Stored \cup Held
    BY <1>1, <1>2, <1>3 DEF IInv, OneJob
  <2>2. None \notin Stored \cup Held
    BY <1>2, <1>3, MsgType
  <2>. QED
    BY <2>1, <2>2
<1>6. Stored \cap Held = {}
  BY <1>2, <1>3 DEF IInv, OneJob
<1>7. \A c, d \in Makers : \A i \in DOMAIN buf[c], k \in DOMAIN buf[d] :
        buf[c][i] = buf[d][k] => c = d /\ i = k
  BY DEF IInv, OneJob, Distinct
<1>. QED
  BY <1>4, <1>5, <1>6, <1>7 DEF OnePlace, IInv, TInv

-----------------------------------------------------------------------------
(* The broker that was promised                                            *)

LEMMA InitPromised == Init => Promised!Init
BY DEF Init, At, Stored, Held, Promised!Init

LEMMA NextPromised == IInv /\ [Next]_vars => [Promised!Next]_(Promised!vars)
<1> SUFFICES ASSUME IInv, [Next]_vars
             PROVE  \/ Stored' = Stored /\ Held' = Held
                    \/ \E m \in Msg : Promised!Enqueue(m) \/ Promised!Take(m) \/ Promised!Give(m)
  BY DEF Promised!Next, Promised!vars
<1>1. buf' = buf => Stored' = Stored
  BY DEF Stored
<1>2. ASSUME consumer' = consumer \/ {consumer.pc, consumer'.pc} \cap {"pop", "hand"} = {}
      PROVE  Held' = Held
  BY <1>2 DEF Held
<1>3. CASE (\E c \in Clients, j \in Ids : Call(c, j)) \/ Cancel \/ UNCHANGED vars
  BY <1>1, <1>2, <1>3 DEF Call, Cancel, vars
<1>4. CASE \E w \in Workers : Settle(w) \/ Retry(w) \/ Exit(w)
  BY <1>1, <1>2, <1>4 DEF Settle, Retry, Exit
<1>5. CASE \E a \in Callers : InEnqueue(a)
  <2>1. PICK a \in Callers : Look(a) \/ Make(a) \/ Note(a) \/ Send(a)
    BY <1>5 DEF InEnqueue
  <2>2. CASE Look(a) \/ Make(a) \/ Note(a)
    BY <1>1, <1>2, <2>2 DEF Look, Make, Note
  <2>3. CASE Send(a)
    <3>1. PICK m : m = caller[a].msg
      OBVIOUS
    <3>2. m \in Msg /\ m.id \notin HandJob /\ m \notin Stored /\ Stored' = Stored \cup {m}
      BY <2>3, <3>1, SendStores
    <3>3. m \notin Held
      BY <3>2 DEF Held, HandJob
    <3>4. Held' = Held
      BY <1>2, <2>3 DEF Send
    <3>. QED
      BY <3>2, <3>3, <3>4 DEF Promised!Enqueue
  <2>. QED
    BY <2>1, <2>2, <2>3
<1>6. CASE Start \/ ConsumerLook \/ ConsumerMake \/ Stop
  <2>1. buf' = buf
    BY <1>6 DEF Start, ConsumerLook, ConsumerMake, Stop
  <2>2. consumer \in ConsumerState
    BY DEF IInv, TInv, TypeOK, ConsumerState
  <2>3. consumer.pc \notin {"pop", "hand"}
    BY <1>6 DEF Start, ConsumerLook, ConsumerMake, Stop
  <2>4. consumer'.pc \in {"look", "make", "loop", "closed"}
    <3>1. CASE Start \/ Stop
      BY <3>1 DEF Start, Stop, At
    <3>2. CASE ConsumerLook
      BY <2>2, <3>2 DEF ConsumerLook, ConsumerState
    <3>3. CASE ConsumerMake
      BY <2>2, <3>3 DEF ConsumerMake, ConsumerState
    <3>. QED
      BY <1>6, <3>1, <3>2, <3>3
  <2>. QED
    BY <1>1, <1>2, <2>1, <2>3, <2>4
<1>7. CASE Receive
  <2>1. PICK m : m = Head(buf[consumer.ch])
    OBVIOUS
  <2>2. /\ m \in Msg /\ m \in Stored /\ Stored' = Stored \ {m}
        /\ consumer'.pc = "pop" /\ consumer'.msg = m
    BY <1>7, <2>1, ReceiveTakes
  <2>3. Held = {} /\ Held' = {m}
    BY <1>7, <2>2 DEF Held, Receive
  <2>. QED
    BY <2>2, <2>3 DEF Promised!Take
<1>8. CASE Pop
  <2>1. consumer \in ConsumerState /\ consumer.pc = "pop" /\ buf' = buf
    BY <1>8 DEF Pop, IInv, TInv, TypeOK, ConsumerState
  <2>2. consumer'.pc = "hand" /\ consumer'.msg = consumer.msg
    BY <1>8, <2>1, PopFinds DEF ConsumerState
  <2>. QED
    BY <1>1, <2>1, <2>2 DEF Held
<1>9. CASE \E w \in Workers : Hand(w)
  <2>1. PICK w \in Workers : Hand(w)
    BY <1>9
  <2>2. consumer \in ConsumerState /\ consumer.pc = "hand" /\ buf' = buf /\ consumer.msg \in Msg
    BY <2>1 DEF Hand, IInv, TInv, TypeOK, ConsumerState
  <2>3. consumer'.pc = "loop"
    BY <2>1, <2>2 DEF Hand, ConsumerState
  <2>4. Held = {consumer.msg} /\ Held' = {}
    BY <2>2, <2>3 DEF Held
  <2>. QED
    BY <1>1, <2>2, <2>4 DEF Promised!Give
<1>. QED
  BY <1>3, <1>4, <1>5, <1>6, <1>7, <1>8, <1>9 DEF Next, InConsume

(***************************************************************************)
(* The map of channels, the pending list and the Consume goroutine are the *)
(* Broker that the job server relies on: Enqueue adds at its channel send, *)
(* Consume takes at its receive and gives at `work <- msg`.                *)
(***************************************************************************)
THEOREM Promise == Spec => ImplementsBroker
<1>1. Init => Promised!Init
  BY InitPromised
<1>2. IInv /\ [Next]_vars => [Promised!Next]_(Promised!vars)
  BY NextPromised
<1>. QED
  BY <1>1, <1>2, Inductive, PTL DEF Spec, ImplementsBroker, Promised!Spec

-----------------------------------------------------------------------------
(* Pages of the pending list                                               *)

(***************************************************************************)
(* GetPendingWithPagination, for every list, offset and limit: the page of *)
(* the in-memory broker holds the items from the offset on, as many as the *)
(* clamped limit allows; the Redis broker gives the same page of a list    *)
(* that does not change, and no other items when the list changes between  *)
(* its LLEN and its LRANGE.                                                *)
(***************************************************************************)
THEOREM Pages ==
  ASSUME NEW S, NEW list \in Seq(S), NEW offset \in Int, NEW limit \in Int
  PROVE  LET page == MemoryPage(list, offset, limit) IN
         /\ page.total = Len(list) /\ IsPage(page, list, offset, limit)
         /\ RedisPage(Len(list), list, offset, limit) = page
         /\ \A total \in Nat : RedisPage(total, list, offset, limit).items \in {<<>>, page.items}
<1> DEFINE page == MemoryPage(list, offset, limit)
<1>0. PICK first, size, len : first = From(offset) /\ size = Size(limit) /\ len = Len(list)
  OBVIOUS
<1>1. first \in Nat /\ len \in Nat /\ size \in Nat \ {0} /\ size <= MaxLimit /\ MaxLimit \in Nat
  BY <1>0, LimitAssumption DEF From, Size
<1>2. PICK last : last = IF first + size > len THEN len ELSE first + size
  OBVIOUS
<1>3. PICK cut : cut = SubSeq(list, first + 1, last)
  OBVIOUS
<1>4. /\ page.total = len
      /\ first < len => page.items = cut /\ page = Page(cut, len)
      /\ first >= len => page.items = <<>> /\ page = Page(<<>>, len)
  <2>1. page = IF first >= len THEN Page(<<>>, len) ELSE Page(cut, len)
    BY <1>0, <1>2, <1>3 DEF MemoryPage
  <2>2. first < len <=> ~(first >= len)
    BY <1>1
  <2>. QED
    BY <2>1, <2>2 DEF Page
<1>5. /\ first < len => /\ last \in Nat /\ first < last /\ last <= len
                        /\ DOMAIN cut = 1 .. last - first
                        /\ \A i \in 1 .. last - first : cut[i] = list[first + i]
  <2> SUFFICES ASSUME first < len
               PROVE  /\ last \in Nat /\ first < last /\ last <= len
                      /\ DOMAIN cut = 1 .. last - first
                      /\ \A i \in 1 .. last - first : cut[i] = list[first + i]
    OBVIOUS
  <2>1. last \in Nat /\ first < last /\ last <= len
    BY <1>1, <1>2
  <2>2. cut = [i \in 1 .. last - first |-> list[i + first]]
    BY <1>0, <1>1, <1>3, <2>1
  <2>3. \A i \in 1 .. last - first : i + first = first + i
    BY <1>1, <2>1
  <2>. QED
    BY <2>1, <2>2, <2>3
<1>6. IsPage(page, list, offset, limit)
  <2> SUFFICES ASSUME NEW i \in 1 .. MaxLimit + 1
               PROVE  IF i <= size /\ first + i <= len
                      THEN i \in DOMAIN page.items /\ page.items[i] = list[first + i]
                      ELSE i \notin DOMAIN page.items
    BY <1>0 DEF IsPage
  <2>1. CASE first < len
    <3>1. page.items = cut /\ DOMAIN cut = 1 .. last - first
      BY <1>4, <1>5, <2>1
    <3>2. i <= size /\ first + i <= len <=> i \in 1 .. last - first
      BY <1>1, <1>2, <1>5, <2>1
    <3>. QED
      BY <1>5, <2>1, <3>1, <3>2
  <2>2. CASE first >= len
    <3>1. page.items = <<>> /\ DOMAIN <<>> = {}
      BY <1>4, <2>2
    <3>2. ~(first + i <= len)
      BY <1>1, <2>2
    <3>. QED
      BY <3>1, <3>2
  <2>. QED
    BY <1>1, <2>1, <2>2
<1>7. LRange(list, first, first + size - 1) = cut
  <2>1. (IF first + size - 1 >= len THEN len ELSE first + size - 1 + 1) = last
    BY <1>1, <1>2
  <2>. QED
    BY <1>0, <1>3, <2>1 DEF LRange
<1>8. RedisPage(len, list, offset, limit) = page
  BY <1>0, <1>1, <1>4, <1>7 DEF RedisPage
<1>9. first >= len => cut = <<>>
  <2>1. SUFFICES ASSUME first >= len PROVE cut = <<>>
    OBVIOUS
  <2>2. last = len /\ first + 1 > len
    BY <1>1, <1>2, <2>1
  <2>. QED
    BY <1>0, <1>1, <1>3, <2>2
<1>10. ASSUME NEW total \in Nat PROVE RedisPage(total, list, offset, limit).items \in {<<>>, page.items}
  <2>1. RedisPage(total, list, offset, limit).items \in {<<>>, cut}
    BY <1>0, <1>7 DEF RedisPage, Page
  <2>. QED
    BY <1>1, <1>4, <1>9, <2>1
<1>. QED
  BY <1>0, <1>4, <1>6, <1>8, <1>10

(* A set with 0 and the successor of each of its numbers holds them all:   *)
(* induction over Nat, for a property written as a set.                    *)
LEMMA CountUp ==
  ASSUME NEW S, 0 \in S, \A n \in Nat : n \in S => n + 1 \in S
  PROVE  Nat \subseteq S
<1> DEFINE Missing == Nat \ S
           R == OpToRel(<, Nat)
<1> SUFFICES ASSUME Missing # {}
             PROVE  FALSE
  OBVIOUS
<1>1. Missing \subseteq Nat
  OBVIOUS
<1>2. PICK n \in Missing : \A k \in Missing : ~(<<k, n>> \in R)
  <2>1. IsWellFoundedOn(R, Nat)
    BY NatLessThanWellFounded
  <2> HIDE DEF Missing, R
  <2>. QED
    BY <1>1, <2>1, WFMin
<1>3. n \in Nat /\ n # 0 /\ n \notin S
  BY <1>2
<1>4. n - 1 \in Nat /\ n - 1 < n
  BY <1>3
<1>5. <<n - 1, n>> \in R
  BY <1>3, <1>4 DEF OpToRel
<1>6. n - 1 \in S /\ (n - 1) + 1 = n
  <2>1. n - 1 \notin Missing
    <3> HIDE DEF R, Missing
    <3>. QED
      BY <1>2, <1>5
  <2>. QED
    BY <1>3, <1>4, <2>1
<1>. QED
  BY <1>3, <1>4, <1>6

(* FlattenSeq is the last value of its recursive function: a function h    *)
(* that follows the recursion is the one it defines.                       *)
LEMMA Unfolded ==
  ASSUME NEW n \in Nat \ {0}, NEW seqs, Len(seqs) = n, NEW h,
         h = [i \in 1 .. n |-> IF i = 1 THEN seqs[i] ELSE h[i - 1] \o seqs[i]]
  PROVE  FlattenSeq(seqs) = h[n]
<1> DEFINE Follows(g) == g = [i \in 1 .. n |-> IF i = 1 THEN seqs[i] ELSE g[i - 1] \o seqs[i]]
<1>1. FlattenSeq(seqs) = (CHOOSE g : Follows(g))[n]
  BY DEF FlattenSeq
<1>2. PICK g : g = (CHOOSE f : Follows(f))
  OBVIOUS
<1>3. Follows(g)
  <2>1. Follows(h)
    OBVIOUS
  <2> HIDE DEF Follows
  <2>. QED
    BY <1>2, <2>1
<1>4. \A i \in 1 .. n : /\ i = 1 => g[i] = seqs[i] /\ h[i] = seqs[i]
                        /\ i # 1 => g[i] = g[i - 1] \o seqs[i] /\ h[i] = h[i - 1] \o seqs[i]
  BY <1>3
<1> DEFINE Same == {i \in Nat : i \in 1 .. n => g[i] = h[i]}
<1>5. 0 \in Same
  OBVIOUS
<1>6. ASSUME NEW i \in Nat, i \in Same
      PROVE  i + 1 \in Same
  <2>1. CASE i + 1 \in 1 .. n
    <3>1. i + 1 = 1 \/ (i + 1 # 1 /\ i \in 1 .. n /\ (i + 1) - 1 = i)
      BY <2>1
    <3>2. PICK k \in 1 .. n : k = i + 1
      BY <2>1
    <3>3. CASE k = 1
      <4>1. g[k] = seqs[k] /\ h[k] = seqs[k]
        BY <1>4, <3>3
      <4>. QED
        BY <3>2, <4>1
    <3>4. CASE k # 1
      <4>1. i \in 1 .. n /\ k - 1 = i
        BY <1>6, <3>2, <3>4
      <4>2. g[i] = h[i]
        BY <1>6, <4>1
      <4>3. g[k] = g[k - 1] \o seqs[k] /\ h[k] = h[k - 1] \o seqs[k]
        BY <1>4, <3>4
      <4>4. g[k] = h[k]
        BY <4>1, <4>2, <4>3
      <4>. QED
        BY <3>2, <4>4
    <3>. QED
      BY <3>3, <3>4
  <2>2. CASE i + 1 \notin 1 .. n
    BY <2>2
  <2>. QED
    BY <2>1, <2>2
<1>7. Nat \subseteq Same
  <2> HIDE DEF Same
  <2>. QED
    BY <1>5, <1>6, CountUp
<1>8. g[n] = h[n]
  BY <1>7
<1>. QED
  BY <1>1, <1>2, <1>8

(***************************************************************************)
(* A reader that asks for page after page with one limit, without a change *)
(* in between, sees each pending message once and in order                 *)
(* (GetPendingWithPagination): the first k pages are a prefix of the list. *)
(***************************************************************************)
THEOREM Walked ==
  ASSUME NEW S, NEW list \in Seq(S), NEW limit \in Int
  PROVE  Walk(list, limit) = list
<1>0. PICK size, n : size = Size(limit) /\ n = Len(list)
  OBVIOUS
<1>1. n \in Nat /\ size \in Nat \ {0}
  BY <1>0, LimitAssumption DEF Size
<1> DEFINE Cut(k) == IF k * size > n THEN n ELSE k * size
           pages == [k \in 1 .. n |-> MemoryPage(list, (k - 1) * Size(limit), limit).items]
           h == [k \in 1 .. n |-> SubSeq(list, 1, Cut(k))]
<1>2. Walk(list, limit) = FlattenSeq(pages) /\ Len(pages) = n
  BY <1>0, <1>1 DEF Walk
<1>3. CASE n = 0
  <2>1. FlattenSeq(pages) = pages
    BY <1>2, <1>3 DEF FlattenSeq
  <2>2. list = [k \in 1 .. n |-> list[k]]
    BY <1>0
  <2>3. 1 .. n = {}
    BY <1>3
  <2>4. pages = list
    BY <2>2, <2>3
  <2>. QED
    BY <1>2, <2>1, <2>4
<1>4. CASE n # 0
  <2>1. \A k \in 1 .. n : /\ Cut(k) \in 1 .. n /\ k * size \in Nat /\ (k - 1) * size \in Nat
                          /\ (k - 1) * size + size = k * size
    BY <1>1, <1>4
  <2>2. \A k \in 1 .. n : pages[k] = SubSeq(list, (k - 1) * size + 1, Cut(k))
    <3> SUFFICES ASSUME NEW k \in 1 .. n
                 PROVE  pages[k] = SubSeq(list, (k - 1) * size + 1, Cut(k))
      OBVIOUS
    <3>1. PICK first, last : first = (k - 1) * size /\ last = k * size
      OBVIOUS
    <3>2. first \in Nat /\ last = first + size
      BY <2>1, <3>1
    <3>3. pages[k] = MemoryPage(list, first, limit).items
      BY <1>0, <3>1
    <3>4. From(first) = first
      BY <3>2 DEF From
    <3>5. CASE first >= n
      <4>1. MemoryPage(list, first, limit).items = <<>>
        BY <1>0, <3>4, <3>5 DEF MemoryPage, Page
      <4>2. last > n
        BY <1>1, <3>2, <3>5
      <4>3. SubSeq(list, first + 1, n) = <<>>
        BY <1>0, <1>1, <3>2, <3>5
      <4>. QED
        BY <3>1, <3>3, <4>1, <4>2, <4>3
    <3>6. CASE ~(first >= n)
      <4>1. MemoryPage(list, first, limit).items = SubSeq(list, first + 1, IF last > n THEN n ELSE last)
        BY <1>0, <3>2, <3>4, <3>6 DEF MemoryPage, Page
      <4>. QED
        BY <3>1, <3>3, <4>1
    <3>. QED
      BY <3>5, <3>6
  <2>3. h = [i \in 1 .. n |-> IF i = 1 THEN pages[i] ELSE h[i - 1] \o pages[i]]
    <3> SUFFICES ASSUME NEW i \in 1 .. n
                 PROVE  h[i] = IF i = 1 THEN pages[i] ELSE h[i - 1] \o pages[i]
      OBVIOUS
    <3>1. h[i] = SubSeq(list, 1, Cut(i)) /\ pages[i] = SubSeq(list, (i - 1) * size + 1, Cut(i))
      BY <2>2
    <3>2. CASE i = 1
      <4>1. (i - 1) * size + 1 = 1
        BY <1>1, <3>2
      <4>. QED
        BY <3>1, <3>2, <4>1
    <3>3. CASE i # 1
      <4>1. i - 1 \in 1 .. n /\ h[i - 1] = SubSeq(list, 1, Cut(i - 1))
        BY <1>1, <3>3
      <4>2. PICK a, first, b : a = Cut(i - 1) /\ first = (i - 1) * size /\ b = Cut(i)
        OBVIOUS
      <4>3. a \in 1 .. n /\ b \in 1 .. n /\ first \in Nat /\ a <= b
        BY <1>1, <2>1, <4>1, <4>2
      <4>4. /\ first < n => a = first
            /\ first >= n => a = n /\ b = n
        BY <1>1, <2>1, <4>1, <4>2
      <4>5. SubSeq(list, 1, b) = SubSeq(list, 1, a) \o SubSeq(list, first + 1, b)
        <5>1. CASE first < n
          BY <1>0, <1>1, <4>3, <4>4, <5>1
        <5>2. CASE first >= n
          <6>1. SubSeq(list, first + 1, b) = <<>>
            BY <1>0, <1>1, <4>3, <4>4, <5>2
          <6>2. SubSeq(list, 1, a) \in Seq(S)
            BY <1>0, <4>3
          <6>3. PICK whole : whole = SubSeq(list, 1, a)
            OBVIOUS
          <6>4. whole \o <<>> = whole
            BY <6>2, <6>3
          <6>. QED
            BY <4>4, <5>2, <6>1, <6>3, <6>4
        <5>3. first < n \/ first >= n
          BY <1>1, <4>3
        <5>. QED
          BY <5>1, <5>2, <5>3
      <4>. QED
        BY <3>1, <3>3, <4>1, <4>2, <4>5
    <3>. QED
      BY <3>2, <3>3
  <2>4. FlattenSeq(pages) = h[n]
    <3> HIDE DEF pages, h
    <3>. QED
      BY <1>1, <1>2, <1>4, <2>3, Unfolded
  <2>5. h[n] = list
    <3>1. n * size >= n
      BY <1>1
    <3>2. Cut(n) = n
      BY <1>1, <3>1
    <3>3. SubSeq(list, 1, n) = list
      BY <1>0
    <3>. QED
      BY <1>1, <1>4, <3>2, <3>3
  <2>. QED
    BY <1>2, <2>4, <2>5
<1>. QED
  BY <1>1, <1>3, <1>4

(***************************************************************************)
(* Pages of the pending list are right in every reachable state, for every *)
(* offset and limit in or out of range (GetPendingWithPagination).         *)
(***************************************************************************)
THEOREM PagesStayRight == Spec => []PagesAreRight
<1>1. ASSUME OnePlace
      PROVE  PagesAreRight
  <2>1. pending \in Seq(Msg) /\ Len(pending) \in Nat /\ MaxLimit \in Nat
    BY <1>1, LimitAssumption DEF OnePlace, TypeOK
  <2> SUFFICES ASSUME NEW limit \in Limits
               PROVE  /\ Walk(pending, limit) = pending
                      /\ \A offset \in Offsets :
                           LET page == MemoryPage(pending, offset, limit) IN
                           /\ page.total = Len(pending) /\ IsPage(page, pending, offset, limit)
                           /\ RedisPage(Len(pending), pending, offset, limit) = page
                           /\ \A total \in 0 .. Len(pending) + 1 :
                                RedisPage(total, pending, offset, limit).items \in {<<>>, page.items}
    BY DEF PagesAreRight
  <2>2. limit \in Int
    BY <2>1 DEF Limits
  <2>3. Walk(pending, limit) = pending
    BY <2>1, <2>2, Walked
  <2>4. ASSUME NEW offset \in Offsets
        PROVE  LET page == MemoryPage(pending, offset, limit) IN
               /\ page.total = Len(pending) /\ IsPage(page, pending, offset, limit)
               /\ RedisPage(Len(pending), pending, offset, limit) = page
               /\ \A total \in 0 .. Len(pending) + 1 :
                    RedisPage(total, pending, offset, limit).items \in {<<>>, page.items}
    <3>1. offset \in Int /\ 0 .. Len(pending) + 1 \subseteq Nat
      BY <2>1 DEF Offsets
    <3>. QED
      BY <2>1, <2>2, <3>1, Pages
  <2>. QED
    BY <2>3, <2>4
<1>. QED
  BY <1>1, Places, PTL

=============================================================================
