--------------------------- MODULE NatsBroker_proofs ---------------------------
(***************************************************************************)
(* Proofs about NatsBroker, for every set of messages and of processes and *)
(* every number of faults: what is stored is not forgotten, and only a     *)
(* fault doubles a delivery.                                               *)
(***************************************************************************)
EXTENDS NatsBroker, FiniteSetTheorems, FunctionTheorems, SequenceTheorems, TLAPS

-----------------------------------------------------------------------------
(* The places of a message in a sequence, and how Append and Tail change   *)
(* their number.                                                           *)

Places(s, j) == {i \in DOMAIN s : s[i] = j}

LEMMA PlacesFinite ==
  ASSUME NEW S, NEW s \in Seq(S), NEW j
  PROVE  IsFiniteSet(Places(s, j)) /\ Cardinality(Places(s, j)) \in Nat
<1>1. Places(s, j) \in SUBSET (1 .. Len(s)) /\ IsFiniteSet(1 .. Len(s))
  BY FS_Interval DEF Places
<1>. QED
  BY <1>1, FS_Subset, FS_CardinalityType

LEMMA PlacesEmpty ==
  ASSUME NEW j
  PROVE  Cardinality(Places(<<>>, j)) = 0
<1>1. Places(<<>>, j) = {}
  BY DEF Places
<1>. QED
  BY <1>1, FS_EmptySet

LEMMA PlacesAppend ==
  ASSUME NEW S, NEW s \in Seq(S), NEW k \in S, NEW j
  PROVE  Cardinality(Places(Append(s, k), j)) = Cardinality(Places(s, j)) + (IF j = k THEN 1 ELSE 0)
<1>1. Len(s) + 1 \notin Places(s, j)
  BY DEF Places
<1>2. CASE j = k
  <2>1. Places(Append(s, k), j) = Places(s, j) \cup {Len(s) + 1}
    BY <1>2, AppendProperties DEF Places
  <2>. QED
    BY <1>1, <1>2, <2>1, PlacesFinite, FS_AddElement
<1>3. CASE j # k
  <2>1. Places(Append(s, k), j) = Places(s, j)
    BY <1>3, AppendProperties DEF Places
  <2>. QED
    BY <1>3, <2>1, PlacesFinite
<1>. QED
  BY <1>2, <1>3

LEMMA PlacesTail ==
  ASSUME NEW S, NEW s \in Seq(S), s # <<>>, NEW j
  PROVE  Cardinality(Places(s, j)) = Cardinality(Places(Tail(s), j)) + (IF j = Head(s) THEN 1 ELSE 0)
<1> DEFINE A == Places(Tail(s), j)
           B == Places(s, j) \ {1}
           F == [i \in A |-> i + 1]
<1>1. Tail(s) \in Seq(S) /\ Len(Tail(s)) = Len(s) - 1 /\ Len(s) \in Nat \ {0}
  BY HeadTailProperties, EmptySeq
<1>2. \A i \in 1 .. (Len(s) - 1) : Tail(s)[i] = s[i + 1]
  BY <1>1, HeadTailProperties
<1>3. F \in Bijection(A, B)
  <2>1. A = {i \in 1 .. (Len(s) - 1) : s[i + 1] = j} /\ B = {i \in 2 .. Len(s) : s[i] = j}
    BY <1>1, <1>2 DEF Places
  <2>2. F \in [A -> B]
    BY <1>1, <2>1
  <2>3. \A a, b \in A : F[a] = F[b] => a = b
    BY <1>1, <2>1
  <2>4. \A t \in B : \E a \in A : F[a] = t
    <3>1. ASSUME NEW t \in B PROVE t - 1 \in A /\ F[t - 1] = t
      BY <1>1, <2>1
    <3>. QED
      BY <3>1
  <2> HIDE DEF A, B, F
  <2>. QED
    BY <2>2, <2>3, <2>4, Fun_IsBij
<1>4. IsFiniteSet(A) /\ Cardinality(A) \in Nat
  BY <1>1, PlacesFinite
<1>5. Cardinality(B) = Cardinality(A)
  <2> HIDE DEF A, B, F
  <2>. QED
    BY <1>3, <1>4, FS_Bijection DEF ExistsBijection
<1>6. Cardinality(B) = IF 1 \in Places(s, j) THEN Cardinality(Places(s, j)) - 1 ELSE Cardinality(Places(s, j))
  BY PlacesFinite, FS_RemoveElement
<1>7. 1 \in Places(s, j) <=> j = Head(s)
  BY <1>1 DEF Places
<1>. QED
  BY <1>4, <1>5, <1>6, <1>7, PlacesFinite

LEMMA PlacesToSet ==
  ASSUME NEW S, NEW s \in Seq(S), NEW j
  PROVE  j \in ToSet(s) <=> Cardinality(Places(s, j)) # 0
<1>1. j \in ToSet(s) <=> Places(s, j) # {}
  BY DEF ToSet, Places
<1>. QED
  BY <1>1, PlacesFinite, FS_EmptySet

-----------------------------------------------------------------------------
(* The inductive invariant.                                                *)

(* Copies of j on their way to a worker of p.                              *)
OnTheWay(p, j) ==
  Cardinality(Places(inbox[p], j)) + (IF callback[p] = [pc |-> "hand", msg |-> j] THEN 1 ELSE 0)

(* Only the process that has the durable consumer has messages in memory,  *)
(* and JetStream has sent each of them.                                    *)
InMemory ==
  \A p \in Procs :
    /\ p # bound => inbox[p] = <<>> /\ callback[p] = Idle
    /\ callback[p].pc = "idle" <=> callback[p].msg = None
    /\ callback[p].pc # "idle" => callback[p].msg \in out \cup acked
    /\ ToSet(inbox[p]) \subseteq out \cup acked

(* A message is acknowledged after it was handed over.                     *)
HandedFirst ==
  /\ \A p \in Procs : callback[p].pc = "ack" => given[callback[p].msg] > 0
  /\ \A j \in acked : given[j] > 0
  /\ \A j \in Jobs : given[j] > 0 => j \in out \cup acked

(* What may still be handed over counts too; and a message that is sent    *)
(* again though nobody has it was doubled by a fault already.              *)
Accounted ==
  \A j \in Jobs :
    /\ given[j] <= 1 + faults
    /\ \A p \in Procs : given[j] + OnTheWay(p, j) <= 1 + faults
    /\ j \in out /\ ~Waits(j) => given[j] <= faults

IInv ==
  /\ TypeOK /\ InMemory /\ HandedFirst /\ Accounted
  /\ \A j \in Jobs : answer[j] = "ok" => j \in stream

-----------------------------------------------------------------------------
(* The invariant is inductive.                                             *)

LEMMA WayType ==
  ASSUME TypeOK, NEW p \in Procs, NEW j
  PROVE  /\ OnTheWay(p, j) \in Nat
         /\ Cardinality(Places(inbox[p], j)) \in Nat
         /\ j \in ToSet(inbox[p]) => OnTheWay(p, j) > 0
<1>1. inbox[p] \in Seq(Jobs)
  BY DEF TypeOK
<1>2. Cardinality(Places(inbox[p], j)) \in Nat /\ (j \in ToSet(inbox[p]) <=> Cardinality(Places(inbox[p], j)) # 0)
  BY <1>1, PlacesFinite, PlacesToSet
<1>. QED
  BY <1>2 DEF OnTheWay

(* A process without messages in memory has none on the way.               *)
LEMMA NothingOnTheWay ==
  ASSUME NEW p \in Procs, inbox[p] = <<>>, callback[p] = Idle, NEW j
  PROVE  OnTheWay(p, j) = 0
BY PlacesEmpty DEF OnTheWay, Idle

(* No copy of a message that has not been sent is anywhere.                *)
LEMMA Nowhere ==
  ASSUME IInv, NEW j \in Jobs, ~Waits(j), NEW p \in Procs
  PROVE  OnTheWay(p, j) = 0
<1>1. inbox[p] \in Seq(Jobs) /\ j \notin ToSet(inbox[p]) /\ callback[p].msg # j
  BY DEF IInv, TypeOK, Waits
<1>2. Cardinality(Places(inbox[p], j)) = 0
  BY <1>1, PlacesFinite, PlacesToSet
<1>. QED
  BY <1>1, <1>2 DEF OnTheWay

(* A step that leaves memories, acknowledgements and history alone.        *)
LEMMA Outside ==
  ASSUME IInv, TypeOK', UNCHANGED <<out, acked, inbox, callback, given>>, faults <= faults',
         \A p \in Procs : p # bound' => p # bound \/ (inbox[p] = <<>> /\ callback[p] = Idle),
         \A j \in Jobs : answer'[j] = "ok" => j \in stream'
  PROVE  IInv'
<1>1. \A j \in Jobs, p \in Procs : OnTheWay(p, j)' = OnTheWay(p, j) /\ OnTheWay(p, j) \in Nat
  BY WayType DEF OnTheWay, IInv
<1>2. \A j \in Jobs : Waits(j)' = Waits(j)
  BY DEF Waits
<1>3. faults \in Nat /\ faults' \in Nat /\ \A j \in Jobs : given[j] \in Nat
  BY DEF TypeOK, IInv
<1>4. InMemory'
  BY DEF IInv, InMemory
<1>5. HandedFirst'
  BY DEF IInv, HandedFirst
<1>6. Accounted'
  BY <1>1, <1>2, <1>3 DEF IInv, Accounted
<1>. QED
  BY <1>4, <1>5, <1>6 DEF IInv

LEMMA TypeStep == TypeOK /\ InMemory /\ [Next]_vars => TypeOK'
<1> SUFFICES ASSUME TypeOK, InMemory, [Next]_vars PROVE TypeOK'
  OBVIOUS
<1>0. CASE UNCHANGED vars
  BY <1>0 DEF TypeOK, vars, jetstream
<1>f. ASSUME Fault PROVE faults' \in 0 .. MaxFaults
  BY <1>f, NatsAssumption DEF Fault, TypeOK
<1>1. ASSUME NEW j \in Jobs, NEW r \in {"ok", "failed", "lost"}, Publish(j, r) PROVE TypeOK'
  BY <1>1, <1>f DEF Publish, TypeOK
<1>s. ASSUME NEW j \in Jobs, bound # None, Send(j) PROVE inbox' \in [Procs -> Seq(Jobs)]
  <2>1. bound \in Procs /\ inbox[bound] \in Seq(Jobs)
    BY <1>s DEF TypeOK
  <2>2. Append(inbox[bound], j) \in Seq(Jobs)
    BY <2>1, AppendProperties
  <2>. QED
    BY <1>s, <2>1, <2>2 DEF Send, TypeOK
<1>2. ASSUME NEW j \in Jobs, Deliver(j) PROVE TypeOK'
  BY <1>2, <1>s DEF Deliver, TypeOK
<1>3. ASSUME NEW j \in Jobs, Redeliver(j) PROVE TypeOK'
  BY <1>3, <1>s, <1>f DEF Redeliver, TypeOK, jetstream
<1>4. ASSUME NEW p \in Procs, Subscribe(p) \/ Cancel(p) \/ Return(p) PROVE TypeOK'
  BY <1>4 DEF Subscribe, Cancel, Return, TypeOK, jetstream
<1>5. ASSUME NEW p \in Procs, Callback(p) PROVE TypeOK'
  <2>1. inbox[p] \in Seq(Jobs) /\ inbox[p] # <<>>
    BY <1>5 DEF Callback, TypeOK
  <2>2. Head(inbox[p]) \in Jobs /\ Tail(inbox[p]) \in Seq(Jobs)
    BY <2>1, HeadTailProperties
  <2>. QED
    BY <1>5, <2>2 DEF Callback, TypeOK, jetstream
<1>6. ASSUME NEW p \in Procs, Hand(p) \/ Ack(p) \/ AckLost(p) PROVE TypeOK'
  <2>1. callback[p].pc # "idle" /\ callback[p].msg \in Jobs /\ callback[p].msg \in out \cup acked
    BY <1>6, NatsAssumption DEF Hand, Ack, AckLost, InMemory, TypeOK
  <2>2. CASE Hand(p)
    BY <2>1, <2>2 DEF Hand, TypeOK, jetstream
  <2>3. CASE Ack(p)
    BY <2>1, <2>3 DEF Ack, TypeOK, Idle
  <2>4. CASE AckLost(p)
    BY <1>f, <2>4 DEF AckLost, TypeOK, Idle, jetstream
  <2>. QED
    BY <1>6, <2>2, <2>3, <2>4
<1>7. ASSUME NEW p \in Procs, Crash(p) PROVE TypeOK'
  BY <1>7, <1>f, EmptySeq DEF Crash, TypeOK, Idle
<1>. QED
  BY <1>0, <1>1, <1>2, <1>3, <1>4, <1>5, <1>6, <1>7 DEF Next, InCallback

(* JetStream sends a message: a first time, or again.                      *)
LEMMA SendStep ==
  ASSUME IInv, TypeOK', NEW j \in Jobs, bound # None, Send(j), j \in out', out' = out \cup {j},
         UNCHANGED <<stream, acked, bound, callback, given, answer>>,
         \/ Waits(j) /\ Fault
         \/ given[j] <= faults /\ ~Waits(j) /\ faults' = faults
  PROVE  IInv'
<1>t. TypeOK /\ InMemory /\ HandedFirst /\ Accounted
  BY DEF IInv
<1>1. /\ bound \in Procs /\ inbox[bound] \in Seq(Jobs)
      /\ inbox' = [inbox EXCEPT ![bound] = Append(inbox[bound], j)]
      /\ \A p \in Procs : p # bound => inbox'[p] = inbox[p]
      /\ inbox'[bound] = Append(inbox[bound], j)
  BY <1>t DEF TypeOK, Send
<1>2. ASSUME NEW k \in Jobs, NEW p \in Procs
      PROVE  OnTheWay(p, k)' = OnTheWay(p, k) + (IF p = bound /\ k = j THEN 1 ELSE 0)
  <2>1. CASE p = bound
    <3>1. Cardinality(Places(inbox'[p], k)) = Cardinality(Places(inbox[p], k)) + (IF k = j THEN 1 ELSE 0)
      BY <1>1, <2>1, PlacesAppend
    <3>2. Cardinality(Places(inbox[p], k)) \in Nat
      BY <1>t, WayType
    <3>. QED
      BY <2>1, <3>1, <3>2 DEF OnTheWay
  <2>2. CASE p # bound
    <3>1. OnTheWay(p, k) \in Nat
      BY <1>t, WayType
    <3>. QED
      BY <1>1, <2>2, <3>1 DEF OnTheWay
  <2>. QED
    BY <2>1, <2>2
<1>3. ToSet(inbox'[bound]) = ToSet(inbox[bound]) \cup {j}
  BY <1>1, AppendProperties DEF ToSet
<1>4. /\ Waits(j)'
      /\ \A k \in Jobs : k # j => (Waits(k)' <=> Waits(k))
  BY <1>1, <1>3 DEF Waits
<1>5. InMemory'
  BY <1>t, <1>1, <1>3 DEF InMemory
<1>6. HandedFirst'
  BY <1>t DEF HandedFirst
<1>7. ASSUME NEW k \in Jobs
      PROVE  /\ given'[k] <= 1 + faults'
             /\ \A p \in Procs : given'[k] + OnTheWay(p, k)' <= 1 + faults'
             /\ k \in out' /\ ~Waits(k)' => given'[k] <= faults'
  <2>1. /\ faults \in Nat /\ faults' \in Nat /\ faults <= faults' /\ given[k] \in Nat
        /\ \A p \in Procs : OnTheWay(p, k) \in Nat
    BY <1>t, WayType DEF TypeOK, Fault
  <2>2. CASE k # j
    BY <1>t, <1>2, <1>4, <2>1, <2>2 DEF Accounted
  <2>3. CASE k = j /\ Fault
    BY <1>t, <1>2, <1>4, <2>1, <2>3 DEF Accounted, Fault
  <2>4. CASE k = j /\ given[j] <= faults /\ ~Waits(j)
    <3>1. \A p \in Procs : OnTheWay(p, k) = 0
      BY <2>4, Nowhere
    <3>. QED
      BY <1>t, <1>2, <1>4, <2>1, <2>4, <3>1 DEF Accounted
  <2>. QED
    BY <2>2, <2>3, <2>4
<1>. QED
  BY <1>5, <1>6, <1>7 DEF IInv, Accounted

LEMMA CallbackStep ==
  ASSUME IInv, TypeOK', NEW p \in Procs, Callback(p)
  PROVE  IInv'
<1> DEFINE h == Head(inbox[p])
<1>t. TypeOK /\ InMemory /\ HandedFirst /\ Accounted
  BY DEF IInv
<1>1. /\ inbox[p] \in Seq(Jobs) /\ inbox[p] # <<>> /\ h \in Jobs /\ h # None
      /\ inbox' = [inbox EXCEPT ![p] = Tail(inbox[p])] /\ callback' = [callback EXCEPT ![p] = [pc |-> "hand", msg |-> h]]
      /\ callback[p].pc = "idle" /\ callback[p].msg = None
      /\ UNCHANGED <<stream, out, acked, bound, given, answer, faults>>
  <2>1. inbox[p] \in Seq(Jobs) /\ inbox[p] # <<>>
    BY <1>t DEF TypeOK, Callback
  <2>2. h \in Jobs
    BY <2>1, HeadTailProperties
  <2>. QED
    BY <1>t, <2>1, <2>2, NatsAssumption DEF Callback, jetstream, InMemory
<1>2. /\ inbox'[p] = Tail(inbox[p]) /\ callback'[p] = [pc |-> "hand", msg |-> h]
      /\ \A q \in Procs : q # p => inbox'[q] = inbox[q] /\ callback'[q] = callback[q]
  <2> HIDE DEF h
  <2>. QED
    BY <1>t, <1>1 DEF TypeOK
<1>3. ToSet(inbox[p]) = {h} \cup ToSet(Tail(inbox[p]))
  <2>1. /\ Len(Tail(inbox[p])) = Len(inbox[p]) - 1 /\ Len(inbox[p]) \in Nat \ {0}
        /\ \A i \in 1 .. Len(Tail(inbox[p])) : Tail(inbox[p])[i] = inbox[p][i + 1]
        /\ DOMAIN Tail(inbox[p]) = 1 .. Len(Tail(inbox[p])) /\ DOMAIN inbox[p] = 1 .. Len(inbox[p])
    BY <1>1, HeadTailProperties, EmptySeq, LenProperties
  <2>2. \A i \in 1 .. Len(inbox[p]) : i = 1 \/ (i - 1 \in 1 .. Len(Tail(inbox[p])) /\ inbox[p][i] = Tail(inbox[p])[i - 1])
    BY <2>1
  <2>3. \A i \in 1 .. Len(Tail(inbox[p])) : i + 1 \in 1 .. Len(inbox[p])
    BY <2>1
  <2>4. h = inbox[p][1] /\ 1 \in 1 .. Len(inbox[p])
    BY <1>1, <2>1
  <2> HIDE DEF h
  <2>. QED
    BY <2>1, <2>2, <2>3, <2>4 DEF ToSet
<1> HIDE DEF h
<1>4. ASSUME NEW k \in Jobs, NEW q \in Procs PROVE OnTheWay(q, k)' = OnTheWay(q, k)
  <2>1. CASE q = p
    <3>1. Cardinality(Places(inbox[p], k)) = Cardinality(Places(Tail(inbox[p]), k)) + (IF k = h THEN 1 ELSE 0)
      BY <1>1, PlacesTail DEF h
    <3>2. Cardinality(Places(inbox[p], k)) \in Nat /\ Cardinality(Places(Tail(inbox[p]), k)) \in Nat
      <4>1. Tail(inbox[p]) \in Seq(Jobs)
        BY <1>1, HeadTailProperties
      <4>. QED
        BY <1>1, <4>1, PlacesFinite
    <3>3. callback[p] # [pc |-> "hand", msg |-> k] /\ (callback'[p] = [pc |-> "hand", msg |-> k] <=> k = h)
      BY <1>1, <1>2
    <3>. QED
      BY <1>2, <2>1, <3>1, <3>2, <3>3 DEF OnTheWay
  <2>2. CASE q # p
    BY <1>2, <2>2 DEF OnTheWay
  <2>. QED
    BY <2>1, <2>2
<1>5. \A k \in Jobs : Waits(k)' <=> Waits(k)
  BY <1>1, <1>2, <1>3, NatsAssumption DEF Waits
<1>6. InMemory'
  <2>1. p = bound
    BY <1>t, <1>1 DEF InMemory
  <2>. QED
    BY <1>t, <1>1, <1>2, <1>3, <2>1 DEF InMemory
<1>7. HandedFirst'
  BY <1>t, <1>1, <1>2 DEF HandedFirst
<1>8. Accounted'
  BY <1>t, <1>1, <1>4, <1>5 DEF Accounted
<1>. QED
  BY <1>1, <1>6, <1>7, <1>8 DEF IInv

LEMMA HandStep ==
  ASSUME IInv, TypeOK', NEW p \in Procs, Hand(p)
  PROVE  IInv'
<1>m. PICK m : m = callback[p].msg
  OBVIOUS
<1>t. TypeOK /\ InMemory /\ HandedFirst /\ Accounted
  BY DEF IInv
<1>1. /\ callback[p] = [pc |-> "hand", msg |-> m] /\ m \in Jobs /\ m \in out \cup acked
      /\ callback'[p] = [pc |-> "ack", msg |-> m]
      /\ \A q \in Procs : q # p => callback'[q] = callback[q]
      /\ given'[m] = given[m] + 1 /\ \A k \in Jobs : k # m => given'[k] = given[k]
      /\ UNCHANGED <<stream, out, acked, bound, inbox, answer, faults>>
  BY <1>t, <1>m, NatsAssumption DEF Hand, TypeOK, InMemory, jetstream
<1>n. faults \in Nat /\ (\A k \in Jobs : given[k] \in Nat) /\ \A q \in Procs, k \in Jobs : OnTheWay(q, k) \in Nat
  BY <1>t, WayType DEF TypeOK
<1>2. ASSUME NEW k \in Jobs, NEW q \in Procs
      PROVE  OnTheWay(q, k)' = OnTheWay(q, k) - (IF q = p /\ k = m THEN 1 ELSE 0)
  <2>1. Cardinality(Places(inbox[q], k)) \in Nat
    BY <1>t, WayType
  <2>. QED
    BY <1>1, <2>1 DEF OnTheWay
<1>3. \A q \in Procs : q # p => OnTheWay(q, m) = 0
  <2>1. p = bound
    BY <1>t, <1>1 DEF InMemory, Idle
  <2>. QED
    BY <1>t, <2>1, NothingOnTheWay DEF InMemory
<1>4. (\A k \in Jobs : Waits(k)' <=> Waits(k)) /\ Waits(m)
  BY <1>1 DEF Waits
<1>5. InMemory'
  BY <1>t, <1>1 DEF InMemory, Idle
<1>6. HandedFirst'
  <2>1. \A k \in Jobs : given'[k] \in Nat /\ given'[k] >= given[k] /\ (given'[k] > 0 => given[k] > 0 \/ k = m)
    BY <1>1, <1>n
  <2>2. acked \subseteq Jobs
    BY <1>t DEF TypeOK
  <2>3. \A q \in Procs : callback'[q].pc = "ack" => given'[callback'[q].msg] > 0
    <3>1. ASSUME NEW q \in Procs, q # p, callback[q].pc = "ack" PROVE given'[callback[q].msg] > 0
      <4>1. callback[q].msg \in Jobs /\ given[callback[q].msg] > 0
        BY <1>t, <3>1, NatsAssumption DEF TypeOK, InMemory, HandedFirst
      <4>. QED
        BY <1>n, <2>1, <4>1
    <3>2. given'[m] > 0
      BY <1>1, <1>n
    <3>. QED
      BY <1>1, <3>1, <3>2
  <2>4. \A k \in acked' : given'[k] > 0
    BY <1>t, <1>1, <1>n, <2>1, <2>2 DEF HandedFirst
  <2>. QED
    BY <1>t, <1>1, <2>1, <2>3, <2>4 DEF HandedFirst
<1>7. Accounted'
  <2>1. ASSUME NEW k \in Jobs, k # m
        PROVE  /\ given'[k] <= 1 + faults' /\ (k \in out' /\ ~Waits(k)' => given'[k] <= faults')
               /\ \A q \in Procs : given'[k] + OnTheWay(q, k)' <= 1 + faults'
    BY <1>t, <1>1, <1>2, <1>4, <1>n, <2>1 DEF Accounted
  <2>2. given[m] + 1 <= 1 + faults
    <3>1. OnTheWay(p, m) >= 1
      <4>1. Cardinality(Places(inbox[p], m)) \in Nat
        BY <1>t, WayType
      <4>. QED
        BY <1>1, <4>1 DEF OnTheWay
    <3>2. given[m] + OnTheWay(p, m) <= 1 + faults
      BY <1>t, <1>1 DEF Accounted
    <3>. QED
      BY <1>1, <1>n, <3>1, <3>2
  <2>3. \A q \in Procs : given'[m] + OnTheWay(q, m)' <= 1 + faults
    <3>1. given[m] + OnTheWay(p, m) <= 1 + faults
      BY <1>t, <1>1 DEF Accounted
    <3>2. given'[m] + OnTheWay(p, m)' <= 1 + faults
      <4>1. OnTheWay(p, m)' = OnTheWay(p, m) - 1
        BY <1>1, <1>2
      <4>. QED
        BY <1>1, <1>n, <3>1, <4>1
    <3>3. ASSUME NEW q \in Procs, q # p PROVE given'[m] + OnTheWay(q, m)' <= 1 + faults
      <4>1. OnTheWay(q, m)' = 0
        BY <1>1, <1>2, <1>3, <3>3
      <4>. QED
        BY <1>1, <1>n, <2>2, <4>1
    <3>. QED
      BY <3>2, <3>3
  <2>4. \A k \in Jobs :
          /\ given'[k] <= 1 + faults' /\ (k \in out' /\ ~Waits(k)' => given'[k] <= faults')
          /\ \A q \in Procs : given'[k] + OnTheWay(q, k)' <= 1 + faults'
    <3>1. given'[m] <= 1 + faults' /\ Waits(m)'
      BY <1>1, <1>4, <1>n, <2>2
    <3>. QED
      BY <1>1, <2>1, <2>3, <3>1
  <2>. QED
    BY <2>4 DEF Accounted
<1>. QED
  BY <1>1, <1>5, <1>6, <1>7 DEF IInv

(* The callback returns: acknowledged or not, the copy is done with.       *)
LEMMA ReturnStep ==
  ASSUME IInv, TypeOK', NEW p \in Procs, callback[p].pc = "ack",
         callback' = [callback EXCEPT ![p] = Idle],
         UNCHANGED <<stream, bound, inbox, given, answer>>,
         \/ /\ out' = out \ {callback[p].msg} /\ acked' = acked \cup {callback[p].msg}
            /\ faults' = faults
         \/ UNCHANGED <<out, acked>> /\ Fault
  PROVE  IInv'
<1> DEFINE m == callback[p].msg
<1>t. TypeOK /\ InMemory /\ HandedFirst /\ Accounted
  BY DEF IInv
<1>1. /\ m \in Jobs /\ m \in out \cup acked /\ given[m] > 0
      /\ callback'[p] = Idle /\ \A q \in Procs : q # p => callback'[q] = callback[q]
  BY <1>t, NatsAssumption DEF TypeOK, InMemory, HandedFirst
<1>n. faults \in Nat /\ faults' \in Nat /\ faults <= faults' /\ \A k \in Jobs : given[k] \in Nat
  BY <1>t DEF TypeOK, Fault
<1>2. ASSUME NEW q \in Procs, NEW k \in Jobs
      PROVE  OnTheWay(q, k)' = OnTheWay(q, k) /\ OnTheWay(q, k) \in Nat
  <2>1. callback[p] # [pc |-> "hand", msg |-> k] /\ Idle # [pc |-> "hand", msg |-> k]
    BY DEF Idle
  <2>2. callback'[q] = [pc |-> "hand", msg |-> k] <=> callback[q] = [pc |-> "hand", msg |-> k]
    BY <1>1, <2>1
  <2>. QED
    BY <1>t, <2>2, WayType DEF OnTheWay
<1>3. /\ out' \cup acked' = out \cup acked
      /\ \A k \in Jobs : k # m => (Waits(k)' <=> Waits(k)) /\ (k \in out' <=> k \in out) /\ (k \in acked' <=> k \in acked)
  <2>1. \A k \in Jobs : k # m => (Waits(k)' <=> Waits(k))
    BY <1>1, NatsAssumption DEF Waits, Idle
  <2>. QED
    BY <1>1, <2>1
<1>4. InMemory'
  BY <1>t, <1>1, <1>3 DEF InMemory, Idle
<1>5. HandedFirst'
  BY <1>t, <1>1, <1>3 DEF HandedFirst, Idle
<1>6. m \in out' => given[m] <= faults'
  BY <1>t, <1>1, <1>n DEF Accounted, Fault
<1> HIDE DEF m
<1>7. ASSUME NEW k \in Jobs
      PROVE  /\ given'[k] <= 1 + faults' /\ (k \in out' /\ ~Waits(k)' => given'[k] <= faults')
             /\ \A q \in Procs : given'[k] + OnTheWay(q, k)' <= 1 + faults'
  <2>1. /\ given[k] <= 1 + faults /\ (k \in out /\ ~Waits(k) => given[k] <= faults)
        /\ \A q \in Procs : given[k] + OnTheWay(q, k) <= 1 + faults
    BY <1>t DEF Accounted
  <2>2. CASE k = m
    BY <1>2, <1>6, <1>n, <2>1, <2>2
  <2>3. CASE k # m
    BY <1>2, <1>3, <1>n, <2>1, <2>3
  <2>. QED
    BY <2>2, <2>3
<1>8. Accounted'
  BY <1>7 DEF Accounted
<1>. QED
  BY <1>4, <1>5, <1>8 DEF IInv

LEMMA CrashStep ==
  ASSUME IInv, TypeOK', NEW p \in Procs, Crash(p)
  PROVE  IInv'
<1>t. TypeOK /\ InMemory /\ HandedFirst /\ Accounted
  BY DEF IInv
<1>1. /\ inbox'[p] = <<>> /\ callback'[p] = Idle
      /\ \A q \in Procs : q # p => inbox'[q] = inbox[q] /\ callback'[q] = callback[q]
      /\ bound' = IF bound = p THEN None ELSE bound
      /\ UNCHANGED <<stream, out, acked, given, answer>>
      /\ faults \in Nat /\ faults' = faults + 1
  BY <1>t DEF Crash, TypeOK, Fault
<1>2. InMemory'
  <2>1. \A q \in Procs : q # bound' => inbox'[q] = <<>> /\ callback'[q] = Idle
    BY <1>t, <1>1 DEF InMemory
  <2>2. ToSet(<<>>) = {}
    BY DEF ToSet
  <2>. QED
    BY <1>t, <1>1, <2>1, <2>2 DEF InMemory, Idle
<1>3. HandedFirst'
  BY <1>t, <1>1 DEF HandedFirst, Idle
<1>4. ASSUME NEW k \in Jobs
      PROVE  /\ given'[k] <= 1 + faults' /\ (k \in out' /\ ~Waits(k)' => given'[k] <= faults')
             /\ \A q \in Procs : given'[k] + OnTheWay(q, k)' <= 1 + faults'
  <2>1. /\ given[k] \in Nat /\ given[k] <= 1 + faults
        /\ \A q \in Procs : given[k] + OnTheWay(q, k) <= 1 + faults /\ OnTheWay(q, k) \in Nat
    BY <1>t, WayType DEF Accounted, TypeOK
  <2>2. \A q \in Procs : OnTheWay(q, k)' \in {0, OnTheWay(q, k)}
    <3>1. OnTheWay(p, k)' = 0
      BY <1>1, PlacesEmpty DEF OnTheWay, Idle
    <3>2. \A q \in Procs : q # p => OnTheWay(q, k)' = OnTheWay(q, k)
      BY <1>1 DEF OnTheWay
    <3>. QED
      BY <3>1, <3>2
  <2>. QED
    BY <1>1, <2>1, <2>2
<1>5. Accounted'
  BY <1>4 DEF Accounted
<1>. QED
  BY <1>1, <1>2, <1>3, <1>5 DEF IInv

LEMMA InvInit == Init => IInv
<1> SUFFICES ASSUME Init PROVE IInv
  OBVIOUS
<1>1. TypeOK
  BY NatsAssumption, EmptySeq DEF Init, TypeOK, Idle
<1>2. \A p \in Procs : inbox[p] = <<>> /\ callback[p] = Idle /\ ToSet(inbox[p]) = {}
  BY DEF Init, ToSet
<1>3. \A p \in Procs, j \in Jobs : OnTheWay(p, j) = 0
  BY <1>2, NothingOnTheWay
<1>4. InMemory /\ HandedFirst
  BY <1>2, NatsAssumption DEF Init, InMemory, HandedFirst, Idle
<1>5. Accounted
  BY <1>3 DEF Init, Accounted
<1>. QED
  BY <1>1, <1>4, <1>5 DEF IInv, Init

LEMMA InvStep == IInv /\ [Next]_vars => IInv'
<1> SUFFICES ASSUME IInv, [Next]_vars PROVE IInv'
  OBVIOUS
<1>t. TypeOK' /\ TypeOK /\ InMemory /\ HandedFirst /\ Accounted /\ faults \in Nat
  BY TypeStep DEF IInv, TypeOK
<1>0. CASE UNCHANGED vars
  BY <1>t, <1>0, Outside DEF vars, jetstream, InMemory, IInv
<1>1. ASSUME NEW j \in Jobs, NEW r \in {"ok", "failed", "lost"}, Publish(j, r) PROVE IInv'
  <2>1. faults <= faults'
    BY <1>t, <1>1 DEF Publish, Fault
  <2>2. \A k \in Jobs : answer'[k] = "ok" => k \in stream'
    BY <1>t, <1>1 DEF Publish, IInv, TypeOK
  <2>. QED
    BY <1>t, <1>1, <2>1, <2>2, Outside DEF Publish
<1>2. ASSUME NEW p \in Procs, Subscribe(p) PROVE IInv'
  <2>1. \A q \in Procs : q # bound' => q # bound \/ (inbox[q] = <<>> /\ callback[q] = Idle)
    BY <1>t, <1>2, NatsAssumption DEF Subscribe, InMemory
  <2>. QED
    BY <1>t, <1>2, <2>1, Outside DEF Subscribe, IInv
<1>3. ASSUME NEW p \in Procs, Cancel(p) \/ Return(p) PROVE IInv'
  BY <1>t, <1>3, Outside DEF Cancel, Return, IInv, jetstream
<1>4. ASSUME NEW j \in Jobs, Deliver(j) PROVE IInv'
  <2>1. given[j] <= faults /\ ~Waits(j)
    BY <1>t, <1>4, NatsAssumption DEF Deliver, HandedFirst, InMemory, Waits, TypeOK
  <2>. QED
    BY <1>t, <1>4, <2>1, SendStep DEF Deliver
<1>5. ASSUME NEW j \in Jobs, Redeliver(j) PROVE IInv'
  <2>1. ~Waits(j) => given[j] <= faults
    BY <1>t, <1>5 DEF Redeliver, Accounted
  <2>. QED
    BY <1>t, <1>5, <2>1, SendStep DEF Redeliver, jetstream
<1>6. ASSUME NEW p \in Procs, Callback(p) PROVE IInv'
  BY <1>t, <1>6, CallbackStep
<1>7. ASSUME NEW p \in Procs, Hand(p) PROVE IInv'
  BY <1>t, <1>7, HandStep
<1>8. ASSUME NEW p \in Procs, Ack(p) \/ AckLost(p) PROVE IInv'
  BY <1>t, <1>8, ReturnStep DEF Ack, AckLost, jetstream
<1>9. ASSUME NEW p \in Procs, Crash(p) PROVE IInv'
  BY <1>t, <1>9, CrashStep
<1>. QED
  BY <1>0, <1>1, <1>2, <1>3, <1>4, <1>5, <1>6, <1>7, <1>8, <1>9 DEF Next, InCallback

(* What is stored, sent, in memory, handed over and acknowledged agree at  *)
(* every step (Enqueue, Consume, the subscription's callback).             *)
THEOREM Inductive == Spec => []IInv
BY InvInit, InvStep, PTL DEF Spec

(* A message that was accepted or acknowledged was handed to a worker or   *)
(* is stored for redelivery, whichever processes die (Enqueue, Consume).   *)
THEOREM Remembered == Spec => []NotForgotten
<1>1. IInv => NotForgotten
  BY DEF IInv, HandedFirst, TypeOK, NotForgotten
<1>. QED
  BY <1>1, Inductive, PTL

(* A message is handed over once, and once more for each fault at most     *)
(* (Consume; AckWait).                                                     *)
THEOREM Deliveries == Spec => []DeliveriesBounded
<1>1. IInv => DeliveriesBounded
  BY DEF IInv, Accounted, DeliveriesBounded
<1>. QED
  BY <1>1, Inductive, PTL

-----------------------------------------------------------------------------
(* While nothing fails the queue is a broker.                              *)

(* A message whose Enqueue call was not made is not stored.                *)
Unpublished == \A j \in Jobs : answer[j] = "none" => j \notin stream

Handing(p, j) == callback[p] = [pc |-> "hand", msg |-> j]

LEMMA UnpublishedStays ==
  ASSUME TypeOK, Unpublished, [Next]_vars
  PROVE  Unpublished'
<1>1. CASE \E j \in Jobs, r \in {"ok", "failed", "lost"} : Publish(j, r)
  BY <1>1 DEF Publish, Unpublished, TypeOK
<1>2. CASE UNCHANGED <<stream, answer>>
  BY <1>2 DEF Unpublished
<1>. QED
  BY <1>1, <1>2
     DEF Next, InCallback, Deliver, Redeliver, Subscribe, Cancel, Return, Callback, Hand, Ack,
         AckLost, Crash, vars, jetstream

(* One callback runs, with a message that is in the stream.                *)
LEMMA OneCallback ==
  ASSUME IInv, NEW p \in Procs, callback[p].pc # "idle"
  PROVE  /\ callback[p].msg \in Jobs /\ callback[p].msg \in stream
         /\ callback[p].pc = "hand" <=> Handing(p, callback[p].msg)
         /\ \A q \in Procs : \A j : Handing(q, j) => q = p /\ j = callback[p].msg
<1>1. /\ callback[p].msg \in out \cup acked /\ out \cup acked \subseteq stream /\ stream \subseteq Jobs
      /\ \A q \in Procs : q # p => callback[q] = Idle
  BY DEF IInv, InMemory, TypeOK, Idle
<1>2. callback[p] \in [pc : {"idle", "hand", "ack"}, msg : Jobs \cup {None}]
  BY DEF IInv, TypeOK
<1>. QED
  BY <1>1, <1>2 DEF Idle, Handing

(* Without faults the message a callback gets was not handed over before.  *)
LEMMA FirstTime ==
  ASSUME IInv, faults = 0, NEW p \in Procs, inbox[p] # <<>>
  PROVE  /\ Head(inbox[p]) \in stream /\ given[Head(inbox[p])] = 0
         /\ ~Handing(p, Head(inbox[p]))
<1>1. inbox[p] \in Seq(Jobs) /\ Head(inbox[p]) \in ToSet(inbox[p]) /\ Head(inbox[p]) \in Jobs
  <2>1. inbox[p] \in Seq(Jobs)
    BY DEF IInv, TypeOK
  <2>. QED
    BY <2>1 DEF ToSet
<1>2. PICK j \in Jobs : j = Head(inbox[p])
  BY <1>1
<1>3. OnTheWay(p, j) > 0 /\ OnTheWay(p, j) \in Nat /\ Cardinality(Places(inbox[p], j)) \in Nat
  BY <1>1, <1>2, WayType DEF IInv
<1>4. given[j] + OnTheWay(p, j) <= 1 /\ given[j] \in Nat
  BY DEF IInv, Accounted, TypeOK
<1>5. given[j] = 0 /\ OnTheWay(p, j) = 1
  BY <1>3, <1>4
<1>6. Cardinality(Places(inbox[p], j)) > 0
  BY <1>1, <1>2, <1>3, PlacesToSet
<1>7. ~Handing(p, j)
  BY <1>3, <1>5, <1>6 DEF OnTheWay, Handing
<1>8. j \in stream
  BY <1>1, <1>2 DEF IInv, InMemory, TypeOK
<1>. QED
  BY <1>2, <1>5, <1>7, <1>8

WaitingNow == {j \in stream : given[j] = 0 /\ \A p \in Procs : ~Handing(p, j)}
PassingNow == {j \in Jobs : \E p \in Procs : Handing(p, j)}

LEMMA SameNames == Waiting = WaitingNow /\ Passing = PassingNow
BY DEF Waiting, Passing, WaitingNow, PassingNow, Handing

(* Steps that give and take nothing, as far as hand-overs go.              *)
LEMMA NothingSeen ==
  ASSUME stream' = stream, given' = given,
         \A p \in Procs : \A j : Handing(p, j)' <=> Handing(p, j)
  PROVE  Waiting' = Waiting /\ Passing' = Passing
<1>1. WaitingNow' = WaitingNow /\ PassingNow' = PassingNow
  BY DEF WaitingNow, PassingNow
<1>2. Waiting' = WaitingNow' /\ Passing' = PassingNow'
  BY DEF Waiting, Passing, WaitingNow, PassingNow, Handing
<1>. QED
  BY <1>1, <1>2, SameNames

(* What Broker allows, and the pairs of steps that leave its state alone.  *)
Allowed == [Promised!Next]_(Promised!vars)

LEMMA SeenIsAllowed ==
  ASSUME Waiting' = Waiting, Passing' = Passing
  PROVE  Allowed
BY DEF Allowed, Promised!vars

LEMMA PublishAllowed ==
  ASSUME IInv, Unpublished, NEW j \in Jobs, Publish(j, "ok")
  PROVE  Allowed
<1>1. stream' = stream \cup {j} /\ UNCHANGED <<given, callback>> /\ j \notin stream
  BY DEF Publish, Unpublished
<1>2. \A p \in Procs : \A k : Handing(p, k)' <=> Handing(p, k)
  BY <1>1 DEF Handing
<1>3. \A p \in Procs : ~Handing(p, j)
  <2> SUFFICES ASSUME NEW p \in Procs, Handing(p, j) PROVE FALSE
    OBVIOUS
  <2>1. callback[p].pc = "hand" /\ callback[p].msg = j
    BY DEF Handing
  <2>. QED
    BY <1>1, <2>1, OneCallback
<1>4. given[j] = 0
  BY <1>1 DEF IInv, HandedFirst, TypeOK
<1>5. j \notin WaitingNow /\ j \notin PassingNow
  BY <1>1, <1>3 DEF WaitingNow, PassingNow
<1>6. WaitingNow' = WaitingNow \cup {j} /\ PassingNow' = PassingNow
  BY <1>1, <1>2, <1>3, <1>4 DEF WaitingNow, PassingNow
<1>7. Waiting' = WaitingNow' /\ Passing' = PassingNow'
  BY DEF Waiting, Passing, WaitingNow, PassingNow, Handing
<1>8. Promised!Enqueue(j)
  BY <1>5, <1>6, <1>7, SameNames DEF Promised!Enqueue
<1>. QED
  BY <1>8 DEF Allowed, Promised!Next

LEMMA CallbackAllowed ==
  ASSUME IInv, faults = 0, NEW p \in Procs, Callback(p)
  PROVE  Allowed
<1>1. PICK j : j = Head(inbox[p])
  OBVIOUS
<1>2. j \in stream /\ given[j] = 0 /\ j \in Jobs
  BY <1>1, FirstTime DEF Callback, IInv, TypeOK
<1>3. /\ callback[p].pc = "idle" /\ UNCHANGED <<stream, given>>
      /\ callback' = [callback EXCEPT ![p] = [pc |-> "hand", msg |-> j]]
  BY <1>1 DEF Callback, jetstream
<1>4. \A q \in Procs : \A k : ~Handing(q, k)
  <2> SUFFICES ASSUME NEW q \in Procs, NEW k, Handing(q, k) PROVE FALSE
    OBVIOUS
  <2>1. callback[q].pc = "hand"
    BY DEF Handing
  <2>2. q # p
    BY <1>3, <2>1
  <2>3. inbox[p] # <<>>
    BY DEF Callback
  <2>4. p = bound /\ q = bound
    BY <2>1, <2>3 DEF IInv, InMemory, Idle
  <2>. QED
    BY <2>2, <2>4
<1>5. \A q \in Procs : \A k : Handing(q, k)' <=> q = p /\ k = j
  <2>1. callback'[p] = [pc |-> "hand", msg |-> j] /\ \A q \in Procs \ {p} : callback'[q] = callback[q]
    BY <1>3 DEF IInv, TypeOK
  <2>2. \A k : [pc |-> "hand", msg |-> j] = [pc |-> "hand", msg |-> k] <=> k = j
    OBVIOUS
  <2>3. \A k : Handing(p, k)' <=> k = j
    BY <2>1, <2>2 DEF Handing
  <2>4. \A q \in Procs \ {p} : \A k : ~Handing(q, k)'
    BY <1>4, <2>1 DEF Handing
  <2>. QED
    BY <2>3, <2>4
<1>6. j \in WaitingNow /\ PassingNow = {}
  BY <1>2, <1>4 DEF WaitingNow, PassingNow
<1>7. WaitingNow' = WaitingNow \ {j} /\ PassingNow' = PassingNow \cup {j}
  BY <1>2, <1>3, <1>4, <1>5 DEF WaitingNow, PassingNow
<1>8. Waiting' = WaitingNow' /\ Passing' = PassingNow'
  BY DEF Waiting, Passing, WaitingNow, PassingNow, Handing
<1>9. Promised!Take(j)
  BY <1>6, <1>7, <1>8, SameNames DEF Promised!Take
<1>. QED
  BY <1>2, <1>9 DEF Allowed, Promised!Next

LEMMA HandAllowed ==
  ASSUME IInv, NEW p \in Procs, Hand(p)
  PROVE  Allowed
<1>1. PICK j : j = callback[p].msg
  OBVIOUS
<1>2. /\ callback[p].pc = "hand" /\ stream' = stream
      /\ given' = [given EXCEPT ![j] = @ + 1] /\ callback' = [callback EXCEPT ![p].pc = "ack"]
  BY <1>1 DEF Hand, jetstream
<1>3. /\ j \in Jobs /\ j \in stream /\ Handing(p, j)
      /\ \A q \in Procs : \A k : Handing(q, k) => q = p /\ k = j
  BY <1>1, <1>2, OneCallback
<1>4. given'[j] # 0 /\ \A k \in Jobs \ {j} : given'[k] = given[k]
  BY <1>2, <1>3 DEF IInv, TypeOK
<1>5. \A q \in Procs : \A k : ~Handing(q, k)'
  <2>1. callback'[p].pc = "ack" /\ \A q \in Procs \ {p} : callback'[q] = callback[q]
    BY <1>2 DEF IInv, TypeOK
  <2>2. \A k : ~Handing(p, k)'
    BY <2>1 DEF Handing
  <2>3. \A q \in Procs \ {p} : \A k : ~Handing(q, k)'
    BY <1>3, <2>1 DEF Handing
  <2>. QED
    BY <2>2, <2>3
<1>6. stream \subseteq Jobs
  BY DEF IInv, TypeOK
<1>7. j \in PassingNow /\ j \notin WaitingNow /\ PassingNow = {j}
  BY <1>3 DEF WaitingNow, PassingNow
<1>8. WaitingNow' = WaitingNow /\ PassingNow' = {}
  BY <1>2, <1>3, <1>4, <1>5, <1>6 DEF WaitingNow, PassingNow
<1>9. Waiting' = WaitingNow' /\ Passing' = PassingNow'
  BY DEF Waiting, Passing, WaitingNow, PassingNow, Handing
<1>10. Promised!Give(j)
  BY <1>7, <1>8, <1>9, SameNames DEF Promised!Give
<1>. QED
  BY <1>3, <1>10 DEF Allowed, Promised!Next

LEMMA FaultlessAllowed ==
  ASSUME IInv, Unpublished, faults = 0, faults' = 0, [Next]_vars
  PROVE  Allowed
<1>1. ~Fault
  BY DEF Fault
<1>2. ASSUME NEW j \in Jobs, NEW r \in {"ok", "failed", "lost"}, Publish(j, r) PROVE Allowed
  <2>1. r = "ok"
    BY <1>1, <1>2 DEF Publish
  <2>. QED
    BY <1>2, <2>1, PublishAllowed
<1>3. CASE UNCHANGED <<stream, given, callback>>
  <2>1. \A p \in Procs : \A j : Handing(p, j)' <=> Handing(p, j)
    BY <1>3 DEF Handing
  <2>. QED
    BY <1>3, <2>1, NothingSeen, SeenIsAllowed
<1>4. ASSUME NEW p \in Procs, Ack(p) PROVE Allowed
  <2>1. /\ stream' = stream /\ given' = given
        /\ callback[p].pc = "ack" /\ callback' = [callback EXCEPT ![p] = Idle]
    BY <1>4 DEF Ack
  <2>2. callback'[p] = Idle /\ \A q \in Procs \ {p} : callback'[q] = callback[q]
    BY <2>1 DEF IInv, TypeOK
  <2>3. \A q \in Procs : \A j : Handing(q, j)' <=> Handing(q, j)
    BY <2>1, <2>2 DEF Handing, Idle
  <2>. QED
    BY <2>1, <2>3, NothingSeen, SeenIsAllowed
<1>5. \A p \in Procs : ~AckLost(p) /\ ~Crash(p)
  BY <1>1 DEF AckLost, Crash
<1>6. ASSUME NEW p \in Procs, Callback(p) \/ Hand(p) PROVE Allowed
  BY <1>6, CallbackAllowed, HandAllowed
<1>. QED
  BY <1>2, <1>3, <1>4, <1>5, <1>6
     DEF Next, InCallback, Deliver, Redeliver, Subscribe, Cancel, Return, vars, jetstream

(***************************************************************************)
(* While nothing fails, the queue in JetStream is the broker that the job  *)
(* server relies on and that loses nothing: each message is handed to one  *)
(* worker once and one at a time waits for it, although acknowledgements   *)
(* come late, contexts are cancelled and a second server is refused the    *)
(* durable consumer (Enqueue, Consume, the subscription's callback).       *)
(***************************************************************************)
THEOREM FaultlessIsABroker == Spec /\ [](faults = 0) => ImplementsBroker
<1>1. Init => Unpublished /\ Promised!Init
  <2> SUFFICES ASSUME Init PROVE Unpublished /\ Promised!Init
    OBVIOUS
  <2>1. stream = {} /\ \A p \in Procs : callback[p] = Idle
    BY DEF Init
  <2>2. \A p \in Procs : \A j : ~Handing(p, j)
    BY <2>1 DEF Handing, Idle
  <2>3. WaitingNow = {} /\ PassingNow = {}
    BY <2>1, <2>2 DEF WaitingNow, PassingNow
  <2>. QED
    BY <2>1, <2>3, SameNames DEF Unpublished, Promised!Init
<1>2. IInv /\ Unpublished /\ [Next]_vars => Unpublished'
  BY UnpublishedStays DEF IInv
<1>3. IInv /\ Unpublished /\ faults = 0 /\ (faults = 0)' /\ [Next]_vars => [Promised!Next]_(Promised!vars)
  BY FaultlessAllowed DEF Allowed
<1>. QED
  BY <1>1, <1>2, <1>3, Inductive, PTL DEF Spec, ImplementsBroker, Promised!Spec

=============================================================================
