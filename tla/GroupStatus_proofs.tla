------------------------- MODULE GroupStatus_proofs -------------------------
(***************************************************************************)
(* Proofs about GroupStatus: no interleaving of GetGroup calls with each   *)
(* other, with EnqueueGroup and with the workers stores a wrong verdict.   *)
(***************************************************************************)
EXTENDS GroupStatus, TLAPS

(* What a message says of a finished job is so, and its verdict is drawn   *)
(* from the statuses beside it.                                            *)
Honest(g) ==
  /\ \A j \in Members : g.js[j] \in Final => status[j] = g.js[j]
  /\ g.st = "successful" => \A j \in Members : g.js[j] = "successful"
  /\ g.st = "failed" => \E j \in Members : g.js[j] = "failed"

(* What makes a verdict is there to be found: it is yet to be looked up,   *)
(* or the message says so.                                                 *)
Seen(c, j, st) == status[j] = st /\ (j \in c.todo \/ c.g.js[j] = st)
InSight(c) ==
  \/ \E j \in Members : Seen(c, j, "failed")
  \/ \A j \in Members : Seen(c, j, "successful")

(* A reader works on an honest message; when there was a verdict as it     *)
(* began, it is going to find one.                                         *)
ReaderOK(r) ==
  LET c == reader[r] IN
  c.pc # "idle" =>
    /\ c.g \in GroupMsg /\ Honest(c.g)
    /\ c.pc = "look" => c.g.st = "processing"
    /\ c.over =>
         /\ c.pc = "look" => InSight(c)
         /\ c.pc \in {"write", "answered"} => c.g.st \in Final

IInv ==
  /\ TypeOK
  /\ group # NoGroup => Honest(group)
  /\ \A r \in Readers : ReaderOK(r)

-----------------------------------------------------------------------------
(* The jobs                                                                *)

FinalsKept == \A j \in Jobs : status[j] \in Final => status'[j] = status[j]

JobsMove == \E j \in Jobs :
  Store!Admit(j) \/ Store!Take(j) \/ Store!Retry(j) \/ \E ok \in BOOLEAN : Store!Settle(j, ok)

(***************************************************************************)
(* Whatever EnqueueGroup and the workers do to the jobs, the statuses and  *)
(* counters stay well typed and a final status stays what it was           *)
(* (setJobMessage, statusProcessing, statusRetrying, statusDone).          *)
(***************************************************************************)
LEMMA FinalsStay ==
  ASSUME TypeOK, JobsMove \/ UNCHANGED jobs
  PROVE  /\ status' \in [Jobs -> Store!Statuses] /\ retried' \in [Jobs -> Nat]
         /\ FinalsKept
<1> USE GroupAssumption DEF TypeOK, FinalsKept, Final, Store!Final, Store!Statuses
<1>1. CASE UNCHANGED jobs
  BY <1>1 DEF jobs
<1>2. ASSUME NEW j \in Jobs, Store!Admit(j)
      PROVE  /\ status' \in [Jobs -> Store!Statuses] /\ retried' \in [Jobs -> Nat]
             /\ FinalsKept
  BY <1>2 DEF Store!Admit, Store!Known
<1>3. ASSUME NEW j \in Jobs, Store!Take(j)
      PROVE  /\ status' \in [Jobs -> Store!Statuses] /\ retried' \in [Jobs -> Nat]
             /\ FinalsKept
  BY <1>3 DEF Store!Take
<1>4. ASSUME NEW j \in Jobs, Store!Retry(j)
      PROVE  /\ status' \in [Jobs -> Store!Statuses] /\ retried' \in [Jobs -> Nat]
             /\ FinalsKept
  BY <1>4 DEF Store!Retry
<1>5. ASSUME NEW j \in Jobs, NEW ok \in BOOLEAN, Store!Settle(j, ok)
      PROVE  /\ status' \in [Jobs -> Store!Statuses] /\ retried' \in [Jobs -> Nat]
             /\ FinalsKept
  BY <1>5 DEF Store!Settle, Store!MaySettle
<1>. QED
  BY <1>1, <1>2, <1>3, <1>4, <1>5 DEF JobsMove

(***************************************************************************)
(* An honest message stays honest, and a verdict in sight stays there,     *)
(* whatever the jobs do.                                                   *)
(***************************************************************************)
LEMMA HonestStays ==
  ASSUME TypeOK, FinalsKept, status' \in [Jobs -> Store!Statuses]
  PROVE  /\ \A g \in GroupMsg : Honest(g) => Honest(g)'
         /\ \A c : InSight(c) => InSight(c)'
BY GroupAssumption DEF FinalsKept, Honest, InSight, Seen, TypeOK, Final, Store!Final

(***************************************************************************)
(* A step of the jobs alone keeps the invariant.                           *)
(***************************************************************************)
LEMMA JobsStep ==
  ASSUME IInv, JobsMove \/ UNCHANGED jobs, UNCHANGED <<group, reader>>,
         admitted' \subseteq Members, enqueuer' \in {"running", "stored", "error"}
  PROVE  IInv'
<1>1. TypeOK' /\ FinalsKept
  BY FinalsStay DEF IInv, TypeOK, GroupMsg
<1>2. \A g \in GroupMsg : Honest(g) => Honest(g)'
  BY <1>1, HonestStays DEF IInv, TypeOK
<1>3. \A c : InSight(c) => InSight(c)'
  BY <1>1, HonestStays DEF IInv, TypeOK
<1>4. group' # NoGroup => Honest(group)'
  <2>1. group \in GroupMsg \/ group = NoGroup
    BY DEF IInv, TypeOK
  <2>. QED
    BY <1>2, <2>1 DEF IInv, Honest
<1>5. ASSUME NEW r \in Readers PROVE ReaderOK(r)'
  <2>1. reader[r].pc # "idle" => reader[r].g \in GroupMsg /\ Honest(reader[r].g)
    BY DEF IInv, ReaderOK
  <2>2. reader[r].pc # "idle" => Honest(reader[r].g)'
    BY <1>2, <2>1
  <2>3. InSight(reader[r]) => (InSight(reader[r]))'
    <3>1. PICK c : c = reader[r]
      OBVIOUS
    <3>. QED
      BY <1>3, <3>1 DEF InSight, Seen
  <2>. QED
    BY <2>1, <2>2, <2>3 DEF IInv, ReaderOK, Honest, InSight, Seen
<1>. QED
  BY <1>1, <1>4, <1>5 DEF IInv

-----------------------------------------------------------------------------
(* GetGroup                                                                *)

(* One reader moves, the jobs stay.                                        *)
Moves(r) ==
  /\ \A s \in Readers \ {r} : reader'[s] = reader[s]
  /\ UNCHANGED <<jobs, admitted, enqueuer>>

(***************************************************************************)
(* When one reader moves, only it and the stored group can go wrong.       *)
(***************************************************************************)
LEMMA OneMoves ==
  ASSUME IInv, NEW r \in Readers, Moves(r), TypeOK', ReaderOK(r)',
         group' # NoGroup => Honest(group)'
  PROVE  IInv'
<1>1. ASSUME NEW s \in Readers \ {r} PROVE ReaderOK(s)'
  BY <1>1 DEF IInv, Moves, jobs, ReaderOK, Honest, InSight, Seen
<1>. QED
  BY <1>1 DEF IInv

ReaderState == [pc : {"idle", "look", "write", "answered"}, g : GroupMsg \cup {NoGroup},
                todo : SUBSET Members, over : BOOLEAN]

LEMMA GetStep == ASSUME IInv, NEW r \in Readers, Get(r) PROVE IInv'
<1>1. group \in GroupMsg /\ Honest(group) /\ UNCHANGED <<jobs, admitted, enqueuer, group>>
  BY DEF IInv, TypeOK, Get
<1>2. PICK c \in ReaderState :
        /\ reader' = [reader EXCEPT ![r] = c]
        /\ c.g = group /\ c.over = Over
        /\ \/ c.pc = "answered" /\ group.st \in Final
           \/ c.pc = "look" /\ group.st \notin Final /\ c.todo = Open(group)
  <2>1. CASE group.st \in Final
    <3>1. [pc |-> "answered", g |-> group, todo |-> {}, over |-> Over] \in ReaderState
      BY <1>1 DEF ReaderState, Over
    <3>. QED
      BY <2>1, <3>1 DEF Get
  <2>2. CASE group.st \notin Final
    <3>1. [pc |-> "look", g |-> group, todo |-> Open(group), over |-> Over] \in ReaderState
      BY <1>1 DEF ReaderState, Over, Open
    <3>. QED
      BY <2>2, <3>1 DEF Get
  <2>. QED
    BY <2>1, <2>2
<1>3. reader' \in [Readers -> ReaderState] /\ reader'[r] = c /\ Moves(r)
  BY <1>1, <1>2 DEF IInv, TypeOK, ReaderState, Moves
<1>4. TypeOK'
  BY <1>1, <1>3 DEF IInv, TypeOK, ReaderState, jobs
<1>5. Honest(group)'
  BY <1>1 DEF Honest, jobs
<1>6. ReaderOK(r)'
  <2>1. c.pc = "look" /\ Over => InSight(c)
    <3> SUFFICES ASSUME c.pc = "look", Over PROVE InSight(c)
      OBVIOUS
    <3>1. \A j \in Members : j \in c.todo \/ status[j] = c.g.js[j]
      BY <1>1, <1>2 DEF Open, Honest
    <3>2. \/ \E j \in Members : status[j] = "failed"
          \/ \A j \in Members : status[j] = "successful"
      BY DEF Over, Overall, Final, Store!Final
    <3>. QED
      BY <3>1, <3>2 DEF InSight, Seen
  <2>2. c.pc = "look" /\ Over => InSight(c)'
    BY <1>1, <2>1 DEF InSight, Seen, jobs
  <2>3. c.pc = "look" => c.g.st = "processing"
    BY <1>1, <1>2 DEF GroupMsg
  <2>. QED
    BY <1>1, <1>2, <1>3, <1>5, <2>2, <2>3 DEF ReaderOK, Honest, InSight, Seen
<1>. QED
  BY <1>3, <1>4, <1>5, <1>6, OneMoves

LEMMA LookupStep == ASSUME IInv, NEW r \in Readers, NEW j \in Members, Lookup(r, j) PROVE IInv'
<1> DEFINE c == reader[r]
<1>0. PICK d : d = reader'[r]
  OBVIOUS
<1>1. /\ c \in ReaderState /\ c.pc = "look" /\ c.g \in GroupMsg /\ Honest(c.g)
      /\ c.g.st = "processing" /\ ReaderOK(r)
      /\ UNCHANGED <<jobs, admitted, enqueuer, group>>
  BY DEF IInv, TypeOK, Lookup, ReaderOK, ReaderState
<1>2. /\ d.pc = "look" /\ d.over = c.over /\ d.todo = c.todo \ {j}
      /\ d.g = [c.g EXCEPT !.js[j] = status[j]]
      /\ d \in [pc : {"look"}, g : {d.g}, todo : {c.todo \ {j}}, over : {c.over}]
      /\ reader' = [reader EXCEPT ![r] = d] /\ reader'[r] = d /\ Moves(r)
  BY <1>0, <1>1 DEF IInv, TypeOK, Lookup, ReaderState, Moves
<1>3. d.g \in GroupMsg /\ d.g.st = "processing" /\ d.g.js[j] = status[j]
      /\ \A k \in Members \ {j} : d.g.js[k] = c.g.js[k]
  <2>1. PICK g \in GroupMsg : g = c.g
    BY <1>1
  <2>2. d.g = [g EXCEPT !.js = [g.js EXCEPT ![j] = status[j]]] /\ status[j] \in Store!Statuses
    BY <1>2, <2>1, GroupAssumption DEF IInv, TypeOK
  <2>. QED
    BY <1>1, <2>1, <2>2 DEF GroupMsg
<1>4. TypeOK'
  <2>1. d \in ReaderState
    BY <1>1, <1>2, <1>3 DEF ReaderState
  <2>2. reader' \in [Readers -> ReaderState]
    BY <1>2, <2>1 DEF IInv, TypeOK, ReaderState
  <2>. QED
    BY <1>1, <2>2 DEF IInv, TypeOK, ReaderState, jobs
<1>5. Honest(d.g)'
  BY <1>1, <1>3 DEF Honest, jobs
<1>6. group' # NoGroup => Honest(group)'
  BY <1>1 DEF IInv, Honest, jobs
<1>7. ReaderOK(r)'
  <2>1. c.over => InSight(c)
    BY <1>1 DEF ReaderOK
  <2>2. \A k \in Members : \A st : Seen(c, k, st) => Seen(d, k, st)
    BY <1>2, <1>3 DEF Seen
  <2>3. d.over => InSight(d)
    BY <1>2, <2>1, <2>2 DEF InSight
  <2>4. d.over => InSight(d)'
    BY <1>1, <2>3 DEF InSight, Seen, jobs
  <2>. QED
    BY <1>2, <1>3, <1>5, <2>4 DEF ReaderOK
<1>. QED
  BY <1>2, <1>4, <1>6, <1>7, OneMoves

LEMMA ConcludeStep == ASSUME IInv, NEW r \in Readers, Conclude(r) PROVE IInv'
<1> DEFINE c == reader[r]
<1>0. PICK d : d = reader'[r]
  OBVIOUS
<1>1. /\ c \in ReaderState /\ c.pc = "look" /\ c.todo = {} /\ c.g \in GroupMsg /\ Honest(c.g)
      /\ ReaderOK(r) /\ UNCHANGED <<jobs, admitted, enqueuer, group>>
  BY DEF IInv, TypeOK, Conclude, ReaderOK, ReaderState
<1>2. /\ d.pc = "write" /\ d.over = c.over /\ d.g = [c.g EXCEPT !.st = Overall(c.g.js)]
      /\ d \in [pc : {"write"}, g : {d.g}, todo : {c.todo}, over : {c.over}]
      /\ reader' = [reader EXCEPT ![r] = d] /\ reader'[r] = d /\ Moves(r)
  BY <1>0, <1>1 DEF IInv, TypeOK, Conclude, ReaderState, Moves
<1>3. d.g \in GroupMsg /\ d.g.st = Overall(c.g.js) /\ d.g.js = c.g.js
  <2>1. Overall(c.g.js) \in Final \cup {"processing"}
    BY DEF Overall, Final, Store!Final
  <2>2. PICK g \in GroupMsg : g = c.g
    BY <1>1
  <2>. QED
    BY <1>2, <2>1, <2>2 DEF GroupMsg
<1>4. TypeOK'
  <2>1. d \in ReaderState
    BY <1>1, <1>2, <1>3 DEF ReaderState
  <2>2. reader' \in [Readers -> ReaderState]
    BY <1>2, <2>1 DEF IInv, TypeOK, ReaderState
  <2>. QED
    BY <1>1, <2>2 DEF IInv, TypeOK, ReaderState, jobs
<1>5. Honest(d.g)'
  <2>1. /\ Overall(c.g.js) = "successful" => \A j \in Members : c.g.js[j] = "successful"
        /\ Overall(c.g.js) = "failed" => \E j \in Members : c.g.js[j] = "failed"
    BY DEF Overall
  <2>. QED
    BY <1>1, <1>3, <2>1 DEF Honest, jobs
<1>6. group' # NoGroup => Honest(group)'
  BY <1>1 DEF IInv, Honest, jobs
<1>7. c.over => Overall(c.g.js) \in Final
  <2>1. c.over => \/ \E j \in Members : c.g.js[j] = "failed"
                  \/ \A j \in Members : c.g.js[j] = "successful"
    BY <1>1 DEF ReaderOK, InSight, Seen
  <2>. QED
    BY <2>1 DEF Overall, Final, Store!Final
<1>8. ReaderOK(r)'
  BY <1>2, <1>3, <1>5, <1>7 DEF ReaderOK
<1>. QED
  BY <1>2, <1>4, <1>6, <1>8, OneMoves

LEMMA WriteStep == ASSUME IInv, NEW r \in Readers, Write(r) PROVE IInv'
<1> DEFINE c == reader[r]
<1>0. PICK d : d = reader'[r]
  OBVIOUS
<1>1. /\ c \in ReaderState /\ c.pc = "write" /\ c.g \in GroupMsg /\ Honest(c.g)
      /\ ReaderOK(r) /\ UNCHANGED <<jobs, admitted, enqueuer>> /\ group' = c.g
  BY DEF IInv, TypeOK, Write, ReaderOK, ReaderState
<1>2. /\ d.pc = "answered" /\ d.over = c.over /\ d.g = c.g /\ d \in ReaderState
      /\ reader' = [reader EXCEPT ![r] = d] /\ reader'[r] = d /\ Moves(r)
  BY <1>0, <1>1 DEF IInv, TypeOK, Write, ReaderState, Moves
<1>3. TypeOK'
  <2>1. reader' \in [Readers -> ReaderState]
    BY <1>2 DEF IInv, TypeOK, ReaderState
  <2>. QED
    BY <1>1, <2>1 DEF IInv, TypeOK, ReaderState, jobs
<1>4. Honest(group)' /\ Honest(d.g)'
  BY <1>1, <1>2 DEF Honest, jobs
<1>5. ReaderOK(r)'
  BY <1>1, <1>2, <1>4 DEF ReaderOK
<1>. QED
  BY <1>2, <1>3, <1>4, <1>5, OneMoves

LEMMA GiveUpStep == ASSUME IInv, NEW r \in Readers, GiveUp(r) PROVE IInv'
<1>1. reader' = [reader EXCEPT ![r] = Idle] /\ reader'[r] = Idle /\ Moves(r)
  BY DEF IInv, TypeOK, GiveUp, Moves
<1>2. group' = group \/ (group' = reader[r].g /\ reader[r].g \in GroupMsg /\ Honest(reader[r].g))
  BY DEF IInv, GiveUp, ReaderOK
<1>3. TypeOK'
  BY <1>1, <1>2 DEF IInv, TypeOK, Moves, jobs, Idle
<1>4. group' # NoGroup => Honest(group)'
  BY <1>1, <1>2 DEF IInv, Honest, Moves, jobs
<1>5. ReaderOK(r)'
  BY <1>1 DEF ReaderOK, Idle
<1>. QED
  BY <1>1, <1>3, <1>4, <1>5, OneMoves

-----------------------------------------------------------------------------
(* EnqueueGroup, and the theorems                                          *)

LEMMA StoreGroupStep == ASSUME IInv, StoreGroup PROVE IInv'
<1>0. /\ UNCHANGED <<jobs, admitted, reader>> /\ enqueuer' \in {"stored", "error"}
      /\ \/ UNCHANGED group
         \/ group' = [st |-> "processing", js |-> [j \in Members |-> "queued"]]
  BY DEF StoreGroup
<1>1. CASE UNCHANGED group
  BY <1>0, <1>1, JobsStep DEF IInv, TypeOK
<1>2. CASE group' = [st |-> "processing", js |-> [j \in Members |-> "queued"]]
  <2>1. TypeOK'
    BY <1>0, <1>2 DEF IInv, TypeOK, jobs, GroupMsg, Store!Statuses
  <2>2. Honest(group)'
    BY <1>2 DEF Honest, Final, Store!Final
  <2>3. \A r \in Readers : ReaderOK(r)'
    BY <1>0 DEF IInv, ReaderOK, Honest, InSight, Seen, jobs
  <2>. QED
    BY <2>1, <2>2, <2>3 DEF IInv
<1>. QED
  BY <1>0, <1>1, <1>2

(***************************************************************************)
(* The inductive invariant: messages, stored or in a reader's hands, say   *)
(* of a finished job what is so, and a reader that began when there was a  *)
(* verdict is going to find it (EnqueueGroup, GetGroup, getGroupStatus).   *)
(***************************************************************************)
THEOREM Inductive == Spec => []IInv
<1>1. Init => IInv
  BY GroupAssumption DEF Init, IInv, TypeOK, Store!Init, Store!Statuses, ReaderOK, Idle
<1>2. IInv /\ [Next]_vars => IInv'
  <2> SUFFICES ASSUME IInv, [Next]_vars PROVE IInv'
    OBVIOUS
  <2>1. ASSUME NEW j \in Members, EnqueueMember(j) PROVE IInv'
    BY <2>1, JobsStep, GroupAssumption DEF EnqueueMember, JobsMove, jobs, IInv, TypeOK
  <2>2. CASE Die
    BY <2>2, JobsStep DEF Die, IInv, TypeOK
  <2>3. CASE JobStep
    BY <2>3, JobsStep DEF JobStep, JobsMove, IInv, TypeOK
  <2>4. CASE UNCHANGED vars
    BY <2>4, JobsStep DEF vars, jobs, IInv, TypeOK
  <2>. QED
    BY <2>1, <2>2, <2>3, <2>4, StoreGroupStep, GetStep, LookupStep, ConcludeStep, WriteStep,
       GiveUpStep DEF Next
<1>. QED
  BY <1>1, <1>2, PTL DEF Spec

(***************************************************************************)
(* The stored verdict of a group is true: successful only if every job     *)
(* is, failed only if one is, for every number of jobs and of concurrent   *)
(* GetGroup calls (GetGroup, getGroupStatus).                              *)
(***************************************************************************)
THEOREM Verdicts == Spec => []VerdictIsTrue
<1>1. IInv => VerdictIsTrue
  <2> SUFFICES ASSUME IInv, group # NoGroup
               PROVE  /\ group.st = "successful" => \A j \in Members : status[j] = "successful"
                      /\ group.st = "failed" => \E j \in Members : status[j] = "failed"
    BY DEF IInv, VerdictIsTrue
  <2>. QED
    BY DEF IInv, Honest, Final, Store!Final
<1>. QED
  BY <1>1, Inductive, PTL

(***************************************************************************)
(* What a GetGroup call answers was so during the call: the verdict when   *)
(* it returns, or "processing" when it began, whatever older calls write   *)
(* meanwhile (GetGroup).                                                   *)
(***************************************************************************)
THEOREM Answers == Spec => []AnswerIsFresh
<1>1. IInv => AnswerIsFresh
  <2> SUFFICES ASSUME IInv, NEW r \in Readers, reader[r].pc = "answered",
                      reader[r].g.st \in Final
               PROVE  reader[r].g.st = Overall(status)
    BY DEF IInv, AnswerIsFresh, ReaderOK, GroupMsg
  <2>1. Honest(reader[r].g)
    BY DEF IInv, ReaderOK
  <2>. QED
    BY <2>1 DEF Honest, Overall, Final, Store!Final
<1>. QED
  BY <1>1, Inductive, PTL

=============================================================================
