------------------------- MODULE ChainStatus_proofs -------------------------
(***************************************************************************)
(* Proofs about ChainStatus: GetChain always finds the next job; and for a *)
(* chain of plain jobs, no interleaving of GetChain calls with each other, *)
(* with EnqueueChain and with the workers stores a wrong verdict.          *)
(***************************************************************************)
EXTENDS ChainStatus, TLAPS

(* The success continuations of a successful job are known.                *)
KidsThere == \A j \in Jobs : status[j] = "successful" =>
  \A k \in DOMAIN Linked[j] : status[Linked[j][k]] # "none"

(* A walk starts at the first job, which is known, and goes to known jobs. *)
Walking(r) ==
  LET e == reader[r] IN
  /\ e.pc # "missing"
  /\ e.pc # "idle" => e.c \in ChainMsg /\ e.c.jobID = Root /\ status[Root] # "none"
  /\ e.pc = "look" => status[e.cur] # "none" /\ e.c.st = "processing"

WInv ==
  /\ TypeOK
  /\ KidsThere
  /\ chain # NoChain => chain.jobID = Root /\ status[Root] # "none"
  /\ \A r \in Readers : Walking(r)

(* The jobs of the chain have no success continuations but the next job.   *)
PlainChain == \A i \in DOMAIN Chain : Own[Chain[i]] = <<>>

DoneBefore(i) == \A k \in 1 .. (i - 1) : status[Chain[k]] = "successful"

(* What a message says of the chain and of completed jobs is so.           *)
Honest(c) ==
  /\ \A k \in DOMAIN c.prev : status[c.prev[k]] \in Final
  /\ c.st = "successful" => AllDone /\ \A i \in DOMAIN Chain : Chain[i] \in Range(c.prev)
  /\ c.st = "failed" => \E i \in DOMAIN Chain : FailedAt(i)

(* A walk is at a job of the chain, with the ones before it behind it; if  *)
(* there was a verdict as it began, it ends with one.                      *)
ReaderOK(r) ==
  LET e == reader[r] IN
  /\ e.pc # "idle" => Honest(e.c) /\ (e.over => Over)
  /\ e.pc = "look" => \E i \in DOMAIN Chain :
       e.cur = Chain[i] /\ DoneBefore(i) /\ \A k \in 1 .. (i - 1) : Chain[k] \in Range(e.c.prev)
  /\ e.pc \in {"write", "answered"} /\ e.over => e.c.st \in Final

IInv ==
  /\ WInv
  /\ chain # NoChain => Honest(chain)
  /\ \A r \in Readers : ReaderOK(r)

-----------------------------------------------------------------------------
(* NewChain                                                                *)

(***************************************************************************)
(* The continuations of a linked job are jobs; the linked jobs of a plain  *)
(* chain are followed by the next job, the last by none (NewChain).        *)
(***************************************************************************)
LEMMA ChainIsJobs ==
  /\ Len(Chain) \in Nat /\ DOMAIN Chain = 1 .. Len(Chain) /\ 1 \in DOMAIN Chain
  /\ \A i \in DOMAIN Chain : Chain[i] \in Jobs
  /\ \A i \in 1 .. Len(Chain) - 1 : i + 1 \in DOMAIN Chain
BY ChainAssumption

(* The jobs that NewChain adds to the continuations of j: one or none.     *)
Added(j) ==
  LET next == {i \in 1 .. Len(Chain) - 1 : Chain[i] = j}
  IN  IF next = {} THEN <<>> ELSE <<Chain[(CHOOSE i \in next : TRUE) + 1]>>

LEMMA LinkedIs == ASSUME NEW j \in Jobs PROVE Linked[j] = Own[j] \o Added(j)
BY DEF Linked, Added

LEMMA LinkedIsJobs == Linked \in [Jobs -> Seq(Jobs)] /\ Root \in Jobs
<1>1. ASSUME NEW j \in Jobs PROVE Own[j] \o Added(j) \in Seq(Jobs)
  <2> DEFINE next == {i \in 1 .. Len(Chain) - 1 : Chain[i] = j}
  <2>0. Added(j) = IF next = {} THEN <<>> ELSE <<Chain[(CHOOSE i \in next : TRUE) + 1]>>
    BY DEF Added
  <2>1. CASE next = {}
    BY <2>0, <2>1, ChainAssumption
  <2>2. CASE next # {}
    <3>1. (CHOOSE i \in next : TRUE) \in next
      BY <2>2
    <3>2. Chain[(CHOOSE i \in next : TRUE) + 1] \in Jobs
      BY <3>1, ChainIsJobs
    <3>. HIDE DEF next
    <3>3. <<Chain[(CHOOSE i \in next : TRUE) + 1]>> \in Seq(Jobs)
      BY <3>2
    <3>. QED
      BY <2>0, <2>2, <3>3, ChainAssumption
  <2>. QED
    BY <2>1, <2>2
<1>. QED
  BY <1>1, ChainIsJobs, ChainAssumption DEF Linked, Added, Root

LEMMA LinkedPlain ==
  ASSUME PlainChain, NEW i \in DOMAIN Chain
  PROVE  Linked[Chain[i]] = IF i = Len(Chain) THEN <<>> ELSE <<Chain[i + 1]>>
<1> DEFINE next == {k \in 1 .. Len(Chain) - 1 : Chain[k] = Chain[i]}
<1>1. /\ Chain[i] \in Jobs /\ i \in 1 .. Len(Chain) /\ Len(Chain) \in Nat
      /\ \A k \in 1 .. Len(Chain) : Chain[k] = Chain[i] => k = i
  BY ChainAssumption
<1>2. Linked[Chain[i]] =
        <<>> \o IF next = {} THEN <<>> ELSE <<Chain[(CHOOSE k \in next : TRUE) + 1]>>
  BY <1>1, LinkedIs DEF Added, PlainChain
<1>3. CASE i = Len(Chain)
  <2>1. next = {}
    BY <1>1, <1>3
  <2>. QED
    BY <1>2, <1>3, <2>1
<1>4. CASE i # Len(Chain)
  <2>1. next = {i}
    BY <1>1, <1>4
  <2>2. (CHOOSE k \in next : TRUE) = i
    BY <2>1
  <2>3. Chain[i + 1] \in Jobs
    BY <1>1, <1>4, ChainIsJobs
  <2>. HIDE DEF next
  <2>4. Linked[Chain[i]] = <<>> \o <<Chain[i + 1]>>
    BY <1>2, <2>1, <2>2
  <2>. QED
    BY <1>4, <2>3, <2>4
<1>. QED
  BY <1>3, <1>4

-----------------------------------------------------------------------------
(* The jobs                                                                *)

FinalsKept == \A j \in Jobs : status[j] \in Final => status'[j] = status[j]
KnownKept == \A j \in Jobs : status[j] # "none" => status'[j] # "none"

JobsMove == \E j \in Jobs :
  Store!Admit(j) \/ Store!Take(j) \/ Store!Retry(j) \/ \E ok \in BOOLEAN : Store!Settle(j, ok)

JobsMoved ==
  /\ status' \in [Jobs -> Store!Statuses] /\ retried' \in [Jobs -> Nat]
  /\ FinalsKept /\ KnownKept
  /\ \A j \in Jobs : status'[j] = "successful" /\ status[j] # "successful" =>
       \A k \in DOMAIN Linked[j] : status[Linked[j][k]] # "none"

(***************************************************************************)
(* Whatever EnqueueChain and the workers do to the jobs, a final status    *)
(* stays what it was, a known job stays known, and a job that becomes      *)
(* successful has all its continuations recorded (setJobMessage, execJob,  *)
(* statusDone).                                                            *)
(***************************************************************************)
LEMMA JobsMoveOn == ASSUME TypeOK, JobsMove \/ UNCHANGED jobs PROVE JobsMoved
<1> USE ChainAssumption DEF TypeOK, JobsMoved, FinalsKept, KnownKept, Final, Store!Final,
        Store!Statuses
<1>1. CASE UNCHANGED jobs
  BY <1>1 DEF jobs
<1>2. ASSUME NEW j \in Jobs, Store!Admit(j) PROVE JobsMoved
  BY <1>2 DEF Store!Admit, Store!Known
<1>3. ASSUME NEW j \in Jobs, Store!Take(j) PROVE JobsMoved
  BY <1>3 DEF Store!Take
<1>4. ASSUME NEW j \in Jobs, Store!Retry(j) PROVE JobsMoved
  <2>1. /\ status[j] = "processing"
        /\ status' = [status EXCEPT ![j] = "retrying"]
        /\ retried' = [retried EXCEPT ![j] = retried[j] + 1] /\ retried[j] \in Nat
    BY <1>4 DEF Store!Retry
  <2>. QED
    BY <2>1
<1>5. ASSUME NEW j \in Jobs, NEW ok \in BOOLEAN, Store!Settle(j, ok) PROVE JobsMoved
  <2>1. ok => \A k \in DOMAIN Linked[j] : status[Linked[j][k]] # "none"
    BY <1>5 DEF Store!Settle, Store!AllKidsKnown, Store!Kids, Store!Known
  <2>. QED
    BY <1>5, <2>1 DEF Store!Settle, Store!MaySettle
<1>. QED
  BY <1>1, <1>2, <1>3, <1>4, <1>5 DEF JobsMove

(***************************************************************************)
(* An honest message stays honest, and a walk at a job of the chain stays  *)
(* behind completed jobs.                                                  *)
(***************************************************************************)
LEMMA HonestStays ==
  ASSUME TypeOK, JobsMoved
  PROVE  /\ \A c \in ChainMsg : Honest(c) => Honest(c)'
         /\ Over => Over'
         /\ \A i \in DOMAIN Chain : DoneBefore(i) => DoneBefore(i)'
<1>1. \A j \in Jobs : status[j] \in Final => status'[j] = status[j]
  BY DEF JobsMoved, FinalsKept
<1>2. "successful" \in Final /\ "failed" \in Final
  BY DEF Final, Store!Final
<1>3. AllDone => AllDone'
  BY <1>1, <1>2, ChainIsJobs DEF AllDone
<1>4. \A i \in DOMAIN Chain : DoneBefore(i) => DoneBefore(i)'
  <2>1. ASSUME NEW i \in DOMAIN Chain, NEW k \in 1 .. (i - 1) PROVE k \in DOMAIN Chain
    BY <2>1, ChainIsJobs
  <2>. QED
    BY <1>1, <1>2, <2>1, ChainIsJobs DEF DoneBefore
<1>f. \A i \in DOMAIN Chain : FailedAt(i) => FailedAt(i)'
  BY <1>1, <1>2, <1>4, ChainIsJobs DEF FailedAt, DoneBefore
<1>o. Over => Over'
  BY <1>3, <1>f DEF Over
<1>5. ASSUME NEW c \in ChainMsg, Honest(c) PROVE Honest(c)'
  <2>1. \A k \in DOMAIN c.prev : c.prev[k] \in Jobs
    BY DEF ChainMsg
  <2>2. \A k \in DOMAIN c.prev : status'[c.prev[k]] \in Final
    BY <1>1, <1>5, <2>1 DEF Honest
  <2>3. c.st = "failed" => \E i \in DOMAIN Chain : FailedAt(i)'
    BY <1>5, <1>f DEF Honest
  <2>. QED
    BY <1>3, <1>5, <2>2, <2>3 DEF Honest
<1>. QED
  BY <1>4, <1>5, <1>o

(***************************************************************************)
(* A step of the jobs alone keeps the invariants.                          *)
(***************************************************************************)
LEMMA JobsStepWalk ==
  ASSUME WInv, JobsMove \/ UNCHANGED jobs, UNCHANGED <<chain, reader>>
  PROVE  WInv' /\ JobsMoved
<1>1. JobsMoved
  BY JobsMoveOn DEF WInv
<1>2. TypeOK'
  BY <1>1 DEF WInv, TypeOK, JobsMoved, ChainMsg
<1>3. KidsThere'
  <2>1. ASSUME NEW j \in Jobs, NEW k \in DOMAIN Linked[j] PROVE Linked[j][k] \in Jobs
    BY LinkedIsJobs
  <2>2. \A j \in Jobs : status[j] # "none" => status'[j] # "none"
    BY <1>1 DEF JobsMoved, KnownKept
  <2>3. ASSUME NEW j \in Jobs, status'[j] = "successful", NEW k \in DOMAIN Linked[j]
        PROVE  status[Linked[j][k]] # "none"
    BY <1>1, <2>3 DEF WInv, KidsThere, JobsMoved
  <2>. QED
    BY <2>1, <2>2, <2>3 DEF KidsThere
<1>4. chain' # NoChain => chain'.jobID = Root /\ status'[Root] # "none"
  BY <1>1, LinkedIsJobs DEF WInv, JobsMoved, KnownKept
<1>5. ASSUME NEW r \in Readers PROVE Walking(r)'
  BY <1>1, LinkedIsJobs DEF WInv, TypeOK, Walking, JobsMoved, KnownKept
<1>. QED
  BY <1>1, <1>2, <1>3, <1>4, <1>5 DEF WInv

LEMMA JobsStep ==
  ASSUME IInv, JobsMove \/ UNCHANGED jobs, UNCHANGED <<chain, reader>>
  PROVE  IInv'
<1>1. WInv' /\ JobsMoved /\ TypeOK
  BY JobsStepWalk DEF IInv, WInv
<1>2. chain' # NoChain => Honest(chain)'
  <2>1. chain # NoChain => chain \in ChainMsg /\ Honest(chain)
    BY <1>1 DEF IInv, TypeOK
  <2>2. chain # NoChain => \A c \in ChainMsg : Honest(c) => Honest(c)'
    BY <1>1, HonestStays
  <2>. QED
    BY <2>1, <2>2 DEF Honest
<1>3. ASSUME NEW r \in Readers PROVE ReaderOK(r)'
  <2>1. reader[r].pc # "idle" => reader[r].c \in ChainMsg /\ Honest(reader[r].c)
    BY DEF IInv, WInv, Walking, ReaderOK
  <2>2. reader[r].pc # "idle" => Honest(reader[r].c)'
    BY <1>1, <2>1, HonestStays
  <2>3. /\ Over => Over'
        /\ \A i \in DOMAIN Chain : DoneBefore(i) => DoneBefore(i)'
    BY <1>1, HonestStays
  <2>. QED
    BY <2>2, <2>3 DEF IInv, ReaderOK
<1>. QED
  BY <1>1, <1>2, <1>3 DEF IInv

-----------------------------------------------------------------------------
(* GetChain                                                                *)

ReaderState == [pc : {"idle", "look", "write", "answered", "missing"},
                c : ChainMsg \cup {NoChain}, cur : Jobs, over : BOOLEAN]

(* One reader moves on to d, the jobs and the other readers stay.          *)
Moves(r, d) ==
  /\ d \in ReaderState
  /\ reader' = [reader EXCEPT ![r] = d]
  /\ UNCHANGED jobs

(***************************************************************************)
(* When one reader moves, only it and the stored chain can go wrong.       *)
(***************************************************************************)
LEMMA OneMovesWalk ==
  ASSUME WInv, NEW r \in Readers, NEW d, Moves(r, d), Walking(r)',
         chain' # NoChain => chain' \in ChainMsg /\ chain'.jobID = Root /\ status[Root] # "none"
  PROVE  WInv'
<1>1. TypeOK'
  <2>1. reader' \in [Readers -> ReaderState]
    BY DEF WInv, TypeOK, Moves, ReaderState
  <2>. QED
    BY <2>1 DEF WInv, TypeOK, Moves, jobs, ReaderState
<1>2. KidsThere'
  BY DEF WInv, KidsThere, Moves, jobs
<1>3. ASSUME NEW s \in Readers, s # r PROVE Walking(s)'
  <2>1. reader'[s] = reader[s] /\ status' = status
    BY <1>3 DEF WInv, TypeOK, Moves, jobs
  <2>. QED
    BY <1>3, <2>1 DEF WInv, Walking
<1>. QED
  BY <1>1, <1>2, <1>3 DEF WInv, Moves, jobs

LEMMA OneMoves ==
  ASSUME IInv, NEW r \in Readers, NEW d, Moves(r, d), WInv', ReaderOK(r)',
         chain' # NoChain => Honest(chain)'
  PROVE  IInv'
<1>1. ASSUME NEW s \in Readers, s # r PROVE ReaderOK(s)'
  <2>1. reader'[s] = reader[s] /\ status' = status
    BY <1>1 DEF IInv, WInv, TypeOK, Moves, jobs
  <2>. QED
    BY <1>1, <2>1 DEF IInv, ReaderOK, Honest, Over, AllDone, FailedAt, DoneBefore
<1>. QED
  BY <1>1 DEF IInv

(* The entry of the reader after the step.                                 *)
LEMMA GetFacts ==
  ASSUME WInv, NEW r \in Readers, Get(r)
  PROVE  /\ chain \in ChainMsg /\ chain.jobID = Root /\ chain' = chain /\ status[Root] # "none"
         /\ \E d \in ReaderState :
              /\ Moves(r, d) /\ reader'[r] = d
              /\ d.c = chain /\ d.cur = Root /\ d.over = Over
              /\ \/ d.pc = "answered" /\ chain.st \in Final
                 \/ d.pc = "look" /\ chain.st = "processing"
<1>1. chain \in ChainMsg /\ chain.jobID = Root /\ chain' = chain /\ status[Root] # "none"
  BY DEF WInv, TypeOK, Get
<1> DEFINE d == [pc |-> IF chain.st \in Final THEN "answered" ELSE "look",
                 c |-> chain, cur |-> chain.jobID, over |-> Over]
<1>2. d \in ReaderState
  BY <1>1, LinkedIsJobs DEF ReaderState, Over, AllDone
<1>3. Moves(r, d) /\ reader'[r] = d
  BY <1>2 DEF Get, Moves, WInv, TypeOK
<1>4. chain.st \in Final \/ chain.st = "processing"
  BY <1>1 DEF ChainMsg
<1>. QED
  BY <1>1, <1>2, <1>3, <1>4

LEMMA GetStepWalk == ASSUME WInv, NEW r \in Readers, Get(r) PROVE WInv'
<1>1. PICK d \in ReaderState :
        /\ Moves(r, d) /\ reader'[r] = d
        /\ d.c = chain /\ d.cur = Root
        /\ d.pc = "answered" \/ (d.pc = "look" /\ chain.st = "processing")
  BY GetFacts
<1>2. Walking(r)'
  BY <1>1, GetFacts DEF Walking, Moves, jobs
<1>. QED
  BY <1>1, <1>2, GetFacts, OneMovesWalk

LEMMA GetStep == ASSUME IInv, NEW r \in Readers, Get(r) PROVE IInv'
<1>0. WInv /\ WInv' /\ chain' = chain /\ chain \in ChainMsg /\ chain # NoChain
  BY GetStepWalk, GetFacts DEF IInv, Get
<1>1. PICK d \in ReaderState :
        /\ Moves(r, d) /\ reader'[r] = d
        /\ d.c = chain /\ d.cur = Root /\ d.over = Over
        /\ \/ d.pc = "answered" /\ chain.st \in Final
           \/ d.pc = "look" /\ chain.st = "processing"
  BY <1>0, GetFacts
<1>2. Honest(chain) /\ Honest(chain)' /\ Honest(d.c)' /\ (d.over => Over')
  BY <1>0, <1>1 DEF IInv, Honest, Over, AllDone, FailedAt, DoneBefore, Moves, jobs
<1>4. 1 \in DOMAIN Chain /\ Root = Chain[1] /\ DoneBefore(1)'
  BY ChainIsJobs DEF Root, DoneBefore
<1>5. d.pc = "look" => \E i \in DOMAIN Chain :
         d.cur = Chain[i] /\ DoneBefore(i)' /\ \A k \in 1 .. (i - 1) : Chain[k] \in Range(d.c.prev)
  BY <1>1, <1>4
<1>6. ReaderOK(r)'
  BY <1>1, <1>2, <1>5 DEF ReaderOK
<1>. QED
  BY <1>0, <1>1, <1>2, <1>6, OneMoves

LEMMA TurnIs ==
  ASSUME TypeOK, NEW cur \in Jobs, status[cur] # "none"
  PROVE  \/ Turn(cur) = "failed" /\ status[cur] = "failed"
         \/ Turn(cur) = "processing" /\ status[cur] \notin Final
         \/ Turn(cur) = "successful" /\ status[cur] = "successful" /\ Linked[cur] = <<>>
         \/ Turn(cur) = "next" /\ status[cur] = "successful" /\ Linked[cur] # <<>>
<1>1. status[cur] \in Store!Statuses
  BY DEF TypeOK
<1>. QED
  BY <1>1 DEF Turn, Store!Statuses, Final, Store!Final

(* One turn of the walk: on to the next job, or to the end with a verdict. *)
Turned(e, d) ==
  /\ d.over = e.over /\ d.c.jobID = e.c.jobID /\ d.c \in ChainMsg
  /\ \/ /\ status[e.cur] = "successful" /\ Linked[e.cur] # <<>>
        /\ d.pc = "look" /\ d.cur = Linked[e.cur][1] /\ d.c.st = e.c.st
        /\ d.c.prev = Append(e.c.prev, e.cur)
     \/ /\ d.pc = "write" /\ d.c.st = status[e.cur]
        /\ status[e.cur] = "failed" \/ (status[e.cur] = "successful" /\ Linked[e.cur] = <<>>)
        /\ d.c.prev = Append(e.c.prev, e.cur)
     \/ d.pc = "write" /\ d.c.st = "processing" /\ status[e.cur] \notin Final /\ d.c.prev = e.c.prev

LEMMA CheckFacts ==
  ASSUME WInv, NEW r \in Readers, Check(r)
  PROVE  /\ reader[r] \in ReaderState /\ reader[r].pc = "look" /\ reader[r].c \in ChainMsg
         /\ reader[r].c.jobID = Root /\ reader[r].c.st = "processing" /\ chain' = chain
         /\ status[Root] # "none"
         /\ \E d \in ReaderState : Moves(r, d) /\ reader'[r] = d /\ Turned(reader[r], d)
<1> DEFINE e == reader[r]
           past == Append(e.c.prev, e.cur)
<1>1. /\ e \in ReaderState /\ e.pc = "look" /\ e.c \in ChainMsg /\ e.c.jobID = Root
      /\ e.c.st = "processing" /\ chain' = chain /\ UNCHANGED jobs /\ status[e.cur] # "none"
      /\ status[Root] # "none"
      /\ reader \in [Readers -> ReaderState]
  BY DEF WInv, TypeOK, Check, Walking, ReaderState
<1>2. past \in Seq(Jobs) /\ e.c.prev \in Seq(Jobs) /\ e.cur \in Jobs
  BY <1>1 DEF ChainMsg, ReaderState
<1>3. \E d \in ReaderState : reader' = [reader EXCEPT ![r] = d] /\ Turned(e, d)
  <2>0. PICK t : t = Turn(e.cur)
    OBVIOUS
  <2>1. CASE t = "next" /\ status[e.cur] = "successful" /\ Linked[e.cur] # <<>>
    <3>1. Linked[e.cur][1] \in Jobs
      BY <1>2, <2>1, LinkedIsJobs
    <3> DEFINE d == [e EXCEPT !.cur = Linked[e.cur][1], !.c = [e.c EXCEPT !.prev = past]]
    <3>2. reader' = [reader EXCEPT ![r] = d]
      BY <2>0, <2>1 DEF Check
    <3>3. [e.c EXCEPT !.prev = past] \in ChainMsg
      BY <1>1, <1>2 DEF ChainMsg
    <3>4. d \in ReaderState /\ Turned(e, d)
      BY <1>1, <2>1, <3>1, <3>3 DEF ReaderState, Turned, ChainMsg
    <3>. QED
      BY <3>2, <3>4
  <2>2. CASE /\ t \in {"failed", "successful"} /\ status[e.cur] = t
             /\ t = "failed" \/ Linked[e.cur] = <<>>
    <3> DEFINE d == [e EXCEPT !.pc = "write", !.c = [e.c EXCEPT !.st = t, !.prev = past]]
    <3>2. reader' = [reader EXCEPT ![r] = d]
      BY <2>0, <2>2 DEF Check
    <3>3. [e.c EXCEPT !.st = t, !.prev = past] \in ChainMsg
      BY <1>1, <1>2, <2>2 DEF ChainMsg, Final, Store!Final
    <3>4. d \in ReaderState /\ Turned(e, d)
      BY <1>1, <2>2, <3>3 DEF ReaderState, Turned, ChainMsg
    <3>. QED
      BY <3>2, <3>4
  <2>3. CASE t = "processing" /\ status[e.cur] \notin Final
    <3> DEFINE d == [e EXCEPT !.pc = "write", !.c = [e.c EXCEPT !.st = t, !.prev = e.c.prev]]
    <3>2. reader' = [reader EXCEPT ![r] = d]
      BY <2>0, <2>3 DEF Check
    <3>3. [e.c EXCEPT !.st = t, !.prev = e.c.prev] \in ChainMsg
      BY <1>1, <1>2, <2>3 DEF ChainMsg
    <3>4. d \in ReaderState /\ Turned(e, d)
      BY <1>1, <2>3, <3>3 DEF ReaderState, Turned, ChainMsg
    <3>. QED
      BY <3>2, <3>4
  <2>. QED
    BY <1>1, <1>2, <2>0, <2>1, <2>2, <2>3, TurnIs DEF WInv
<1>. QED
  BY <1>1, <1>3 DEF Moves

LEMMA CheckStepWalk == ASSUME WInv, NEW r \in Readers, Check(r) PROVE WInv'
<1>1. PICK d \in ReaderState : Moves(r, d) /\ reader'[r] = d /\ Turned(reader[r], d)
  BY CheckFacts
<1>2. d.pc = "look" => status[d.cur] # "none"
  <2>1. ASSUME status[reader[r].cur] = "successful", Linked[reader[r].cur] # <<>>
        PROVE  status[Linked[reader[r].cur][1]] # "none"
    <3>1. reader[r].cur \in Jobs
      BY CheckFacts DEF ReaderState
    <3>2. 1 \in DOMAIN Linked[reader[r].cur]
      BY <2>1, <3>1, LinkedIsJobs
    <3>. QED
      BY <2>1, <3>1, <3>2 DEF WInv, KidsThere
  <2>. QED
    BY <1>1, <2>1 DEF Turned
<1>3. Walking(r)'
  BY <1>1, <1>2, CheckFacts DEF Walking, Turned, Moves, jobs
<1>. QED
  BY <1>1, <1>3, CheckFacts, OneMovesWalk DEF WInv, TypeOK

LEMMA AppendRange ==
  ASSUME NEW s \in Seq(Jobs), NEW j \in Jobs
  PROVE  j \in Range(Append(s, j)) /\ \A k \in Range(s) : k \in Range(Append(s, j))
<1>1. /\ DOMAIN Append(s, j) = 1 .. Len(s) + 1 /\ Append(s, j)[Len(s) + 1] = j
      /\ Len(s) \in Nat /\ DOMAIN s = 1 .. Len(s)
      /\ \A k \in 1 .. Len(s) : Append(s, j)[k] = s[k]
  OBVIOUS
<1>2. j \in Range(Append(s, j))
  BY <1>1 DEF Range
<1>3. ASSUME NEW k \in DOMAIN s PROVE s[k] \in Range(Append(s, j))
  <2>1. k \in DOMAIN Append(s, j) /\ Append(s, j)[k] = s[k]
    BY <1>1
  <2>. QED
    BY <2>1 DEF Range
<1>. QED
  BY <1>2, <1>3 DEF Range

LEMMA CheckStep == ASSUME IInv, PlainChain, NEW r \in Readers, Check(r) PROVE IInv'
<1> DEFINE e == reader[r]
<1>0. /\ WInv /\ WInv' /\ chain' = chain /\ e \in ReaderState /\ e.c \in ChainMsg
      /\ e.pc = "look" /\ e.c.st = "processing"
  BY CheckStepWalk, CheckFacts DEF IInv
<1>1. PICK d \in ReaderState : Moves(r, d) /\ reader'[r] = d /\ Turned(e, d)
  BY <1>0, CheckFacts
<1>2. PICK i \in DOMAIN Chain :
        e.cur = Chain[i] /\ DoneBefore(i) /\ \A k \in 1 .. (i - 1) : Chain[k] \in Range(e.c.prev)
  BY <1>0 DEF IInv, ReaderOK
<1>l. Linked[e.cur] = IF i = Len(Chain) THEN <<>> ELSE <<Chain[i + 1]>>
  BY <1>2, LinkedPlain
<1>3. /\ Honest(e.c) /\ (e.over => Over) /\ d.over = e.over /\ status' = status
      /\ e.cur \in Jobs /\ e.c.prev \in Seq(Jobs)
  BY <1>0, <1>1 DEF IInv, ReaderOK, Turned, Moves, jobs, ChainMsg, ReaderState
<1>4. chain' # NoChain => Honest(chain)'
  BY <1>0, <1>3 DEF IInv, Honest, AllDone, FailedAt, DoneBefore
<1>5. (Over' <=> Over) /\ (AllDone' <=> AllDone) /\ (\A k : FailedAt(k)' = FailedAt(k)) /\ \A k : DoneBefore(k)' = DoneBefore(k)
  BY <1>3 DEF Over, AllDone, FailedAt, DoneBefore
<1>6. i \in 1 .. Len(Chain) /\ Len(Chain) \in Nat
  BY ChainIsJobs
<1>7. status[e.cur] = "successful" =>
        \A k \in 1 .. i : k \in DOMAIN Chain /\ status[Chain[k]] = "successful"
  BY <1>2, <1>6, ChainIsJobs DEF DoneBefore
<1>8. \A k \in 1 .. i : Chain[k] \in Range(Append(e.c.prev, e.cur))
  BY <1>2, <1>3, <1>6, AppendRange
<1>9. CASE /\ status[e.cur] = "successful" /\ Linked[e.cur] # <<>>
           /\ d.pc = "look" /\ d.cur = Linked[e.cur][1] /\ d.c.st = e.c.st
           /\ d.c.prev = Append(e.c.prev, e.cur)
  <2>1. i + 1 \in DOMAIN Chain /\ d.cur = Chain[i + 1]
    BY <1>l, <1>6, <1>9, ChainIsJobs
  <2>2. (\A k \in 1 .. ((i + 1) - 1) : Chain[k] \in Range(d.c.prev)) /\ DoneBefore(i + 1)
    BY <1>6, <1>7, <1>8, <1>9 DEF DoneBefore
  <2>3. Honest(d.c)'
    <3>1. \A k \in DOMAIN d.c.prev : status[d.c.prev[k]] \in Final
      BY <1>3, <1>9 DEF Honest, Final, Store!Final
    <3>. QED
      BY <1>0, <1>3, <1>9, <3>1 DEF Honest
  <2>4. \E m \in DOMAIN Chain :
          d.cur = Chain[m] /\ DoneBefore(m)' /\ \A k \in 1 .. (m - 1) : Chain[k] \in Range(d.c.prev)
    BY <1>5, <2>1, <2>2
  <2>5. ReaderOK(r)'
    BY <1>1, <1>3, <1>5, <1>9, <2>3, <2>4 DEF ReaderOK
  <2>. QED
    BY <1>0, <1>1, <1>4, <2>5, OneMoves
<1>10. CASE /\ d.pc = "write" /\ d.c.st = status[e.cur]
            /\ status[e.cur] = "failed" \/ (status[e.cur] = "successful" /\ Linked[e.cur] = <<>>)
            /\ d.c.prev = Append(e.c.prev, e.cur)
  <2>1. \A k \in DOMAIN d.c.prev : status[d.c.prev[k]] \in Final
    BY <1>3, <1>10 DEF Honest, Final, Store!Final
  <2>2. CASE status[e.cur] = "failed"
    <3>1. Honest(d.c)'
      BY <1>2, <1>3, <1>5, <1>10, <2>1, <2>2 DEF Honest, FailedAt, DoneBefore
    <3>2. d.c.st \in Final
      BY <1>10, <2>2 DEF Final, Store!Final
    <3>3. ReaderOK(r)'
      BY <1>1, <1>3, <1>5, <1>10, <3>1, <3>2 DEF ReaderOK
    <3>. QED
      BY <1>0, <1>1, <1>4, <3>3, OneMoves
  <2>3. CASE status[e.cur] = "successful" /\ Linked[e.cur] = <<>>
    <3>1. i = Len(Chain)
      BY <1>l, <2>3
    <3>2. AllDone /\ \A k \in DOMAIN Chain : Chain[k] \in Range(d.c.prev)
      BY <1>6, <1>7, <1>8, <1>10, <2>3, <3>1, ChainIsJobs DEF AllDone
    <3>3. Honest(d.c)'
      BY <1>3, <1>5, <1>10, <2>1, <2>3, <3>2 DEF Honest
    <3>4. d.c.st \in Final
      BY <1>10, <2>3 DEF Final, Store!Final
    <3>5. ReaderOK(r)'
      BY <1>1, <1>3, <1>5, <1>10, <3>3, <3>4 DEF ReaderOK
    <3>. QED
      BY <1>0, <1>1, <1>4, <3>5, OneMoves
  <2>. QED
    BY <1>10, <2>2, <2>3
<1>11. CASE d.pc = "write" /\ d.c.st = "processing" /\ status[e.cur] \notin Final /\ d.c.prev = e.c.prev
  <2>1. Honest(d.c)'
    BY <1>3, <1>11 DEF Honest
  <2>2. ~Over
    <3>1. status[Chain[i]] \notin {"failed", "successful"}
      BY <1>2, <1>11 DEF Final, Store!Final
    <3>2. ASSUME NEW m \in DOMAIN Chain, FailedAt(m) PROVE FALSE
      <4>1. m \in 1 .. Len(Chain)
        BY ChainIsJobs
      <4>2. m < i => status[Chain[m]] = "successful"
        BY <1>2, <1>6, <4>1 DEF DoneBefore
      <4>3. m > i => status[Chain[i]] = "successful"
        BY <1>6, <3>2, <4>1 DEF FailedAt
      <4>. QED
        BY <1>6, <3>1, <3>2, <4>1, <4>2, <4>3 DEF FailedAt
    <3>. QED
      BY <3>1, <3>2 DEF Over, AllDone
  <2>3. ReaderOK(r)'
    BY <1>1, <1>3, <1>5, <1>11, <2>1, <2>2 DEF ReaderOK
  <2>. QED
    BY <1>0, <1>1, <1>4, <2>3, OneMoves
<1>. QED
  BY <1>1, <1>9, <1>10, <1>11 DEF Turned

LEMMA WriteStepWalk ==
  ASSUME WInv, NEW r \in Readers, Write(r)
  PROVE  /\ WInv'
         /\ \E d \in ReaderState :
              /\ Moves(r, d) /\ reader'[r] = d
              /\ d.pc = "answered" /\ d.c = reader[r].c /\ d.over = reader[r].over
<1> DEFINE e == reader[r]
           d == [e EXCEPT !.pc = "answered"]
<1>1. /\ e \in ReaderState /\ e.pc = "write" /\ e.c \in ChainMsg /\ e.c.jobID = Root
      /\ chain' = e.c /\ reader \in [Readers -> ReaderState]
  BY DEF WInv, TypeOK, Write, Walking, ReaderState
<1>2. d \in ReaderState /\ d.pc = "answered" /\ d.c = e.c /\ d.over = e.over
  BY <1>1 DEF ReaderState
<1>3. Moves(r, d) /\ reader'[r] = d
  BY <1>1, <1>2 DEF Write, Moves
<1>4. status[Root] # "none"
  BY <1>1 DEF WInv, Walking
<1>5. Walking(r)'
  BY <1>1, <1>2, <1>3, <1>4 DEF Walking, Moves, jobs
<1>6. WInv'
  BY <1>1, <1>3, <1>4, <1>5, OneMovesWalk
<1>. QED
  BY <1>2, <1>3, <1>6

LEMMA WriteStep == ASSUME IInv, NEW r \in Readers, Write(r) PROVE IInv'
<1>1. PICK d \in ReaderState :
        /\ Moves(r, d) /\ reader'[r] = d
        /\ d.pc = "answered" /\ d.c = reader[r].c /\ d.over = reader[r].over
  BY WriteStepWalk DEF IInv
<1>2. WInv' /\ chain' = d.c /\ status' = status
  BY <1>1, WriteStepWalk DEF IInv, Write, jobs
<1>3. Honest(d.c)' /\ (d.over => Over') /\ (d.over => d.c.st \in Final)
  BY <1>1, <1>2 DEF IInv, ReaderOK, Write, Honest, Over, AllDone, FailedAt, DoneBefore
<1>4. Honest(chain)'
  BY <1>2, <1>3 DEF Honest
<1>5. ReaderOK(r)'
  BY <1>1, <1>3 DEF ReaderOK
<1>. QED
  BY <1>1, <1>2, <1>4, <1>5, OneMoves

LEMMA GiveUpStepWalk ==
  ASSUME WInv, NEW r \in Readers, GiveUp(r)
  PROVE  WInv' /\ \E d \in ReaderState : Moves(r, d) /\ reader'[r] = d /\ d.pc = "idle"
<1> DEFINE d == [reader[r] EXCEPT !.pc = "idle"]
<1>1. reader[r] \in ReaderState /\ reader \in [Readers -> ReaderState]
  BY DEF WInv, TypeOK, ReaderState
<1>2. d \in ReaderState /\ d.pc = "idle"
  BY <1>1 DEF ReaderState
<1>3. Moves(r, d) /\ reader'[r] = d
  BY <1>1, <1>2 DEF GiveUp, Moves
<1>4. Walking(r)'
  BY <1>2, <1>3 DEF Walking
<1>5. WInv'
  BY <1>3, <1>4, OneMovesWalk DEF GiveUp, WInv, TypeOK
<1>. QED
  BY <1>2, <1>3, <1>5

LEMMA GiveUpStep == ASSUME IInv, NEW r \in Readers, GiveUp(r) PROVE IInv'
<1>1. PICK d \in ReaderState : Moves(r, d) /\ reader'[r] = d /\ d.pc = "idle"
  BY GiveUpStepWalk DEF IInv
<1>2. WInv' /\ chain' = chain /\ status' = status
  BY GiveUpStepWalk DEF IInv, GiveUp, jobs
<1>3. chain' # NoChain => Honest(chain)'
  BY <1>2 DEF IInv, Honest, AllDone, FailedAt
<1>4. ReaderOK(r)'
  BY <1>1 DEF ReaderOK
<1>. QED
  BY <1>1, <1>2, <1>3, <1>4, OneMoves

-----------------------------------------------------------------------------
(* EnqueueChain, and the theorems                                          *)

LEMMA InitWalk == ASSUME Init PROVE WInv
<1>1. status = [j \in Jobs |-> "none"] /\ retried = [j \in Jobs |-> 0] /\ chain = NoChain
  BY DEF Init, Store!Init
<1>2. TypeOK
  BY <1>1, LinkedIsJobs DEF Init, TypeOK, Store!Statuses
<1>3. \A r \in Readers : Walking(r)
  BY DEF Init, Walking
<1>. QED
  BY <1>1, <1>2, <1>3 DEF WInv, KidsThere

LEMMA StoreChainStepWalk == ASSUME WInv, StoreChain PROVE WInv'
<1>1. chain' \in ChainMsg /\ chain'.jobID = Root /\ status[Root] # "none"
  BY LinkedIsJobs DEF StoreChain, ChainMsg, Store!Known
<1>2. UNCHANGED <<status, retried, reader>>
  BY DEF StoreChain, jobs
<1>. QED
  BY <1>1, <1>2 DEF WInv, TypeOK, KidsThere, Walking

LEMMA StoreChainStep == ASSUME IInv, StoreChain PROVE IInv'
<1>1. chain' = [st |-> "processing", jobID |-> Root, prev |-> <<>>] /\ UNCHANGED <<status, reader>>
  BY DEF StoreChain, jobs
<1>2. Honest(chain)'
  BY <1>1 DEF Honest
<1>3. \A r \in Readers : ReaderOK(r)'
  BY <1>1 DEF IInv, ReaderOK, Honest, Over, AllDone, FailedAt, DoneBefore
<1>. QED
  BY <1>2, <1>3, StoreChainStepWalk DEF IInv

(***************************************************************************)
(* What holds for every chain, plain or not: a walk stays on known jobs,   *)
(* because the continuations of a successful job are recorded before its   *)
(* status (EnqueueChain, GetChain, execJob).                               *)
(***************************************************************************)
THEOREM Walks == Spec => []WInv
<1>1. Init => WInv
  BY InitWalk
<1>2. WInv /\ [Next]_vars => WInv'
  <2> SUFFICES ASSUME WInv, [Next]_vars PROVE WInv'
    OBVIOUS
  <2>1. CASE EnqueueRoot
    BY <2>1, LinkedIsJobs, JobsStepWalk DEF EnqueueRoot, JobsMove
  <2>2. CASE JobStep
    BY <2>2, JobsStepWalk DEF JobStep, JobsMove
  <2>3. CASE UNCHANGED vars
    BY <2>3, JobsStepWalk DEF vars, jobs
  <2>. QED
    BY <2>1, <2>2, <2>3, StoreChainStepWalk, GetStepWalk, CheckStepWalk, WriteStepWalk,
       GiveUpStepWalk DEF Next
<1>. QED
  BY <1>1, <1>2, PTL DEF Spec

(***************************************************************************)
(* GetChain never fails to find the next job of a successful one, whatever *)
(* continuations the jobs have (GetChain, execJob).                        *)
(***************************************************************************)
THEOREM NextIsThere == Spec => []NextJobIsThere
<1>1. WInv => NextJobIsThere
  BY DEF WInv, Walking, NextJobIsThere
<1>. QED
  BY <1>1, Walks, PTL

(***************************************************************************)
(* The inductive invariant for a chain of plain jobs: every message says   *)
(* of the chain what is so, and every walk is at a job of the chain whose  *)
(* predecessors succeeded (EnqueueChain, GetChain).                        *)
(***************************************************************************)
THEOREM Inductive == ASSUME PlainChain PROVE Spec => []IInv
<1>1. Init => IInv
  BY InitWalk DEF Init, IInv, ReaderOK
<1>2. IInv /\ [Next]_vars => IInv'
  <2> SUFFICES ASSUME IInv, [Next]_vars PROVE IInv'
    OBVIOUS
  <2>1. CASE EnqueueRoot
    BY <2>1, LinkedIsJobs, JobsStep DEF EnqueueRoot, JobsMove
  <2>2. CASE JobStep
    BY <2>2, JobsStep DEF JobStep, JobsMove
  <2>3. CASE UNCHANGED vars
    BY <2>3, JobsStep DEF vars, jobs
  <2>. QED
    BY <2>1, <2>2, <2>3, StoreChainStep, GetStep, CheckStep, WriteStep, GiveUpStep DEF Next
<1>. QED
  BY <1>1, <1>2, PTL DEF Spec

(***************************************************************************)
(* The stored verdict of a chain of plain jobs is true: successful only if *)
(* every job is, failed only if one is and those before it are successful  *)
(* (GetChain, NewChain).                                                   *)
(***************************************************************************)
THEOREM Verdicts == ASSUME PlainChain PROVE Spec => []VerdictIsTrue
<1>1. IInv => VerdictIsTrue
  BY DEF IInv, WInv, VerdictIsTrue, Honest
<1>. QED
  BY <1>1, Inductive, PTL

(***************************************************************************)
(* What a GetChain call answers was so during the call: the verdict when   *)
(* it returns, or "processing" when it began, whatever older calls write   *)
(* meanwhile (GetChain).                                                   *)
(***************************************************************************)
THEOREM Answers == ASSUME PlainChain PROVE Spec => []AnswerIsFresh
<1>1. IInv => AnswerIsFresh
  <2> SUFFICES ASSUME IInv, NEW r \in Readers, reader[r].pc = "answered"
               PROVE  CASE reader[r].c.st = "successful" -> AllDone
                        [] reader[r].c.st = "failed" -> \E i \in DOMAIN Chain : FailedAt(i)
                        [] OTHER -> ~reader[r].over
    BY DEF AnswerIsFresh
  <2>1. Honest(reader[r].c) /\ (reader[r].over => reader[r].c.st \in Final)
    BY DEF IInv, ReaderOK
  <2>. QED
    BY <2>1 DEF Honest, Final, Store!Final
<1>. QED
  BY <1>1, Inductive, PTL

(***************************************************************************)
(* The completed jobs that a chain lists are completed, and a successful   *)
(* chain lists all its jobs (GetChain).                                    *)
(***************************************************************************)
THEOREM PrevJobs == ASSUME PlainChain PROVE Spec => []PrevJobsAreCompleted
<1>1. IInv => PrevJobsAreCompleted
  BY DEF IInv, Honest, PrevJobsAreCompleted, Range
<1>. QED
  BY <1>1, Inductive, PTL

=============================================================================
