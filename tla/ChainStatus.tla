----------------------------- MODULE ChainStatus -----------------------------
(***************************************************************************)
(* Chains of jobs (src/chains.go): NewChain makes every job a success      *)
(* continuation of the one before, EnqueueChain enqueues the first and     *)
(* stores the chain, GetChain walks from the first job along OnSuccessIDs. *)
(* The jobs themselves behave as JobStatus allows.                         *)
(***************************************************************************)
EXTENDS Naturals, Sequences

CONSTANTS
  Jobs,        \* the jobs of the chain and their other continuations
  Chain,       \* the jobs given to NewChain, in order
  Own,         \* [Jobs -> Seq(Jobs)]: Job.OnSuccess before NewChain
  OnError,     \* [Jobs -> Seq(Jobs)]: Job.OnError
  MaxRetries,  \* [Jobs -> Nat]
  Readers,     \* goroutines that call GetChain
  MaxPrev,     \* bound: GetChain is not called once PrevJobs is longer
  NoChain      \* the store has no message for the chain

Range(s) == {s[i] : i \in DOMAIN s}

(* NewChain refuses fewer than two jobs; every job has an id of its own.   *)
ASSUME ChainAssumption ==
  /\ Chain \in Seq(Jobs) /\ Len(Chain) >= 2
  /\ \A i, k \in DOMAIN Chain : Chain[i] = Chain[k] => i = k
  /\ Own \in [Jobs -> Seq(Jobs)] /\ OnError \in [Jobs -> Seq(Jobs)]
  /\ \A j \in Jobs : Range(Own[j]) \cap Range(Chain) = {}
  /\ MaxRetries \in [Jobs -> Nat] /\ MaxPrev \in Nat

(* NewChain appends the next job to the continuations a job already has.   *)
Linked ==
  [j \in Jobs |->
     Own[j] \o LET next == {i \in 1 .. Len(Chain) - 1 : Chain[i] = j}
               IN  IF next = {} THEN <<>> ELSE <<Chain[(CHOOSE i \in next : TRUE) + 1]>>]

Root == Chain[1]

VARIABLES
  status,    \* the stored status of each job
  retried,   \* and its number of retries
  chain,     \* chain:msg:<id> in the results store
  reader     \* the GetChain calls

jobs == <<status, retried>>
vars == <<status, retried, chain, reader>>

Store == INSTANCE JobStatus WITH Roots <- {Root}, OnSuccess <- Linked
Final == Store!Final

(* ChainMeta, without its id.                                              *)
ChainMsg == [st : Final \cup {"processing"}, jobID : Jobs, prev : Seq(Jobs)]

TypeOK ==
  /\ status \in [Jobs -> Store!Statuses] /\ retried \in [Jobs -> Nat]
  /\ chain \in ChainMsg \cup {NoChain}
  /\ reader \in [Readers -> [pc : {"idle", "look", "write", "answered", "missing"},
                             c : ChainMsg \cup {NoChain}, cur : Jobs, over : BOOLEAN]]

Init ==
  /\ Store!Init
  /\ chain = NoChain
  /\ reader = [r \in Readers |-> [pc |-> "idle", c |-> NoChain, cur |-> Root, over |-> FALSE]]

-----------------------------------------------------------------------------
(* EnqueueChain: the first job is enqueued, then the chain stored.  The    *)
(* caller may die or fail between the two.                                 *)

EnqueueRoot ==
  /\ Store!Admit(Root)
  /\ UNCHANGED <<chain, reader>>

(* Mutated form: the first job is listed as a completed one.               *)
StoreChainListed ==
  /\ chain = NoChain /\ Store!Known(Root)
  /\ chain' = [st |-> "processing", jobID |-> Root, prev |-> <<Root>>]
  /\ UNCHANGED <<jobs, reader>>

StoreChain ==
  /\ chain = NoChain /\ Store!Known(Root)
  /\ chain' = [st |-> "processing", jobID |-> Root, prev |-> <<>>]
  /\ UNCHANGED <<jobs, reader>>

-----------------------------------------------------------------------------
(* GetChain                                                                *)

AllDone == \A i \in DOMAIN Chain : status[Chain[i]] = "successful"
FailedAt(i) ==
  /\ status[Chain[i]] = "failed"
  /\ \A k \in 1 .. (i - 1) : status[Chain[k]] = "successful"

(* Whether the jobs, as they are now, make a verdict.                      *)
Over == AllDone \/ \E i \in DOMAIN Chain : FailedAt(i)

Get(r) ==
  /\ reader[r].pc \in {"idle", "answered", "missing"}
  /\ chain # NoChain /\ Len(chain.prev) <= MaxPrev
  /\ reader' = [reader EXCEPT ![r] =
       [pc |-> IF chain.st \in Final THEN "answered" ELSE "look",
        c |-> chain, cur |-> chain.jobID, over |-> Over]]
  /\ UNCHANGED <<jobs, chain>>

(* Mutated forms: a retrying job counts as failed; only one job is looked  *)
(* at in a call.                                                           *)
TurnHasty(cur) ==
  CASE status[cur] = "none" -> "missing"
    [] status[cur] \in {"failed", "retrying"} -> "failed"
    [] status[cur] \in {"queued", "processing"} -> "processing"
    [] status[cur] = "successful" /\ Linked[cur] = <<>> -> "successful"
    [] OTHER -> "next"

TurnOnce(cur) ==
  CASE status[cur] = "none" -> "missing"
    [] status[cur] = "failed" -> "failed"
    [] status[cur] = "successful" /\ Linked[cur] = <<>> -> "successful"
    [] OTHER -> "processing"

(* One turn of checkJobs, with the GetJob that precedes it: the status of  *)
(* the chain if the walk ends here.  The ids of the next jobs are in the   *)
(* stored message of a successful one.                                     *)
Turn(cur) ==
  CASE status[cur] = "none" -> "missing"
    [] status[cur] = "failed" -> "failed"
    [] status[cur] \in {"queued", "processing", "retrying"} -> "processing"
    [] status[cur] = "successful" /\ Linked[cur] = <<>> -> "successful"
    [] OTHER -> "next"

Check(r) ==
  LET cur  == reader[r].cur
      turn == Turn(cur)
      past == IF turn = "processing" THEN reader[r].c.prev ELSE Append(reader[r].c.prev, cur) IN
  /\ reader[r].pc = "look"
  /\ reader' = [reader EXCEPT ![r] =
       CASE turn = "missing" -> [@ EXCEPT !.pc = "missing"]
         [] turn = "next" -> [@ EXCEPT !.cur = Linked[cur][1], !.c.prev = past]
         [] OTHER -> [@ EXCEPT !.pc = "write", !.c.st = turn, !.c.prev = past]]
  /\ UNCHANGED <<jobs, chain>>

Write(r) ==
  /\ reader[r].pc = "write"
  /\ chain' = reader[r].c
  /\ reader' = [reader EXCEPT ![r].pc = "answered"]
  /\ UNCHANGED jobs

(* A call to the store fails: the caller gets an error.                    *)
GiveUp(r) ==
  /\ reader[r].pc \in {"look", "write"}
  /\ reader' = [reader EXCEPT ![r].pc = "idle"]
  /\ UNCHANGED <<jobs, chain>>

-----------------------------------------------------------------------------

(* Workers move the jobs on and enqueue their continuations.               *)
JobStep ==
  /\ \E j \in Jobs :
       \/ j # Root /\ Store!Admit(j)
       \/ Store!Take(j)
       \/ Store!Retry(j)
       \/ \E ok \in BOOLEAN : Store!Settle(j, ok)
  /\ UNCHANGED <<chain, reader>>

Next ==
  \/ EnqueueRoot
  \/ StoreChain
  \/ \E r \in Readers : Get(r) \/ Check(r) \/ Write(r) \/ GiveUp(r)
  \/ JobStep

Spec == Init /\ [][Next]_vars

-----------------------------------------------------------------------------
(* Properties                                                              *)

(* README: "the Chain is considered successful only if the final job       *)
(* completes successfully"; every job before it is successful as well, and *)
(* a chain is failed only if one of its jobs is, those before it being     *)
(* successful (GetChain, NewChain).                                        *)
VerdictIsTrue ==
  /\ TypeOK
  /\ chain # NoChain =>
       /\ chain.st = "successful" => AllDone
       /\ chain.st = "failed" => \E i \in DOMAIN Chain : FailedAt(i)

(* GetChain never fails to find the next job of a successful one, because  *)
(* a worker records the continuations before the final status (execJob).   *)
NextJobIsThere == \A r \in Readers : reader[r].pc # "missing"

(* What GetChain answers was so at some moment of the call: a verdict when *)
(* it is returned, "processing" when the call began; no other call's       *)
(* write-back makes an answer older than that (GetChain, checkJobs).       *)
AnswerIsFresh ==
  \A r \in Readers : reader[r].pc = "answered" =>
    CASE reader[r].c.st = "successful" -> AllDone
      [] reader[r].c.st = "failed" -> \E i \in DOMAIN Chain : FailedAt(i)
      [] OTHER -> ~reader[r].over

(* The completed jobs listed are completed, and a finished chain lists all *)
(* of those it went through.                                               *)
PrevJobsAreCompleted ==
  chain # NoChain =>
    /\ \A j \in Range(chain.prev) : status[j] \in Final
    /\ chain.st = "successful" => Range(Chain) \subseteq Range(chain.prev)

=============================================================================
