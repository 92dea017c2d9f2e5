----------------------------- MODULE GroupStatus -----------------------------
(***************************************************************************)
(* Groups of jobs (src/groups.go): EnqueueGroup enqueues the jobs and then *)
(* stores the group; GetGroup calls look the jobs up one by one and store  *)
(* what they found.  The jobs themselves behave as JobStatus allows.       *)
(***************************************************************************)
EXTENDS Naturals, Sequences

CONSTANTS
  Jobs,        \* the jobs of the group and their continuations
  Members,     \* the jobs of the group, ids of their own
  OnSuccess,   \* [Jobs -> Seq(Jobs)]: Job.OnSuccess
  OnError,     \* [Jobs -> Seq(Jobs)]: Job.OnError
  MaxRetries,  \* [Jobs -> Nat]
  Readers,     \* goroutines that call GetGroup
  Faults,      \* whether calls to the store or the broker may fail
  NoGroup      \* the store has no message for the group

(* A continuation has an id of its own, so that none is in the group.      *)
ASSUME GroupAssumption ==
  /\ Members \subseteq Jobs
  /\ OnSuccess \in [Jobs -> Seq(Jobs \ Members)] /\ OnError \in [Jobs -> Seq(Jobs \ Members)]
  /\ MaxRetries \in [Jobs -> Nat] /\ Faults \in BOOLEAN

VARIABLES
  status,      \* the stored status of each job
  retried,     \* and its number of retries
  admitted,    \* EnqueueGroup: jobs whose Enqueue returned
  enqueuer,    \* EnqueueGroup: "running", "stored" or "error"
  group,       \* group:msg:<id> in the results store
  reader       \* the GetGroup calls

jobs == <<status, retried>>
vars == <<status, retried, admitted, enqueuer, group, reader>>

Store == INSTANCE JobStatus WITH Roots <- Members

Final == Store!Final

(* GroupMeta, without its id.                                              *)
GroupMsg == [st : Final \cup {"processing"}, js : [Members -> Store!Statuses]]

TypeOK ==
  /\ status \in [Jobs -> Store!Statuses] /\ retried \in [Jobs -> Nat]
  /\ admitted \subseteq Members
  /\ enqueuer \in {"running", "stored", "error"}
  /\ group \in GroupMsg \cup {NoGroup}
  /\ reader \in [Readers -> [pc : {"idle", "look", "write", "answered"},
                             g : GroupMsg \cup {NoGroup},
                             todo : SUBSET Members, over : BOOLEAN]]

Idle == [pc |-> "idle", g |-> NoGroup, todo |-> {}, over |-> FALSE]

Init ==
  /\ Store!Init
  /\ admitted = {} /\ enqueuer = "running"
  /\ group = NoGroup
  /\ reader = [r \in Readers |-> Idle]

-----------------------------------------------------------------------------
(* EnqueueGroup                                                            *)

(* One of the Enqueue calls; the first that fails ends EnqueueGroup, with  *)
(* the job recorded or not.  (In the code the jobs come in one order.)     *)
EnqueueMember(j) ==
  /\ enqueuer = "running" /\ j \notin admitted
  /\ \/ Store!Admit(j) /\ admitted' = admitted \cup {j} /\ UNCHANGED enqueuer
     \/ /\ Faults /\ enqueuer' = "error"
        /\ Store!Admit(j) \/ UNCHANGED jobs
        /\ UNCHANGED admitted
  /\ UNCHANGED <<group, reader>>

(* The write may fail, or its answer may be lost.                          *)
StoreGroup ==
  LET g == [st |-> "processing", js |-> [j \in Members |-> "queued"]] IN
  /\ enqueuer = "running" /\ admitted = Members
  /\ \/ group' = g /\ enqueuer' = "stored"
     \/ Faults /\ enqueuer' = "error" /\ group' \in {group, g}
  /\ UNCHANGED <<jobs, admitted, reader>>

(* The process that calls EnqueueGroup may die.                            *)
Die ==
  /\ Faults /\ enqueuer = "running" /\ enqueuer' = "error"
  /\ UNCHANGED <<jobs, admitted, group, reader>>

-----------------------------------------------------------------------------
(* GetGroup                                                                *)

(* Mutated form: one success is enough.                                    *)
OverallAny(js) ==
  IF \E j \in Members : js[j] = "failed" THEN "failed"
  ELSE IF \E j \in Members : js[j] = "successful" THEN "successful"
  ELSE "processing"

(* getGroupStatus                                                          *)
Overall(js) ==
  IF \E j \in Members : js[j] = "failed" THEN "failed"
  ELSE IF \A j \in Members : js[j] = "successful" THEN "successful"
  ELSE "processing"

(* Whether the jobs, as they are now, make a verdict.                      *)
Over == Overall(status) \in Final

(* Mutated form: the status "retrying" is forgotten in the switch.         *)
OpenUnlessRetrying(g) == {j \in Members : g.js[j] \in {"queued", "processing"}}

(* Jobs that the message shows in a final status are not looked up again.  *)
Open(g) == {j \in Members : g.js[j] \notin Final}

Get(r) ==
  /\ reader[r].pc \in {"idle", "answered"} /\ group # NoGroup
  /\ reader' = [reader EXCEPT ![r] =
       IF group.st \in Final
       THEN [pc |-> "answered", g |-> group, todo |-> {}, over |-> Over]
       ELSE [pc |-> "look", g |-> group, todo |-> Open(group), over |-> Over]]
  /\ UNCHANGED <<jobs, admitted, enqueuer, group>>

Lookup(r, j) ==
  /\ reader[r].pc = "look" /\ j \in reader[r].todo
  /\ reader' = [reader EXCEPT ![r].g.js[j] = status[j], ![r].todo = @ \ {j}]
  /\ UNCHANGED <<jobs, admitted, enqueuer, group>>

Conclude(r) ==
  /\ reader[r].pc = "look" /\ reader[r].todo = {}
  /\ reader' = [reader EXCEPT ![r].pc = "write", ![r].g.st = Overall(reader[r].g.js)]
  /\ UNCHANGED <<jobs, admitted, enqueuer, group>>

Write(r) ==
  /\ reader[r].pc = "write"
  /\ group' = reader[r].g
  /\ reader' = [reader EXCEPT ![r].pc = "answered"]
  /\ UNCHANGED <<jobs, admitted, enqueuer>>

(* A lookup or the write fails: the caller gets an error.                  *)
GiveUp(r) ==
  /\ Faults /\ reader[r].pc \in {"look", "write"}
  /\ reader' = [reader EXCEPT ![r] = Idle]
  /\ UNCHANGED <<jobs, admitted, enqueuer>>
  /\ \/ UNCHANGED group
     \/ reader[r].pc = "write" /\ group' = reader[r].g

-----------------------------------------------------------------------------

(* Workers move the jobs on and enqueue their continuations.               *)
JobStep ==
  /\ \E j \in Jobs :
       \/ j \notin Members /\ Store!Admit(j)
       \/ Store!Take(j)
       \/ Store!Retry(j)
       \/ \E ok \in BOOLEAN : Store!Settle(j, ok)
  /\ UNCHANGED <<admitted, enqueuer, group, reader>>

Next ==
  \/ \E j \in Members : EnqueueMember(j)
  \/ StoreGroup
  \/ Die
  \/ \E r \in Readers : Get(r) \/ Conclude(r) \/ Write(r) \/ GiveUp(r)
  \/ \E r \in Readers, j \in Members : Lookup(r, j)
  \/ JobStep

Spec == Init /\ [][Next]_vars

-----------------------------------------------------------------------------
(* Properties                                                              *)

(* README: "the Group is considered successful only if all the jobs finish *)
(* successfully"; and it is failed only if a job failed.  No interleaving  *)
(* of GetGroup calls with each other and with the workers stores anything  *)
(* else (GetGroup, getGroupStatus).                                        *)
VerdictIsTrue ==
  /\ TypeOK
  /\ group # NoGroup =>
       /\ group.st = "successful" => \A j \in Members : status[j] = "successful"
       /\ group.st = "failed" => \E j \in Members : status[j] = "failed"

(* What GetGroup answers was so at some moment of the call: a verdict when *)
(* it is returned, "processing" when the call began; no other call's       *)
(* write-back makes an answer older than that (GetGroup, getGroupStatus).  *)
AnswerIsFresh ==
  \A r \in Readers : reader[r].pc = "answered" =>
    \/ reader[r].g.st = Overall(status)
    \/ reader[r].g.st = "processing" /\ ~reader[r].over

(* groups.go:87, 99: a final verdict, and the final status of a job, stay  *)
(* as they are; callers never see a finished group in progress again.      *)
FinalStays ==
  [][group # NoGroup =>
       /\ group.st \in Final => group' = group
       /\ \A j \in Members : group.js[j] \in Final => group'.js[j] = group.js[j]]_vars

=============================================================================
