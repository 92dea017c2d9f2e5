------------------------------- MODULE MCJobs -------------------------------
(***************************************************************************)
(* Instances of JobLifecycle for TLC.                                      *)
(***************************************************************************)
EXTENDS JobInvariant, TLC

CONSTANTS j1, j2, j3, j4, w1, w2, q1, q2

(* A client's job with one continuation for each outcome, the second one   *)
(* on a queue of its own (as in TestJobsOnError), and an unrelated job; or *)
(* that job as a second success continuation.                              *)
MCQueueOf == (j1 :> q1) @@ (j2 :> q1) @@ (j3 :> q2) @@ (j4 :> q1)
MCWorkerQueue == (w1 :> q1) @@ (w2 :> q2)
SameQueue == [j \in Jobs |-> q1]
SameWorkerQueue == [w \in Workers |-> q1]
MCMaxRetries == [j \in Jobs |-> IF j = j1 THEN 1 ELSE 0]
MCOnSuccess == [j \in Jobs |-> IF j = j1 THEN <<j2>> ELSE <<>>]
TwoOnSuccess == [j \in Jobs |-> IF j = j1 THEN <<j2, j4>> ELSE <<>>]
MCOnError == [j \in Jobs |-> IF j = j1 THEN <<j3>> ELSE <<>>]

=============================================================================
