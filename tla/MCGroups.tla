------------------------------ MODULE MCGroups ------------------------------
(***************************************************************************)
(* Instances of GroupStatus for TLC.                                       *)
(***************************************************************************)
EXTENDS GroupStatus, TLC

CONSTANTS j1, j2, kid, r1, r2

(* One of the jobs is retried once and has a continuation for its failure. *)
MCMaxRetries == [j \in Jobs |-> IF j = j1 THEN 1 ELSE 0]
MCOnError    == [j \in Jobs |-> IF j = j1 THEN <<kid>> ELSE <<>>]
MCOnSuccess  == [j \in Jobs |-> <<>>]

=============================================================================
