------------------------------ MODULE MCChains ------------------------------
(***************************************************************************)
(* Instances of ChainStatus for TLC.                                       *)
(***************************************************************************)
EXTENDS ChainStatus, TLC

CONSTANTS j1, j2, j3, side, r1, r2

MCChain == <<j1, j2, j3>>
MCMaxRetries == [j \in Jobs |-> IF j = j2 THEN 1 ELSE 0]

(* The first job fails to a continuation; in the second instance it also   *)
(* has a success continuation before it becomes part of the chain.         *)
Plain == [j \in Jobs |-> <<>>]
MCOnError == [j \in Jobs |-> IF j = j1 /\ side \in Jobs THEN <<side>> ELSE <<>>]
WithSide == [j \in Jobs |-> IF j = j1 THEN <<side>> ELSE <<>>]

=============================================================================
