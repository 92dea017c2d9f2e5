-------------------------- MODULE MCInMemoryBroker --------------------------
(***************************************************************************)
(* Instances of InMemoryBroker for TLC.                                    *)
(***************************************************************************)
EXTENDS InMemoryBroker, TLC

CONSTANTS j1, j2, j3, c1, c2, w1

(* One client with one job, another with the others.                       *)
TwoClients == [j \in Ids |-> IF j = j1 THEN c1 ELSE c2]

=============================================================================
