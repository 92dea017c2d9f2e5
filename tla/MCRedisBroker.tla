--------------------------- MODULE MCRedisBroker ---------------------------
(***************************************************************************)
(* Instances of RedisBroker for TLC.                                       *)
(***************************************************************************)
EXTENDS RedisBroker, TLC

CONSTANTS j1, j2, s1, s2

(* One job for now, the rest for later.                                    *)
MCEta == [j \in Jobs |-> IF j = j1 THEN 0 ELSE 1]

(* Each server enqueues some of them.                                      *)
MCBy == [j \in Jobs |-> IF j = j1 THEN s1 ELSE s2]

(* No process has a pipe, or one of them has.                              *)
MCSetups == {{}, {s1}}

=============================================================================
