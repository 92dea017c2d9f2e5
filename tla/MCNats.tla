-------------------------------- MODULE MCNats --------------------------------
(***************************************************************************)
(* Instances of NatsBroker for TLC.                                        *)
(***************************************************************************)
EXTENDS NatsBroker, TLC

CONSTANTS j1, j2, s1, s2

=============================================================================
