----------------------------- MODULE MCResults -----------------------------
(***************************************************************************)
(* Instances of ResultsStore for TLC.                                      *)
(***************************************************************************)
EXTENDS ResultsStore, TLC

CONSTANTS j1, c1, w1, w2

(* One worker has a pipe, alone or beside the client; the other has none.  *)
MCSetups == {{w1}, {c1, w1}}

=============================================================================
