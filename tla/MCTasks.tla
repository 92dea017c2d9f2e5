------------------------------- MODULE MCTasks -------------------------------
(***************************************************************************)
(* Instances of ServerStart for TLC: the tasks of the README example, with *)
(* names of one or two runes.                                              *)
(***************************************************************************)
EXTENDS ServerStart, TLC

CONSTANTS add, div, sub, del, s1

MCAt == [c \in Calls |-> s1]

MCName == (add :> <<"a", "d">>) @@ (div :> <<"d">>) @@ (sub :> <<"s", "u">>) @@ (del :> <<"d">>)
MCQueue == [c \in Calls |-> IF c = sub THEN "q2" ELSE "q1"]

(* One call for the shared queue leaves the concurrency out.               *)
MCConc == [c \in Calls |-> IF c = div THEN 0 ELSE 2]

=============================================================================
