------------------------------- MODULE Broker -------------------------------
(***************************************************************************)
(* What the rest of Tasqueue relies on a broker for (tasqueue.Broker): a   *)
(* message that was enqueued sits in its queue until one consumer takes it *)
(* and hands it to one worker.  No order is promised, and a message that a *)
(* consumer had taken when the process died is gone.  A broker that talks  *)
(* to a server may lose messages on the way as well.                       *)
(***************************************************************************)
CONSTANTS
  Msg,         \* the messages
  Lane(_),     \* the queue each message belongs to
  Lossy        \* whether messages nobody has taken may be lost

VARIABLES
  queue,       \* messages nobody has taken
  hand         \* messages taken by a consumer and not yet given to a worker

vars == <<queue, hand>>

Init == queue = {} /\ hand = {}

(* Only a message that is nowhere in the broker can be added.              *)
Enqueue(m) ==
  /\ m \notin queue \cup hand
  /\ queue' = queue \cup {m}
  /\ UNCHANGED hand

(* One message of each queue at a time waits for a worker.                 *)
Take(m) ==
  /\ m \in queue
  /\ \A h \in hand : Lane(h) # Lane(m)
  /\ queue' = queue \ {m}
  /\ hand' = hand \cup {m}

Give(m) ==
  /\ m \in hand
  /\ hand' = hand \ {m}
  /\ UNCHANGED queue

Die ==
  /\ hand' = {}
  /\ UNCHANGED queue

(* Whatever is lost, it is not delivered later.                            *)
Lose ==
  /\ Lossy
  /\ queue' \in SUBSET queue /\ hand' \in SUBSET hand

Next == Die \/ Lose \/ \E m \in Msg : Enqueue(m) \/ Take(m) \/ Give(m)

Spec == Init /\ [][Next]_vars

=============================================================================
