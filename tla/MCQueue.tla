------------------------------- MODULE MCQueue -------------------------------
(* Instantiation of Queue for TLC: message and queue ids are model values. *)
EXTENDS Queue, TLC

CONSTANTS m1, m2, q1, q2

\* Both messages routed to one queue.
OneQueue == [m \in Msgs |-> q1]

\* Each message routed to a queue of its own.
TwoQueues == (m1 :> q1) @@ (m2 :> q2)
=============================================================================
