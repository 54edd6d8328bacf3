----------------------------- MODULE SiteHandoff -----------------------------
(***************************************************************************)
(* What the site layer promises the queue layer, without dispatchers,      *)
(* connections or the registry: each site object is a FIFO of ready        *)
(* messages holding at most Capacity of them; a message the queue hands    *)
(* over is appended to one site's FIFO, taken from its head exactly once,  *)
(* and then either finished (delivered or bounced) or handed back to the   *)
(* queue, all in one step each.  DestSite implements it (DestSite's        *)
(* ImplementsSiteHandoff).                                                 *)
(***************************************************************************)
EXTENDS Naturals, Sequences

CONSTANTS Msgs, Sites, Capacity

VARIABLES
    ready,     \* the FIFO of each site object
    inflight,  \* messages taken from a FIFO and not yet let go of
    done       \* messages delivered or bounced

vars == <<ready, inflight, done>>

InSomeFifo(m) == \E s \in Sites : \E i \in DOMAIN ready[s] : ready[s][i] = m

\* Owned by the queue layer: in no FIFO, not in flight, not finished.
Queued(m) == ~InSomeFifo(m) /\ m \notin inflight /\ m \notin done

Init ==
    /\ ready = [s \in Sites |-> <<>>]
    /\ inflight = {}
    /\ done = {}

\* The queue layer hands m to site s, whose FIFO has room.
Enqueue(s, m) ==
    /\ Queued(m)
    /\ Len(ready[s]) < Capacity
    /\ ready' = [ready EXCEPT ![s] = Append(@, m)]
    /\ UNCHANGED <<inflight, done>>

\* The head of s's FIFO is taken for delivery.
Take(s) ==
    /\ ready[s] # <<>>
    /\ inflight' = inflight \cup {Head(ready[s])}
    /\ ready' = [ready EXCEPT ![s] = Tail(@)]
    /\ UNCHANGED done

\* A message in flight goes back to the queue layer.
Release(m) ==
    /\ m \in inflight
    /\ inflight' = inflight \ {m}
    /\ UNCHANGED <<ready, done>>

\* A message in flight is delivered or bounced.
Finish(m) ==
    /\ m \in inflight
    /\ inflight' = inflight \ {m}
    /\ done' = done \cup {m}
    /\ UNCHANGED ready

Next ==
    \/ \E s \in Sites, m \in Msgs : Enqueue(s, m)
    \/ \E s \in Sites : Take(s)
    \/ \E m \in Msgs : Release(m) \/ Finish(m)

Spec == Init /\ [][Next]_vars
=============================================================================
