--------------------------- MODULE MCConnShaping ---------------------------
(***************************************************************************)
(* Walks the queue size q from 0 to MaxQueue for every connection_limit in *)
(* Limits and checks the shaping curve at each point.                      *)
(***************************************************************************)
EXTENDS ConnShaping, TLC

CONSTANTS Limits, MaxQueue

ASSUME MaxQueue \in 1..MaxShapedQueue

VARIABLES q, limit

vars == <<q, limit>>

Init == q = 0 /\ limit \in Limits

Step == q < MaxQueue /\ q' = q + 1 /\ UNCHANGED limit

Spec == Init /\ [][Step]_vars

\* The (queue_size, ideal) pairs asserted by the unit test connection_limit
\* in dest_site.rs for connection_limit = 32.
UnitTestTable ==
    (0 :> 0) @@ (1 :> 1) @@ (2 :> 2) @@ (3 :> 3) @@ (4 :> 3) @@ (5 :> 4)
    @@ (6 :> 5) @@ (7 :> 5) @@ (8 :> 6) @@ (9 :> 6) @@ (10 :> 7)
    @@ (20 :> 12) @@ (32 :> 17) @@ (64 :> 25) @@ (128 :> 31)
    @@ (256 :> 32) @@ (400 :> 32) @@ (512 :> 32) @@ (1024 :> 32)

\* ideal_connection_count reproduces every value the code's unit test
\* asserts, so the fixed-point curve is the code's curve at those points.
MatchesUnitTest ==
    (limit = 32 /\ q \in DOMAIN UnitTestTable)
        => IdealConnectionCount(q, limit) = UnitTestTable[q]

\* The curve is concave-shaped in the sense the spec relies on: it passes
\* through 0, a non-empty ready queue always gets at least one connection,
\* it never decreases as the backlog grows and never exceeds
\* connection_limit.  A backlog that got no dispatcher would never drain.
ShapingLaws ==
    /\ IdealConnectionCount(0, limit) = 0
    /\ q > 0 /\ limit > 0 => IdealConnectionCount(q, limit) >= 1
    /\ q < MaxQueue => IdealConnectionCount(q, limit) <= IdealConnectionCount(q + 1, limit)
    /\ IdealConnectionCount(q, limit) <= limit
=============================================================================
