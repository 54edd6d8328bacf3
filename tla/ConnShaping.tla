---------------------------- MODULE ConnShaping ----------------------------
(***************************************************************************)
(* The connection-count shaping curve of dest_site.rs:                     *)
(*                                                                         *)
(*   ideal_connection_count(q, L) = ceil(L * (1 - exp(-0.023 * q)))        *)
(*                                                                         *)
(* TLC has no reals, so exp(-0.023 * q) is evaluated in fixed point with   *)
(* four decimal digits: DecayPow[k + 1] is Scale * exp(-0.023 * 2^k),      *)
(* and exp(-0.023 * q) is the product of the factors of the binary digits  *)
(* of q, truncated after every product.  MCConnShaping checks the result   *)
(* against every pair of the code's own unit test (connection_limit).      *)
(***************************************************************************)
EXTENDS Integers, Sequences

Scale == 10000

\* Scale * exp(-0.023 * 2^k) for k = 0 .. 10, rounded.
DecayPow == <<9773, 9551, 9122, 8321, 6923, 4793, 2297, 528, 28, 0, 0>>

\* The largest queue size the fixed-point evaluation covers.
MaxShapedQueue == 2047

\* Mutant of ExpDecayFrom: the decay constant taken as 0.02, not 0.023.
DecayPowSlow == <<9802, 9608, 9231, 8521, 7261, 5273, 2780, 773, 60, 0, 0>>
RECURSIVE ExpDecayFromSlow(_, _)
ExpDecayFromSlow(q, k) ==
    IF q = 0 THEN Scale
    ELSE LET rest == ExpDecayFromSlow(q \div 2, k + 1)
         IN  IF q % 2 = 1 THEN (rest * DecayPowSlow[k + 1]) \div Scale ELSE rest

\* Scale * exp(-0.023 * q * 2^k).
RECURSIVE ExpDecayFrom(_, _)
ExpDecayFrom(q, k) ==
    IF q = 0 THEN Scale
    ELSE LET rest == ExpDecayFrom(q \div 2, k + 1)
         IN  IF q % 2 = 1 THEN (rest * DecayPow[k + 1]) \div Scale ELSE rest

\* Mutant: the ceiling taken as a floor.
IdealConnectionCountFloor(q, limit) ==
    (limit * (Scale - ExpDecayFrom(q, 0))) \div Scale

\* ceil(limit * (1 - exp(-0.023 * q))) in integer arithmetic.
IdealConnectionCount(q, limit) ==
    (limit * (Scale - ExpDecayFrom(q, 0)) + Scale - 1) \div Scale
=============================================================================
