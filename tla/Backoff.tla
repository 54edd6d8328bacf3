------------------------------- MODULE Backoff -------------------------------
(***************************************************************************)
(* The retry arithmetic of QueueConfig (queue.rs): the delay before each   *)
(* retry, the attempt count inferred from a message's age, and the delay   *)
(* recomputed from that count.  A config is a record with fields ri        *)
(* (retry_interval), mri (max_retry_interval: {} for None, {l} for        *)
(* Some(l)) and maxAge (max_age), all in seconds.                          *)
(*                                                                         *)
(* usize arithmetic saturates at UsizeMax; MCBackoff gives it a small      *)
(* value so that saturation happens within TLC's integers.  i64 has the    *)
(* width of usize, as on the 64-bit targets, and chrono's Duration holds   *)
(* i64::MAX milliseconds, so the widths keep the code's ratios.  A         *)
(* duration is its whole seconds, or Panic, a value no Duration holds,    *)
(* when chrono::Duration::seconds panics.  f64 powf and floor are replaced by the exact integer root they *)
(* approximate.                                                            *)
(***************************************************************************)
EXTENDS Integers, Sequences

CONSTANT UsizeMax

\* The largest u16, the type of num_attempts.
U16Max == 65535

\* usize::saturating_pow.
RECURSIVE SatPow(_, _)
SatPow(b, e) ==
    IF e = 0 THEN 1
    ELSE LET p == SatPow(b, e - 1)
         IN  IF b # 0 /\ p > UsizeMax \div b THEN UsizeMax ELSE p * b

\* i64::MAX, for an i64 as wide as usize.
I64Max == (UsizeMax - 1) \div 2

\* chrono's MAX_SECS: the largest whole seconds a Duration holds.
MaxSecs == I64Max \div 1000

\* The outcome of a chrono::Duration::seconds call that panics: below any
\* seconds a Duration holds.
Panic == -MaxSecs - 1

\* `delay as i64`: a usize above i64::MAX wraps to a negative value.
AsI64(u) == IF u > I64Max THEN u - UsizeMax - 1 ELSE u

\* chrono::Duration::seconds: panics outside -MAX_SECS .. MAX_SECS.
DurationSeconds(s) == IF -MaxSecs <= s /\ s <= MaxSecs THEN s ELSE Panic

Capped(c) == c.mri # {}

\* The limit of a capped config.
Limit(c) == CHOOSE l \in c.mri : TRUE

\* Mutant of DelayForAttempt: retry_interval raised to the attempt, not 1 + it.
DelayForAttemptOffByOne(c, n) ==
    LET d == SatPow(c.ri, n) IN
    DurationSeconds(AsI64(IF Capped(c) /\ Limit(c) < d THEN Limit(c) ELSE d))

\* delay_for_attempt: min(retry_interval ^ (1 + n), max_retry_interval)
\* converted by Duration::seconds(delay as i64).
DelayForAttempt(c, n) ==
    LET d == SatPow(c.ri, 1 + n) IN
    DurationSeconds(AsI64(IF Capped(c) /\ Limit(c) < d THEN Limit(c) ELSE d))

\* floor(a ^ (1 / r)): the largest k with k ^ r <= a, searched from k.
RECURSIVE IntRootFrom(_, _, _)
IntRootFrom(a, r, k) == IF (k + 1) ^ r > a THEN k ELSE IntRootFrom(a, r, k + 1)

\* infer_num_attempts, with the `as u16` saturation.
InferNumAttempts(c, age) ==
    LET n == IF Capped(c) THEN age \div Limit(c) ELSE IntRootFrom(age, c.ri, 0)
    IN  IF n > U16Max THEN U16Max ELSE n

\* The sum of delay_for_attempt(i).num_seconds() for i in 1 .. n - 1, or
\* Panic when one of the delays panics.  Each term is at most MaxSecs, so
\* the i64 sum cannot overflow before 1000 terms.
RECURSIVE DelaySum(_, _)
DelaySum(c, n) ==
    IF n <= 1 THEN 0
    ELSE LET s == DelaySum(c, n - 1)
             d == DelayForAttempt(c, n - 1)
         IN  IF s = Panic \/ d = Panic THEN Panic ELSE s + d

\* compute_delay_based_on_age: kind "none" for None (the message must
\* expire), "some" with d for Some(d), "panic" when a Duration::seconds
\* call panics.
ComputeDelayBasedOnAge(c, n, age) ==
    LET sum == DelaySum(c, n)
        overall == IF sum = Panic THEN Panic ELSE DurationSeconds(sum)
    IN
    IF overall = Panic THEN [kind |-> "panic"]
    ELSE IF overall >= c.maxAge THEN [kind |-> "none"]
    ELSE IF overall <= age THEN [kind |-> "some", d |-> 0]
    ELSE [kind |-> "some", d |-> overall - age]

(***************************************************************************)
(* compute_schedule of the unit tests: the delays from attempt 0 until the *)
(* running sum reaches max_age, ending in Panic where the test panics.     *)
(***************************************************************************)
RECURSIVE ScheduleFrom(_, _, _)
ScheduleFrom(c, attempt, age) ==
    LET d == DelayForAttempt(c, attempt) IN
    IF d = Panic THEN <<Panic>>
    ELSE IF age + d >= c.maxAge THEN <<>>
    ELSE <<d>> \o ScheduleFrom(c, attempt + 1, age + d)
=============================================================================
