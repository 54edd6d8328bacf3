------------------------------ MODULE MCBackoff ------------------------------
(***************************************************************************)
(* A walk over small QueueConfigs and message ages, checking the backoff   *)
(* arithmetic of Backoff against the unit tests of queue.rs and against    *)
(* the live retry schedule.                                                *)
(***************************************************************************)
EXTENDS Backoff, TLC

CONSTANTS RetryIntervals, MaxRetryIntervals, MaxAges

VARIABLES conf, age

Configs == [ri : RetryIntervals, mri : MaxRetryIntervals, maxAge : MaxAges]

Init == conf \in Configs /\ age = 0

\* The next age at which a respooled message could be found.
Step == age < conf.maxAge - 1 /\ age' = age + 1 /\ UNCHANGED conf

Spec == Init /\ [][Step]_<<conf, age>>

-----------------------------------------------------------------------------
Cfg(ri, mri, maxAge) == [ri |-> ri, mri |-> mri, maxAge |-> maxAge]

(***************************************************************************)
(* The three unit tests of QueueConfig: calc_due, calc_due_capped and     *)
(* spool_in_delay (every fourth age from 2 for as long as                  *)
(* compute_delay_based_on_age returns Some).                               *)
(***************************************************************************)
SpoolInDelayConfig == Cfg(2, {}, 256)

SpoolInDelayTable ==
    <<<<2, 1, 0>>, <<6, 2, 0>>, <<10, 3, 2>>, <<14, 3, 0>>, <<18, 4, 10>>,
      <<22, 4, 6>>, <<26, 5, 34>>, <<30, 5, 30>>, <<34, 5, 26>>, <<38, 6, 86>>,
      <<42, 6, 82>>, <<46, 6, 78>>, <<50, 7, 202>>, <<54, 7, 198>>,
      <<58, 7, 194>>, <<62, 7, 190>>>>

\* The rows spool_in_delay collects from the given age on.
RECURSIVE SpoolInDelayFrom(_)
SpoolInDelayFrom(a) ==
    LET n == InferNumAttempts(SpoolInDelayConfig, a)
        d == ComputeDelayBasedOnAge(SpoolInDelayConfig, n, a)
    IN  CASE d.kind = "none"  -> <<>>
          [] d.kind = "panic" -> <<<<a, n, Panic>>>>
          [] OTHER            -> <<<<a, n, d.d>>>> \o SpoolInDelayFrom(a + 4)

(***************************************************************************)
(* delay_for_attempt, infer_num_attempts and compute_delay_based_on_age    *)
(* give exactly the schedules the code's unit tests assert.                *)
(***************************************************************************)
MatchesUnitTests ==
    /\ ScheduleFrom(Cfg(2, {}, 1024), 0, 0) = <<2, 4, 8, 16, 32, 64, 128, 256, 512>>
    /\ ScheduleFrom(Cfg(2, {8}, 128), 0, 0) = <<2, 4>> \o [i \in 1..15 |-> 8]
    /\ SpoolInDelayFrom(2) = SpoolInDelayTable

(***************************************************************************)
(* A message respooled at an age below max_age gets the delay              *)
(* compute_delay_based_on_age(infer_num_attempts(age), age) without a      *)
(* panic: none of the delays summed for the attempts inferred from its age *)
(* lies beyond what chrono::Duration::seconds holds.                       *)
(***************************************************************************)
RespoolDelayDefined ==
    ComputeDelayBasedOnAge(conf, InferNumAttempts(conf, age), age).kind # "panic"

=============================================================================
