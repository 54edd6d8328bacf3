------------------------------ MODULE MCArith ------------------------------
(***************************************************************************)
(* The pure computations of the server checked in one run: the connection  *)
(* shaping curve (MCConnShaping), the retry arithmetic (MCBackoff) and the *)
(* SPF parsers and IPv4 matching (MCSpf).  A behaviour picks one of them in *)
(* its initial state through mode and walks only that one; the variables   *)
(* of the others keep a fixed value.  A fourth mode takes one case of the  *)
(* unit test of the site-name factoring (MCFactorNames), and a fifth a    *)
(* pair of MX answers that differ in the order of exchanges.              *)
(***************************************************************************)
EXTENDS Integers, TLC

CONSTANTS Limits, MaxQueue,
          UsizeMax, RetryIntervals, MaxRetryIntervals, MaxAges,
          Kinds, MaxDirectives, MaxTokens, TermLexemes, MaxLexemes,
          MxLabels, MxLabelsPerHost, MxHosts, MxLabelOrder

VARIABLES mode, q, limit, conf, age, input, test

vars == <<mode, q, limit, conf, age, input, test>>

Sh == INSTANCE MCConnShaping
Bo == INSTANCE MCBackoff
Sp == INSTANCE MCSpf
Fn == INSTANCE MCFactorNames WITH mx <- <<>>, Labels <- MxLabels, MaxLabels <- MxLabelsPerHost,
                                  MaxHosts <- MxHosts, LabelOrder <- MxLabelOrder

\* The labels a and b in byte order.
LabelsAB == <<"a", "b">>

IdleConf == CHOOSE c \in Bo!Configs : TRUE
IdleInput == [kind |-> "none"]
IdleTest == CHOOSE t \in Fn!UnitTests : TRUE

Init ==
    \/ mode = "shaping" /\ Sh!Init /\ conf = IdleConf /\ age = 0 /\ input = IdleInput /\ test = IdleTest
    \/ mode = "backoff" /\ Bo!Init /\ q = 0 /\ limit = 0 /\ input = IdleInput /\ test = IdleTest
    \/ mode = "spf" /\ Sp!Init /\ q = 0 /\ limit = 0 /\ conf = IdleConf /\ age = 0 /\ test = IdleTest
    \/ mode = "names" /\ test \in Fn!UnitTests /\ q = 0 /\ limit = 0 /\ conf = IdleConf
       /\ age = 0 /\ input = IdleInput
    \/ mode = "mx" /\ input \in UNION {{[kind |-> "mx", a |-> a, b |-> b] : b \in Fn!Reordered(a)}
                                        : a \in Fn!Answers}
       /\ q = 0 /\ limit = 0 /\ conf = IdleConf /\ age = 0 /\ test = IdleTest

Next ==
    \/ mode = "shaping" /\ Sh!Step /\ UNCHANGED <<mode, conf, age, input, test>>
    \/ mode = "backoff" /\ Bo!Step /\ UNCHANGED <<mode, q, limit, input, test>>

Spec == Init /\ [][Next]_vars

\* ideal_connection_count (dest_site.rs) passes through 0, gives a
\* non-empty ready queue at least one connection, never decreases as the
\* backlog grows and never exceeds connection_limit.
ShapingLaws == mode = "shaping" => Sh!ShapingLaws

\* ideal_connection_count reproduces every pair the unit test
\* connection_limit asserts for connection_limit = 32.
ShapingMatchesUnitTest == mode = "shaping" => Sh!MatchesUnitTest

\* delay_for_attempt, infer_num_attempts and compute_delay_based_on_age
\* give the schedules the unit tests calc_due, calc_due_capped and
\* spool_in_delay assert.
BackoffMatchesUnitTests == mode = "backoff" => Bo!MatchesUnitTests

\* Record::parse (kumo-spf) accepts only records RFC 7208 accepts, and
\* reads them the same way.
ParseSound == mode = "spf" => Sp!ParseSound

\* DualCidrLength::matches never matches an IPv4 client outside an ip4
\* network of RFC length 0..32, in a debug or a release build.
Ip4MatchWithinNetwork == mode = "spf" => Sp!Ip4MatchWithinNetwork

\* Record::parse gives every redirect=, exp= and unknown modifier term of
\* RFC 7208 its class: no modifier is taken for a directive or rejected.
ModifierParseComplete == mode = "spf" => Sp!ModifierParseComplete

\* factor_names (dest_site.rs) gives the site names the unit test
\* name_factoring asserts.
FactorNamesMatchesUnitTest == mode = "names" => Fn!MatchesUnitTest(test)

\* resolve_mx and factor_names (dest_site.rs) give one site name for MX
\* answers that list the exchanges of each preference in different orders.
MxOrderIrrelevant == mode = "mx" => Fn!MxOrderIrrelevant(input.a, input.b)
=============================================================================
