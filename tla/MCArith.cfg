\* The shaping curve for limits 1, 2 and 32 over queue sizes 0..1024; the
\* retry arithmetic for retry intervals 2 and 3, uncapped and capped, with
\* usize saturating at 2^31 - 1 (i64::MAX/1000 s is then 12 days); SPF records of up to three tokens, SPF
\* terms of up to four lexemes over names, ":", "=", "-", a label, a length
\* and an address, and every IPv4 and IPv6 CIDR length and common prefix;
\* MX answers of up to two preferences of up to two exchanges, each of one
\* or two labels a or b, and every reordering within a preference.
CONSTANTS
    Limits = {1, 2, 32}
    MaxQueue = 1024
    UsizeMax = 2147483647
    RetryIntervals = {2, 3}
    MaxRetryIntervals = {{}, {8}, {20}}
    MaxAges = {128, 1024}
    Kinds = {"parse", "cidr", "term"}
    MaxDirectives = 0
    MaxTokens = 3
    TermLexemes = {"a", "mx", "ptr", "all", "exp", "redirect", "-", ":", "d", "=", "24", "A4"}
    MaxLexemes = 4
    MxLabels = {"a", "b"}
    MxLabelsPerHost = 2
    MxHosts = 2
    MxLabelOrder <- LabelsAB
SPECIFICATION Spec
INVARIANT ShapingLaws
INVARIANT ShapingMatchesUnitTest
INVARIANT BackoffMatchesUnitTests
INVARIANT ParseSound
INVARIANT Ip4MatchWithinNetwork
INVARIANT ModifierParseComplete
INVARIANT FactorNamesMatchesUnitTest
INVARIANT MxOrderIrrelevant
\* The walks end at MaxQueue and at max_age; SPF inputs are initial states.
CHECK_DEADLOCK FALSE
