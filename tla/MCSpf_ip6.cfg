\* IPv6 CIDR matching in DualCidrLength::matches against RFC 7208, both builds.
CONSTANTS
    Kinds = {"cidr"}
    MaxDirectives = 0
    MaxTokens = 0
    TermLexemes = {}
    MaxLexemes = 0
SPECIFICATION Spec
INVARIANT Ip6MatchWithinNetwork
\* The specification never steps: every input is an initial state.
CHECK_DEADLOCK FALSE
