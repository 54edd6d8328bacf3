\* Record::evaluate against check_host() of RFC 7208 on records of up to two directives.
CONSTANTS
    Kinds = {"evaluate"}
    MaxDirectives = 2
    MaxTokens = 0
    TermLexemes = {}
    MaxLexemes = 0
SPECIFICATION Spec
INVARIANT DirectivesDecideAsRfc
\* The specification never steps: every input is an initial state.
CHECK_DEADLOCK FALSE
