\* ip4 terms of up to five lexemes: the address text, ":", "/" and a length.
CONSTANTS
    Kinds = {"term"}
    MaxDirectives = 0
    MaxTokens = 0
    TermLexemes = {"ip4", ":", "A4", "/", "24"}
    MaxLexemes = 5
SPECIFICATION Spec
INVARIANT DirectiveParseComplete
\* The specification never steps: every input is an initial state.
CHECK_DEADLOCK FALSE
