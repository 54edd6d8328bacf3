------------------------------- MODULE MCSpf -------------------------------
(***************************************************************************)
(* Every input of the SPF operators within the bounds, as the initial      *)
(* states of a specification that never steps: a record of directive       *)
(* outcomes and modifiers to evaluate, a token sequence to parse, a term   *)
(* (SpfTerm) to classify, or an address pair and CIDR length to match.  Each property compares the code *)
(* with RFC 7208 on the input.                                             *)
(***************************************************************************)
EXTENDS Spf, TLC

INSTANCE SpfTerm

CONSTANTS Kinds, MaxDirectives, MaxTokens,
          TermLexemes, MaxLexemes  \* the lexemes and length of terms

ASSUME Kinds \subseteq {"evaluate", "parse", "cidr", "term"}
ASSUME TermLexemes \subseteq Lexemes

VARIABLE input

SeqsUpTo(S, n) == UNION {[1..k -> S] : k \in 0..n}

EvaluateInputs ==
    [kind : {"evaluate"}, ds : SeqsUpTo(Directives, MaxDirectives),
     redirect : RedirectOutcomes, exp : ExpOutcomes]

ParseInputs == [kind : {"parse"}, ts : SeqsUpTo(TokenClasses, MaxTokens)]

CidrInputs ==
    UNION {[kind : {"cidr"}, build : Builds, fam : {f},
            len : 0 .. Width(f), common : 0 .. Width(f)] : f \in Families}

TermInputs == [kind : {"term"}, t : SeqsUpTo(TermLexemes, MaxLexemes) \ {<<>>}]

Inputs ==
    UNION {CASE k = "evaluate" -> EvaluateInputs
             [] k = "parse" -> ParseInputs
             [] k = "cidr" -> CidrInputs
             [] k = "term" -> TermInputs : k \in Kinds}

Init == input \in Inputs

Spec == Init /\ [][FALSE]_input

CodeMatches == Matches(input.build, input.fam, input.len, input.common)

\* An ip4 mechanism, or an a/mx mechanism for an IPv4 client, with a CIDR
\* length RFC 7208 allows (0..32) never matches a client outside the
\* network in either build: the u32 mask of DualCidrLength::matches keeps
\* at least the first len bits.
Ip4MatchWithinNetwork ==
    input.kind = "cidr" /\ input.fam = "v4" /\ CodeMatches = "match"
        => RfcMatches(input.len, input.common)

\* The same for an ip6 mechanism, or an a/mx mechanism for an IPv6 client,
\* with a length in 0..128: a client outside the network never gets the
\* directive's result.
Ip6MatchWithinNetwork ==
    input.kind = "cidr" /\ input.fam = "v6" /\ CodeMatches = "match"
        => RfcMatches(input.len, input.common)

\* Every record Record::parse accepts is one RFC 7208 accepts, with the
\* same directives and modifiers: the code may be stricter, never laxer.
ParseSound ==
    input.kind = "parse" /\ Parse(input.ts) # ParseError
        => Parse(input.ts) = RfcParse(input.ts)

\* When one of a record's directives matches or errs, Record::evaluate
\* gives the result, and the explanation, that check_host() of RFC 7208
\* gives it: the first such directive in order decides, a Fail carries the
\* record's own exp when that expands, and redirect= is not consulted.
DirectivesDecideAsRfc ==
    input.kind = "evaluate" /\ FirstResult(input.ds) # "none"
        => Evaluate(input.ds, input.redirect, input.exp)
           = RfcEvaluate(input.ds, input.redirect, input.exp)

\* Every term RFC 7208 reads as a directive is accepted by Directive::parse
\* and read the same way: qualifier, mechanism, domain-spec, CIDR lengths
\* and network.  Record::parse fails the whole record on a term it cannot
\* parse.
DirectiveParseComplete ==
    input.kind = "term" /\ RfcDirective(input.t).ok
        => DirectiveParse(input.t) = RfcDirective(input.t)

\* Every term RFC 7208 reads as a redirect=, an exp= or an unknown modifier
\* gets that class in Record::parse: Directive::parse, tried first, takes
\* none of them for a mechanism, and Modifier::parse accepts its name.
ModifierParseComplete ==
    input.kind = "term" /\ RfcModifierClass(input.t) # "invalid"
        => TermClass(input.t) = RfcModifierClass(input.t)

\* The text Directive's Display writes into the context of a matched
\* directive parses back to that directive: the context names the term of
\* the record that decided.
DisplayRoundTrip ==
    input.kind = "term" /\ DirectiveParse(input.t).ok
        => DirectiveParse(DirectiveDisplay(DirectiveParse(input.t))) = DirectiveParse(input.t)
========================================================================
