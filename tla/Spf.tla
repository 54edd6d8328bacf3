-------------------------------- MODULE Spf --------------------------------
(***************************************************************************)
(* The SPF record evaluator of kumo-spf/src/record.rs, as pure operators:  *)
(* parsing a record into its terms, evaluating its directives and          *)
(* modifiers, and matching an address against a CIDR length.  Each is      *)
(* paired with the RFC 7208 definition it is meant to implement.           *)
(*                                                                         *)
(* Abstractions.  A token of the record text is its class (TokenClasses);  *)
(* what the parser of a single term accepts is not modelled.  A directive  *)
(* is its qualifier and the outcome of its mechanism's DNS work; an        *)
(* include carries the disposition of the nested check.  An address pair   *)
(* is the length L of the common prefix of the client and the specified    *)
(* address: masking both with the top k bits gives equal results exactly   *)
(* when L >= k.  The build decides what u8 and shift overflow do: a debug  *)
(* build panics, a release build wraps the subtraction and masks the       *)
(* shift amount by the width.                                              *)
(***************************************************************************)
EXTENDS Integers, Sequences, FiniteSets

Qualifiers == {"+", "-", "~", "?"}

\* SpfDisposition::from(Qualifier).
QualifierDisposition ==
    [q \in Qualifiers |->
        CASE q = "+" -> "Pass" [] q = "-" -> "Fail"
          [] q = "~" -> "SoftFail" [] q = "?" -> "Neutral"]

Dispositions == {"Pass", "Fail", "SoftFail", "Neutral", "TempError", "PermError", "None"}

\* The result of a cx.domain() macro expansion that fails; record.rs hands
\* it back unchanged.
ExpandError == "ExpandError"

(***************************************************************************)
(* Directive::evaluate                                                     *)
(***************************************************************************)

\* What a mechanism's DNS work can come to: it matched, it did not, or a
\* lookup failed ("temperror") or a name was malformed ("permerror").
MechOutcomes == {"match", "nomatch", "temperror", "permerror"}

\* A directive: its qualifier, and either an outcome of MechOutcomes or
\* "include" with the disposition of the nested check.
Directives ==
    [q : Qualifiers, mech : MechOutcomes, nested : {"None"}]
    \cup [q : Qualifiers, mech : {"include"}, nested : Dispositions]

\* Mechanism::Include: the nested disposition mapped to a match, no match
\* or an error.
IncludeOutcome(nested) ==
    CASE nested = "Pass" -> "match"
      [] nested \in {"Fail", "SoftFail", "Neutral"} -> "nomatch"
      [] nested = "TempError" -> "temperror"
      [] nested \in {"PermError", "None"} -> "permerror"

\* Directive::evaluate: "none" for Ok(None), else the disposition of
\* Ok(Some(result)) or of Err(result).
DirectiveEvaluate(d) ==
    LET o == IF d.mech = "include" THEN IncludeOutcome(d.nested) ELSE d.mech IN
    CASE o = "match" -> QualifierDisposition[d.q]
      [] o = "nomatch" -> "none"
      [] o = "temperror" -> "TempError"
      [] o = "permerror" -> "PermError"

(***************************************************************************)
(* Record::evaluate                                                        *)
(*                                                                         *)
(* redirect is "absent", ExpandError (its domain-spec fails to expand) or  *)
(* the disposition of the nested check of the target.  exp is "absent",   *)
(* ExpandError, "unusable" (the TXT lookup, its count or the explanation   *)
(* macro fails: the code proceeds as if there were no exp) or "ok".  The   *)
(* result is the disposition and, for Fail, whose explanation it carries:  *)
(* "own" (this record's exp), "target" (the redirect target's context) or  *)
(* "directive" (the matched directive's text).                            *)
(***************************************************************************)
RedirectOutcomes == {"absent", ExpandError} \cup (Dispositions \ {"None"})
ExpOutcomes == {"absent", ExpandError, "unusable", "ok"}

Result(d, e) == [disp |-> d, expl |-> e]

\* The loop over self.directives: the first result that is not Ok(None).
RECURSIVE FirstResult(_)
FirstResult(ds) ==
    IF ds = <<>> THEN "none"
    ELSE IF DirectiveEvaluate(Head(ds)) # "none" THEN DirectiveEvaluate(Head(ds))
    ELSE FirstResult(Tail(ds))

\* The explanation step once failed = Some(context): the own exp replaces
\* the context when it expands; an expansion error of its domain is
\* returned instead of Fail.
FailWith(context, exp) ==
    CASE exp = ExpandError -> Result(ExpandError, "none")
      [] exp = "ok" -> Result("Fail", "own")
      [] exp \in {"absent", "unusable"} -> Result("Fail", context)

\* Record::evaluate.
Evaluate(ds, redirect, exp) ==
    LET r == FirstResult(ds) IN
    IF r \notin {"none", "Fail"} THEN Result(r, "none")
    ELSE IF redirect = ExpandError THEN Result(ExpandError, "none")
    ELSE IF redirect \notin {"absent", "Fail"} THEN Result(redirect, "none")
    ELSE IF r = "Fail" THEN FailWith("directive", exp)
    ELSE IF redirect = "Fail" THEN FailWith("target", exp)
    ELSE Result("Neutral", "none")

\* RFC 7208 4.6.2, 6.1 and 6.2: the first directive that matches (or
\* errs) decides; redirect is consulted only when none does, and then the
\* target's result, explanation included, is the result; the own exp is
\* used only for a Fail of the record's own directives.
RfcEvaluate(ds, redirect, exp) ==
    LET decided == {i \in DOMAIN ds : DirectiveEvaluate(ds[i]) # "none"}
        first == CHOOSE i \in decided : \A j \in decided : i <= j
    IN
    IF decided # {} THEN
        IF DirectiveEvaluate(ds[first]) = "Fail"
        THEN FailWith("directive", exp)
        ELSE Result(DirectiveEvaluate(ds[first]), "none")
    ELSE CASE redirect = "absent" -> Result("Neutral", "none")
           [] redirect = "Fail" -> Result("Fail", "target")
           [] redirect \notin {"absent", "Fail"} -> Result(redirect, "none")

(***************************************************************************)
(* Record::parse                                                           *)
(*                                                                         *)
(* The text after "v=spf1" split at every single space: a token is a      *)
(* directive Directive::parse accepts, a redirect= or exp= modifier, an    *)
(* unknown modifier, the empty string (from two adjacent spaces or a       *)
(* trailing one), or a term neither parser accepts.  A parsed record is    *)
(* its number of directives and whether it has a redirect and an exp.     *)
(***************************************************************************)
TokenClasses == {"directive", "redirect", "exp", "unknown", "empty", "invalid"}

\* A parse result: ok, and when ok the record.
ParseError == [ok |-> FALSE, directives |-> 0, redirect |-> FALSE, exp |-> FALSE]

EmptyRecord == [ok |-> TRUE, directives |-> 0, redirect |-> FALSE, exp |-> FALSE]

\* Mutant of ParseToken: a second redirect= replaces the first.
ParseTokenDupRedirect(r, t) ==
    CASE t = "empty" -> ParseError
      [] t = "directive" -> IF r.redirect \/ r.exp THEN ParseError
                            ELSE [r EXCEPT !.directives = @ + 1]
      [] t = "redirect" -> [r EXCEPT !.redirect = TRUE]
      [] t = "exp" -> IF r.exp THEN ParseError ELSE [r EXCEPT !.exp = TRUE]
      [] t = "unknown" -> r
      [] t = "invalid" -> ParseError

\* One iteration of the loop over tokens in Record::parse.
ParseToken(r, t) ==
    CASE t = "empty" -> ParseError
      [] t = "directive" -> IF r.redirect \/ r.exp THEN ParseError
                            ELSE [r EXCEPT !.directives = @ + 1]
      [] t = "redirect" -> IF r.redirect THEN ParseError ELSE [r EXCEPT !.redirect = TRUE]
      [] t = "exp" -> IF r.exp THEN ParseError ELSE [r EXCEPT !.exp = TRUE]
      [] t = "unknown" -> r
      [] t = "invalid" -> ParseError

\* Record::parse: the loop, left at the first error.
RECURSIVE ParseFrom(_, _)
ParseFrom(r, ts) ==
    IF ~r.ok \/ ts = <<>> THEN r
    ELSE ParseFrom(ParseToken(r, Head(ts)), Tail(ts))

Parse(ts) == ParseFrom(EmptyRecord, ts)

\* RFC 7208 4.6.1 and 6: terms are separated by one or more spaces and may
\* be followed by spaces; modifiers may appear anywhere; redirect and exp
\* at most once each; unknown modifiers are ignored.
RfcParse(ts) ==
    LET count(c) == Cardinality({i \in DOMAIN ts : ts[i] = c}) IN
    IF \E i \in DOMAIN ts : ts[i] = "invalid" THEN ParseError
    ELSE IF count("redirect") > 1 \/ count("exp") > 1 THEN ParseError
    ELSE [ok |-> TRUE, directives |-> count("directive"),
          redirect |-> count("redirect") = 1, exp |-> count("exp") = 1]

(***************************************************************************)
(* DualCidrLength::matches                                                 *)
(***************************************************************************)
Families == {"v4", "v6"}
Builds == {"debug", "release"}

\* Bits of an address of the family: the width of u32 or u128.
Width(fam) == IF fam = "v4" THEN 32 ELSE 128

\* The mask length of a build that panics.
Panics == -1

\* Mutant of MaskLength: the mask shifted by the CIDR length itself.
MaskLengthShiftByLen(build, fam, len) ==
    IF build = "debug" /\ len >= Width(fam) THEN Panics
    ELSE Width(fam) - (len % Width(fam))

\* The number of leading one bits of MAX << (32 - len) for the family's
\* integer type, len a u8.  The u8 subtraction underflows for len > 32 and
\* the shift overflows when its amount reaches the width: a debug build
\* panics on either, a release build wraps the subtraction modulo 256 and
\* takes the shift amount modulo the width.
MaskLength(build, fam, len) ==
    LET shift == (32 - len) % 256 IN
    IF build = "debug" /\ (len > 32 \/ shift >= Width(fam)) THEN Panics
    ELSE Width(fam) - (shift % Width(fam))

\* DualCidrLength::matches for addresses of the same family whose common
\* prefix is commonLen bits long: "panic", "match" or "nomatch".
Matches(build, fam, len, commonLen) ==
    LET k == MaskLength(build, fam, len) IN
    IF k = Panics THEN "panic"
    ELSE IF commonLen >= k THEN "match" ELSE "nomatch"

\* RFC 7208 5.6: the addresses match when their first len bits agree.
RfcMatches(len, commonLen) == commonLen >= len
=============================================================================
