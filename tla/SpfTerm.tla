------------------------------ MODULE SpfTerm ------------------------------
(***************************************************************************)
(* The term parser of kumo-spf/src/record.rs: Directive::parse (with       *)
(* Qualifier::parse), Mechanism::parse (with starts_with_ident and         *)
(* DualCidrLength::parse_from_end) and Modifier::parse, beside the ABNF of *)
(* RFC 7208 section 12 for the same terms.                                 *)
(*                                                                         *)
(* Abstraction.  A term is the sequence of its lexemes, its text their     *)
(* concatenation: a word (a mechanism or modifier name, or "d", a label    *)
(* text such as example.com), a number, an address text ("A4" a dotted     *)
(* quad, "A6" an IPv6 text), a qualifier character, or one of ":" "=" "/". *)
(* Words are atomic, so what a prefix match inside a word would do         *)
(* ("allow" starting with "a") and letter case are not modelled.           *)
(***************************************************************************)
EXTENDS Naturals, Sequences, TLC

LOCAL INSTANCE Spf

Words == {"all", "include", "a", "mx", "ptr", "ip4", "ip6", "exists",
          "redirect", "exp", "d"}

\* The numbers of the model and their values.
NumValue == ("24" :> 24) @@ ("32" :> 32) @@ ("64" :> 64) @@ ("128" :> 128)
                @@ ("300" :> 300)

\* The decimal text of a length (u8's Display).
NumText(v) == CHOOSE t \in DOMAIN NumValue : NumValue[t] = v

Lexemes == Words \cup DOMAIN NumValue \cup Qualifiers
           \cup {"A4", "A6", ":", "=", "/"}

Last1(s) == s[Len(s)]
Slashes(s) == {i \in DOMAIN s : s[i] = "/"}
MaxOf(S) == CHOOSE i \in S : \A j \in S : j <= i
MinOf(S) == CHOOSE i \in S : \A j \in S : i <= j

\* A reading of a directive: qualifier, mechanism, domain-spec ("none" when
\* absent), the v4 and v6 CIDR lengths and the network address.
Reading(q, mech, dom, v4, v6, addr) ==
    [ok |-> TRUE, q |-> q, mech |-> mech, dom |-> dom, v4 |-> v4, v6 |-> v6, addr |-> addr]

Err == [ok |-> FALSE, q |-> "+", mech |-> "none", dom |-> "none", v4 |-> 0, v6 |-> 0, addr |-> "none"]

(***************************************************************************)
(* The code                                                                *)
(***************************************************************************)

\* MacroSpec::parse is outside the repository; a macro-string with no "%"
\* is taken to parse exactly when it is not empty.
MacroSpecParses(spec) == spec # <<>>

\* str::parse::<u8> of a segment.
U8Parses(seg) == Len(seg) = 1 /\ seg[1] \in DOMAIN NumValue /\ NumValue[seg[1]] <= 255
U8(seg) == NumValue[seg[1]]

\* starts_with_ident: whether s begins with ident, and what follows it.
StartsWith(s, ident) == Len(s) >= Len(ident) /\ SubSeq(s, 1, Len(ident)) = ident
After(s, ident) == SubSeq(s, Len(ident) + 1, Len(s))

\* DualCidrLength::parse_from_end: the text left of the CIDR lengths and
\* the lengths.  The last "/" splits off the right length; when what is
\* left ends in "/", the "/" before that splits off a v4 length, and
\* otherwise the right length is the v4 one.
ParseFromEnd(s) ==
    IF Slashes(s) = {} THEN [ok |-> TRUE, rest |-> s, v4 |-> 32, v6 |-> 128]
    ELSE LET k == MaxOf(Slashes(s))
             left == SubSeq(s, 1, k - 1)
             right == SubSeq(s, k + 1, Len(s))
             inner == Slashes(SubSeq(left, 1, Len(left) - 1))
         IN  IF ~U8Parses(right) THEN [ok |-> FALSE, rest |-> s, v4 |-> 0, v6 |-> 0]
             ELSE IF left # <<>> /\ Last1(left) = "/" /\ inner # {}
             THEN LET j == MaxOf(inner) IN
                  IF U8Parses(SubSeq(s, j + 1, k - 2))
                  THEN [ok |-> TRUE, rest |-> SubSeq(s, 1, j - 1),
                        v4 |-> U8(SubSeq(s, j + 1, k - 2)), v6 |-> U8(right)]
                  ELSE [ok |-> FALSE, rest |-> s, v4 |-> 0, v6 |-> 0]
             ELSE [ok |-> TRUE, rest |-> left, v4 |-> U8(right), v6 |-> 128]

\* Mutant of OptDomain: text after the name taken as the domain without
\* the ":".
OptDomainAnyText(rem, mech, v4, v6) ==
    IF StartsWith(rem, <<":">>)
    THEN IF MacroSpecParses(After(rem, <<":">>))
         THEN Reading("+", mech, After(rem, <<":">>), v4, v6, "none") ELSE Err
    ELSE IF rem = <<>> THEN Reading("+", mech, "none", v4, v6, "none")
    ELSE Reading("+", mech, rem, v4, v6, "none")

\* The optional ":domain-spec" after a, mx or ptr: None for nothing left,
\* an error for anything but ":" and a macro-string that parses.
OptDomain(rem, mech, v4, v6) ==
    IF StartsWith(rem, <<":">>)
    THEN IF MacroSpecParses(After(rem, <<":">>))
         THEN Reading("+", mech, After(rem, <<":">>), v4, v6, "none") ELSE Err
    ELSE IF rem = <<>> THEN Reading("+", mech, "none", v4, v6, "none")
    ELSE Err

\* The a and mx branches.
AOrMx(mech, rem) ==
    LET p == ParseFromEnd(rem) IN
    IF p.ok THEN OptDomain(p.rest, mech, p.v4, p.v6) ELSE Err

\* The ip4 and ip6 branches: split at the first "/", which must be there;
\* the address must parse for the family and the length as a u8.
IpNetwork(mech, addrText, rem) ==
    IF Slashes(rem) = {} THEN Err
    ELSE LET cut == MinOf(Slashes(rem))
             addr == SubSeq(rem, 1, cut - 1)
             len == SubSeq(rem, cut + 1, Len(rem))
         IN IF addr # <<addrText>> \/ ~U8Parses(len) THEN Err
            ELSE IF mech = "ip4" THEN Reading("+", mech, "none", U8(len), 128, addrText)
            ELSE Reading("+", mech, "none", 32, U8(len), addrText)

\* The include and exists branches.
DomainMech(mech, spec) ==
    IF MacroSpecParses(spec) THEN Reading("+", mech, spec, 32, 128, "none") ELSE Err

\* Mechanism::parse: the first branch whose name the term starts with.
MechanismParse(s) ==
    CASE s = <<"all">> -> Reading("+", "all", "none", 32, 128, "none")
      [] StartsWith(s, <<"include", ":">>) -> DomainMech("include", After(s, <<"include", ":">>))
      [] StartsWith(s, <<"a">>) -> AOrMx("a", After(s, <<"a">>))
      [] StartsWith(s, <<"mx">>) -> AOrMx("mx", After(s, <<"mx">>))
      [] StartsWith(s, <<"ptr">>) -> OptDomain(After(s, <<"ptr">>), "ptr", 32, 128)
      [] StartsWith(s, <<"ip4", ":">>) -> IpNetwork("ip4", "A4", After(s, <<"ip4", ":">>))
      [] StartsWith(s, <<"ip6", ":">>) -> IpNetwork("ip6", "A6", After(s, <<"ip6", ":">>))
      [] StartsWith(s, <<"exists", ":">>) -> DomainMech("exists", After(s, <<"exists", ":">>))
      [] OTHER -> Err

\* Directive::parse: an optional qualifier character (Qualifier::parse of
\* the first character, Pass when absent), then the mechanism.
DirectiveParse(s) ==
    LET hasQ == s[1] \in Qualifiers
        m == MechanismParse(IF hasQ THEN Tail(s) ELSE s)
    IN IF m.ok THEN [m EXCEPT !.q = IF hasQ THEN s[1] ELSE "+"] ELSE Err

\* The characters a modifier name may contain, and those it may start with.
NameLexemes == Words \cup DOMAIN NumValue \cup {"A4", "-"}

\* Modifier::parse: redirect= and exp= with their macro-string, else an
\* unknown modifier whose name (up to the first "=") is valid.
ModifierParse(s) ==
    LET eqs == {i \in DOMAIN s : s[i] = "="}
        name == SubSeq(s, 1, MinOf(eqs) - 1)
    IN
    CASE StartsWith(s, <<"redirect", "=">>) ->
             IF MacroSpecParses(After(s, <<"redirect", "=">>)) THEN "redirect" ELSE "invalid"
      [] StartsWith(s, <<"exp", "=">>) ->
             IF MacroSpecParses(After(s, <<"exp", "=">>)) THEN "exp" ELSE "invalid"
      [] OTHER ->
             IF eqs = {} THEN "invalid"
             ELSE IF name # <<>> /\ \A i \in DOMAIN name : name[i] \in NameLexemes
                     /\ name[1] \in Words
                  THEN "unknown" ELSE "invalid"

\* The loop body of Record::parse for a non-empty token: a directive when
\* Directive::parse accepts it, else what Modifier::parse makes of it.
TermClass(s) == IF DirectiveParse(s).ok THEN "directive" ELSE ModifierParse(s)

(***************************************************************************)
(* The Display impls, which write a directive into the context of the     *)
(* result it decides ("matched '...' directive").  MacroSpec, outside the  *)
(* repository, is taken to display the text it was parsed from.           *)
(***************************************************************************)

\* DualCidrLength's Display: nothing for the defaults, else "/v4", then
\* "/v6" unless v6 is the default.
CidrDisplay(v4, v6) ==
    IF v4 = 32 /\ v6 = 128 THEN <<>>
    ELSE <<"/", NumText(v4)>> \o (IF v6 # 128 THEN <<"/", NumText(v6)>> ELSE <<>>)

OptDomainDisplay(dom) == IF dom = "none" THEN <<>> ELSE <<":">> \o dom

\* Mechanism's Display.
MechanismDisplay(r) ==
    CASE r.mech = "all" -> <<"all">>
      [] r.mech \in {"include", "exists"} -> <<r.mech, ":">> \o r.dom
      [] r.mech \in {"a", "mx"} -> <<r.mech>> \o OptDomainDisplay(r.dom) \o CidrDisplay(r.v4, r.v6)
      [] r.mech = "ptr" -> <<"ptr">> \o OptDomainDisplay(r.dom)
      [] r.mech = "ip4" -> <<"ip4", ":", r.addr, "/", NumText(r.v4)>>
      [] r.mech = "ip6" -> <<"ip6", ":", r.addr, "/", NumText(r.v6)>>

\* Directive's Display: the qualifier (Qualifier::as_str) unless Pass.
DirectiveDisplay(r) == (IF r.q # "+" THEN <<r.q>> ELSE <<>>) \o MechanismDisplay(r)

(***************************************************************************)
(* RFC 7208 section 12                                                     *)
(***************************************************************************)

\* domain-spec = macro-string domain-end, where domain-end is a toplabel:
\* the text ends in a label with a letter.
RfcDomainSpec(d) == d # <<>> /\ Last1(d) \in Words

\* ip4-cidr-length (value range 0-32) and ip6-cidr-length (0-128).
RfcLen(seg, max) == Len(seg) = 1 /\ seg[1] \in DOMAIN NumValue /\ NumValue[seg[1]] <= max

\* dual-cidr-length = [ ip4-cidr-length ] [ "/" ip6-cidr-length ].
RfcDualCidr(c) ==
    CASE c = <<>> -> [ok |-> TRUE, v4 |-> 32, v6 |-> 128]
      [] Len(c) = 2 /\ c[1] = "/" /\ RfcLen(<<c[2]>>, 32) ->
             [ok |-> TRUE, v4 |-> NumValue[c[2]], v6 |-> 128]
      [] Len(c) = 3 /\ c[1] = "/" /\ c[2] = "/" /\ RfcLen(<<c[3]>>, 128) ->
             [ok |-> TRUE, v4 |-> 32, v6 |-> NumValue[c[3]]]
      [] Len(c) = 5 /\ c[1] = "/" /\ c[3] = "/" /\ c[4] = "/"
             /\ RfcLen(<<c[2]>>, 32) /\ RfcLen(<<c[5]>>, 128) ->
             [ok |-> TRUE, v4 |-> NumValue[c[2]], v6 |-> NumValue[c[5]]]
      [] OTHER -> [ok |-> FALSE, v4 |-> 0, v6 |-> 0]

\* [ ":" domain-spec ] followed by a suffix the caller accepts: the domain
\* ends in a word and the suffix has none, so the split is unique.
RfcOptDomainThen(mech, rem, Suffix(_)) ==
    LET ok(k) == /\ Suffix(SubSeq(rem, k + 1, Len(rem))).ok
                 /\ \/ k = 0
                    \/ rem[1] = ":" /\ RfcDomainSpec(SubSeq(rem, 2, k))
        splits == {k \in 0 .. Len(rem) : ok(k)}
    IN IF splits = {} THEN Err
       ELSE LET k == MinOf(splits)
                c == Suffix(SubSeq(rem, k + 1, Len(rem)))
            IN Reading("+", mech, IF k = 0 THEN "none" ELSE SubSeq(rem, 2, k), c.v4, c.v6, "none")

NoCidr(c) == [ok |-> c = <<>>, v4 |-> 32, v6 |-> 128]

\* ip4 = "ip4" ":" ip4-network [ ip4-cidr-length ], and ip6 likewise.
RfcIp(mech, addrText, rem) ==
    CASE rem = <<addrText>> -> Reading("+", mech, "none", 32, 128, addrText)
      [] Len(rem) = 3 /\ rem[1] = addrText /\ rem[2] = "/" /\ mech = "ip4"
             /\ RfcLen(<<rem[3]>>, 32) -> Reading("+", mech, "none", NumValue[rem[3]], 128, addrText)
      [] Len(rem) = 3 /\ rem[1] = addrText /\ rem[2] = "/" /\ mech = "ip6"
             /\ RfcLen(<<rem[3]>>, 128) -> Reading("+", mech, "none", 32, NumValue[rem[3]], addrText)
      [] OTHER -> Err

\* mechanism, as the grammar reads it.
RfcMechanism(s) ==
    CASE s = <<"all">> -> Reading("+", "all", "none", 32, 128, "none")
      [] StartsWith(s, <<"include", ":">>) /\ RfcDomainSpec(After(s, <<"include", ":">>)) ->
             Reading("+", "include", After(s, <<"include", ":">>), 32, 128, "none")
      [] StartsWith(s, <<"exists", ":">>) /\ RfcDomainSpec(After(s, <<"exists", ":">>)) ->
             Reading("+", "exists", After(s, <<"exists", ":">>), 32, 128, "none")
      [] s # <<>> /\ s[1] \in {"a", "mx"} -> RfcOptDomainThen(s[1], Tail(s), RfcDualCidr)
      [] s # <<>> /\ s[1] = "ptr" -> RfcOptDomainThen("ptr", Tail(s), NoCidr)
      [] StartsWith(s, <<"ip4", ":">>) -> RfcIp("ip4", "A4", After(s, <<"ip4", ":">>))
      [] StartsWith(s, <<"ip6", ":">>) -> RfcIp("ip6", "A6", After(s, <<"ip6", ":">>))
      [] OTHER -> Err

\* directive = [ qualifier ] mechanism.
RfcDirective(s) ==
    LET hasQ == s[1] \in Qualifiers
        m == RfcMechanism(IF hasQ THEN Tail(s) ELSE s)
    IN IF m.ok THEN [m EXCEPT !.q = IF hasQ THEN s[1] ELSE "+"] ELSE Err

\* modifier = redirect / explanation / unknown-modifier, where the name of
\* an unknown modifier is ALPHA *( ALPHA / DIGIT / "-" / "_" / "." ) and
\* not a known one.
RfcModifierClass(s) ==
    LET eqs == {i \in DOMAIN s : s[i] = "="}
        name == SubSeq(s, 1, MinOf(eqs) - 1)
    IN
    CASE StartsWith(s, <<"redirect", "=">>) /\ RfcDomainSpec(After(s, <<"redirect", "=">>)) -> "redirect"
      [] StartsWith(s, <<"exp", "=">>) /\ RfcDomainSpec(After(s, <<"exp", "=">>)) -> "exp"
      [] eqs # {} /\ name \notin {<<>>, <<"redirect">>, <<"exp">>} /\ name[1] \in Words
             /\ \A i \in DOMAIN name : name[i] \in NameLexemes -> "unknown"
      [] OTHER -> "invalid"
=============================================================================
