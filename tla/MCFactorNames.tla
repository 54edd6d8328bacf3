--------------------------- MODULE MCFactorNames ---------------------------
(***************************************************************************)
(* factor_names over every pair of MX host lists within the bounds, as the *)
(* initial states of a specification that never steps, and over the lists *)
(* of its unit test name_factoring.  resolve_domain (dest_site.rs) files a *)
(* destination under the factored name of its MX hosts: the first list to *)
(* reach a name creates the site with that list, and every later           *)
(* destination with the same name is delivered through it.                 *)
(***************************************************************************)
EXTENDS Naturals, Sequences, FiniteSets, TLC

LOCAL INSTANCE Functions

CONSTANTS
    Labels,     \* the lowercase labels of the host names enumerated
    MaxLabels,  \* labels per host name
    MaxHosts,   \* hosts per MX list, and preferences per MX answer
    LabelOrder  \* the labels in the byte order of their text

ASSUME \A l \in Labels : \E i \in DOMAIN LabelOrder : LabelOrder[i] = l

VARIABLE mx  \* the MX host lists of two destinations

\* The labels a and b in byte order.
LabelsAB == <<"a", "b">>

\* The labels of name_factoring, in the case it writes them.
TestLabels ==
    {"mta5", "mta6", "mta7", "am0", "AM0", "yahoodns", "yAHOodns", "net",
     "gmail-smtp-in", "l", "google", "com", "alt1", "alt2", "alt3", "alt4"}

\* str::to_lowercase on every label of the model.
LowerCase ==
    ("AM0" :> "am0") @@ ("yAHOodns" :> "yahoodns")
        @@ [l \in Labels \cup TestLabels |-> l]

INSTANCE FactorNames WITH ToLower <- LowerCase, LabelOrder <- LabelOrder

HostNames == UNION {[1..k -> Labels] : k \in 1..MaxLabels}

\* resolve_mx gives a non-empty list of distinct hosts.
MxLists ==
    UNION {{l \in [1..k -> HostNames] : \A i, j \in 1..k : i # j => l[i] # l[j]}
           : k \in 1..MaxHosts}

Init == mx \in MxLists \X MxLists

Spec == Init /\ [][FALSE]_mx

\* An item of an expected site name.
Bare(l) == [alts |-> <<l>>, optional |-> FALSE]
Alt(ls, opt) == [alts |-> ls, optional |-> opt]

\* The lists and site names name_factoring asserts.
UnitTests ==
    {<< << <<"mta5", "am0", "yahoodns", "net">>,
          <<"mta6", "am0", "yahoodns", "net">>,
          <<"mta7", "am0", "yahoodns", "net">> >>,
        << Alt(<<"mta5", "mta6", "mta7">>, FALSE), Bare("am0"),
           Bare("yahoodns"), Bare("net") >> >>,
     << << <<"mta5", "AM0", "yahoodns", "net">>,
          <<"mta6", "am0", "yAHOodns", "net">>,
          <<"mta7", "am0", "yahoodns", "net">> >>,
        << Alt(<<"mta5", "mta6", "mta7">>, FALSE), Bare("am0"),
           Bare("yahoodns"), Bare("net") >> >>,
     << << <<"gmail-smtp-in", "l", "google", "com">>,
          <<"alt1", "gmail-smtp-in", "l", "google", "com">>,
          <<"alt2", "gmail-smtp-in", "l", "google", "com">>,
          <<"alt3", "gmail-smtp-in", "l", "google", "com">>,
          <<"alt4", "gmail-smtp-in", "l", "google", "com">> >>,
        << Alt(<<"alt1", "alt2", "alt3", "alt4">>, TRUE), Bare("gmail-smtp-in"),
           Bare("l"), Bare("google"), Bare("com") >> >>}

\* factor_names gives the site names the unit test name_factoring asserts:
\* common labels factored out, alternatives in first-seen order, case
\* folded, and a "?" where a shorter name has no label.
MatchesUnitTest(t) == FactorNames(t[1]) = t[2]

HostSet(list) == {[i \in DOMAIN list[k] |-> LowerCase[list[k][i]]] : k \in DOMAIN list}

\* Two destinations resolve_domain files under one site name have the same
\* MX hosts: the site created for the first (with its MX list frozen in
\* DestinationSite.mx) never carries the second's mail to a host that is
\* not an MX of the second.  Spec 4.A: the factored name is "used purely as
\* a site-identity key".
SiteKeyIdentifiesHosts ==
    FactorNames(mx[1]) = FactorNames(mx[2]) => HostSet(mx[1]) = HostSet(mx[2])

-----------------------------------------------------------------------------
(* resolve_mx and the site name *)

\* The domain whose MX records are looked up.
QueriedDomain == <<"a", "b">>

\* The answers the lookup can give, with up to MaxHosts preferences.
Answers ==
    [kind : {"records"}, groups : UNION {[1..k -> MxLists] : k \in 0..MaxHosts}]
        \cup [kind : {"notfound"}, exists : BOOLEAN] \cup [kind : {"error"}]

\* The orders a DNS server may list the exchanges of one preference in.
Reorderings(g) == {[i \in DOMAIN g |-> g[f[i]]] : f \in Bijection(DOMAIN g, DOMAIN g)}

\* The same answer with the exchanges of each preference in any order.
Reordered(ans) ==
    IF ans.kind # "records" THEN {ans}
    ELSE {[kind |-> "records", groups |-> gs] :
            gs \in {gs \in [DOMAIN ans.groups -> MxLists] :
                      \A k \in DOMAIN gs : gs[k] \in Reorderings(ans.groups[k])}}

(***************************************************************************)
(* Servers that rotate the MX records of one preference (round-robin) do  *)
(* not split a destination over several sites: two answers with the same  *)
(* exchanges per preference, in any order, make resolve_mx and             *)
(* factor_names give one site name, so resolve_domain finds one site and   *)
(* one connection_limit applies.                                           *)
(***************************************************************************)
MxOrderIrrelevant(a, b) ==
    LET ra == ResolveMx(QueriedDomain, a)
        rb == ResolveMx(QueriedDomain, b)
    IN  /\ ra.ok = rb.ok
        /\ ra.ok => FactorNames(ra.hosts) = FactorNames(rb.hosts)
=============================================================================
