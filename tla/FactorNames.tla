---------------------------- MODULE FactorNames ----------------------------
(***************************************************************************)
(* resolve_mx and factor_names of kumod/src/dest_site.rs: the MX host list *)
(* of a destination domain and the site name built from it, under which    *)
(* resolve_domain files the destination in the site registry.              *)
(*                                                                         *)
(* Abstractions.  A host name is the sequence of its labels (the text      *)
(* between dots); a label is an atom, and ToLower maps every label of the  *)
(* model's alphabet to its lowercase form.  The result is the sequence of  *)
(* its dot-separated items, each the list of alternatives written between  *)
(* "(" and ")" and joined by "|" (or written bare when there is one) and   *)
(* whether a "?" follows.  As DNS labels contain none of "(", ")", "|",    *)
(* "?" and ".", two results are the same string exactly when they are the  *)
(* same sequence of items.                                                 *)
(***************************************************************************)
EXTENDS Naturals, Sequences

LOCAL INSTANCE SequencesExt

CONSTANTS
    ToLower,    \* str::to_lowercase on the labels of the model
    LabelOrder  \* the labels of the model in the byte order of their text

\* The position of a label in LabelOrder.
LabelRank(l) == CHOOSE i \in DOMAIN LabelOrder : LabelOrder[i] = l

(***************************************************************************)
(* The order of two host names' texts.  Labels are compared by LabelOrder, *)
(* and a name that is a prefix of the other sorts first, as "." sorts      *)
(* below the letters and digits of the labels of the model.                *)
(***************************************************************************)
RECURSIVE HostLess(_, _)
HostLess(x, y) ==
    IF y = <<>> THEN FALSE
    ELSE IF x = <<>> THEN TRUE
    ELSE IF x[1] = y[1] THEN HostLess(Tail(x), Tail(y))
    ELSE LabelRank(x[1]) < LabelRank(y[1])

(***************************************************************************)
(* An answer to the MX lookup of a domain: the records, as the exchanges   *)
(* of each preference in the order of the preferences (groups, empty for a *)
(* NOERROR answer without records); or "notfound" (DnsRecordNotFound) with *)
(* whether the domain exists; or any other DNS error.                      *)
(***************************************************************************)

\* Mutant of ResolveMx: the exchanges of a preference kept in answer order.
ResolveMxUnsorted(domain, ans) ==
    CASE ans.kind = "records" /\ ans.groups = <<>> -> [ok |-> TRUE, hosts |-> <<domain>>]
      [] ans.kind = "records" ->
             [ok |-> TRUE, hosts |-> FoldLeft(LAMBDA acc, g : acc \o g, <<>>, ans.groups)]
      [] ans.kind = "notfound" /\ ans.exists -> [ok |-> TRUE, hosts |-> <<domain>>]
      [] OTHER -> [ok |-> FALSE, hosts |-> <<>>]

\* resolve_mx: the domain itself when it has no MX records but exists, else
\* the exchanges, each preference's sorted by their text; an error fails
\* resolve_domain.
ResolveMx(domain, ans) ==
    CASE ans.kind = "records" /\ ans.groups = <<>> -> [ok |-> TRUE, hosts |-> <<domain>>]
      [] ans.kind = "records" ->
             [ok |-> TRUE, hosts |-> FoldLeft(LAMBDA acc, g : acc \o SortSeq(g, HostLess),
                                             <<>>, ans.groups)]
      [] ans.kind = "notfound" /\ ans.exists -> [ok |-> TRUE, hosts |-> <<domain>>]
      [] OTHER -> [ok |-> FALSE, hosts |-> <<>>]

\* The placeholder pushed for a position a shorter name does not reach.
Absent == "?"

\* fields of a name: its labels lowercased, the last label first.
Fields(name) == Reverse([i \in DOMAIN name |-> ToLower[name[i]]])

\* Mutant of AddElement: a label already at the position is pushed again.
AddElementDup(elements, field, i) ==
    IF i <= Len(elements)
    THEN [elements EXCEPT ![i] = Append(@, field)]
    ELSE Append(elements, <<field>>)

\* add_element: the field joins the alternatives of position i unless it is
\* one already; a position past the end (get_mut gives None) is pushed as
\* a new last position.  i counts from 1.
AddElement(elements, field, i) ==
    IF i <= Len(elements)
    THEN IF Contains(elements[i], field) THEN elements
         ELSE [elements EXCEPT ![i] = Append(@, field)]
    ELSE Append(elements, <<field>>)

\* The loop body for one name: each field at its position, then the
\* placeholder at every position up to the longest name.
AddFields(elements, fields, maxCount) ==
    FoldLeft(LAMBDA els, i :
                 AddElement(els, IF i <= Len(fields) THEN fields[i] ELSE Absent, i),
             elements, [i \in 1..maxCount |-> i])

\* One item of the result: the alternatives without the placeholder, and
\* whether it was there.
Item(ele) == [alts |-> SelectSeq(ele, LAMBDA e : e # Absent),
              optional |-> Contains(ele, Absent)]

\* factor_names(names).
FactorNames(names) ==
    LET split == [k \in DOMAIN names |-> Fields(names[k])]
        maxCount == FoldLeft(LAMBDA m, f : IF Len(f) > m THEN Len(f) ELSE m, 0, split)
        elements == FoldLeft(LAMBDA els, f : AddFields(els, f, maxCount), <<>>, split)
    IN Reverse([i \in DOMAIN elements |-> Item(elements[i])])
=============================================================================
