----------------------------- MODULE SortOrders -------------------------------
(***************************************************************************)
(* How a request's sort becomes the ORDER BY of a page (page/order.go):    *)
(* the query's head, then what the client asked for by the names of the    *)
(* whitelist, then the tie, each column once.                              *)
(*                                                                         *)
(* A sort value "field:direction" is the record its parts make, trimmed    *)
(* and with the direction in lower case; a whitelist is a function from    *)
(* lower-case field names to columns.                                      *)
(***************************************************************************)
EXTENDS OrderTerms, SequencesExt

CONSTANTS
    Field,      \* the names clients and whitelists spell
    Empty,      \* the empty name, of a field or of a column
    Lower       \* strings.ToLower on names

ASSUME FieldAssumption == Empty \notin Column /\ Lower[Empty] = Empty

SortValue == [field : Field, direction : STRING]

\* parseSort refuses an empty field and a direction it does not know.
Malformed(value) ==
    value.field = Empty \/ value.direction \notin {"", "asc", "desc"}

SortError(whitelist, value) ==
    IF Malformed(value) THEN "ErrInvalidSort"
    ELSE IF Lower[value.field] \notin DOMAIN whitelist THEN "ErrUnknownSortField"
    ELSE "none"

Asked(whitelist, value) ==
    [column |-> whitelist[Lower[value.field]],
     desc |-> value.direction = "desc",
     nulls |-> "default"]

\* Variation: a column mentioned again is ordered by again.
AddOrderAgain(parts, order) == Append(parts, order)

\* Variation: the last mention of a column takes the place of the first.
AddOrderReplacing(parts, order) ==
    Append(SelectSeq(parts, LAMBDA o : o.column # order.column), order)

\* The closure "add" of resolveOrders: a column already ordered by stays as it
\* was first mentioned.
AddOrder(parts, order) ==
    IF \E i \in DOMAIN parts : parts[i].column = order.column
    THEN parts
    ELSE Append(parts, order)

AddOrders(parts, orders) == FoldLeft(AddOrder, parts, orders)

\* Variation: the tie follows the first order.
FollowingHead(parts, tie) ==
    IF parts = <<>>
    THEN tie
    ELSE [i \in DOMAIN tie |-> [tie[i] EXCEPT !.desc = Head(parts).desc]]

\* After other orders the tie takes the direction of the last one.
Following(parts, tie) ==
    IF parts = <<>>
    THEN tie
    ELSE [i \in DOMAIN tie |-> [tie[i] EXCEPT !.desc = Last(parts).desc]]

\* The effective orders, or the error of the first sort value that has one.
ResolveOrders(query, whitelist, sort) ==
    LET refused == {i \in DOMAIN sort : SortError(whitelist, sort[i]) # "none"}
        parts == AddOrders(AddOrders(<<>>, query.head),
                           [i \in DOMAIN sort |-> Asked(whitelist, sort[i])])
    IN  IF refused # {}
        THEN [err |-> SortError(whitelist, sort[Min(refused)]), orders |-> <<>>]
        ELSE [err |-> "none",
              orders |-> AddOrders(parts, Following(parts, query.tie))]

===============================================================================
