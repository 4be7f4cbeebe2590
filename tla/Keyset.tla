------------------------------- MODULE Keyset ---------------------------------
(***************************************************************************)
(* The seek predicates of a keyset page (page/query.go, afterPredicates):  *)
(* given the effective orders and the key values a cursor carries, the     *)
(* WHERE conditions of the UNION ALL branches that must together select    *)
(* exactly the rows strictly after the cursor, each of them once.          *)
(*                                                                         *)
(* A key is a sequence of cells, one for each order.  A predicate is a     *)
(* record: the kind of its last conjunct and the position it stands at;    *)
(* the conjuncts before it pin the earlier columns to the cursor's cells.  *)
(* A WHERE clause keeps a row only when it is TRUE, so UNKNOWN is read as  *)
(* FALSE at the only place it can arise, a comparison with NULL.           *)
(***************************************************************************)
EXTENDS OrderTerms

Key(orders) == [DOMAIN orders -> Cell]

KeyOf(orders, row) == [i \in DOMAIN orders |-> row[orders[i].column]]

-------------------------------------------------------------------------------
(* The order PostgreSQL sorts by.                                          *)

\* The SQL comparison that moves forward along a term; never true of NULL.
Follows(order, a, b) ==
    /\ a # Null
    /\ b # Null
    /\ IF order.desc THEN a < b ELSE a > b

\* NULLS LAST when ascending and NULLS FIRST when descending, unless the
\* rendered term says otherwise.
PgNullsFirst(order) ==
    IF order.nulls = "default" THEN order.desc ELSE order.nulls = "first"

CellAfter(order, a, b) ==
    \/ Follows(order, a, b)
    \/ a = Null /\ b # Null /\ ~PgNullsFirst(order)
    \/ a # Null /\ b = Null /\ PgNullsFirst(order)

\* key a sorts strictly after key b under ORDER BY renderOrders(orders)
KeyAfter(orders, a, b) ==
    \E i \in DOMAIN orders :
        /\ \A j \in 1 .. (i - 1) : a[j] = b[j]
        /\ CellAfter(orders[i], a[i], b[i])

RowAfter(orders, r, s) == KeyAfter(orders, KeyOf(orders, r), KeyOf(orders, s))

-------------------------------------------------------------------------------
(* The predicates the code renders.                                        *)

NullsFirstByDirection(order) == order.desc  \* deaf to an explicit placement

NullsFirst(order) ==
    \/ order.nulls = "first"
    \/ order.nulls = "default" /\ order.desc

\* One row comparison serves when the directions agree and no key is NULL.
Tuple(orders, key) ==
    \A i \in DOMAIN orders : orders[i].desc = orders[1].desc /\ key[i] # Null

Predicate(orders) ==
    [kind : {"tuple", "compare", "null", "notnull"}, at : DOMAIN orders]

\* Variation: the row comparison stands alone, without the branches for the
\* NULLs that sort last.
AfterPredicatesTupleOnly(orders, key) ==
    {p \in Predicate(orders) :
        \/ p.kind = "tuple" /\ p.at = 1 /\ Tuple(orders, key)
        \/ p.kind = "notnull" /\ key[p.at] = Null /\ NullsFirst(orders[p.at])
        \/ p.kind = "compare" /\ key[p.at] # Null /\ ~Tuple(orders, key)
        \/ /\ p.kind = "null" /\ ~Tuple(orders, key)
           /\ key[p.at] # Null /\ ~NullsFirst(orders[p.at])}

\* What each order contributes in one pass of the loop of afterPredicates.
AfterPredicates(orders, key) ==
    {p \in Predicate(orders) :
        \/ p.kind = "tuple" /\ p.at = 1 /\ Tuple(orders, key)
        \/ p.kind = "notnull" /\ key[p.at] = Null /\ NullsFirst(orders[p.at])
        \/ p.kind = "compare" /\ key[p.at] # Null /\ ~Tuple(orders, key)
        \/ p.kind = "null" /\ key[p.at] # Null /\ ~NullsFirst(orders[p.at])}

\* The conjuncts a branch starts with: "c = $n" or "c IS NULL" for each
\* earlier column.
Prefix(key, cells, at) == \A j \in 1 .. (at - 1) : cells[j] = key[j]

\* Variation: a comparison that does not pin the earlier columns.
SatisfiesUnpinned(p, orders, key, cells) ==
    \/ /\ p.kind = "tuple"
       /\ \E i \in DOMAIN orders :
            Prefix(key, cells, i) /\ Follows(orders[1], cells[i], key[i])
    \/ p.kind = "compare" /\ Follows(orders[p.at], cells[p.at], key[p.at])
    \/ p.kind = "notnull" /\ Prefix(key, cells, p.at) /\ cells[p.at] # Null
    \/ p.kind = "null" /\ Prefix(key, cells, p.at) /\ cells[p.at] = Null

\* Does the row with these cells satisfy predicate p?  A row comparison is
\* decided at the first pair that is not equal, by the operator of the first
\* order, and is UNKNOWN when that pair holds a NULL.
Satisfies(p, orders, key, cells) ==
    \/ /\ p.kind = "tuple"
       /\ \E i \in DOMAIN orders :
            Prefix(key, cells, i) /\ Follows(orders[1], cells[i], key[i])
    \/ /\ p.kind = "compare"
       /\ Prefix(key, cells, p.at)
       /\ Follows(orders[p.at], cells[p.at], key[p.at])
    \/ /\ p.kind = "notnull"
       /\ Prefix(key, cells, p.at)
       /\ cells[p.at] # Null
    \/ /\ p.kind = "null"
       /\ Prefix(key, cells, p.at)
       /\ cells[p.at] = Null

-------------------------------------------------------------------------------
(* What the predicates promise, for one list of orders, cursor and row.    *)

Exact(orders, key, cells) ==
    (\E p \in AfterPredicates(orders, key) : Satisfies(p, orders, key, cells))
        <=> KeyAfter(orders, cells, key)

Disjoint(orders, key, cells) ==
    \A p, q \in AfterPredicates(orders, key) :
        Satisfies(p, orders, key, cells) /\ Satisfies(q, orders, key, cells)
            => p = q

===============================================================================
