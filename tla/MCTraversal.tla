----------------------------- MODULE MCTraversal ------------------------------
(***************************************************************************)
(* Traversals of a table of rows with a nullable column "a" and the unique *)
(* column "id", under the orders that requests resolve to and two filters. *)
(***************************************************************************)
EXTENDS CursorTraversal

S == INSTANCE SortOrders WITH
        Field <- {"A", "id", ""}, Empty <- "",
        Lower <- [f \in {"A", "id", ""} |-> IF f = "A" THEN "a" ELSE f]

Whitelist == [f \in {"a", "id"} |-> f]

Term(column, desc, nulls) == [column |-> column, desc |-> desc, nulls |-> nulls]
By(field, direction) == [field |-> field, direction |-> direction]

OrdersFor(head, sort) ==
    S!ResolveOrders([head |-> head, tie |-> <<Term("id", FALSE, "default")>>],
                    Whitelist, sort).orders

\* Rows that differ in "id" or in "a"; "a" may be NULL.
SomeRows(ids, as) ==
    {r \in [Column -> ids \cup as] : r["id"] \in ids /\ r["a"] \in as}

MCRows == SomeRows({1, 2, 3}, {1, 2, Null})

\* Uniform ascending with NULLS LAST, mixed directions, the same with another
\* filter, and a result that lacks the tie column.
MCCall == {"up", "mixed", "mixedOdd", "noTie"}
Up == <<Term("a", FALSE, "default"), Term("id", FALSE, "default")>>
Mixed == <<Term("a", TRUE, "last"), Term("id", FALSE, "default")>>
MCOrdersOf ==
    [c \in MCCall |-> IF c \in {"up", "noTie"} THEN Up ELSE Mixed]

\* They are what page/order.go resolves these requests to.
ASSUME OrdersAreResolved ==
    /\ OrdersFor(<<>>, <<By("A", "")>>) = Up
    /\ OrdersFor(<<Term("a", TRUE, "last")>>, <<By("id", "asc")>>) = Mixed

MCArgsOf == [c \in MCCall |-> IF c = "mixedOdd" THEN "odd" ELSE "all"]
MCMatches ==
    [a \in {"all", "odd"} |->
        IF a = "all" THEN Rows ELSE {r \in Rows : r["id"] # 2}]
MCSelectedBy == [c \in MCCall |-> IF c = "noTie" THEN <<"a">> ELSE <<"id", "a">>]

===============================================================================
