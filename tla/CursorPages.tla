----------------------------- MODULE CursorPages ------------------------------
(***************************************************************************)
(* What FetchAfter promises its caller, said without SQL, branches or rows *)
(* streaming in: each call reads, at one instant, the first Size rows that *)
(* sort strictly after the position reached so far, says whether any row   *)
(* follows them, and either delivers all of them and moves the position to *)
(* the last, or delivers nothing and leaves the position where it was.     *)
(* Other sessions write to the table whenever they like.                   *)
(***************************************************************************)
EXTENDS Keyset, FiniteSets

CONSTANTS
    Rows,       \* the rows the base SELECT can ever return
    Call,       \* the ways a caller invokes FetchAfter
    OrdersOf,   \* the effective orders of a call
    ArgsOf,     \* its filter arguments
    Matches,    \* the rows the base filter keeps, for each filter arguments
    Sizes,      \* the page sizes callers ask for
    NoCursor,   \* the empty After: the start of a traversal
    NoPage      \* no page is being read

VARIABLES
    table,      \* the rows in the database
    scope,      \* the orders and filter arguments of the traversal
    position,   \* the key reached, or NoCursor at the start
    delivered,  \* the rows the traversal has delivered
    page        \* the page read and not yet delivered, or NoPage

vars == <<table, scope, position, delivered, page>>

ScopeOf(c) == <<OrdersOf[c], ArgsOf[c]>>

\* The rows that sort after the position among those the filter keeps.
Remaining(c) ==
    {r \in table \cap Matches[ArgsOf[c]] :
        position # NoCursor =>
            KeyAfter(OrdersOf[c], KeyOf(OrdersOf[c], r), position)}

\* The first n rows of a set under the given orders.
FirstRows(orders, rows, n) ==
    {r \in rows : Cardinality({s \in rows : RowAfter(orders, r, s)}) < n}

LastRow(orders, rows) ==
    CHOOSE r \in rows : \A s \in rows : ~RowAfter(orders, s, r)

-------------------------------------------------------------------------------

Init ==
    /\ table \in SUBSET Rows
    /\ scope = <<>>
    /\ position = NoCursor
    /\ delivered = {}
    /\ page = NoPage

Write ==
    /\ UNCHANGED <<scope, position, delivered, page>>
    /\ table' \in SUBSET Rows

Read(c, size) ==
    /\ page = NoPage
    /\ position # NoCursor => scope = ScopeOf(c)
    /\ scope' = ScopeOf(c)
    /\ UNCHANGED <<table, position>>
    /\ delivered' = IF position = NoCursor THEN {} ELSE delivered
    /\ page' = [rows |-> FirstRows(OrdersOf[c], Remaining(c), size),
                more |-> Cardinality(Remaining(c)) > size]

Deliver ==
    /\ page # NoPage
    /\ delivered' = delivered \cup page.rows
    /\ position' = IF page.more
                   THEN KeyOf(scope[1], LastRow(scope[1], page.rows))
                   ELSE NoCursor
    /\ page' = NoPage
    /\ UNCHANGED <<table, scope>>

Drop ==
    /\ page # NoPage
    /\ page' = NoPage
    /\ UNCHANGED <<table, scope, position, delivered>>

Next ==
    \/ Write
    \/ \E c \in Call, size \in Sizes : Read(c, size)
    \/ Deliver
    \/ Drop

Spec == Init /\ [][Next]_vars

===============================================================================
