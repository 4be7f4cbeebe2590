--------------------------- MODULE CursorTraversal ----------------------------
(***************************************************************************)
(* A keyset traversal through FetchAfter: collectAfter of collect.go, the  *)
(* statement Query.BuildAfter prepares for it, and the cursor that links   *)
(* one call to the next, while other sessions write to the table.          *)
(*                                                                         *)
(* The statement runs on one snapshot of the table: Query fixes the rows   *)
(* the server is going to send, and every rows.Next takes one of them that *)
(* no other precedes.  A row comes with the UNION ALL branch it was        *)
(* selected by, so a row two branches select would come twice.             *)
(***************************************************************************)
EXTENDS Keyset, FiniteSets

CONSTANTS
    Pk,             \* the unique tie column
    Rows,           \* the rows the base SELECT can ever return
    Call,           \* the ways a caller invokes FetchAfter
    OrdersOf,       \* the effective orders of a call
    ArgsOf,         \* its filter arguments
    Matches,        \* the rows the base filter keeps, for each arguments
    SelectedBy,     \* the result columns of its SELECT, in order
    Sizes,          \* the page sizes callers ask for, 0 among them
    BigintMax,      \* the greatest bigint: the look-ahead has to fit one
    Unencodable,    \* values of a type no cursor can carry
    MaxCursorKeys,  \* maxCursorKeys of page/query.go
    MaxWrites,      \* bound on the writes of other sessions
    MaxFailures,    \* bound on the calls that fail while reading
    NoCursor,       \* the empty After
    NoCall          \* no call is being served

ASSUME RowsAssumption ==
    /\ Pk \in Column
    /\ Rows \subseteq {r \in Row : r[Pk] # Null}
    /\ IsFiniteSet(Rows)

ASSUME CallAssumption ==
    /\ OrdersOf \in [Call -> Seq(Order)]
    /\ \A c \in Call :
        /\ \E i \in DOMAIN OrdersOf[c] : OrdersOf[c][i].column = Pk
        /\ Matches[ArgsOf[c]] \subseteq Rows
    /\ Sizes \subseteq Nat /\ BigintMax \in Nat
    /\ NoCall \notin [call : Call, size : Sizes]

\* The empty After is no token, nor the keys of one.
ASSUME CursorAssumption ==
    \A c \in Call :
        /\ NoCursor \notin Key(OrdersOf[c])
        /\ NoCursor \notin [scope : {<<OrdersOf[c], ArgsOf[c]>>},
                            keys : Key(OrdersOf[c])]

VARIABLES
    table,      \* the rows in the database
    writes,     \* how many writes other sessions have done
    failures,   \* how many calls have failed while reading
    pc,         \* where the call is: "idle", "reading" or "closed"
    call,       \* the call being served and its size, or NoCall
    pending,    \* what the server has still to send: rows and their branches
    list,       \* result.List of collectAfter
    keys,       \* keys of collectAfter, <<>> until the page is full
    hasMore,    \* result.HasMore of collectAfter
    cursor,     \* the token the caller holds, or NoCursor
    outcome,    \* how the last call ended
    scope,      \* the scope of the traversal
    delivered,  \* the rows the traversal's pages have delivered
    stable,     \* the rows nobody wrote to since the traversal started
    ended       \* the last page of the traversal has been delivered

callVars == <<pc, call, pending, list, keys, hasMore>>
traversal == <<cursor, scope, delivered, stable, ended>>
vars == <<table, writes, failures, callVars, outcome, traversal>>

-------------------------------------------------------------------------------
(* The statement.                                                          *)

\* What the token is bound to; the SHA-256 of it stands for the thing itself.
CursorScope(c) == <<OrdersOf[c], ArgsOf[c]>>

\* Variation: no look-ahead row.
PageLimitExact(size) == size

\* The LIMIT of the statement and of each branch: the page and one row more.
PageLimit(size) == size + 1

\* Without a cursor there is one SELECT and no WHERE.
WholeQuery == [kind |-> "all", at |-> 0]

Branches(orders, after) ==
    IF after = NoCursor THEN {WholeQuery}
                        ELSE AfterPredicates(orders, after.keys)

BranchRows(c, branch, after) ==
    {r \in table \cap Matches[ArgsOf[c]] :
        branch # WholeQuery =>
            Satisfies(branch, OrdersOf[c], after.keys, KeyOf(OrdersOf[c], r))}

\* ORDER BY ... LIMIT n
Limited(orders, rows, n) ==
    {r \in rows : Cardinality({s \in rows : RowAfter(orders, r, s)}) < n}

ResultSet(c, size, after) ==
    UNION {{[branch |-> b, row |-> r] :
              r \in Limited(OrdersOf[c], BranchRows(c, b, after),
                            PageLimit(size))} :
           b \in Branches(OrdersOf[c], after)}

\* newCursorKeyReader finds each ordered column once among the result's.
KeyColumnsFound(c) ==
    \A i \in DOMAIN OrdersOf[c] :
        \E j \in DOMAIN SelectedBy[c] :
            \A k \in DOMAIN SelectedBy[c] :
                SelectedBy[c][k] = OrdersOf[c][i].column <=> k = j

\* Variation: any token with enough keys will do.
AcceptsAnyScope(token, c) == Len(token.keys) = Len(OrdersOf[c])

\* decodeCursor: the token of this scope, with a key for each order.
Accepts(token, c) ==
    token.scope = CursorScope(c) /\ Len(token.keys) = Len(OrdersOf[c])

\* The error a call ends with before it reads a row, in the order of the checks.
EarlyError(c, size) ==
    IF size = 0 \/ size >= BigintMax \/ Len(OrdersOf[c]) > MaxCursorKeys
    THEN "ErrInvalidRequest"
    ELSE IF cursor # NoCursor /\ ~Accepts(cursor, c) THEN "ErrInvalidCursor"
    ELSE IF ~KeyColumnsFound(c) THEN "ErrInvalidColumn"
    ELSE "none"

Encodable(ks) == \A i \in DOMAIN ks : ks[i] \notin Unencodable

-------------------------------------------------------------------------------

TablesOf(rows) ==
    {t \in SUBSET rows : \A r, s \in t : r[Pk] = s[Pk] => r = s}

Init ==
    /\ table \in TablesOf(Rows)
    /\ writes = 0
    /\ failures = 0
    /\ pc = "idle"
    /\ call = NoCall
    /\ pending = {}
    /\ list = <<>>
    /\ keys = <<>>
    /\ hasMore = FALSE
    /\ cursor = NoCursor
    /\ outcome = "none"
    /\ scope = <<>>
    /\ delivered = <<>>
    /\ stable = {}
    /\ ended = FALSE

\* Variation: the finished call is not forgotten.
AbandonKeepingCall(reason) ==
    /\ outcome' = reason
    /\ pc' = "idle"
    /\ pending' = {}
    /\ list' = <<>>
    /\ keys' = <<>>
    /\ hasMore' = FALSE
    /\ UNCHANGED call

\* The rows are closed and the call returns without a result.
Abandon(reason) ==
    /\ outcome' = reason
    /\ pc' = "idle"
    /\ call' = NoCall
    /\ pending' = {}
    /\ list' = <<>>
    /\ keys' = <<>>
    /\ hasMore' = FALSE

\* BuildAfter, or the key reader after it, refuses the call.
Refuse(c, size) ==
    /\ pc = "idle"
    /\ EarlyError(c, size) # "none"
    /\ Abandon(EarlyError(c, size))
    /\ UNCHANGED <<table, writes, failures, traversal>>

\* The statement starts on the current snapshot.  An empty After starts a
\* traversal over.
Query(c, size) ==
    /\ pc = "idle"
    /\ EarlyError(c, size) = "none"
    /\ pc' = "reading"
    /\ call' = [call |-> c, size |-> size]
    /\ pending' = ResultSet(c, size, cursor)
    /\ outcome' = "none"
    /\ scope' = CursorScope(c)
    /\ IF cursor = NoCursor
       THEN /\ delivered' = <<>>
            /\ stable' = table \cap Matches[ArgsOf[c]]
            /\ ended' = FALSE
       ELSE UNCHANGED <<delivered, stable, ended>>
    /\ UNCHANGED <<table, writes, failures, list, keys, hasMore, cursor>>

\* rows.Next: the server sends a row no other one it has to send precedes.
Receive(x) ==
    /\ pc = "reading"
    /\ Len(list) < PageLimit(call.size)
    /\ \A y \in pending : ~RowAfter(OrdersOf[call.call], x.row, y.row)
    /\ pending' = pending \ {x}

\* A row of the page; the keys of the row that fills it are kept.
TakeRow(x) ==
    /\ Receive(x)
    /\ Len(list) # call.size
    /\ list' = Append(list, x.row)
    /\ keys' = IF Len(list') = call.size
               THEN KeyOf(OrdersOf[call.call], x.row)
               ELSE keys
    /\ UNCHANGED <<table, writes, failures, pc, call, hasMore, outcome, traversal>>

\* Variation: the cursor's keys are read once more from the look-ahead row.
LookAheadReadingKeys(x) ==
    /\ Receive(x)
    /\ Len(list) = call.size
    /\ hasMore' = TRUE
    /\ pc' = "closed"
    /\ keys' = KeyOf(OrdersOf[call.call], x.row)
    /\ UNCHANGED <<table, writes, failures, call, list, outcome, traversal>>

\* The look-ahead row only tells that another page follows.
LookAhead(x) ==
    /\ Receive(x)
    /\ Len(list) = call.size
    /\ hasMore' = TRUE
    /\ pc' = "closed"
    /\ UNCHANGED <<table, writes, failures, call, list, keys, outcome, traversal>>

\* Variation: a full page is taken to have more rows after it.
EndOfRowsFullIsMore ==
    /\ pc = "reading"
    /\ pending = {} \/ Len(list) = PageLimit(call.size)
    /\ pc' = "closed"
    /\ hasMore' = (Len(list) = call.size)
    /\ UNCHANGED <<table, writes, failures, call, pending, list, keys, outcome,
                   traversal>>

EndOfRows ==
    /\ pc = "reading"
    /\ pending = {} \/ Len(list) = PageLimit(call.size)
    /\ pc' = "closed"
    /\ UNCHANGED <<table, writes, failures, call, pending, list, keys, hasMore,
                   outcome, traversal>>

\* Query, a row, its keys or, after Close, the result as a whole fails.
Fail ==
    /\ pc # "idle"
    /\ failures < MaxFailures
    /\ failures' = failures + 1
    /\ Abandon("failed")
    /\ UNCHANGED <<table, writes, traversal>>

\* Variation: the next cursor is the one the call came with.
ReturnSameCursor ==
    /\ pc = "closed"
    /\ hasMore => Encodable(keys)
    /\ Abandon("page")
    /\ delivered' = delivered \o list
    /\ cursor' = IF hasMore THEN cursor ELSE NoCursor
    /\ ended' = ~hasMore
    /\ UNCHANGED <<table, writes, failures, scope, stable>>

Return ==
    /\ pc = "closed"
    /\ hasMore => Encodable(keys)
    /\ Abandon("page")
    /\ delivered' = delivered \o list
    /\ cursor' = IF hasMore THEN [scope |-> CursorScope(call.call), keys |-> keys]
                            ELSE NoCursor
    /\ ended' = ~hasMore
    /\ UNCHANGED <<table, writes, failures, scope, stable>>

\* st.Cursor refuses the keys: the rows read are not returned either.
RefuseToken ==
    /\ pc = "closed"
    /\ hasMore
    /\ ~Encodable(keys)
    /\ Abandon("ErrCursorValue")
    /\ UNCHANGED <<table, writes, failures, traversal>>

-------------------------------------------------------------------------------
(* The other sessions.                                                     *)

Touch(gone, new) ==
    /\ writes < MaxWrites
    /\ writes' = writes + 1
    /\ table' = (table \ gone) \cup new
    /\ stable' = stable \ gone
    /\ UNCHANGED <<failures, callVars, outcome, cursor, scope, delivered, ended>>

Insert(r) ==
    /\ \A s \in table : s[Pk] # r[Pk]
    /\ Touch({}, {r})

Delete(r) == r \in table /\ Touch({r}, {})

Update(r, s) ==
    /\ r \in table
    /\ r # s
    /\ r[Pk] = s[Pk]
    /\ Touch({r}, {s})

-------------------------------------------------------------------------------

Request == \E c \in Call, size \in Sizes : Refuse(c, size) \/ Query(c, size)

Serve ==
    \/ \E x \in pending : TakeRow(x) \/ LookAhead(x)
    \/ EndOfRows
    \/ Return
    \/ RefuseToken

Write ==
    \/ \E r \in Rows : Insert(r) \/ Delete(r)
    \/ \E r, s \in Rows : Update(r, s)

Next == Request \/ Serve \/ Fail \/ Write

Spec == Init /\ [][Next]_vars

\* The loop of collectAfter runs on and the caller asks for the page it still
\* lacks; nothing makes other sessions write or a read fail.
AskNext == \E c \in Call, size \in Sizes : Query(c, size) /\ ~ended

Fairness == WF_vars(Serve) /\ WF_vars(AskNext)

FairSpec == Spec /\ Fairness

-------------------------------------------------------------------------------
(* What a traversal promises.                                              *)

\* The state stays within its types, and the table keeps "id" unique.
TypeOK ==
    /\ table \in TablesOf(Rows)
    /\ writes \in Nat /\ failures \in Nat
    /\ pc \in {"idle", "reading", "closed"}
    /\ pc = "idle" <=> call = NoCall
    /\ pc # "idle" => call \in [call : Call, size : Sizes \ {0}]
    /\ \A x \in pending : x.row \in Rows
    /\ list \in Seq(Rows) /\ delivered \in Seq(Rows) /\ stable \subseteq Rows
    /\ hasMore \in BOOLEAN /\ ended \in BOOLEAN
    /\ cursor # NoCursor =>
        \E c \in Call : cursor.scope = CursorScope(c) /\ cursor.keys \in Key(OrdersOf[c])

Ascending(orders, rows) ==
    \A i, j \in DOMAIN rows : i < j => RowAfter(orders, rows[j], rows[i])

\* While a page is read, its rows come strictly forward from the cursor, what
\* the server has still to send lies beyond them and holds no row twice, and
\* the keys kept are those of the row that filled the page.
PageInOrder ==
    IF pc = "idle"
    THEN list = <<>> /\ ~hasMore
    ELSE
        LET orders == OrdersOf[call.call]
            beyond(r) == cursor # NoCursor =>
                            KeyAfter(orders, KeyOf(orders, r), cursor.keys)
        IN  /\ scope = CursorScope(call.call)
            /\ cursor = NoCursor => delivered = <<>>
            /\ Ascending(orders, list)
            /\ \A i \in DOMAIN list : beyond(list[i])
            /\ Len(list) <= call.size
            /\ Len(list) = call.size => keys = KeyOf(orders, list[call.size])
            /\ hasMore => pc = "closed" /\ Len(list) = call.size
            /\ \A x \in pending :
                /\ beyond(x.row)
                /\ \A i \in DOMAIN list : RowAfter(orders, x.row, list[i])
                /\ \A y \in pending : x # y => x.row[Pk] # y.row[Pk]

\* Page after page the rows come strictly forward in the requested order: no
\* row is delivered twice with the same keys, whatever others write meanwhile.
DeliveredInOrder == delivered # <<>> => Ascending(scope[1], delivered)

\* The token the caller holds carries the keys of the last row it was given,
\* never those of the look-ahead row, and the scope they belong to.
CursorIsLastDelivered ==
    cursor # NoCursor =>
        /\ delivered # <<>>
        /\ cursor.scope = scope
        /\ cursor.keys = KeyOf(scope[1], delivered[Len(delivered)])

Seeking == pc = "reading" /\ cursor # NoCursor

\* A call that goes on from a cursor asks for a row exactly when it sorts
\* strictly after that cursor, whatever NULLs the row and the cursor hold and
\* wherever the orders put them: no page repeats or loses a row.
SelectsExactlyAfter ==
    Seeking =>
        LET orders == OrdersOf[call.call]
        IN  \A r \in Rows : Exact(orders, cursor.keys, KeyOf(orders, r))

\* No row satisfies two branches of such a call: UNION ALL would return it
\* twice.
BranchesDisjoint ==
    Seeking =>
        LET orders == OrdersOf[call.call]
        IN  \A r \in Rows : Disjoint(orders, cursor.keys, KeyOf(orders, r))

\* A row nobody touched since the traversal started has been delivered or is
\* still ahead of the cursor; at the end it has been delivered.
NothingSkipped ==
    \A r \in stable :
        \/ \E i \in DOMAIN delivered : delivered[i] = r
        \/ ~ended /\ cursor = NoCursor
        \/ cursor # NoCursor /\ KeyAfter(scope[1], KeyOf(scope[1], r), cursor.keys)

-------------------------------------------------------------------------------
(* The pages it delivers are those of CursorPages: each one is read at the *)
(* instant the statement started.                                          *)

NoPage == <<>>

Sent == {x.row : x \in pending}

PageInFlight ==
    IF pc = "idle"
    THEN NoPage
    ELSE LET room == call.size - Len(list)
         IN  [rows |-> {list[i] : i \in DOMAIN list}
                         \cup Limited(OrdersOf[call.call], Sent, room),
              more |-> hasMore \/ Cardinality(Sent) > room]

Pages == INSTANCE CursorPages WITH
    position <- IF cursor = NoCursor THEN NoCursor ELSE cursor.keys,
    delivered <- {delivered[i] : i \in DOMAIN delivered},
    page <- PageInFlight

\* Every call reads the first Size rows after the cursor as they were at one
\* instant, says truly whether a row follows them, and delivers all of them
\* or, when it fails, nothing.
PagesOfOneSnapshot == Pages!Spec

-------------------------------------------------------------------------------

\* When writes and failures stop, a traversal asked to go on reaches its end,
\* or a page whose last key no token can carry.
TraversalEnds == ~ended ~> (ended \/ outcome = "ErrCursorValue")

===============================================================================
