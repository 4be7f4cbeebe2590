----------------------------- MODULE OffsetPages -------------------------------
(***************************************************************************)
(* Numbered pages: collectPage, collectPageRows and collectTotal of        *)
(* collect.go, called on the pool (DB) or in a transaction (Tx), while     *)
(* other sessions write to the table.                                      *)
(*                                                                         *)
(* A row is its position in the total order of the page, which KeyTotal of *)
(* TraversalProofs justifies.  A statement runs on one snapshot: the       *)
(* latest, or in a repeatable read transaction that of its first           *)
(* statement.  The rows and the count of one page are two statements.      *)
(***************************************************************************)
EXTENDS RequestBounds, FiniteSets

CONSTANTS
    Rows,           \* the rows the filter can ever match
    Isolation,      \* the isolation levels transactions are opened with
    MaxWrites,      \* bound on the writes of other sessions
    NoSnapshot,     \* no statement has fixed the snapshot
    NoRequest,      \* no page is being counted
    NoStatement     \* no rows statement belongs to the last call

ASSUME RowsAssumption == Rows \subseteq Int /\ IsFiniteSet(Rows)

\* The marks of absence are none of the things whose absence they mark.
ASSUME AbsentAssumption ==
    (\A rows \in SUBSET Rows : NoSnapshot # rows) /\ NoRequest \notin PageRequest

VARIABLES
    table,      \* the committed rows the filter matches
    writes,     \* how many writes other sessions have done
    session,    \* "pool", the isolation of the transaction, or "aborted"
    snapshot,   \* the snapshot of a repeatable read transaction
    counting,   \* the request whose rows are read and total is not, or NoRequest
    list,       \* the rows read for it
    sent,       \* the rows statement of the last call: its request and arguments
    result,     \* what the last call returned
    seen,       \* the tables there have been since the last call began
    book        \* the pages FetchPageRows returned in this transaction

callVars == <<counting, list, sent, result, seen, book>>
vars == <<table, writes, session, snapshot, callVars>>

NoPage == {}

Failed(err) == [op |-> "failed", err |-> err]

Init ==
    /\ table \in SUBSET Rows
    /\ writes = 0
    /\ session = "pool"
    /\ snapshot = NoSnapshot
    /\ counting = NoRequest
    /\ list = NoPage
    /\ sent = NoStatement
    /\ result = Failed("none")
    /\ seen = {}
    /\ book = {}

-------------------------------------------------------------------------------
(* Statements.                                                             *)

\* ORDER BY ... LIMIT limit OFFSET offset
Slice(rows, limit, offset) ==
    {r \in rows : LET before == Cardinality({s \in rows : s < r})
                  IN  offset <= before /\ before < offset + limit}

\* What a statement of the session sees.
Visible ==
    IF session = "repeatableRead" /\ snapshot # NoSnapshot THEN snapshot ELSE table

\* The first statement of a repeatable read transaction fixes its snapshot.
Look ==
    snapshot' = IF session = "repeatableRead" THEN Visible ELSE NoSnapshot

\* The statement BuildRows makes of a request.
RowsStatement(r) == [request |-> r, args |-> PagingArgs(r)]

\* The rows it reads: the page and one row more.
Read(r) == Slice(Visible, PagingArgs(r)[1], PagingArgs(r)[2])

\* Variation: the look-ahead row is returned with the page.
PageOfAll(r, rows) == rows

\* The page without the look-ahead row.
PageOf(r, rows) == Slice(rows, Limit(r), 0)

MoreAfter(r, rows) == Cardinality(rows) > Limit(r)

\* Variation: an empty page is taken to name the total as well.
NamesTotalEmpty(r, rows) == ~MoreAfter(r, rows)

\* A nonempty page that no row follows names the total itself.
NamesTotal(r, rows) == rows # {} /\ ~MoreAfter(r, rows)

\* Variation: the count goes to the pool.
CountedInPool == Cardinality(table)

\* The count is one more statement of the same session.
Counted == Cardinality(Visible)

-------------------------------------------------------------------------------

Ready == counting = NoRequest /\ session # "aborted"

\* bounds refuses the request: no statement is sent.
Refuse(r) ==
    /\ Ready
    /\ Refused(r)
    /\ result' = [op |-> "refused", request |-> r]
    /\ sent' = NoStatement
    /\ seen' = {}
    /\ UNCHANGED <<table, writes, session, snapshot, counting, list, book>>

\* FetchPageRows: one statement.
FetchPageRows(r) ==
    /\ Ready
    /\ ~Refused(r)
    /\ Look
    /\ sent' = RowsStatement(r)
    /\ result' = [op |-> "rows", request |-> r, list |-> PageOf(r, Read(r)),
                  more |-> MoreAfter(r, Read(r))]
    /\ seen' = {Visible}
    /\ book' = IF session = "repeatableRead" THEN book \cup {result'} ELSE book
    /\ UNCHANGED <<table, writes, session, counting, list>>

\* FetchPage, when its rows name the total.
FetchLastPage(r) ==
    /\ Ready
    /\ ~Refused(r)
    /\ NamesTotal(r, Read(r))
    /\ Look
    /\ sent' = RowsStatement(r)
    /\ result' = [op |-> "page", request |-> r, list |-> PageOf(r, Read(r)),
                  total |-> Offset(r) + Cardinality(Read(r))]
    /\ seen' = {Visible}
    /\ UNCHANGED <<table, writes, session, counting, list, book>>

\* FetchPage, when it has to count: first its rows ...
FetchPage(r) ==
    /\ Ready
    /\ ~Refused(r)
    /\ ~NamesTotal(r, Read(r))
    /\ Look
    /\ sent' = RowsStatement(r)
    /\ counting' = r
    /\ list' = PageOf(r, Read(r))
    /\ result' = Failed("none")
    /\ seen' = {Visible}
    /\ UNCHANGED <<table, writes, session, book>>

\* ... then the total.
CountPage ==
    /\ counting # NoRequest
    /\ result' = [op |-> "page", request |-> counting, list |-> list,
                  total |-> Counted]
    /\ counting' = NoRequest
    /\ list' = NoPage
    /\ UNCHANGED <<table, writes, session, snapshot, sent, seen, book>>

\* FetchTotal: the count alone.
FetchTotal ==
    /\ Ready
    /\ Look
    /\ result' = [op |-> "total", total |-> Counted]
    /\ sent' = NoStatement
    /\ seen' = {Visible}
    /\ UNCHANGED <<table, writes, session, counting, list, book>>

\* A statement fails: the call returns no rows, and Postgres refuses what is
\* left of a transaction.
Fail ==
    /\ session # "aborted"
    /\ result' = Failed("failed")
    /\ session' = IF session = "pool" THEN "pool" ELSE "aborted"
    /\ counting' = NoRequest
    /\ list' = NoPage
    /\ sent' = NoStatement
    /\ seen' = {}
    /\ UNCHANGED <<table, writes, snapshot, book>>

\* DB.Transaction, around the calls of its callback.
Begin(isolation) ==
    /\ counting = NoRequest
    /\ session = "pool"
    /\ session' = isolation
    /\ result' = Failed("none")
    /\ sent' = NoStatement
    /\ seen' = {}
    /\ book' = {}
    /\ UNCHANGED <<table, writes, snapshot, counting, list>>

End ==
    /\ counting = NoRequest
    /\ session # "pool"
    /\ session' = "pool"
    /\ snapshot' = NoSnapshot
    /\ result' = Failed("none")
    /\ sent' = NoStatement
    /\ seen' = {}
    /\ book' = {}
    /\ UNCHANGED <<table, writes, counting, list>>

\* Another session inserts or deletes a row; an update that moves a row is
\* both at once.
Write(gone, new) ==
    /\ writes < MaxWrites
    /\ writes' = writes + 1
    /\ table' = (table \ gone) \cup new
    /\ seen' = IF counting # NoRequest THEN seen \cup {table'} ELSE seen
    /\ UNCHANGED <<session, snapshot, counting, list, sent, result, book>>

Next ==
    \/ \E r \in PageRequest :
        Refuse(r) \/ FetchPageRows(r) \/ FetchPage(r) \/ FetchLastPage(r)
    \/ CountPage
    \/ FetchTotal
    \/ Fail
    \/ \E isolation \in Isolation : Begin(isolation)
    \/ End
    \/ \E gone, new \in SUBSET Rows :
        /\ Cardinality(gone) <= 1 /\ Cardinality(new) <= 1
        /\ gone \subseteq table /\ new \cap table = {} /\ gone # new
        /\ Write(gone, new)

Spec == Init /\ [][Next]_vars

-------------------------------------------------------------------------------
(* What a page promises.                                                   *)

\* The statement of an accepted request reads its page and the one row after
\* it: LIMIT and OFFSET are the numbers the request stands for, neither has
\* wrapped, and both are bigints (page/request.go:28-40).
NothingWraps ==
    sent # NoStatement =>
        LET r == sent.request
        IN  /\ sent.args = <<r.size + 1, (r.number - 1) * r.size>>
            /\ r.size + 1 <= BigintMax
            /\ (r.number - 1) * r.size <= BigintMax

\* A request is refused only when Postgres could not serve it: there is no
\* page 0 and no empty page, and LIMIT and OFFSET are bigints.
ServableIsServed ==
    result.op = "refused" =>
        LET r == result.request
        IN  \/ r.number = 0
            \/ r.size = 0
            \/ r.size + 1 > BigintMax
            \/ (r.number - 1) * r.size > BigintMax

PageIn(r, rows) == Slice(rows, r.size, (r.number - 1) * r.size)

\* A page and its total are each true of the table at some instant of the
\* call; where the total was not counted it is true at the instant of the rows.
ResultOfTheCall ==
    /\ result.op = "page" =>
        \E t \in seen, u \in seen :
            result.list = PageIn(result.request, t) /\ result.total = Cardinality(u)
    /\ result.op = "total" => \E t \in seen : result.total = Cardinality(t)

\* In a repeatable read transaction the list, the total and what follows the
\* page are those of one snapshot, call after call.
OneSnapshot ==
    session = "repeatableRead" =>
        /\ result.op \in {"page", "rows"} =>
            result.list = PageIn(result.request, snapshot)
        /\ result.op \in {"page", "total"} => result.total = Cardinality(snapshot)
        /\ result.op = "rows" =>
            result.more = (\E r \in snapshot :
                Cardinality({s \in snapshot : s < r})
                    >= result.request.number * result.request.size)

\* There the pages of one size share no row, and those from the first to the
\* one that no page follows hold every row.
PagesPartition ==
    \A size \in Uint :
        LET pages == {p \in book : p.request.size = size}
            numbers == {p.request.number : p \in pages}
        IN  /\ \A p, q \in pages : p.request.number < q.request.number =>
                \A r \in p.list, s \in q.list : r < s
            /\ \A p \in pages :
                (~p.more /\ 1 .. p.request.number \subseteq numbers)
                    => UNION {q.list : q \in pages} = snapshot

===============================================================================
