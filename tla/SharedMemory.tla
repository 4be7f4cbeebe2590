----------------------------- MODULE SharedMemory ------------------------------
(***************************************************************************)
(* The fetches of collect.go, DB and Tx, and the memory they share: with   *)
(* their caller a slice of arguments and, in collectInto, a destination;   *)
(* with each other the row buffers of the pool's connections.              *)
(*                                                                         *)
(* A slice is an array, a length and a capacity.  Goroutines pass slices   *)
(* of one array of arguments, "base", which none of them writes; each has  *)
(* destinations of its own.  A row is named by its reader, the call and    *)
(* its position; that stands for its key bytes too.                        *)
(***************************************************************************)
EXTENDS Integers, Sequences, FiniteSets

CONSTANTS
    Goroutine,  \* concurrent callers
    Does,       \* per goroutine: the fetches it makes
    MaxCalls,   \* per goroutine: bound on its calls
    MaxRows,    \* bound on the rows of a result
    Size,       \* the size of a page
    Base,       \* the caller's array of arguments
    Given,      \* the lengths of the slices of it that are passed
    First,      \* what a destination holds before the first call
    Conn,       \* the connections of the pool
    None        \* no connection, no row, no token

Fetch == {"many", "into", "one", "page", "after"}

ASSUME FetchAssumption ==
    /\ Does \in [Goroutine -> SUBSET Fetch]
    /\ MaxCalls \in [Goroutine -> Nat]
    /\ MaxRows \in Nat /\ Size \in Nat \ {0}
    /\ Base \in Seq({Base[i] : i \in DOMAIN Base})
    /\ Given \subseteq 0 .. Len(Base)
    /\ None \notin Goroutine

VARIABLES
    heap,       \* the arrays, by address
    buffer,     \* per connection: the row in its read buffer
    pc,         \* per goroutine: where its call is
    call,       \* per goroutine: the call
    calls,      \* per goroutine: how many calls it has made
    kept,       \* per goroutine: slices it relies on, each with what it holds
    answer      \* per goroutine: what the last call returned

vars == <<heap, buffer, pc, call, calls, kept, answer>>

-------------------------------------------------------------------------------
(* Slices.                                                                 *)

Slice(at, len, cap) == [at |-> at, len |-> len, cap |-> cap]

Contents(memory, s) == SubSeq(memory[s.at], 1, s.len)

\* Variation: no Clip.
ClipNothing(s) == s

\* slices.Clip: nothing can be appended in place any more.
Clip(s) == [s EXCEPT !.cap = s.len]

Pad(xs, cap) == [i \in 1 .. cap |-> IF i <= Len(xs) THEN xs[i] ELSE None]

\* A new array at an address.
Allocated(memory, at, array) ==
    [a \in DOMAIN memory \cup {at} |-> IF a = at THEN array ELSE memory[a]]

Larger(a, b) == IF a > b THEN a ELSE b

\* append: in place as long as there is room, else in a new array at "fresh".
AppendedTo(s, xs, fresh) ==
    LET len == s.len + Len(xs)
    IN  IF len <= s.cap THEN [s EXCEPT !.len = len]
                        ELSE Slice(fresh, len, Larger(len, 2 * s.cap))

Written(s, xs, fresh) ==
    LET t == AppendedTo(s, xs, fresh)
        all == Contents(heap, s) \o xs
    IN  IF t.at = s.at
        THEN [heap EXCEPT ![s.at] =
                [i \in DOMAIN @ |-> IF i \in s.len + 1 .. t.len THEN all[i] ELSE @[i]]]
        ELSE Allocated(heap, fresh, Pad(all, t.cap))

\* Addresses: the caller's arguments, those made for a statement (dead once it
\* was sent), and the numbered arrays of a goroutine's rows, its own the first.
BaseArray == [owner |-> None, n |-> 0]
ArgsOf(g) == [owner |-> g, n |-> 0]
RowsOf(g, n) == [owner |-> g, n |-> n]
NextArray(g) == RowsOf(g, 1 + Cardinality({a \in DOMAIN heap : a.owner = g /\ a.n > 0}))

-------------------------------------------------------------------------------

Destination(g) == Slice(RowsOf(g, 1), 1, 2)

Idle == [kind |-> "none", conn |-> None]

Failed(err) == [err |-> err, token |-> None]
NoAnswer == Failed("none")

Init ==
    /\ heap = [a \in {BaseArray} \cup {RowsOf(g, 1) : g \in Goroutine} |->
                IF a = BaseArray THEN Base ELSE <<First, None>>]
    /\ buffer = [c \in Conn |-> None]
    /\ pc = [g \in Goroutine |-> "idle"]
    /\ call = [g \in Goroutine |-> Idle]
    /\ calls = [g \in Goroutine |-> 0]
    /\ kept = [g \in Goroutine |->
                {[slice |-> Destination(g), holds |-> <<First>>]}]
    /\ answer = [g \in Goroutine |-> NoAnswer]

\* The paging arguments or the cursor's: values of the call's own.
Extra(g, kind) ==
    CASE kind = "page"  -> <<<<g, "limit">>, <<g, "offset">>>>
      [] kind = "after" -> <<<<g, "limit">>>>
      [] OTHER          -> <<>>

\* The arguments of a statement: as they are, appended to a clipped slice
\* (collectPageRows), or copied to a slice made for them (prepareCursorKeys).
Params(g, kind, args) ==
    CASE kind = "page"  -> AppendedTo(Clip(args), Extra(g, kind), ArgsOf(g))
      [] kind = "after" -> Slice(ArgsOf(g), args.len + 1, args.len + 1)
      [] OTHER          -> args

ParamsWritten(g, kind, args) ==
    CASE kind = "page"  -> Written(Clip(args), Extra(g, kind), ArgsOf(g))
      [] kind = "after" -> Allocated(heap, ArgsOf(g), Contents(heap, args) \o Extra(g, kind))
      [] OTHER          -> heap

\* A goroutine that passes a destination again gives up the elements it had
\* behind it (db.go:28-31).
Lent(slices, dst) ==
    {k \in slices : ~(k.slice.at = dst.at /\ k.slice.len > dst.len)}

\* Variation: the destination is filled from its start.
TargetFromStart(dst) == [dst EXCEPT !.len = 0]

\* Rows are appended behind what the destination holds.
Target(dst) == dst

\* A slice no one else has.
Nothing == Slice(BaseArray, 0, 0)

\* A call starts: it builds its statement and the slice of its arguments.
Prepare(g, kind, len, dst) ==
    /\ pc[g] = "idle"
    /\ calls[g] < MaxCalls[g]
    /\ kind \in Does[g]
    /\ LET args == Slice(BaseArray, len, Len(Base))
       IN  /\ call' = [call EXCEPT ![g] =
                [kind |-> kind, args |-> args, params |-> Params(g, kind, args),
                 sent |-> <<>>, conn |-> None, rows |-> 0, read |-> 0,
                 out |-> Target(dst), before |-> Contents(heap, dst), keys |-> None]]
           /\ heap' = ParamsWritten(g, kind, args)
    /\ pc' = [pc EXCEPT ![g] = "prepared"]
    /\ calls' = [calls EXCEPT ![g] = @ + 1]
    /\ kept' = [kept EXCEPT ![g] = Lent(@, dst)]
    /\ answer' = [answer EXCEPT ![g] = NoAnswer]
    /\ UNCHANGED buffer

FetchFresh(g, kind, len) == kind # "into" /\ Prepare(g, kind, len, Nothing)

\* collectInto appends to a slice the goroutine has, or to dst[:0] of one.
FetchInto(g, len) ==
    \E k \in kept[g] : \E n \in {0, k.slice.len} :
        Prepare(g, "into", len, [k.slice EXCEPT !.len = n])

\* Query: a connection of the pool, and the arguments as they are now in
\* memory.  A page reserves room for its rows, a numbered one for the
\* look-ahead row too.
Send(g, c, n) ==
    /\ pc[g] = "prepared"
    /\ \A o \in Goroutine : call[o].conn # c
    /\ pc' = [pc EXCEPT ![g] = "reading"]
    /\ LET room == IF call[g].kind = "page" THEN Size + 1 ELSE Size
           page == Slice(NextArray(g), 0, room)
           reserves == call[g].kind \in {"page", "after"}
       IN  /\ call' = [call EXCEPT ![g].conn = c, ![g].rows = n,
                            ![g].sent = Contents(heap, call[g].params),
                            ![g].out = IF reserves THEN page ELSE @]
           /\ heap' = IF reserves THEN Allocated(heap, page.at, Pad(<<>>, page.cap))
                     ELSE heap
    /\ UNCHANGED <<buffer, calls, kept, answer>>

Row(g, i) == <<g, calls[g], i>>

\* Variation: the key refers to the read buffer.
KeysInBuffer(g, i) == [row |-> None, conn |-> call[g].conn]

\* cursorKeyReader.read clones the bytes of a key.
KeysOf(g, i) == [row |-> Row(g, i), conn |-> None]

\* A row arrives in the read buffer, is decoded and appended; the keys of the
\* row that fills a keyset page are read.
NextRow(g) ==
    LET i == call[g].read + 1
        out == call[g].out
    IN  /\ pc[g] = "reading"
        /\ i <= call[g].rows
        /\ call[g].kind = "after" => i <= Size
        /\ call[g].kind = "one" => i = 1
        /\ buffer' = [buffer EXCEPT ![call[g].conn] = Row(g, i)]
        /\ heap' = Written(out, <<Row(g, i)>>, NextArray(g))
        /\ call' = [call EXCEPT ![g].read = i,
                        ![g].out = AppendedTo(out, <<Row(g, i)>>, NextArray(g)),
                        ![g].keys = IF call[g].kind = "after" /\ i = Size
                                    THEN KeysOf(g, i) ELSE @]
        /\ UNCHANGED <<pc, calls, kept, answer>>

\* The row after a keyset page, or a second row for FetchRow, is not decoded.
LookAhead(g) ==
    LET i == call[g].read + 1
    IN  /\ pc[g] = "reading"
        /\ i <= call[g].rows
        /\ \/ call[g].kind = "after" /\ i = Size + 1
           \/ call[g].kind = "one" /\ i = 2
        /\ buffer' = [buffer EXCEPT ![call[g].conn] = Row(g, i)]
        /\ call' = [call EXCEPT ![g].read = i, ![g].conn = None]
        /\ pc' = [pc EXCEPT ![g] = "closed"]
        /\ UNCHANGED <<heap, calls, kept, answer>>

\* No row is left: the rows are closed, and the connection is free again.
EndOfRows(g) ==
    /\ pc[g] = "reading"
    /\ call[g].read = call[g].rows
    /\ call' = [call EXCEPT ![g].conn = None]
    /\ pc' = [pc EXCEPT ![g] = "closed"]
    /\ UNCHANGED <<heap, buffer, calls, kept, answer>>

Ends(g, result) ==
    /\ pc' = [pc EXCEPT ![g] = "idle"]
    /\ call' = [call EXCEPT ![g] = Idle]
    /\ answer' = [answer EXCEPT ![g] = result]
    /\ UNCHANGED <<heap, buffer, calls>>

\* The query, or a row, fails: the call returns nil, and what it appended
\* stays in memory.
Fail(g) ==
    /\ pc[g] \in {"prepared", "reading"}
    /\ Ends(g, Failed("failed"))
    /\ UNCHANGED kept

\* The look-ahead row of a numbered page is cut off.
List(c) ==
    IF c.kind = "page" /\ c.out.len > Size THEN [c.out EXCEPT !.len = Size] ELSE c.out

\* The bytes the cursor is encoded from, after the rows were closed.
Encoded(keys) == IF keys.conn # None THEN buffer[keys.conn] ELSE keys.row

\* The rows of a call as the caller counts on them.
Holds(g) ==
    call[g].before \o [i \in 1 .. List(call[g]).len - Len(call[g].before) |-> Row(g, i)]

Return(g) ==
    LET c == call[g]
    IN  /\ pc[g] = "closed"
        /\ c.kind = "one" => c.read = 1
        /\ Ends(g, [err |-> "none",
                     token |-> IF c.kind = "after" /\ c.read > Size
                               THEN Encoded(c.keys) ELSE None])
        /\ kept' = [kept EXCEPT ![g] = @ \cup {[slice |-> List(c), holds |-> Holds(g)]}]

\* pgx.ErrNoRows and pgx.ErrTooManyRows.
ReturnNotOne(g) ==
    /\ pc[g] = "closed"
    /\ call[g].kind = "one" /\ call[g].read # 1
    /\ Ends(g, Failed(IF call[g].read = 0 THEN "ErrNoRows" ELSE "ErrTooManyRows"))
    /\ UNCHANGED kept

-------------------------------------------------------------------------------

Rest == (\A g \in Goroutine : pc[g] = "idle" /\ calls[g] = MaxCalls[g]) /\ UNCHANGED vars

Next ==
    \/ \E g \in Goroutine :
        \/ \E len \in Given :
            FetchInto(g, len) \/ \E kind \in Fetch : FetchFresh(g, kind, len)
        \/ \E c \in Conn, n \in 0 .. MaxRows : Send(g, c, n)
        \/ NextRow(g) \/ LookAhead(g) \/ EndOfRows(g)
        \/ Fail(g) \/ Return(g) \/ ReturnNotOne(g)
    \/ Rest

Spec == Init /\ [][Next]_vars

-------------------------------------------------------------------------------

\* However calls that share a slice of arguments interleave, each statement is
\* sent with those it was given and its own behind them, and the caller's
\* array is never written (collect.go:117, page/query.go:311-313).
ArgsAsGiven ==
    /\ heap[BaseArray] = Base
    /\ \A g \in Goroutine :
        pc[g] \in {"reading", "closed"} =>
            call[g].sent = SubSeq(Base, 1, call[g].args.len) \o Extra(g, call[g].kind)

\* Whatever calls follow, also failed ones, a slice holds what was returned in
\* it and what was in front of it, until the caller itself passes a shorter
\* one of the same array as a destination (db.go:28-31).
KeptIsIntact ==
    \A g \in Goroutine : \A k \in kept[g] : Contents(heap, k.slice) = k.holds

\* The token of a keyset page is made from the last row of that page, though
\* the read buffer has held the look-ahead row and rows of others since
\* (collect.go:253).
TokenIsOfLastRow ==
    \A g \in Goroutine :
        answer[g].token # None => answer[g].token = Row(g, Size)

===============================================================================
