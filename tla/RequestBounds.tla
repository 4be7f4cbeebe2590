---------------------------- MODULE RequestBounds ------------------------------
(***************************************************************************)
(* Request.bounds of page/request.go and what BuildRows passes to Postgres *)
(* of it.  Number and Size are Go uints, and what is computed from them    *)
(* wraps at the width of a uint; LIMIT and OFFSET are bigints.             *)
(***************************************************************************)
EXTENDS Integers

CONSTANTS
    UintMax,    \* the greatest uint of the build
    BigintMax   \* math.MaxInt64, the greatest bigint

ASSUME WidthAssumption == UintMax \in Nat /\ BigintMax \in Nat \ {0}

Uint == 0 .. UintMax

PageRequest == [number : Uint, size : Uint]

\* Unsigned arithmetic of the build.
Wrapped(n) == n % (UintMax + 1)

\* No page 0, no empty page, and no room in a bigint for the look-ahead row.
Malformed(r) == r.number = 0 \/ r.size = 0 \/ r.size >= BigintMax

\* Variation: the pages before the requested one are counted with it.
RefusedOffByOne(r) ==
    IF Malformed(r) THEN TRUE ELSE r.number > BigintMax \div r.size

\* The requests bounds refuses with ErrInvalidRequest.
Refused(r) ==
    IF Malformed(r) THEN TRUE ELSE r.number - 1 > BigintMax \div r.size

Limit(r) == r.size

\* Variation: the first page is taken for number 0.
OffsetFromZero(r) == Wrapped(r.number * r.size)

Offset(r) == Wrapped((r.number - 1) * r.size)

\* PagingArgs: the page and the row after it, and the rows before it.
PagingArgs(r) == <<Wrapped(Limit(r) + 1), Offset(r)>>

===============================================================================
