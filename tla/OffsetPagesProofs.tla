-------------------------- MODULE OffsetPagesProofs ---------------------------
(***************************************************************************)
(* The arguments of a page never wrap, whatever the request, in a build    *)
(* whose uint holds every bigint; and no servable request is refused.      *)
(***************************************************************************)
EXTENDS OffsetPages, FiniteSetTheorems, WellFoundedInduction, TLAPS

\* What a division rounds down to bounds a product as the quotient does.
LEMMA Quotient ==
    ASSUME NEW a \in Nat, NEW b \in Nat \ {0}, NEW m \in Nat
    PROVE  a <= m \div b <=> a * b <= m
<1> DEFINE q == m \div b
           s == m % b
<1>1. q \in Nat /\ s \in Nat /\ m = b * q + s /\ s < b
  OBVIOUS
<1>2. ASSUME a <= q PROVE a * b <= m
  <2>1. a * b <= q * b
    BY <1>1, <1>2
  <2> QED  BY <1>1, <2>1
<1>3. ASSUME a > q PROVE a * b > m
  <2>1. a >= q + 1
    BY <1>1, <1>3
  <2>2. a * b >= (q + 1) * b
    BY <1>1, <2>1
  <2>3. (q + 1) * b = b * q + b
    BY <1>1
  <2> QED  BY <1>1, <2>2, <2>3
<1> QED  BY <1>1, <1>2, <1>3

-------------------------------------------------------------------------------
(* The arguments of the statement.                                         *)

\* The inductive invariant: the statement of the last call and the refusal
\* are what bounds made of the request.
AsBuilt ==
    /\ sent # NoStatement =>
        /\ sent.request \in PageRequest
        /\ ~Refused(sent.request)
        /\ sent.args = PagingArgs(sent.request)
    /\ result.op = "refused" =>
        result.request \in PageRequest /\ Refused(result.request)

LEMMA AlwaysAsBuilt == Spec => []AsBuilt
<1>1. Init => AsBuilt
  BY DEF Init, AsBuilt, Failed
<1>2. AsBuilt /\ [Next]_vars => AsBuilt'
  <2> SUFFICES ASSUME AsBuilt, [Next]_vars PROVE AsBuilt'
    OBVIOUS
  <2>1. ASSUME NEW r \in PageRequest, Refuse(r) PROVE AsBuilt'
    BY <2>1 DEF AsBuilt, Refuse
  <2>2. ASSUME NEW r \in PageRequest, ~Refused(r), sent' = RowsStatement(r),
               result'.op # "refused"
        PROVE  AsBuilt'
    BY <2>2 DEF AsBuilt, RowsStatement
  <2>3. ASSUME NEW r \in PageRequest, FetchPageRows(r) PROVE AsBuilt'
    BY <2>2, <2>3 DEF FetchPageRows
  <2>4. ASSUME NEW r \in PageRequest, FetchPage(r) PROVE AsBuilt'
    BY <2>2, <2>4 DEF FetchPage, Failed
  <2>5. ASSUME NEW r \in PageRequest, FetchLastPage(r) PROVE AsBuilt'
    BY <2>2, <2>5 DEF FetchLastPage
  <2>6. CASE CountPage
    BY <2>6 DEF AsBuilt, CountPage
  <2>7. ASSUME sent' = NoStatement, result'.op # "refused" PROVE AsBuilt'
    BY <2>7 DEF AsBuilt
  <2>8. CASE FetchTotal
    BY <2>7, <2>8 DEF FetchTotal
  <2>9. CASE Fail
    BY <2>7, <2>9 DEF Fail, Failed
  <2>10. ASSUME NEW isolation \in Isolation, Begin(isolation) PROVE AsBuilt'
    BY <2>7, <2>10 DEF Begin, Failed
  <2>11. CASE End
    BY <2>7, <2>11 DEF End, Failed
  <2>12. ASSUME NEW gone, NEW new, Write(gone, new) PROVE AsBuilt'
    BY <2>12 DEF AsBuilt, Write
  <2>13. CASE UNCHANGED vars
    BY <2>13 DEF AsBuilt, vars, callVars
  <2> QED
    BY <2>1, <2>3, <2>4, <2>5, <2>6, <2>8, <2>9, <2>10, <2>11, <2>12, <2>13
    DEF Next
<1> QED  BY <1>1, <1>2, PTL DEF Spec

\* The check of bounds speaks of the exact product.
LEMMA OffsetFits ==
    ASSUME NEW r \in PageRequest, r.number # 0, r.size # 0
    PROVE  r.number - 1 > BigintMax \div r.size
              <=> (r.number - 1) * r.size > BigintMax
<1>1. r.number - 1 \in Nat /\ r.size \in Nat \ {0} /\ BigintMax \in Nat
  BY WidthAssumption DEF PageRequest, Uint
<1>2. r.number - 1 <= BigintMax \div r.size <=> (r.number - 1) * r.size <= BigintMax
  BY <1>1, Quotient
<1>3. (r.number - 1) * r.size \in Nat /\ BigintMax \div r.size \in Int
  BY <1>1
<1> QED  BY <1>1, <1>2, <1>3

\* What an accepted request comes to where no uint is too narrow for it.
LEMMA AcceptedExact ==
    ASSUME BigintMax <= UintMax, NEW r \in PageRequest, ~Refused(r)
    PROVE  /\ r.size \in Nat /\ r.size > 0 /\ r.number \in Nat /\ r.number > 0
           /\ (r.number - 1) * r.size \in Nat
           /\ Offset(r) = (r.number - 1) * r.size
           /\ PagingArgs(r) = <<r.size + 1, (r.number - 1) * r.size>>
           /\ r.size + 1 <= BigintMax /\ (r.number - 1) * r.size <= BigintMax
<1> DEFINE skipped == (r.number - 1) * r.size
<1>1. /\ r.size \in Nat \ {0} /\ r.number - 1 \in Nat /\ r.number \in Nat
      /\ r.size < BigintMax
      /\ UintMax \in Nat /\ BigintMax \in Nat
  BY WidthAssumption DEF PageRequest, Uint, Refused, Malformed
<1>2. skipped \in Nat
  BY <1>1
<1>3. skipped <= BigintMax
  BY <1>1, <1>2, OffsetFits DEF Refused, Malformed
<1>4. Wrapped(r.size + 1) = r.size + 1 /\ Wrapped(skipped) = skipped
  <2>1. r.size + 1 \in 0 .. UintMax /\ skipped \in 0 .. UintMax
    BY <1>1, <1>2, <1>3
  <2>2. ASSUME NEW n \in 0 .. UintMax PROVE Wrapped(n) = n
    BY <1>1 DEF Wrapped
  <2> HIDE DEF skipped
  <2> QED  BY <2>1, <2>2
<1> QED  BY <1>1, <1>2, <1>3, <1>4 DEF PagingArgs, Limit, Offset

\* In a build whose uint holds every bigint, LIMIT and OFFSET are exactly what
\* the request asks for (page/request.go:28-40).
THEOREM ArgumentsExact ==
    ASSUME BigintMax <= UintMax
    PROVE  Spec => []NothingWraps
<1>1. AsBuilt => NothingWraps
  BY AcceptedExact DEF AsBuilt, NothingWraps
<1> QED  BY <1>1, AlwaysAsBuilt, PTL

\* Every request Postgres could serve is accepted, in any build.
THEOREM NoneRefusedInVain == Spec => []ServableIsServed
<1>1. AsBuilt => ServableIsServed
  <2> DEFINE request == result.request
  <2> SUFFICES ASSUME AsBuilt, result.op = "refused",
                      request.number # 0, request.size # 0,
                      ~(request.size + 1 > BigintMax)
               PROVE  (request.number - 1) * request.size > BigintMax
    BY DEF ServableIsServed
  <2>1. request \in PageRequest /\ Refused(request)
    BY DEF AsBuilt
  <2>2. ~(request.size >= BigintMax)
    BY <2>1, WidthAssumption DEF PageRequest, Uint
  <2> QED  BY <2>1, <2>2, OffsetFits DEF Refused, Malformed
<1> QED  BY <1>1, AlwaysAsBuilt, PTL

-------------------------------------------------------------------------------
(***************************************************************************)
(* For every table, isolation level and request: a numbered page is the    *)
(* slice of one snapshot its request names, and its total is true at some  *)
(* instant of the call; the pages of a repeatable read transaction fit     *)
(* together.  This needs LIMIT and OFFSET not to wrap, hence a build whose *)
(* uint holds every bigint (ArgumentsExact).                               *)
(*                                                                         *)
(* The first half counts: as many rows have a rank below k as k says       *)
(* (FirstCount), so the page, the look-ahead row and the total that a last *)
(* page names are what they are in the whole table.                        *)
(***************************************************************************)

(* Ranks.                                                                  *)

Rank(rows, r) == Cardinality({s \in rows : s < r})

FirstOnes(rows, k) == {r \in rows : Rank(rows, r) < k}

LEMMA SetOfRows ==
    ASSUME NEW rows \in SUBSET Rows
    PROVE  /\ IsFiniteSet(rows) /\ Cardinality(rows) \in Nat
           /\ rows \subseteq Int
  BY RowsAssumption, FS_Subset, FS_CardinalityType

LEMMA RankType ==
    ASSUME NEW rows \in SUBSET Rows, NEW r
    PROVE  Rank(rows, r) \in Nat
<1>1. {s \in rows : s < r} \in SUBSET Rows
  OBVIOUS
<1> QED  BY <1>1, SetOfRows DEF Rank

LEMMA RankBelow ==
    ASSUME NEW rows \in SUBSET Rows, NEW r \in rows
    PROVE  Rank(rows, r) < Cardinality(rows)
<1> DEFINE below == {s \in rows : s < r}
<1>1. below \in SUBSET rows /\ r \notin below
  BY SetOfRows
<1>2. Cardinality(below) <= Cardinality(rows) /\ Cardinality(below) # Cardinality(rows)
  BY <1>1, SetOfRows, FS_Subset
<1>3. Cardinality(below) \in Nat
  BY RankType DEF Rank
<1> QED  BY <1>2, <1>3, SetOfRows DEF Rank

\* The rank of a row says where it is in the order.
LEMMA RankOrder ==
    ASSUME NEW rows \in SUBSET Rows, NEW r \in rows, NEW s \in rows
    PROVE  r < s <=> Rank(rows, r) < Rank(rows, s)
<1>1. ASSUME NEW x \in rows, NEW y \in rows, x < y
      PROVE  Rank(rows, x) < Rank(rows, y)
  <2> DEFINE X == {z \in rows : z < x}
             Y == {z \in rows : z < y}
  <2>1. X \in SUBSET Y /\ x \in Y /\ x \notin X
    BY <1>1, SetOfRows
  <2>2. Y \in SUBSET Rows
    OBVIOUS
  <2>3. IsFiniteSet(Y)
    BY <2>2, SetOfRows
  <2>4. Cardinality(X) <= Cardinality(Y) /\ Cardinality(X) # Cardinality(Y)
    BY <2>1, <2>3, FS_Subset
  <2>5. Cardinality(X) \in Nat /\ Cardinality(Y) \in Nat
    BY RankType DEF Rank
  <2> QED  BY <2>4, <2>5 DEF Rank
<1>2. r \in Int /\ s \in Int /\ Rank(rows, r) \in Nat /\ Rank(rows, s) \in Nat
  BY SetOfRows, RankType
<1>3. CASE r < s
  BY <1>1, <1>3
<1>4. CASE r = s
  BY <1>2, <1>4
<1>5. CASE s < r
  BY <1>1, <1>2, <1>5
<1> QED  BY <1>2, <1>3, <1>4, <1>5

\* While rows are left, the rows of rank below k are followed by one of rank k.
LEMMA RankNext ==
    ASSUME NEW rows \in SUBSET Rows, NEW k \in Nat,
           Cardinality(FirstOnes(rows, k)) = k, k < Cardinality(rows)
    PROVE  \E m \in rows : /\ Rank(rows, m) = k
                           /\ FirstOnes(rows, k + 1) = FirstOnes(rows, k) \cup {m}
<1> DEFINE first == FirstOnes(rows, k)
           rest == rows \ first
           ranks == {Rank(rows, r) : r \in rest}
<1>1. \A r \in rows : Rank(rows, r) \in Nat
  BY RankType
<1>2. rest # {}
  <2> SUFFICES ASSUME rest = {} PROVE FALSE
    OBVIOUS
  <2>1. first = rows
    BY DEF FirstOnes
  <2> QED  BY <2>1, SetOfRows
<1>3. ranks # {} /\ ranks \subseteq Nat
  BY <1>1, <1>2
<1>4. PICK j \in ranks : \A i \in ranks : <<i, j>> \notin OpToRel(<, Nat)
  BY <1>3, NatLessThanWellFounded, WFMin
<1>5. PICK m \in rest : j = Rank(rows, m)
  BY <1>4
<1>6. Rank(rows, m) \in Nat /\ Rank(rows, m) >= k
  BY <1>1 DEF FirstOnes
<1>7. \A r \in rest : Rank(rows, r) >= Rank(rows, m)
  <2> SUFFICES ASSUME NEW r \in rest, Rank(rows, r) < Rank(rows, m) PROVE FALSE
    BY <1>1
  <2>1. Rank(rows, r) \in ranks /\ Rank(rows, r) \in Nat
    BY <1>1
  <2>2. <<Rank(rows, r), j>> \in OpToRel(<, Nat)
    BY <1>5, <1>6, <2>1 DEF OpToRel
  <2> QED  BY <1>4, <2>1, <2>2
<1>8. {s \in rows : s < m} = first
  <2>1. ASSUME NEW s \in rows, s < m PROVE s \in first
    <3>1. Rank(rows, s) < Rank(rows, m)
      BY <2>1, RankOrder
    <3> QED  BY <1>1, <1>6, <1>7, <3>1
  <2>2. ASSUME NEW s \in first PROVE s \in rows /\ s < m
    <3>1. s \in rows /\ Rank(rows, s) < Rank(rows, m)
      BY <1>1, <1>6 DEF FirstOnes
    <3> QED  BY <3>1, RankOrder
  <2> QED  BY <2>1, <2>2
<1>9. Rank(rows, m) = k
  BY <1>8 DEF Rank
<1>10. FirstOnes(rows, k + 1) = first \cup {m}
  <2>1. ASSUME NEW r \in rows, Rank(rows, r) < k + 1, r \notin first PROVE r = m
    <3>1. Rank(rows, r) = k
      BY <1>1, <2>1 DEF FirstOnes
    <3>2. ~(r < m) /\ ~(m < r)
      BY <1>9, <3>1, RankOrder
    <3> QED  BY <3>2, SetOfRows
  <2>2. \A r \in first : Rank(rows, r) < k + 1
    BY <1>1 DEF FirstOnes
  <2> QED  BY <1>9, <2>1, <2>2 DEF FirstOnes
<1> QED  BY <1>9, <1>10

\* As many rows have a rank below k as k says, as long as there are so many.
LEMMA FirstCount ==
    ASSUME NEW rows \in SUBSET Rows, NEW k \in Nat, k <= Cardinality(rows)
    PROVE  Cardinality(FirstOnes(rows, k)) = k
<1> DEFINE wrong == {n \in Nat : /\ n <= Cardinality(rows)
                                 /\ Cardinality(FirstOnes(rows, n)) # n}
<1> SUFFICES ASSUME wrong # {} PROVE FALSE
  OBVIOUS
<1>1. PICK n \in wrong : \A i \in wrong : <<i, n>> \notin OpToRel(<, Nat)
  BY NatLessThanWellFounded, WFMin
<1>2. CASE n = 0
  <2>1. FirstOnes(rows, 0) = {}
    BY RankType DEF FirstOnes
  <2> QED  BY <1>1, <1>2, <2>1, FS_EmptySet
<1>3. CASE n # 0
  <2> DEFINE j == n - 1
  <2>1. j \in Nat /\ n = j + 1 /\ j < n /\ j < Cardinality(rows)
    BY <1>3, SetOfRows
  <2>2. <<j, n>> \in OpToRel(<, Nat)
    BY <2>1 DEF OpToRel
  <2>3. j \notin wrong
    BY <1>1, <2>2
  <2>4. Cardinality(FirstOnes(rows, j)) = j
    BY <2>1, <2>3, SetOfRows
  <2>5. PICK m \in rows : /\ Rank(rows, m) = j
                          /\ FirstOnes(rows, j + 1) = FirstOnes(rows, j) \cup {m}
    BY <2>1, <2>4, RankNext
  <2>6. m \notin FirstOnes(rows, j)
    BY <2>1, <2>5 DEF FirstOnes
  <2>7. FirstOnes(rows, j) \in SUBSET Rows
    BY DEF FirstOnes
  <2>8. IsFiniteSet(FirstOnes(rows, j))
    BY <2>7, SetOfRows
  <2>9. Cardinality(FirstOnes(rows, n)) = j + 1
    BY <2>1, <2>4, <2>5, <2>6, <2>8, FS_AddElement
  <2> QED  BY <2>1, <2>9
<1> QED  BY <1>2, <1>3

-------------------------------------------------------------------------------
(* Slices.                                                                 *)

LEMMA SliceIsDifference ==
    ASSUME NEW rows \in SUBSET Rows, NEW limit \in Nat, NEW offset \in Nat
    PROVE  /\ Slice(rows, limit, offset)
                = FirstOnes(rows, offset + limit) \ FirstOnes(rows, offset)
           /\ FirstOnes(rows, offset) \subseteq FirstOnes(rows, offset + limit)
<1>1. \A r \in rows : Rank(rows, r) \in Nat
  BY RankType
<1>2. Slice(rows, limit, offset) =
        {r \in rows : offset <= Rank(rows, r) /\ Rank(rows, r) < offset + limit}
  BY DEF Slice, Rank
<1> QED  BY <1>1, <1>2 DEF FirstOnes

LEMMA AllFirst ==
    ASSUME NEW rows \in SUBSET Rows, NEW k \in Nat, k >= Cardinality(rows)
    PROVE  FirstOnes(rows, k) = rows
<1>1. \A r \in rows : Rank(rows, r) < Cardinality(rows) /\ Rank(rows, r) \in Nat
  BY RankBelow, RankType
<1> QED  BY <1>1, SetOfRows DEF FirstOnes

\* How many rows a slice holds.
LEMMA SliceCount ==
    ASSUME NEW rows \in SUBSET Rows, NEW limit \in Nat, NEW offset \in Nat
    PROVE  LET all == Cardinality(rows)
               size == Cardinality(Slice(rows, limit, offset))
           IN  /\ all >= offset + limit => size = limit
               /\ all < offset + limit /\ all >= offset => size = all - offset
               /\ all < offset => size = 0
<1> DEFINE all == Cardinality(rows)
           low == FirstOnes(rows, offset)
           high == FirstOnes(rows, offset + limit)
<1>1. /\ Slice(rows, limit, offset) = high \ low /\ low \subseteq high
      /\ low \in SUBSET Rows /\ high \in SUBSET Rows /\ high \cap low = low
  BY SliceIsDifference DEF FirstOnes
<1>2. IsFiniteSet(high) /\ Cardinality(high) \in Nat /\ Cardinality(low) \in Nat
  BY <1>1, SetOfRows
<1>3. Cardinality(high \ low) = Cardinality(high) - Cardinality(low)
  BY <1>1, <1>2, FS_Difference
<1>4. all \in Nat /\ offset + limit \in Nat
  BY SetOfRows
<1>5. CASE all >= offset + limit
  BY <1>1, <1>3, <1>4, <1>5, FirstCount
<1>6. CASE all < offset + limit /\ all >= offset
  <2>1. high = rows /\ Cardinality(low) = offset
    BY <1>4, <1>6, AllFirst, FirstCount
  <2> QED  BY <1>1, <1>3, <1>4, <1>6, <2>1
<1>7. CASE all < offset
  <2>1. high = rows /\ low = rows
    BY <1>4, <1>7, AllFirst
  <2> QED  BY <1>1, <1>3, <1>4, <1>7, <2>1
<1> QED  BY <1>4, <1>5, <1>6, <1>7

\* A row keeps its place in a slice, counted from where the slice starts.
LEMMA SliceRank ==
    ASSUME NEW rows \in SUBSET Rows, NEW limit \in Nat, NEW offset \in Nat,
           NEW r \in Slice(rows, limit, offset)
    PROVE  Rank(Slice(rows, limit, offset), r) = Rank(rows, r) - offset
<1> DEFINE low == FirstOnes(rows, offset)
           below == {s \in rows : s < r}
           S == Slice(rows, limit, offset)
<1>1. \A s \in rows : Rank(rows, s) \in Nat
  BY RankType
<1>2. r \in rows /\ Rank(rows, r) >= offset /\ Rank(rows, r) < offset + limit
  BY DEF Slice, Rank
<1>3. ASSUME NEW s \in low PROVE s \in below
  <2>1. s \in rows /\ Rank(rows, s) < Rank(rows, r)
    BY <1>1, <1>2, <1>3 DEF FirstOnes
  <2> QED  BY <1>2, <2>1, RankOrder
<1>4. {s \in S : s < r} = below \ low
  <2>1. ASSUME NEW s \in below, s \notin low PROVE s \in S
    <3>1. Rank(rows, s) < Rank(rows, r)
      BY <1>2, RankOrder
    <3>2. offset <= Rank(rows, s) /\ Rank(rows, s) < offset + limit
      BY <1>1, <1>2, <2>1, <3>1 DEF FirstOnes
    <3> QED  BY <3>2 DEF Slice, Rank
  <2>2. ASSUME NEW s \in S PROVE s \in rows /\ s \notin low
    BY SliceIsDifference, <2>2 DEF Slice
  <2> QED  BY <2>1, <2>2
<1>5. below \in SUBSET Rows /\ below \cap low = low
  BY <1>3
<1>6. IsFiniteSet(below)
  BY <1>5, SetOfRows
<1>7. Cardinality(below \ low) = Cardinality(below) - Cardinality(low)
  BY <1>5, <1>6, FS_Difference
<1>8. Cardinality(low) = offset
  BY <1>1, <1>2, RankBelow, SetOfRows, FirstCount
<1> QED  BY <1>4, <1>7, <1>8 DEF Rank

\* The page without the look-ahead row is the slice of the page.
LEMMA PageOfSlice ==
    ASSUME NEW rows \in SUBSET Rows, NEW n \in Nat, NEW offset \in Nat
    PROVE  Slice(Slice(rows, n + 1, offset), n, 0) = Slice(rows, n, offset)
<1> DEFINE S == Slice(rows, n + 1, offset)
<1>1. \A r \in rows : Rank(rows, r) \in Nat
  BY RankType
<1>2. S = {r \in rows : offset <= Rank(rows, r) /\ Rank(rows, r) < offset + (n + 1)}
  BY DEF Slice, Rank
<1>3. Slice(rows, n, offset) =
        {r \in rows : offset <= Rank(rows, r) /\ Rank(rows, r) < offset + n}
  BY DEF Slice, Rank
<1>4. Slice(S, n, 0) = {r \in S : 0 <= Rank(S, r) /\ Rank(S, r) < 0 + n}
  BY DEF Slice, Rank
<1>5. \A r \in S : Rank(S, r) = Rank(rows, r) - offset
  <2>1. n + 1 \in Nat
    OBVIOUS
  <2> QED  BY <2>1, SliceRank
<1>6. \A r \in S :
        (0 <= Rank(S, r) /\ Rank(S, r) < 0 + n)
            <=> (offset <= Rank(rows, r) /\ Rank(rows, r) < offset + n)
  <2> SUFFICES ASSUME NEW r \in S
               PROVE  (0 <= Rank(S, r) /\ Rank(S, r) < 0 + n)
                        <=> (offset <= Rank(rows, r) /\ Rank(rows, r) < offset + n)
    OBVIOUS
  <2>1. Rank(rows, r) \in Nat /\ Rank(S, r) = Rank(rows, r) - offset
    BY <1>1, <1>2, <1>5
  <2> HIDE DEF S
  <2> QED  BY <2>1
<1>7. \A r \in rows : Rank(rows, r) < offset + n => Rank(rows, r) < offset + (n + 1)
  BY <1>1
<1>8. ASSUME NEW r \in Slice(S, n, 0) PROVE r \in Slice(rows, n, offset)
  <2>1. r \in S /\ offset <= Rank(rows, r) /\ Rank(rows, r) < offset + n
    BY <1>4, <1>6
  <2>2. r \in rows
    BY <1>2, <2>1
  <2> QED  BY <1>3, <2>1, <2>2
<1>9. ASSUME NEW r \in Slice(rows, n, offset) PROVE r \in Slice(S, n, 0)
  <2>1. r \in rows /\ offset <= Rank(rows, r) /\ Rank(rows, r) < offset + n
    BY <1>3
  <2>2. r \in S
    BY <1>2, <1>7, <2>1
  <2> QED  BY <1>4, <1>6, <2>1, <2>2
<1> QED  BY <1>8, <1>9

\* The look-ahead row comes exactly when a row follows the page.
LEMMA MoreOfSlice ==
    ASSUME NEW rows \in SUBSET Rows, NEW n \in Nat, NEW offset \in Nat
    PROVE  Cardinality(Slice(rows, n + 1, offset)) > n
              <=> \E r \in rows : Rank(rows, r) >= offset + n
<1> DEFINE all == Cardinality(rows)
           size == Cardinality(Slice(rows, n + 1, offset))
<1>1. all \in Nat /\ offset + n \in Nat
  BY SetOfRows
<1>2. CASE all >= offset + (n + 1)
  <2>1. size = n + 1
    <3>1. n + 1 \in Nat
      OBVIOUS
    <3> QED  BY <1>2, <3>1, SliceCount
  <2>2. Cardinality(FirstOnes(rows, offset + n)) = offset + n /\ offset + n < all
    BY <1>1, <1>2, FirstCount
  <2>3. PICK m \in rows : Rank(rows, m) = offset + n
    BY <1>1, <2>2, RankNext
  <2> QED  BY <1>1, <2>1, <2>3
<1>3. CASE all < offset + (n + 1)
  <2>1. size <= n
    BY <1>1, <1>3, SliceCount
  <2>2. \A r \in rows : Rank(rows, r) < all /\ Rank(rows, r) \in Nat
    BY RankBelow, RankType
  <2>3. size = 0 \/ size = all - offset
    BY <1>1, <1>3, SliceCount
  <2> QED  BY <1>1, <1>3, <2>1, <2>2, <2>3
<1> QED  BY <1>1, <1>2, <1>3

\* A nonempty slice with no look-ahead row ends with the last row of all.
LEMMA LastSlice ==
    ASSUME NEW rows \in SUBSET Rows, NEW n \in Nat, NEW offset \in Nat,
           Slice(rows, n + 1, offset) # {},
           ~(Cardinality(Slice(rows, n + 1, offset)) > n)
    PROVE  offset + Cardinality(Slice(rows, n + 1, offset)) = Cardinality(rows)
<1> DEFINE all == Cardinality(rows)
           size == Cardinality(Slice(rows, n + 1, offset))
<1>1. all \in Nat /\ n + 1 \in Nat
  BY SetOfRows
<1>2. all > offset
  <2>1. PICK r \in rows : offset <= Rank(rows, r)
    BY DEF Slice, Rank
  <2> QED  BY <1>1, <2>1, RankBelow, RankType
<1>3. ~(all >= offset + (n + 1))
  BY <1>1, SliceCount
<1> QED  BY <1>1, <1>2, <1>3, SliceCount

-------------------------------------------------------------------------------
(* A statement reads its page.                                             *)

WideUint == BigintMax <= UintMax

\* A row follows the page.
Followed(r, rows) ==
    \E x \in rows : Cardinality({s \in rows : s < x}) >= r.number * r.size

LEMMA Consecutive ==
    ASSUME NEW n \in Nat, NEW size \in Nat
    PROVE  (n - 1) * size + size = n * size
  OBVIOUS

LEMMA ReadsPage ==
    ASSUME WideUint, NEW r \in PageRequest, ~Refused(r), Visible \in SUBSET Rows
    PROVE  /\ PageOf(r, Read(r)) = PageIn(r, Visible)
           /\ MoreAfter(r, Read(r)) = Followed(r, Visible)
           /\ NamesTotal(r, Read(r)) =>
                Offset(r) + Cardinality(Read(r)) = Cardinality(Visible)
<1> DEFINE offset == (r.number - 1) * r.size
           rows == Slice(Visible, r.size + 1, offset)
<1>1. /\ r.size \in Nat /\ r.number \in Nat /\ offset \in Nat
      /\ Offset(r) = offset /\ PagingArgs(r) = <<r.size + 1, offset>>
  BY AcceptedExact DEF WideUint
<1>2. Read(r) = rows
  BY <1>1 DEF Read
<1>3. PageOf(r, rows) = PageIn(r, Visible)
  BY <1>1, PageOfSlice DEF PageOf, PageIn, Limit
<1>4. MoreAfter(r, rows) = Followed(r, Visible)
  <2>1. offset + r.size = r.number * r.size
    BY <1>1, Consecutive
  <2>2. Cardinality(rows) > r.size
          <=> \E x \in Visible : Rank(Visible, x) >= offset + r.size
    BY <1>1, MoreOfSlice
  <2>3. (\E x \in Visible : Rank(Visible, x) >= offset + r.size)
          <=> Followed(r, Visible)
    BY <2>1 DEF Followed, Rank
  <2>4. MoreAfter(r, rows) <=> Cardinality(rows) > r.size
    BY DEF MoreAfter, Limit
  <2>5. MoreAfter(r, rows) \in BOOLEAN /\ Followed(r, Visible) \in BOOLEAN
    BY DEF MoreAfter, Followed
  <2>6. MoreAfter(r, rows) <=> Followed(r, Visible)
    BY <2>2, <2>3, <2>4
  <2> QED  BY <2>5, <2>6
<1>5. NamesTotal(r, rows) => offset + Cardinality(rows) = Cardinality(Visible)
  BY <1>1, LastSlice DEF NamesTotal, MoreAfter, Limit
<1> QED  BY <1>1, <1>2, <1>3, <1>4, <1>5

-------------------------------------------------------------------------------
(* The inductive invariant.                                                *)

Sessions ==
    /\ table \in SUBSET Rows
    /\ snapshot # NoSnapshot => snapshot \in SUBSET Rows
    /\ counting # NoRequest => counting \in PageRequest

\* Between its two statements a page is one of the call's tables, and the
\* count will see another of them.
HalfDone ==
    counting # NoRequest =>
        /\ Visible \in seen
        /\ \E t \in seen : list = PageIn(counting, t)
        /\ session = "repeatableRead" =>
            snapshot # NoSnapshot /\ list = PageIn(counting, snapshot)

\* A result of a repeatable read transaction has fixed its snapshot.
Fixed ==
    session = "repeatableRead" /\ result.op \in {"page", "rows", "total"}
        => snapshot # NoSnapshot

\* The pages of the transaction are those of its snapshot.
Bound ==
    /\ book # {} =>
        snapshot # NoSnapshot /\ session \in {"repeatableRead", "aborted"}
    /\ \A p \in book :
        /\ p.request \in PageRequest /\ ~Refused(p.request)
        /\ p.list = PageIn(p.request, snapshot)
        /\ p.more = Followed(p.request, snapshot)

SInv ==
    /\ Sessions
    /\ HalfDone
    /\ Fixed
    /\ OneSnapshot
    /\ ResultOfTheCall
    /\ Bound

\* What a statement of the session sees does not change by its being seen.
LEMMA Looked ==
    ASSUME Sessions, Look, UNCHANGED <<table, session>>
    PROVE  /\ Visible \in SUBSET Rows /\ Visible' = Visible
           /\ snapshot' # NoSnapshot => snapshot' \in SUBSET Rows
           /\ session = "repeatableRead" => snapshot' = Visible /\ snapshot' # NoSnapshot
           /\ session = "repeatableRead" /\ snapshot # NoSnapshot => snapshot' = snapshot
<1>1. Visible \in SUBSET Rows
  BY DEF Sessions, Visible
<1>2. Visible # NoSnapshot
  BY <1>1, AbsentAssumption
<1> QED  BY <1>1, <1>2 DEF Look, Visible

\* A call without a result leaves nothing to be shown.
LEMMA WithoutResult ==
    ASSUME SInv, counting' = NoRequest, table' = table,
           result'.op \notin {"page", "rows", "total"},
           \/ book' = {}
           \/ UNCHANGED <<book, snapshot>> /\ session' \in {session, "aborted"}
           \/ UNCHANGED <<book, snapshot>> /\ session = "pool",
           snapshot' \in {snapshot, NoSnapshot}
    PROVE  SInv'
<1>1. Sessions'
  BY DEF SInv, Sessions
<1>2. HalfDone' /\ Fixed' /\ OneSnapshot' /\ ResultOfTheCall'
  BY DEF HalfDone, Fixed, OneSnapshot, ResultOfTheCall
<1>3. Bound'
  BY DEF SInv, Bound
<1> QED  BY <1>1, <1>2, <1>3 DEF SInv

LEMMA SnapRows ==
    ASSUME WideUint, SInv, NEW r \in PageRequest, FetchPageRows(r)
    PROVE  SInv'
<1>1. /\ ~Refused(r) /\ Look /\ counting = NoRequest /\ session # "aborted"
      /\ UNCHANGED <<table, session, counting>>
      /\ result' = [op |-> "rows", request |-> r, list |-> PageOf(r, Read(r)),
                    more |-> MoreAfter(r, Read(r))]
      /\ book' = IF session = "repeatableRead" THEN book \cup {result'} ELSE book
  BY DEF FetchPageRows, Ready
<1>2. /\ Visible \in SUBSET Rows /\ Visible' = Visible
      /\ snapshot' # NoSnapshot => snapshot' \in SUBSET Rows
      /\ session = "repeatableRead" => snapshot' = Visible /\ snapshot' # NoSnapshot
      /\ session = "repeatableRead" /\ snapshot # NoSnapshot => snapshot' = snapshot
  BY <1>1, Looked DEF SInv
<1>3. result' = [op |-> "rows", request |-> r, list |-> PageIn(r, Visible),
                 more |-> Followed(r, Visible)]
  BY <1>1, <1>2, ReadsPage
<1>4. Sessions'
  BY <1>1, <1>2 DEF SInv, Sessions
<1>5. HalfDone' /\ Fixed' /\ ResultOfTheCall'
  BY <1>1, <1>2, <1>3 DEF HalfDone, Fixed, ResultOfTheCall
<1>6. OneSnapshot'
  <2> SUFFICES ASSUME session = "repeatableRead" PROVE OneSnapshot'
    BY <1>1 DEF OneSnapshot
  <2>1. /\ result'.op = "rows" /\ result'.request = r
        /\ result'.list = PageIn(r, snapshot')
        /\ result'.more = Followed(r, snapshot')
    BY <1>2, <1>3
  <2>2. result'.more = (\E x \in snapshot' :
            Cardinality({s \in snapshot' : s < x}) >= r.number * r.size)
    BY <2>1 DEF Followed
  <2> QED  BY <2>1, <2>2 DEF OneSnapshot
<1>7. Bound'
  <2>1. CASE session = "repeatableRead"
    <3>1. book # {} => snapshot' = snapshot
      BY <1>2, <2>1 DEF SInv, Bound
    <3>2. ASSUME NEW p \in book'
          PROVE  /\ p.request \in PageRequest /\ ~Refused(p.request)
                 /\ p.list = PageIn(p.request, snapshot')
                 /\ p.more = Followed(p.request, snapshot')
      <4>1. CASE p \in book
        BY <3>1, <4>1 DEF SInv, Bound
      <4>2. CASE p = result'
        BY <1>1, <1>2, <1>3, <2>1, <4>2
      <4> QED  BY <1>1, <2>1, <4>1, <4>2
    <3>3. session' = "repeatableRead" /\ snapshot' # NoSnapshot
      BY <1>1, <1>2, <2>1
    <3> QED  BY <3>2, <3>3 DEF Bound
  <2>2. CASE session # "repeatableRead"
    <3>1. book = {} /\ book' = {}
      BY <1>1, <2>2 DEF SInv, Bound
    <3> QED  BY <3>1 DEF Bound
  <2> QED  BY <2>1, <2>2
<1> QED  BY <1>4, <1>5, <1>6, <1>7 DEF SInv

\* Every statement but that of FetchPageRows leaves the book as it is.
LEMMA BookStays ==
    ASSUME SInv, Ready, Look, UNCHANGED <<table, session, book>>
    PROVE  Bound'
<1>1. session = "repeatableRead" /\ snapshot # NoSnapshot => snapshot' = snapshot
  BY Looked DEF SInv
<1>2. CASE book = {}
  BY <1>2 DEF Bound
<1>3. CASE book # {}
  <2>1. session = "repeatableRead" /\ snapshot' = snapshot
    BY <1>1, <1>3 DEF SInv, Bound, Ready
  <2> QED  BY <2>1 DEF SInv, Bound
<1> QED  BY <1>2, <1>3

LEMMA SnapLastPage ==
    ASSUME WideUint, SInv, NEW r \in PageRequest, FetchLastPage(r)
    PROVE  SInv'
<1>1. /\ ~Refused(r) /\ Look /\ Ready /\ counting = NoRequest
      /\ UNCHANGED <<table, session, counting, book>>
      /\ NamesTotal(r, Read(r))
      /\ result' = [op |-> "page", request |-> r, list |-> PageOf(r, Read(r)),
                    total |-> Offset(r) + Cardinality(Read(r))]
      /\ seen' = {Visible}
  BY DEF FetchLastPage, Ready
<1>2. /\ Visible \in SUBSET Rows /\ Visible' = Visible
      /\ snapshot' # NoSnapshot => snapshot' \in SUBSET Rows
      /\ session = "repeatableRead" => snapshot' = Visible /\ snapshot' # NoSnapshot
  BY <1>1, Looked DEF SInv
<1>3. result' = [op |-> "page", request |-> r, list |-> PageIn(r, Visible),
                 total |-> Cardinality(Visible)]
  BY <1>1, <1>2, ReadsPage
<1>4. Sessions'
  BY <1>1, <1>2 DEF SInv, Sessions
<1>5. HalfDone' /\ Fixed' /\ ResultOfTheCall'
  BY <1>1, <1>2, <1>3 DEF HalfDone, Fixed, ResultOfTheCall
<1>6. OneSnapshot'
  BY <1>1, <1>2, <1>3 DEF OneSnapshot
<1>7. Bound'
  BY <1>1, BookStays
<1> QED  BY <1>4, <1>5, <1>6, <1>7 DEF SInv

LEMMA SnapPage ==
    ASSUME WideUint, SInv, NEW r \in PageRequest, FetchPage(r)
    PROVE  SInv'
<1>1. /\ ~Refused(r) /\ Look /\ Ready
      /\ UNCHANGED <<table, session, book>>
      /\ counting' = r /\ list' = PageOf(r, Read(r))
      /\ result' = Failed("none")
      /\ seen' = {Visible}
  BY DEF FetchPage
<1>2. /\ Visible \in SUBSET Rows /\ Visible' = Visible
      /\ snapshot' # NoSnapshot => snapshot' \in SUBSET Rows
      /\ session = "repeatableRead" => snapshot' = Visible /\ snapshot' # NoSnapshot
  BY <1>1, Looked DEF SInv
<1>3. list' = PageIn(r, Visible)
  BY <1>1, <1>2, ReadsPage
<1>4. Sessions'
  BY <1>1, <1>2 DEF SInv, Sessions
<1>5. HalfDone'
  BY <1>1, <1>2, <1>3 DEF HalfDone
<1>6. Fixed' /\ ResultOfTheCall' /\ OneSnapshot'
  BY <1>1 DEF Fixed, ResultOfTheCall, OneSnapshot, Failed
<1>7. Bound'
  BY <1>1, BookStays
<1> QED  BY <1>4, <1>5, <1>6, <1>7 DEF SInv

LEMMA SnapCount ==
    ASSUME SInv, CountPage
    PROVE  SInv'
<1>1. /\ counting # NoRequest /\ counting' = NoRequest
      /\ result' = [op |-> "page", request |-> counting, list |-> list,
                    total |-> Cardinality(Visible)]
      /\ UNCHANGED <<table, session, snapshot, seen, book>>
  BY DEF CountPage, Counted
<1>2. /\ Visible \in seen
      /\ \E t \in seen : list = PageIn(counting, t)
      /\ session = "repeatableRead" =>
          /\ snapshot # NoSnapshot /\ list = PageIn(counting, snapshot)
          /\ Visible = snapshot
  BY <1>1 DEF SInv, HalfDone, Visible
<1>3. Sessions' /\ HalfDone' /\ Bound'
  BY <1>1 DEF SInv, Sessions, HalfDone, Bound
<1>4. Fixed' /\ OneSnapshot'
  BY <1>1, <1>2 DEF Fixed, OneSnapshot
<1>5. ResultOfTheCall'
  BY <1>1, <1>2 DEF ResultOfTheCall
<1> QED  BY <1>3, <1>4, <1>5 DEF SInv

LEMMA SnapTotal ==
    ASSUME SInv, FetchTotal
    PROVE  SInv'
<1>1. /\ Look /\ Ready /\ counting = NoRequest
      /\ UNCHANGED <<table, session, counting, book>>
      /\ result' = [op |-> "total", total |-> Cardinality(Visible)]
      /\ seen' = {Visible}
  BY DEF FetchTotal, Ready, Counted
<1>2. /\ Visible \in SUBSET Rows /\ Visible' = Visible
      /\ snapshot' # NoSnapshot => snapshot' \in SUBSET Rows
      /\ session = "repeatableRead" => snapshot' = Visible /\ snapshot' # NoSnapshot
  BY <1>1, Looked DEF SInv
<1>3. Sessions'
  BY <1>1, <1>2 DEF SInv, Sessions
<1>4. HalfDone' /\ Fixed' /\ OneSnapshot' /\ ResultOfTheCall'
  BY <1>1, <1>2 DEF HalfDone, Fixed, OneSnapshot, ResultOfTheCall
<1>5. Bound'
  BY <1>1, BookStays
<1> QED  BY <1>3, <1>4, <1>5 DEF SInv

\* A write of another session adds a table to those the call has seen.
LEMMA SnapWrite ==
    ASSUME SInv, NEW gone, NEW new \in SUBSET Rows, Write(gone, new)
    PROVE  SInv'
<1>1. /\ table' = (table \ gone) \cup new
      /\ seen' = IF counting # NoRequest THEN seen \cup {table'} ELSE seen
      /\ UNCHANGED <<session, snapshot, counting, list, result, book>>
  BY DEF Write
<1>2. Sessions'
  BY <1>1 DEF SInv, Sessions
<1>3. seen \subseteq seen'
  BY <1>1
<1>4. HalfDone'
  <2> SUFFICES ASSUME counting # NoRequest PROVE HalfDone'
    BY <1>1 DEF HalfDone
  <2>1. Visible' = Visible \/ Visible' = table'
    BY <1>1 DEF Visible
  <2>2. Visible' \in seen'
    BY <1>1, <1>3, <2>1 DEF SInv, HalfDone
  <2> QED  BY <1>1, <1>3, <2>2 DEF SInv, HalfDone
<1>5. Fixed' /\ OneSnapshot' /\ Bound'
  BY <1>1 DEF SInv, Fixed, OneSnapshot, Bound
<1>6. ResultOfTheCall'
  BY <1>1, <1>3 DEF SInv, ResultOfTheCall
<1> QED  BY <1>2, <1>4, <1>5, <1>6 DEF SInv

LEMMA SnapNext ==
    ASSUME WideUint
    PROVE  SInv /\ [Next]_vars => SInv'
<1> SUFFICES ASSUME SInv, [Next]_vars PROVE SInv'
  OBVIOUS
<1>1. ASSUME NEW r \in PageRequest, Refuse(r) PROVE SInv'
  <2>1. /\ counting' = NoRequest /\ result'.op = "refused"
        /\ UNCHANGED <<table, session, snapshot, book>>
    BY <1>1 DEF Refuse, Ready
  <2> QED  BY <2>1, WithoutResult
<1>2. ASSUME NEW r \in PageRequest, FetchPageRows(r) PROVE SInv'
  BY <1>2, SnapRows
<1>3. ASSUME NEW r \in PageRequest, FetchPage(r) PROVE SInv'
  BY <1>3, SnapPage
<1>4. ASSUME NEW r \in PageRequest, FetchLastPage(r) PROVE SInv'
  BY <1>4, SnapLastPage
<1>5. CASE CountPage
  BY <1>5, SnapCount
<1>6. CASE FetchTotal
  BY <1>6, SnapTotal
<1>7. CASE Fail
  <2>1. /\ counting' = NoRequest /\ result'.op = "failed"
        /\ UNCHANGED <<table, snapshot, book>>
        /\ session' = IF session = "pool" THEN "pool" ELSE "aborted"
    BY <1>7 DEF Fail, Failed
  <2> QED  BY <2>1, WithoutResult
<1>8. ASSUME NEW isolation \in Isolation, Begin(isolation) PROVE SInv'
  <2>1. /\ counting' = NoRequest /\ result'.op = "failed" /\ book' = {}
        /\ UNCHANGED <<table, snapshot>>
    BY <1>8 DEF Begin, Failed
  <2> QED  BY <2>1, WithoutResult
<1>9. CASE End
  <2>1. /\ counting' = NoRequest /\ result'.op = "failed" /\ book' = {}
        /\ table' = table /\ snapshot' = NoSnapshot
    BY <1>9 DEF End, Failed
  <2> QED  BY <2>1, WithoutResult
<1>10. ASSUME NEW gone \in SUBSET Rows, NEW new \in SUBSET Rows, Write(gone, new)
       PROVE  SInv'
  BY <1>10, SnapWrite
<1>11. CASE UNCHANGED vars
  BY <1>11 DEF vars, callVars, SInv, Sessions, HalfDone, Fixed, OneSnapshot,
               ResultOfTheCall, Bound, Visible
<1> QED
  BY <1>1, <1>2, <1>3, <1>4, <1>5, <1>6, <1>7, <1>8, <1>9, <1>10, <1>11 DEF Next

LEMMA SnapInit == Init => SInv
<1> SUFFICES ASSUME Init PROVE SInv
  OBVIOUS
<1>1. Sessions
  BY DEF Init, Sessions
<1>2. HalfDone /\ Fixed /\ OneSnapshot /\ ResultOfTheCall /\ Bound
  BY DEF Init, Failed, HalfDone, Fixed, OneSnapshot, ResultOfTheCall, Bound
<1> QED  BY <1>1, <1>2 DEF SInv

-------------------------------------------------------------------------------
(* The pages of one snapshot fit together.                                 *)

\* A page holds the rows whose rank is within its bounds.
LEMMA PageRanks ==
    ASSUME NEW r \in PageRequest, r.number > 0, NEW rows \in SUBSET Rows, NEW x
    PROVE  x \in PageIn(r, rows) <=>
             /\ x \in rows
             /\ (r.number - 1) * r.size <= Rank(rows, x)
             /\ Rank(rows, x) < r.number * r.size
<1>1. r.number \in Nat /\ r.size \in Nat
  BY WidthAssumption DEF PageRequest, Uint
<1>2. (r.number - 1) * r.size + r.size = r.number * r.size
  BY <1>1, Consecutive
<1> QED  BY <1>2 DEF PageIn, Slice, Rank

LEMMA Products ==
    ASSUME NEW a \in Nat, NEW b \in Nat, NEW m \in Nat, a < b
    PROVE  a * m <= (b - 1) * m
<1> DEFINE c == b - 1
<1>1. c \in Nat /\ a <= c
  OBVIOUS
<1> HIDE DEF c
<1>2. a * m <= c * m
  BY <1>1
<1> QED  BY <1>2 DEF c

\* The page a rank falls on.
LEMMA PageOfRank ==
    ASSUME NEW k \in Nat, NEW n \in Nat, NEW m \in Nat, m > 0, k < n * m
    PROVE  \E j \in 1 .. n : (j - 1) * m <= k /\ k < j * m
<1> DEFINE q == k \div m
           rest == k % m
<1>1. q \in Nat /\ rest \in 0 .. (m - 1) /\ k = m * q + rest
  OBVIOUS
<1>2. q * m <= k /\ k < (q + 1) * m
  <2>1. q * m = m * q /\ (q + 1) * m = m * q + m
    BY <1>1
  <2> QED  BY <1>1, <2>1
<1>3. q < n
  <2> SUFFICES ASSUME n <= q PROVE FALSE
    BY <1>1
  <2>1. n * m <= q * m
    BY <1>1
  <2> QED  BY <1>1, <1>2, <2>1
<1>4. q + 1 \in 1 .. n /\ (q + 1) - 1 = q
  BY <1>1, <1>3
<1> HIDE DEF q
<1> QED  BY <1>2, <1>4

LEMMA FitTogether ==
    ASSUME WideUint, SInv
    PROVE  PagesPartition
<1>1. ASSUME NEW p \in book
      PROVE  /\ p.request \in PageRequest /\ p.list = PageIn(p.request, snapshot)
             /\ p.more = Followed(p.request, snapshot)
             /\ p.request.number \in Nat /\ p.request.number > 0
             /\ p.request.size \in Nat /\ p.request.size > 0
             /\ snapshot \in SUBSET Rows
  <2>1. /\ p.request \in PageRequest /\ ~Refused(p.request)
        /\ p.list = PageIn(p.request, snapshot)
        /\ p.more = Followed(p.request, snapshot)
    BY DEF SInv, Bound
  <2>2. snapshot \in SUBSET Rows
    BY DEF SInv, Bound, Sessions
  <2> QED  BY <2>1, <2>2, AcceptedExact DEF WideUint
<1>2. ASSUME NEW p \in book, NEW q \in book, p.request.size = q.request.size,
             p.request.number < q.request.number,
             NEW r \in p.list, NEW s \in q.list
      PROVE  r < s
  <2> DEFINE size == p.request.size
             a == p.request.number
             b == q.request.number
  <2>1. /\ a \in Nat /\ b \in Nat /\ size \in Nat /\ snapshot \in SUBSET Rows
        /\ p.request \in PageRequest /\ a > 0
        /\ q.request \in PageRequest /\ b > 0
        /\ p.list = PageIn(p.request, snapshot)
        /\ q.list = PageIn(q.request, snapshot)
    BY <1>1
  <2>2. r \in snapshot /\ Rank(snapshot, r) < a * size
    BY <1>2, <2>1, PageRanks
  <2>3. s \in snapshot /\ (b - 1) * size <= Rank(snapshot, s)
    BY <1>2, <2>1, PageRanks
  <2>4. a * size <= (b - 1) * size
    BY <1>2, <2>1, Products
  <2>5. a * size \in Nat /\ (b - 1) * size \in Int
    BY <2>1
  <2>6. Rank(snapshot, r) \in Nat /\ Rank(snapshot, s) \in Nat
    BY <2>1, RankType
  <2>7. Rank(snapshot, r) < Rank(snapshot, s)
    <3> HIDE DEF a, b, size
    <3> QED  BY <2>2, <2>3, <2>4, <2>5, <2>6
  <2> QED  BY <2>1, <2>2, <2>3, <2>7, RankOrder
<1>3. ASSUME NEW p \in book, ~p.more,
             1 .. p.request.number \subseteq
                {q.request.number : q \in {z \in book : z.request.size = p.request.size}}
      PROVE  UNION {q.list : q \in {z \in book : z.request.size = p.request.size}}
                = snapshot
  <2> DEFINE size == p.request.size
             n == p.request.number
             pages == {z \in book : z.request.size = size}
  <2>1. \A q \in pages : q.list \subseteq snapshot
    BY <1>1 DEF PageIn, Slice
  <2>2. ASSUME NEW r \in snapshot PROVE \E q \in pages : r \in q.list
    <3>1. /\ n \in Nat /\ size \in Nat /\ size > 0 /\ snapshot \in SUBSET Rows
          /\ ~Followed(p.request, snapshot)
      BY <1>1, <1>3
    <3>2. Rank(snapshot, r) \in Nat /\ n * size \in Nat
      BY <3>1, RankType
    <3>3. ~(Rank(snapshot, r) >= n * size)
      BY <3>1 DEF Followed, Rank
    <3>4. Rank(snapshot, r) < n * size
      <4> HIDE DEF n, size
      <4> QED  BY <3>2, <3>3
    <3>5. PICK j \in 1 .. n : /\ (j - 1) * size <= Rank(snapshot, r)
                              /\ Rank(snapshot, r) < j * size
      BY <3>1, <3>2, <3>4, PageOfRank
    <3>6. PICK q \in pages : q.request.number = j
      BY <1>3
    <3>7. /\ q.request \in PageRequest /\ q.request.number > 0
          /\ q.request.size = size /\ q.list = PageIn(q.request, snapshot)
      BY <1>1
    <3> QED  BY <3>1, <3>5, <3>6, <3>7, PageRanks
  <2> QED  BY <2>1, <2>2
<1> QED  BY <1>2, <1>3 DEF PagesPartition

-------------------------------------------------------------------------------
(* The theorems.                                                           *)

\* In every reachable state of a build whose uint holds every bigint the
\* invariant holds.
THEOREM SnapshotsKept ==
    ASSUME WideUint
    PROVE  Spec => []SInv
<1>1. SInv /\ [Next]_vars => SInv'
  BY SnapNext
<1> QED  BY <1>1, SnapInit, PTL DEF Spec

\* A page and its total are each true at an instant of the call, the total of
\* a last page that is not counted included.
THEOREM PageOfTheCall ==
    ASSUME WideUint
    PROVE  Spec => []ResultOfTheCall
<1>1. SInv => ResultOfTheCall
  BY DEF SInv
<1> QED  BY <1>1, SnapshotsKept, PTL

\* In a repeatable read transaction list, total and what follows are those of
\* one snapshot.
THEOREM PageOfOneSnapshot ==
    ASSUME WideUint
    PROVE  Spec => []OneSnapshot
<1>1. SInv => OneSnapshot
  BY DEF SInv
<1> QED  BY <1>1, SnapshotsKept, PTL

\* There pages of one size share no row, and those up to the last one hold
\* every row.
THEOREM PagesFitTogether ==
    ASSUME WideUint
    PROVE  Spec => []PagesPartition
<1>1. SInv => PagesPartition
  BY FitTogether
<1> QED  BY <1>1, SnapshotsKept, PTL

===============================================================================
