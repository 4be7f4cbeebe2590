---------------------------- MODULE TraversalProofs ----------------------------
(***************************************************************************)
(* For every set of rows, calls, filters and page sizes, while others      *)
(* write to the table: a keyset traversal delivers its rows strictly       *)
(* forward, skips no row that nobody touched, and hands out the token of   *)
(* the last row delivered; and it implements CursorPages, which knows no   *)
(* rows streaming in and no branches.                                      *)
(*                                                                         *)
(* Forward: the inductive invariant is PageInOrder, the order inside the   *)
(* page being read, with the order of what has been delivered.  The step   *)
(* that matters is Query: the branches of afterPredicates select only rows *)
(* beyond the cursor and none twice (PredicatesExact, PredicatesDisjoint), *)
(* and the table holds no two rows with one "id"; from there each row the  *)
(* server sends precedes all it has still to send, because the order is    *)
(* total on rows that differ in "id".                                      *)
(*                                                                         *)
(* Skipping none is the other half.  Each branch has a LIMIT of its own,   *)
(* so a row it selects may not be sent, but then as many rows as a page    *)
(* and the one after it come before that row and are (LimitedEnough,       *)
(* SentOrCrowded).  While the page is read every row due is therefore in   *)
(* it, still to be sent, or preceded by more rows than the page can hold   *)
(* (Covered), and when the page is full its last row, hence the cursor,    *)
(* precedes it too.  For the same reason the first rows of what was sent   *)
(* are the first of all rows after the cursor (SentIsEnough), and taking   *)
(* them one by one leaves the page they make as it was (FirstTaken).       *)
(***************************************************************************)
EXTENDS CursorTraversal, FiniteSetTheorems, WellFoundedInduction, TLAPS

-------------------------------------------------------------------------------
(***************************************************************************)
(* For every list of orders, every cursor and every row: the predicates of *)
(* a keyset page select the row exactly when it sorts after the cursor,    *)
(* and never through two branches.  And the order is a strict total order  *)
(* on keys that differ, which is what a traversal rests on.                *)
(***************************************************************************)

\* Each term orders its cells strictly: no cell follows itself.
LEMMA CellIrreflexive ==
    ASSUME NEW order \in Order, NEW a \in Cell
    PROVE  ~CellAfter(order, a, a)
  BY ValueAssumption DEF CellAfter, Follows, Cell, Order

\* Nor does a comparison hold between equal cells.
LEMMA FollowsStrict ==
    ASSUME NEW order \in Order, NEW a \in Cell, NEW b \in Cell,
           Follows(order, a, b)
    PROVE  a # b /\ a # Null
<1> SUFFICES ASSUME a = b PROVE FALSE
  BY DEF Follows
<1> QED  BY CellIrreflexive DEF CellAfter

\* Each term orders its cells transitively, NULLs included.
LEMMA CellTransitive ==
    ASSUME NEW order \in Order, NEW a \in Cell, NEW b \in Cell, NEW c \in Cell,
           CellAfter(order, a, b), CellAfter(order, b, c)
    PROVE  CellAfter(order, a, c)
  BY ValueAssumption DEF CellAfter, Follows, Cell, Order, PgNullsFirst, Nulls

\* Of two cells that differ, one follows the other.
LEMMA CellTotal ==
    ASSUME NEW order \in Order, NEW a \in Cell, NEW b \in Cell, a # b
    PROVE  CellAfter(order, a, b) \/ CellAfter(order, b, a)
  BY ValueAssumption DEF CellAfter, Follows, Cell, Order, PgNullsFirst, Nulls

\* The order of keys is irreflexive.
THEOREM KeyIrreflexive ==
    ASSUME NEW orders \in Seq(Order), NEW a \in Key(orders)
    PROVE  ~KeyAfter(orders, a, a)
  BY CellIrreflexive DEF KeyAfter, Key

\* The order of keys is transitive: compare at the earlier of the positions
\* where the two pairs first differ.
THEOREM KeyTransitive ==
    ASSUME NEW orders \in Seq(Order),
           NEW a \in Key(orders), NEW b \in Key(orders), NEW c \in Key(orders),
           KeyAfter(orders, a, b), KeyAfter(orders, b, c)
    PROVE  KeyAfter(orders, a, c)
<1>1. PICK i \in DOMAIN orders :
        /\ \A k \in 1 .. (i - 1) : a[k] = b[k]
        /\ CellAfter(orders[i], a[i], b[i])
  BY DEF KeyAfter
<1>2. PICK j \in DOMAIN orders :
        /\ \A k \in 1 .. (j - 1) : b[k] = c[k]
        /\ CellAfter(orders[j], b[j], c[j])
  BY DEF KeyAfter
<1>3. /\ i \in Nat /\ j \in Nat
      /\ orders[i] \in Order /\ orders[j] \in Order
      /\ a[i] \in Cell /\ b[i] \in Cell /\ c[i] \in Cell
      /\ a[j] \in Cell /\ b[j] \in Cell /\ c[j] \in Cell
  BY DEF Key
<1>4. CASE i < j
  <2>1. b[i] = c[i] /\ \A k \in 1 .. (i - 1) : a[k] = c[k]
    BY <1>1, <1>2, <1>3, <1>4
  <2> QED  BY <1>1, <2>1 DEF KeyAfter
<1>5. CASE j < i
  <2>1. a[j] = b[j] /\ \A k \in 1 .. (j - 1) : a[k] = c[k]
    BY <1>1, <1>2, <1>3, <1>5
  <2> QED  BY <1>2, <2>1 DEF KeyAfter
<1>6. CASE i = j
  <2>1. \A k \in 1 .. (i - 1) : a[k] = c[k]
    BY <1>1, <1>2, <1>6
  <2>2. CellAfter(orders[i], a[i], c[i])
    BY <1>1, <1>2, <1>3, <1>6, CellTransitive
  <2> QED  BY <2>1, <2>2 DEF KeyAfter
<1> QED  BY <1>3, <1>4, <1>5, <1>6

\* Keys that differ are ordered: compare them at the first place they differ.
THEOREM KeyTotal ==
    ASSUME NEW orders \in Seq(Order),
           NEW a \in Key(orders), NEW b \in Key(orders), a # b
    PROVE  KeyAfter(orders, a, b) \/ KeyAfter(orders, b, a)
<1> DEFINE D == {i \in DOMAIN orders : a[i] # b[i]}
<1>1. D # {} /\ D \subseteq Nat
  BY DEF Key
<1>2. PICK i \in D : \A j \in D : <<j, i>> \notin OpToRel(<, Nat)
  BY <1>1, NatLessThanWellFounded, WFMin
<1>3. \A j \in 1 .. (i - 1) : a[j] = b[j]
  <2> SUFFICES ASSUME NEW j \in 1 .. (i - 1), a[j] # b[j]
               PROVE  FALSE
    OBVIOUS
  <2>1. i \in Nat /\ j \in Nat /\ j < i /\ j \in D
    BY <1>1
  <2> QED  BY <1>2, <2>1 DEF OpToRel
<1>4. orders[i] \in Order /\ a[i] \in Cell /\ b[i] \in Cell /\ a[i] # b[i]
  BY DEF Key
<1>5. CellAfter(orders[i], a[i], b[i]) \/ CellAfter(orders[i], b[i], a[i])
  BY <1>4, CellTotal
<1> QED  BY <1>3, <1>5 DEF KeyAfter

-------------------------------------------------------------------------------

\* The code's reading of NULL placement is PostgreSQL's.
LEMMA NullsFirstAgrees ==
    ASSUME NEW order \in Order
    PROVE  NullsFirst(order) <=> PgNullsFirst(order)
  BY DEF NullsFirst, PgNullsFirst, Order, Nulls

\* Every row a branch selects sorts after the cursor: no row comes back.
LEMMA PredicateSound ==
    ASSUME NEW orders \in Seq(Order),
           NEW key \in Key(orders), NEW cells \in Key(orders),
           NEW p \in AfterPredicates(orders, key),
           Satisfies(p, orders, key, cells)
    PROVE  KeyAfter(orders, cells, key)
<1> p.at \in DOMAIN orders /\ p.kind \in {"tuple", "compare", "null", "notnull"}
  BY DEF AfterPredicates, Predicate
<1>1. CASE p.kind = "tuple"
  <2>1. Tuple(orders, key)
    BY <1>1 DEF AfterPredicates
  <2>2. PICK i \in DOMAIN orders :
          Prefix(key, cells, i) /\ Follows(orders[1], cells[i], key[i])
    BY <1>1 DEF Satisfies
  <2>3. Follows(orders[i], cells[i], key[i])
    BY <2>1, <2>2 DEF Tuple, Follows
  <2> QED  BY <2>2, <2>3 DEF KeyAfter, CellAfter, Prefix
<1>2. CASE p.kind = "compare"
  BY <1>2 DEF Satisfies, KeyAfter, CellAfter, Prefix
<1>3. CASE p.kind = "null"
  <2>1. key[p.at] # Null /\ ~PgNullsFirst(orders[p.at])
    BY <1>3, NullsFirstAgrees DEF AfterPredicates
  <2> QED  BY <1>3, <2>1 DEF Satisfies, KeyAfter, CellAfter, Prefix
<1>4. CASE p.kind = "notnull"
  <2>1. key[p.at] = Null /\ PgNullsFirst(orders[p.at])
    BY <1>4, NullsFirstAgrees DEF AfterPredicates
  <2> QED  BY <1>4, <2>1 DEF Satisfies, KeyAfter, CellAfter, Prefix
<1> QED  BY <1>1, <1>2, <1>3, <1>4

\* Every row after the cursor is selected by some branch: no row is lost.
LEMMA PredicateComplete ==
    ASSUME NEW orders \in Seq(Order),
           NEW key \in Key(orders), NEW cells \in Key(orders),
           KeyAfter(orders, cells, key)
    PROVE  \E p \in AfterPredicates(orders, key) :
                Satisfies(p, orders, key, cells)
<1>1. PICK i \in DOMAIN orders :
        Prefix(key, cells, i) /\ CellAfter(orders[i], cells[i], key[i])
  BY DEF KeyAfter, Prefix
<1>2. 1 \in DOMAIN orders
  BY <1>1
<1> DEFINE P(kind, at) == [kind |-> kind, at |-> at]
<1>3. CASE Follows(orders[i], cells[i], key[i]) /\ Tuple(orders, key)
  <2>1. Follows(orders[1], cells[i], key[i])
    BY <1>3 DEF Tuple, Follows
  <2>2. P("tuple", 1) \in AfterPredicates(orders, key)
    BY <1>2, <1>3 DEF AfterPredicates, Predicate
  <2>3. Satisfies(P("tuple", 1), orders, key, cells)
    BY <1>1, <2>1 DEF Satisfies
  <2> QED  BY <2>2, <2>3
<1>4. CASE Follows(orders[i], cells[i], key[i]) /\ ~Tuple(orders, key)
  <2>1. P("compare", i) \in AfterPredicates(orders, key)
    BY <1>4 DEF AfterPredicates, Predicate, Follows
  <2>2. Satisfies(P("compare", i), orders, key, cells)
    BY <1>1, <1>4 DEF Satisfies
  <2> QED  BY <2>1, <2>2
<1>5. CASE cells[i] = Null /\ key[i] # Null /\ ~PgNullsFirst(orders[i])
  <2>1. P("null", i) \in AfterPredicates(orders, key)
    BY <1>5, NullsFirstAgrees DEF AfterPredicates, Predicate
  <2>2. Satisfies(P("null", i), orders, key, cells)
    BY <1>1, <1>5 DEF Satisfies
  <2> QED  BY <2>1, <2>2
<1>6. CASE cells[i] # Null /\ key[i] = Null /\ PgNullsFirst(orders[i])
  <2>1. P("notnull", i) \in AfterPredicates(orders, key)
    BY <1>6, NullsFirstAgrees DEF AfterPredicates, Predicate
  <2>2. Satisfies(P("notnull", i), orders, key, cells)
    BY <1>1, <1>6 DEF Satisfies
  <2> QED  BY <2>1, <2>2
<1> QED  BY <1>1, <1>3, <1>4, <1>5, <1>6 DEF CellAfter

\* The branches select exactly the rows strictly after the cursor.
THEOREM PredicatesExact ==
    ASSUME NEW orders \in Seq(Order),
           NEW key \in Key(orders), NEW cells \in Key(orders)
    PROVE  Exact(orders, key, cells)
  BY PredicateSound, PredicateComplete DEF Exact

\* Two branches never select the same row, so UNION ALL repeats none.  The
\* later branch pins the cell at the earlier one's position to the cursor's,
\* which is what the earlier branch excludes.
LEMMA EarlierBranchExcludes ==
    ASSUME NEW orders \in Seq(Order),
           NEW key \in Key(orders), NEW cells \in Key(orders),
           NEW p \in AfterPredicates(orders, key),
           p.kind # "tuple",
           Satisfies(p, orders, key, cells)
    PROVE  cells[p.at] # key[p.at]
<1>1. p.at \in DOMAIN orders /\ orders[p.at] \in Order
  BY DEF AfterPredicates, Predicate
<1>2. cells[p.at] \in Cell /\ key[p.at] \in Cell
  BY <1>1 DEF Key
<1> QED
  BY <1>1, <1>2, FollowsStrict DEF AfterPredicates, Predicate, Satisfies

\* A row comparison excludes every "IS NULL" branch beside it.
LEMMA TupleExcludes ==
    ASSUME NEW orders \in Seq(Order),
           NEW key \in Key(orders), NEW cells \in Key(orders),
           NEW p \in AfterPredicates(orders, key),
           NEW q \in AfterPredicates(orders, key),
           p.kind = "tuple", q.kind # "tuple",
           Satisfies(p, orders, key, cells), Satisfies(q, orders, key, cells)
    PROVE  FALSE
<1>1. Tuple(orders, key)
  BY DEF AfterPredicates
<1>2. q.at \in DOMAIN orders /\ q.kind = "null"
  BY <1>1 DEF AfterPredicates, Predicate, Tuple
<1>3. Prefix(key, cells, q.at) /\ cells[q.at] = Null /\ key[q.at] # Null
  BY <1>1, <1>2 DEF Satisfies, Tuple
<1>4. PICK i \in DOMAIN orders :
        Prefix(key, cells, i) /\ Follows(orders[1], cells[i], key[i])
  BY DEF Satisfies
<1>5. cells[i] \in Cell /\ key[i] \in Cell /\ orders[1] \in Order
  BY <1>4 DEF Key
<1>6. cells[i] # key[i] /\ cells[i] # Null
  BY <1>4, <1>5, FollowsStrict
<1>7. CASE i < q.at
  BY <1>2, <1>3, <1>6, <1>7 DEF Prefix
<1>8. CASE q.at < i
  BY <1>2, <1>3, <1>4, <1>8 DEF Prefix
<1>9. CASE i = q.at
  BY <1>3, <1>6, <1>9
<1> QED  BY <1>2, <1>7, <1>8, <1>9

\* The branches are pairwise disjoint.
THEOREM PredicatesDisjoint ==
    ASSUME NEW orders \in Seq(Order),
           NEW key \in Key(orders), NEW cells \in Key(orders)
    PROVE  Disjoint(orders, key, cells)
<1> SUFFICES ASSUME NEW p \in AfterPredicates(orders, key),
                    NEW q \in AfterPredicates(orders, key),
                    Satisfies(p, orders, key, cells),
                    Satisfies(q, orders, key, cells)
             PROVE  p = q
  BY DEF Disjoint
<1>1. p \in Predicate(orders) /\ q \in Predicate(orders)
  BY DEF AfterPredicates
<1>2. CASE p.kind = "tuple" /\ q.kind = "tuple"
  BY <1>1, <1>2 DEF AfterPredicates, Predicate
<1>3. CASE p.kind = "tuple" /\ q.kind # "tuple"
  BY <1>3, TupleExcludes
<1>4. CASE p.kind # "tuple" /\ q.kind = "tuple"
  BY <1>4, TupleExcludes
<1>5. CASE p.kind # "tuple" /\ q.kind # "tuple"
  <2>1. cells[p.at] # key[p.at] /\ cells[q.at] # key[q.at]
    BY <1>5, EarlierBranchExcludes
  <2>2. Prefix(key, cells, p.at) /\ Prefix(key, cells, q.at)
    BY <1>5 DEF Satisfies
  <2>3. p.at \in DOMAIN orders /\ q.at \in DOMAIN orders
    BY <1>1 DEF Predicate
  <2>4. p.at = q.at
    BY <2>1, <2>2, <2>3 DEF Prefix
  <2>5. p.kind = q.kind
    BY <1>5, <2>4 DEF AfterPredicates, Satisfies, Follows
  <2> QED  BY <1>1, <2>4, <2>5 DEF Predicate
<1> QED  BY <1>2, <1>3, <1>4, <1>5

-------------------------------------------------------------------------------
(* The traversal.                                                         *)

\* The facts the proofs take from the assumptions on constants.
LEMMA CallFacts ==
    ASSUME NEW c \in Call
    PROVE  /\ OrdersOf[c] \in Seq(Order)
           /\ \E i \in DOMAIN OrdersOf[c] : OrdersOf[c][i].column = Pk
  BY CallAssumption

\* The key of a row has a cell for each order.
LEMMA KeyOfType ==
    ASSUME NEW orders \in Seq(Order), NEW r \in Rows
    PROVE  KeyOf(orders, r) \in Key(orders)
<1>1. r \in Row
  BY RowsAssumption
<1>2. ASSUME NEW i \in DOMAIN orders PROVE orders[i].column \in Column
  <2>1. orders[i] \in Order
    OBVIOUS
  <2> QED  BY <2>1 DEF Order
<1> QED  BY <1>1, <1>2 DEF KeyOf, Key, Row

\* Rows that differ in the tie column have different keys.
LEMMA DistinctKeys ==
    ASSUME NEW c \in Call, NEW r \in Rows, NEW s \in Rows, r[Pk] # s[Pk]
    PROVE  KeyOf(OrdersOf[c], r) # KeyOf(OrdersOf[c], s)
<1>1. PICK i \in DOMAIN OrdersOf[c] : OrdersOf[c][i].column = Pk
  BY CallFacts
<1>2. KeyOf(OrdersOf[c], r)[i] # KeyOf(OrdersOf[c], s)[i]
  BY <1>1 DEF KeyOf
<1> QED  BY <1>2

\* Of two rows that differ in the tie column, the one that does not come after
\* the other comes before it.
LEMMA RowsOrdered ==
    ASSUME NEW c \in Call, NEW r \in Rows, NEW s \in Rows, r[Pk] # s[Pk],
           ~RowAfter(OrdersOf[c], r, s)
    PROVE  RowAfter(OrdersOf[c], s, r)
  BY CallFacts, KeyOfType, DistinctKeys, KeyTotal DEF RowAfter

-------------------------------------------------------------------------------
(* Type correctness.                                                       *)

LEMMA TypeInit == Init => TypeOK
<1> SUFFICES ASSUME Init PROVE TypeOK
  OBVIOUS
<1>1. table \in TablesOf(Rows)
  BY DEF Init
<1>2. writes \in Nat /\ failures \in Nat
  BY DEF Init
<1>3. pc \in {"idle", "reading", "closed"} /\ (pc = "idle" <=> call = NoCall)
  BY DEF Init
<1>4. \A x \in pending : x.row \in Rows
  BY DEF Init
<1>5. list \in Seq(Rows) /\ delivered \in Seq(Rows) /\ stable \subseteq Rows
  BY DEF Init
<1>6. hasMore \in BOOLEAN /\ ended \in BOOLEAN
  BY DEF Init
<1>7. pc = "idle" /\ cursor = NoCursor
  BY DEF Init
<1> QED  BY <1>1, <1>2, <1>3, <1>4, <1>5, <1>6, <1>7 DEF TypeOK

\* The table keeps one row for each value of the tie column.
LEMMA TouchKeepsTable ==
    ASSUME table \in TablesOf(Rows), NEW gone, NEW r \in Rows,
           \A s \in table \ gone : s[Pk] # r[Pk]
    PROVE  (table \ gone) \cup {r} \in TablesOf(Rows)
  BY DEF TablesOf

\* A call that ends without a result keeps the types.
LEMMA TypeAbandon ==
    ASSUME TypeOK, NEW reason, Abandon(reason), UNCHANGED <<table, writes>>,
           failures' \in Nat, delivered' \in Seq(Rows), stable' \subseteq Rows,
           ended' \in BOOLEAN,
           cursor' # NoCursor =>
              \E c \in Call : /\ cursor'.scope = CursorScope(c)
                              /\ cursor'.keys \in Key(OrdersOf[c])
    PROVE  TypeOK'
<1>1. table' \in TablesOf(Rows) /\ writes' \in Nat /\ failures' \in Nat
  BY DEF TypeOK
<1>2. pc' = "idle" /\ call' = NoCall
  BY DEF Abandon
<1>3. \A x \in pending' : x.row \in Rows
  BY DEF Abandon
<1>4. list' \in Seq(Rows) /\ delivered' \in Seq(Rows) /\ stable' \subseteq Rows
  BY DEF Abandon
<1>5. hasMore' \in BOOLEAN /\ ended' \in BOOLEAN
  BY DEF Abandon
<1> QED  BY <1>1, <1>2, <1>3, <1>4, <1>5 DEF TypeOK

\* What the server sends for a statement are rows of the table the filter
\* keeps, each with a branch that selects it.
LEMMA SentRows ==
    ASSUME NEW c \in Call, NEW size, NEW after, NEW x \in ResultSet(c, size, after)
    PROVE  /\ x = [branch |-> x.branch, row |-> x.row]
           /\ x.branch \in Branches(OrdersOf[c], after)
           /\ x.row \in table /\ x.row \in Matches[ArgsOf[c]]
           /\ x.branch # WholeQuery =>
                Satisfies(x.branch, OrdersOf[c], after.keys, KeyOf(OrdersOf[c], x.row))
<1>1. PICK b \in Branches(OrdersOf[c], after) :
        x \in {[branch |-> b, row |-> r] :
                 r \in Limited(OrdersOf[c], BranchRows(c, b, after), PageLimit(size))}
  BY DEF ResultSet
<1>2. PICK r \in BranchRows(c, b, after) : x = [branch |-> b, row |-> r]
  BY <1>1 DEF Limited
<1> QED  BY <1>1, <1>2 DEF BranchRows

-------------------------------------------------------------------------------
(* The inductive invariant.                                                *)

IInv ==
    /\ TypeOK
    /\ PageInOrder
    /\ DeliveredInOrder
    /\ CursorIsLastDelivered

\* What a token accepted for a call says of the traversal it continues.
LEMMA Continues ==
    ASSUME IInv, NEW c \in Call, NEW size, Query(c, size), cursor # NoCursor
    PROVE  /\ scope = CursorScope(c)
           /\ cursor.keys \in Key(OrdersOf[c])
<1>1. cursor.scope = CursorScope(c)
  BY DEF Query, EarlyError, Accepts
<1>2. cursor.scope = scope
  BY DEF IInv, CursorIsLastDelivered
<1>3. PICK d \in Call :
        cursor.scope = CursorScope(d) /\ cursor.keys \in Key(OrdersOf[d])
  BY DEF IInv, TypeOK
<1>4. OrdersOf[c] = OrdersOf[d]
  BY <1>1, <1>3 DEF CursorScope
<1> QED  BY <1>1, <1>2, <1>3, <1>4

\* Every row sent for a statement is beyond the cursor.
LEMMA SentBeyond ==
    ASSUME NEW c \in Call, NEW size, NEW x \in ResultSet(c, size, cursor),
           x.row \in Rows, cursor # NoCursor, cursor.keys \in Key(OrdersOf[c])
    PROVE  KeyAfter(OrdersOf[c], KeyOf(OrdersOf[c], x.row), cursor.keys)
<1>1. x.branch \in AfterPredicates(OrdersOf[c], cursor.keys)
  BY SentRows DEF Branches
<1>2. x.branch # WholeQuery
  BY <1>1 DEF AfterPredicates, Predicate, WholeQuery
<1>3. Satisfies(x.branch, OrdersOf[c], cursor.keys, KeyOf(OrdersOf[c], x.row))
  BY <1>2, SentRows
<1> QED  BY <1>1, <1>3, CallFacts, KeyOfType, PredicateSound

\* A statement sends no two rows with one value of the tie column: the table
\* holds none, and no row satisfies two branches.
LEMMA SentOnce ==
    ASSUME NEW c \in Call, NEW size, table \in TablesOf(Rows),
           NEW x \in ResultSet(c, size, cursor),
           NEW y \in ResultSet(c, size, cursor),
           cursor # NoCursor => cursor.keys \in Key(OrdersOf[c]),
           x.row[Pk] = y.row[Pk]
    PROVE  x = y
<1>1. x.row \in Rows /\ x.row = y.row
  BY SentRows DEF TablesOf
<1>2. x.branch = y.branch
  <2>1. CASE cursor = NoCursor
    BY <2>1, SentRows DEF Branches
  <2>2. CASE cursor # NoCursor
    <3>1. /\ x.branch \in AfterPredicates(OrdersOf[c], cursor.keys)
          /\ y.branch \in AfterPredicates(OrdersOf[c], cursor.keys)
      BY <2>2, SentRows DEF Branches
    <3>2. x.branch # WholeQuery /\ y.branch # WholeQuery
      BY <3>1 DEF AfterPredicates, Predicate, WholeQuery
    <3>3. Disjoint(OrdersOf[c], cursor.keys, KeyOf(OrdersOf[c], x.row))
      BY <1>1, <2>2, CallFacts, KeyOfType, PredicatesDisjoint
    <3> QED  BY <1>1, <3>1, <3>2, <3>3, SentRows DEF Disjoint
  <2> QED  BY <2>1, <2>2
<1> QED  BY <1>1, <1>2, SentRows

-------------------------------------------------------------------------------
(* Types are kept.                                                         *)

LEMMA TypeQuery ==
    ASSUME TypeOK, NEW c \in Call, NEW size \in Sizes, Query(c, size)
    PROVE  TypeOK'
<1>1. size # 0
  BY DEF Query, EarlyError
<1>2. \A x \in pending' : x.row \in Rows
  BY SentRows, CallAssumption DEF Query
<1>3. /\ pc' = "reading" /\ call' # NoCall
      /\ call' \in [call : Call, size : Sizes \ {0}]
  BY <1>1, CallAssumption DEF Query
<1>4. delivered' \in Seq(Rows) /\ stable' \subseteq Rows /\ ended' \in BOOLEAN
  <2>1. CASE cursor = NoCursor
    <3>1. /\ delivered' = <<>> /\ ended' = FALSE
          /\ stable' = table \cap Matches[ArgsOf[c]]
      BY <2>1 DEF Query
    <3>2. stable' \subseteq Rows
      BY <3>1, CallAssumption
    <3>3. delivered' \in Seq(Rows)
      BY <3>1
    <3> QED  BY <3>1, <3>2, <3>3
  <2>2. CASE cursor # NoCursor
    <3>1. UNCHANGED <<delivered, stable, ended>>
      BY <2>2 DEF Query
    <3> QED  BY <3>1 DEF TypeOK
  <2> QED  BY <2>1, <2>2
<1>5. UNCHANGED <<table, writes, failures, list, hasMore, cursor>>
  BY DEF Query
<1> QED  BY <1>2, <1>3, <1>4, <1>5 DEF TypeOK

LEMMA TypeReturn ==
    ASSUME TypeOK, PageInOrder, Return
    PROVE  TypeOK'
<1>1. call.call \in Call /\ call.size \in Nat \ {0} /\ pc # "idle"
  BY CallAssumption DEF TypeOK, Return
<1>2. delivered' \in Seq(Rows) /\ ended' \in BOOLEAN
  BY DEF Return, TypeOK
<1>3. UNCHANGED <<table, writes, failures, stable>> /\ Abandon("page")
  BY DEF Return
<1>4. ASSUME cursor' # NoCursor
      PROVE  /\ cursor'.scope = CursorScope(call.call)
             /\ cursor'.keys \in Key(OrdersOf[call.call])
  <2>1. /\ cursor'.scope = CursorScope(call.call)
        /\ cursor'.keys = keys
        /\ hasMore
    BY <1>4 DEF Return
  <2>2. Len(list) = call.size /\ keys = KeyOf(OrdersOf[call.call], list[call.size])
    BY <1>1, <2>1 DEF PageInOrder
  <2>3. list[call.size] \in Rows
    BY <1>1, <2>2 DEF TypeOK
  <2> QED  BY <1>1, <2>1, <2>2, <2>3, CallFacts, KeyOfType
<1> QED  BY <1>1, <1>2, <1>3, <1>4, TypeAbandon DEF TypeOK

\* Writes of other sessions keep the tie column unique.
LEMMA TypeWrite ==
    ASSUME TypeOK, Write
    PROVE  TypeOK'
<1>1. ASSUME NEW gone, NEW new, Touch(gone, new),
             (table \ gone) \cup new \in TablesOf(Rows)
      PROVE  TypeOK'
  BY <1>1 DEF Touch, callVars, TypeOK
<1>2. ASSUME NEW r \in Rows, Insert(r) PROVE TypeOK'
  <2>1. (table \ {}) \cup {r} \in TablesOf(Rows)
    BY <1>2 DEF Insert, TypeOK, TablesOf
  <2> QED  BY <1>1, <1>2, <2>1 DEF Insert
<1>3. ASSUME NEW r \in Rows, Delete(r) PROVE TypeOK'
  <2>1. (table \ {r}) \cup {} \in TablesOf(Rows)
    BY <1>3 DEF Delete, TypeOK, TablesOf
  <2> QED  BY <1>1, <1>3, <2>1 DEF Delete
<1>4. ASSUME NEW r \in Rows, NEW s \in Rows, Update(r, s) PROVE TypeOK'
  <2>1. (table \ {r}) \cup {s} \in TablesOf(Rows)
    BY <1>4 DEF Update, TypeOK, TablesOf
  <2> QED  BY <1>1, <1>4, <2>1 DEF Update
<1> QED  BY <1>2, <1>3, <1>4 DEF Write

LEMMA TypeNext == TypeOK /\ PageInOrder /\ [Next]_vars => TypeOK'
<1> SUFFICES ASSUME TypeOK, PageInOrder, [Next]_vars PROVE TypeOK'
  OBVIOUS
<1>1. ASSUME NEW c \in Call, NEW size \in Sizes, Refuse(c, size) PROVE TypeOK'
  BY <1>1, TypeAbandon DEF Refuse, traversal, TypeOK
<1>2. ASSUME NEW c \in Call, NEW size \in Sizes, Query(c, size) PROVE TypeOK'
  BY <1>2, TypeQuery
<1>3. ASSUME NEW x \in pending, TakeRow(x) PROVE TypeOK'
  <2>1. x.row \in Rows /\ list' = Append(list, x.row) /\ pending' \subseteq pending
    BY <1>3 DEF TakeRow, Receive, TypeOK
  <2>2. list' \in Seq(Rows)
    BY <2>1 DEF TypeOK
  <2>3. UNCHANGED <<table, writes, failures, pc, call, hasMore, traversal>>
    BY <1>3 DEF TakeRow
  <2> QED  BY <2>1, <2>2, <2>3 DEF TypeOK, traversal
<1>4. ASSUME NEW x \in pending, LookAhead(x) PROVE TypeOK'
  <2>1. /\ pending' \subseteq pending /\ pc' = "closed" /\ pc = "reading"
        /\ hasMore' \in BOOLEAN
    BY <1>4 DEF LookAhead, Receive
  <2>2. UNCHANGED <<table, writes, failures, call, list, traversal>>
    BY <1>4 DEF LookAhead
  <2> QED  BY <2>1, <2>2 DEF TypeOK, traversal
<1>5. CASE EndOfRows
  BY <1>5 DEF EndOfRows, TypeOK, traversal
<1>6. CASE Return
  BY <1>6, TypeReturn
<1>7. CASE RefuseToken
  BY <1>7, TypeAbandon DEF RefuseToken, traversal, TypeOK
<1>8. CASE Fail
  BY <1>8, TypeAbandon DEF Fail, traversal, TypeOK
<1>9. CASE Write
  BY <1>9, TypeWrite
<1>10. CASE UNCHANGED vars
  BY <1>10 DEF vars, callVars, traversal, TypeOK
<1> QED
  BY <1>1, <1>2, <1>3, <1>4, <1>5, <1>6, <1>7, <1>8, <1>9, <1>10
     DEF Next, Request, Serve
-------------------------------------------------------------------------------
(* The page stays in order.                                                *)

LEMMA PageQuery ==
    ASSUME IInv, NEW c \in Call, NEW size \in Sizes, Query(c, size)
    PROVE  PageInOrder'
<1> DEFINE orders == OrdersOf[c]
<1>1. /\ pc' = "reading" /\ call'.call = c /\ call'.size = size
      /\ pending' = ResultSet(c, size, cursor)
      /\ UNCHANGED <<list, keys, hasMore, cursor>>
      /\ scope' = CursorScope(c)
      /\ cursor = NoCursor => delivered' = <<>>
  BY DEF Query
<1>2. list = <<>> /\ ~hasMore /\ size \in Nat \ {0}
  BY CallAssumption DEF Query, EarlyError, IInv, PageInOrder
<1>3. table \in TablesOf(Rows) /\ \A x \in pending' : x.row \in Rows
  BY <1>1, SentRows DEF IInv, TypeOK, TablesOf
<1>4. cursor # NoCursor => cursor.keys \in Key(orders)
  BY Continues
<1>5. ASSUME NEW x \in pending', cursor # NoCursor
      PROVE  KeyAfter(orders, KeyOf(orders, x.row), cursor.keys)
  BY <1>1, <1>3, <1>4, <1>5, SentBeyond
<1>6. ASSUME NEW x \in pending', NEW y \in pending', x # y
      PROVE  x.row[Pk] # y.row[Pk]
  BY <1>1, <1>3, <1>4, <1>6, SentOnce
<1>7. Ascending(orders, <<>>)
  BY DEF Ascending
<1> QED  BY <1>1, <1>2, <1>5, <1>6, <1>7 DEF PageInOrder

LEMMA PageTakeRow ==
    ASSUME IInv, NEW x \in pending, TakeRow(x)
    PROVE  PageInOrder'
<1> DEFINE orders == OrdersOf[call.call]
           n == Len(list)
<1>1. /\ pc = "reading" /\ pc' = pc
      /\ n # call.size
      /\ list' = Append(list, x.row)
      /\ pending' = pending \ {x}
      /\ \A y \in pending : ~RowAfter(orders, x.row, y.row)
      /\ keys' = IF Len(list') = call.size THEN KeyOf(orders, x.row) ELSE keys
      /\ UNCHANGED <<call, hasMore, cursor, scope, delivered>>
  BY DEF TakeRow, Receive, traversal
<1>2. /\ call.call \in Call /\ call.size \in Nat /\ n \in Nat
      /\ list \in Seq(Rows) /\ x.row \in Rows
      /\ \A y \in pending : y.row \in Rows
  <2>1. list \in Seq(Rows) /\ \A y \in pending : y.row \in Rows
    BY DEF IInv, TypeOK
  <2>2. call \in [call : Call, size : Sizes \ {0}]
    BY <1>1 DEF IInv, TypeOK
  <2>3. call.call \in Call /\ call.size \in Nat
    BY <2>2, CallAssumption
  <2> QED  BY <2>1, <2>3
<1>3. /\ scope = CursorScope(call.call)
      /\ cursor = NoCursor => delivered = <<>>
      /\ Ascending(orders, list)
      /\ n <= call.size
      /\ ~hasMore
  BY <1>1 DEF IInv, PageInOrder
<1>4. \A i \in DOMAIN list : cursor # NoCursor =>
          KeyAfter(orders, KeyOf(orders, list[i]), cursor.keys)
  BY <1>1 DEF IInv, PageInOrder
<1>5. \A y \in pending :
        /\ cursor # NoCursor => KeyAfter(orders, KeyOf(orders, y.row), cursor.keys)
        /\ \A i \in DOMAIN list : RowAfter(orders, y.row, list[i])
        /\ \A z \in pending : y # z => y.row[Pk] # z.row[Pk]
  BY <1>1 DEF IInv, PageInOrder
<1>6. /\ Len(list') = n + 1 /\ DOMAIN list' = 1 .. (n + 1)
      /\ list'[n + 1] = x.row
      /\ \A i \in 1 .. n : i \in DOMAIN list /\ list'[i] = list[i]
  BY <1>1, <1>2
<1>7. Ascending(orders, list')
  <2> SUFFICES ASSUME NEW i \in DOMAIN list', NEW j \in DOMAIN list', i < j
               PROVE  RowAfter(orders, list'[j], list'[i])
    BY DEF Ascending
  <2>1. i \in 1 .. n
    BY <1>2, <1>6
  <2>2. CASE j \in 1 .. n
    BY <1>3, <1>6, <2>1, <2>2 DEF Ascending
  <2>3. CASE j = n + 1
    BY <1>5, <1>6, <2>1, <2>3
  <2> QED  BY <1>2, <1>6, <2>2, <2>3
<1>8. \A i \in DOMAIN list' : cursor # NoCursor =>
          KeyAfter(orders, KeyOf(orders, list'[i]), cursor.keys)
  BY <1>2, <1>4, <1>5, <1>6
<1>9. ASSUME NEW y \in pending', NEW i \in DOMAIN list'
      PROVE  RowAfter(orders, y.row, list'[i])
  <2>1. CASE i \in 1 .. n
    BY <1>1, <1>5, <1>6, <2>1
  <2>2. CASE i = n + 1
    BY <1>1, <1>2, <1>5, <1>6, <2>2, RowsOrdered
  <2> QED  BY <1>2, <1>6, <2>1, <2>2
<1>10. Len(list') <= call.size
  BY <1>1, <1>2, <1>3, <1>6
<1>11. Len(list') = call.size => keys' = KeyOf(orders, list'[call.size])
  BY <1>1, <1>6
<1> QED
  BY <1>1, <1>3, <1>5, <1>7, <1>8, <1>9, <1>10, <1>11 DEF PageInOrder

LEMMA PageNext == IInv /\ [Next]_vars => PageInOrder'
<1> SUFFICES ASSUME IInv, [Next]_vars PROVE PageInOrder'
  OBVIOUS
<1> USE DEF IInv
<1>1. ASSUME NEW reason, Abandon(reason) PROVE PageInOrder'
  BY <1>1 DEF Abandon, PageInOrder
<1>2. ASSUME NEW c \in Call, NEW size \in Sizes, Query(c, size) PROVE PageInOrder'
  BY <1>2, PageQuery
<1>3. ASSUME NEW x \in pending, TakeRow(x) PROVE PageInOrder'
  BY <1>3, PageTakeRow
<1>4. ASSUME NEW x \in pending, LookAhead(x) PROVE PageInOrder'
  <2>1. /\ pc = "reading" /\ pc' = "closed" /\ Len(list) = call.size
        /\ pending' \subseteq pending
        /\ UNCHANGED <<call, list, keys, cursor, scope, delivered>>
    BY <1>4 DEF LookAhead, Receive, traversal
  <2> QED  BY <2>1 DEF PageInOrder
<1>5. CASE EndOfRows
  <2>1. /\ pc = "reading" /\ pc' = "closed"
        /\ UNCHANGED <<call, pending, list, keys, hasMore, cursor, scope, delivered>>
    BY <1>5 DEF EndOfRows, traversal
  <2> QED  BY <2>1 DEF PageInOrder
<1>6. ASSUME UNCHANGED <<callVars, cursor, scope, delivered>> PROVE PageInOrder'
  BY <1>6 DEF PageInOrder, callVars
<1>7. CASE Write
  BY <1>6, <1>7 DEF Write, Insert, Delete, Update, Touch
<1>8. CASE UNCHANGED vars
  BY <1>6, <1>8 DEF vars, traversal
<1> QED
  BY <1>1, <1>2, <1>3, <1>4, <1>5, <1>7, <1>8
     DEF Next, Request, Serve, Refuse, Return, RefuseToken, Fail
-------------------------------------------------------------------------------
(* The traversal stays in order.                                           *)

\* A page returned continues what was delivered before it.
LEMMA DeliveredReturn ==
    ASSUME IInv, Return
    PROVE  DeliveredInOrder'
<1> DEFINE orders == OrdersOf[call.call]
           m == Len(delivered)
           n == Len(list)
<1>1. /\ pc # "idle" /\ call.call \in Call
      /\ delivered \in Seq(Rows) /\ list \in Seq(Rows)
      /\ delivered' = delivered \o list /\ scope' = scope
  BY DEF Return, IInv, TypeOK
<1>2. scope[1] = orders /\ orders \in Seq(Order)
  BY <1>1, CallFacts DEF IInv, PageInOrder, CursorScope
<1>3. Ascending(orders, list) /\ Ascending(orders, delivered)
  <2>1. Ascending(orders, <<>>)
    BY DEF Ascending
  <2> QED  BY <1>1, <1>2, <2>1 DEF IInv, PageInOrder, DeliveredInOrder
<1>4. ASSUME NEW i \in DOMAIN delivered, NEW j \in DOMAIN list
      PROVE  RowAfter(orders, list[j], delivered[i])
  <2> DEFINE last == delivered[m]
  <2>1. delivered # <<>> /\ m \in DOMAIN delivered /\ m \in Nat
    BY <1>1
  <2>2. cursor # NoCursor /\ cursor.keys = KeyOf(orders, last)
    BY <1>1, <1>2, <2>1 DEF IInv, PageInOrder, CursorIsLastDelivered
  <2>3. RowAfter(orders, list[j], last)
    BY <1>1, <2>2 DEF IInv, PageInOrder, RowAfter
  <2>4. CASE i = m
    BY <2>3, <2>4
  <2>5. CASE i # m
    <3>1. i < m
      BY <1>1, <2>5
    <3>2. RowAfter(orders, last, delivered[i])
      BY <1>3, <2>1, <3>1 DEF Ascending
    <3>3. list[j] \in Rows /\ last \in Rows /\ delivered[i] \in Rows
      BY <1>1, <2>1
    <3> QED  BY <1>2, <2>3, <3>2, <3>3, KeyOfType, KeyTransitive DEF RowAfter
  <2> QED  BY <2>4, <2>5
<1>5. Ascending(orders, delivered \o list)
  <2> SUFFICES ASSUME NEW i \in 1 .. (m + n), NEW j \in 1 .. (m + n), i < j
               PROVE  RowAfter(orders, (delivered \o list)[j], (delivered \o list)[i])
    BY <1>1 DEF Ascending
  <2>1. CASE j <= m
    BY <1>1, <1>3, <2>1 DEF Ascending
  <2>2. CASE i <= m /\ m < j
    <3>1. (delivered \o list)[i] = delivered[i] /\ i \in DOMAIN delivered
      BY <1>1, <2>2
    <3>2. (delivered \o list)[j] = list[j - m] /\ j - m \in DOMAIN list
      BY <1>1, <2>2
    <3> QED  BY <1>4, <3>1, <3>2
  <2>3. CASE m < i
    <3>1. (delivered \o list)[i] = list[i - m] /\ i - m \in DOMAIN list
      BY <1>1, <2>3
    <3>2. (delivered \o list)[j] = list[j - m] /\ j - m \in DOMAIN list
      BY <1>1, <2>3
    <3>3. i - m < j - m
      BY <1>1
    <3> QED  BY <1>3, <3>1, <3>2, <3>3 DEF Ascending
  <2> QED  BY <1>1, <2>1, <2>2, <2>3
<1> QED  BY <1>1, <1>2, <1>5 DEF DeliveredInOrder

LEMMA DeliveredNext == IInv /\ [Next]_vars => DeliveredInOrder'
<1> SUFFICES ASSUME IInv, [Next]_vars PROVE DeliveredInOrder'
  OBVIOUS
<1>1. ASSUME NEW c \in Call, NEW size \in Sizes, Query(c, size)
      PROVE  DeliveredInOrder'
  <2>1. CASE cursor = NoCursor
    BY <1>1, <2>1 DEF Query, DeliveredInOrder
  <2>2. CASE cursor # NoCursor
    <3>1. scope' = scope /\ delivered' = delivered
      BY <1>1, <2>2, Continues DEF Query
    <3> QED  BY <3>1 DEF IInv, DeliveredInOrder
  <2> QED  BY <2>1, <2>2
<1>2. CASE Return
  BY <1>2, DeliveredReturn
<1>3. ASSUME UNCHANGED <<scope, delivered>> PROVE DeliveredInOrder'
  BY <1>3 DEF IInv, DeliveredInOrder
<1> QED
  BY <1>1, <1>2, <1>3
     DEF Next, Request, Serve, Refuse, TakeRow, LookAhead, EndOfRows, RefuseToken,
         Fail, Write, Insert, Delete, Update, Touch, vars, traversal

LEMMA CursorNext == IInv /\ [Next]_vars => CursorIsLastDelivered'
<1> SUFFICES ASSUME IInv, [Next]_vars PROVE CursorIsLastDelivered'
  OBVIOUS
<1>1. ASSUME NEW c \in Call, NEW size \in Sizes, Query(c, size)
      PROVE  CursorIsLastDelivered'
  <2>1. CASE cursor = NoCursor
    BY <1>1, <2>1 DEF Query, CursorIsLastDelivered
  <2>2. CASE cursor # NoCursor
    <3>1. UNCHANGED <<scope, delivered, cursor>>
      BY <1>1, <2>2, Continues DEF Query
    <3> QED  BY <3>1 DEF IInv, CursorIsLastDelivered
  <2> QED  BY <2>1, <2>2
<1>2. CASE Return
  <2> SUFFICES ASSUME cursor' # NoCursor
               PROVE  /\ delivered' # <<>>
                      /\ cursor'.scope = scope'
                      /\ cursor'.keys =
                            KeyOf(scope[1], delivered'[Len(delivered')])
    BY <1>2 DEF Return, CursorIsLastDelivered
  <2>1. /\ hasMore /\ pc # "idle" /\ scope' = scope
        /\ cursor'.scope = CursorScope(call.call) /\ cursor'.keys = keys
        /\ delivered' = delivered \o list
    BY <1>2 DEF Return
  <2>2. call.size \in Nat \ {0} /\ list \in Seq(Rows) /\ delivered \in Seq(Rows)
    BY <2>1, CallAssumption DEF IInv, TypeOK
  <2>3. /\ scope = CursorScope(call.call) /\ Len(list) = call.size
        /\ keys = KeyOf(OrdersOf[call.call], list[call.size])
    BY <2>1 DEF IInv, PageInOrder
  <2>4. scope[1] = OrdersOf[call.call]
    BY <2>3 DEF CursorScope
  <2>5. /\ Len(delivered') = Len(delivered) + call.size
        /\ delivered'[Len(delivered')] = list[call.size]
    BY <2>1, <2>2, <2>3
  <2>6. delivered' # <<>>
    BY <2>1, <2>2, <2>5
  <2> QED  BY <2>1, <2>3, <2>4, <2>5, <2>6
<1>3. ASSUME UNCHANGED <<scope, delivered, cursor>> PROVE CursorIsLastDelivered'
  BY <1>3 DEF IInv, CursorIsLastDelivered
<1> QED
  BY <1>1, <1>2, <1>3
     DEF Next, Request, Serve, Refuse, TakeRow, LookAhead, EndOfRows, RefuseToken,
         Fail, Write, Insert, Delete, Update, Touch, vars, traversal

-------------------------------------------------------------------------------
(* The theorems.                                                           *)

\* The invariant holds in every reachable state.
THEOREM Inductive == Spec => []IInv
<1>1. Init => IInv
  <2>1. Init => PageInOrder /\ DeliveredInOrder /\ CursorIsLastDelivered
    BY DEF Init, PageInOrder, DeliveredInOrder, CursorIsLastDelivered
  <2> QED  BY <2>1, TypeInit DEF IInv
<1>2. IInv /\ [Next]_vars => IInv'
  BY TypeNext, PageNext, DeliveredNext, CursorNext DEF IInv
<1> QED  BY <1>1, <1>2, PTL DEF Spec

\* Types are kept, the table's unique tie column among them.
THEOREM TypeCorrect == Spec => []TypeOK
<1>1. IInv => TypeOK
  BY DEF IInv
<1> QED  BY <1>1, Inductive, PTL

\* While a page is read its rows come strictly forward from the cursor.
THEOREM PagesInOrder == Spec => []PageInOrder
<1>1. IInv => PageInOrder
  BY DEF IInv
<1> QED  BY <1>1, Inductive, PTL

\* No traversal delivers a row twice or out of order, whatever others write.
THEOREM TraversalInOrder == Spec => []DeliveredInOrder
<1>1. IInv => DeliveredInOrder
  BY DEF IInv
<1> QED  BY <1>1, Inductive, PTL

\* The token handed out is that of the last row delivered.
THEOREM TokenOfLastRow == Spec => []CursorIsLastDelivered
<1>1. IInv => CursorIsLastDelivered
  BY DEF IInv
<1> QED  BY <1>1, Inductive, PTL

\* What goes on from a cursor compares keys of the orders it reads in.
LEMMA CursorFits ==
    ASSUME IInv, Seeking
    PROVE  /\ OrdersOf[call.call] \in Seq(Order)
           /\ cursor.keys \in Key(OrdersOf[call.call])
<1>1. call.call \in Call /\ scope = CursorScope(call.call)
  BY DEF IInv, TypeOK, PageInOrder, Seeking
<1>2. PICK d \in Call :
        cursor.scope = CursorScope(d) /\ cursor.keys \in Key(OrdersOf[d])
  BY DEF IInv, TypeOK, Seeking
<1>3. cursor.scope = scope
  BY DEF IInv, CursorIsLastDelivered, Seeking
<1>4. OrdersOf[call.call] = OrdersOf[d]
  BY <1>1, <1>2, <1>3 DEF CursorScope
<1> QED  BY <1>1, <1>2, <1>4, CallFacts

\* A page that continues asks for exactly the rows after the cursor.
THEOREM AsksExactlyAfter == Spec => []SelectsExactlyAfter
<1>1. IInv => SelectsExactlyAfter
  BY CursorFits, KeyOfType, PredicatesExact DEF SelectsExactlyAfter
<1> QED  BY <1>1, Inductive, PTL

\* It asks for none of them twice.
THEOREM AsksForNoneTwice == Spec => []BranchesDisjoint
<1>1. IInv => BranchesDisjoint
  BY CursorFits, KeyOfType, PredicatesDisjoint DEF BranchesDisjoint
<1> QED  BY <1>1, Inductive, PTL

-------------------------------------------------------------------------------
(* Rows in order.                                                          *)

LEMMA AfterTransitive ==
    ASSUME NEW orders \in Seq(Order), NEW r \in Rows, NEW s \in Rows, NEW t \in Rows,
           RowAfter(orders, r, s), RowAfter(orders, s, t)
    PROVE  RowAfter(orders, r, t)
  BY KeyOfType, KeyTransitive DEF RowAfter

LEMMA AfterIrreflexive ==
    ASSUME NEW orders \in Seq(Order), NEW r \in Rows
    PROVE  ~RowAfter(orders, r, r)
  BY KeyOfType, KeyIrreflexive DEF RowAfter

Before(orders, rows, r) == {s \in rows : RowAfter(orders, r, s)}

LEMMA RowsFinite ==
    ASSUME NEW rows \in SUBSET Rows
    PROVE  IsFiniteSet(rows) /\ Cardinality(rows) \in Nat
  BY RowsAssumption, FS_Subset, FS_CardinalityType

\* Some row of a set follows none of it: one that the fewest rows precede.
LEMMA FirstOf ==
    ASSUME NEW orders \in Seq(Order), NEW rows \in SUBSET Rows, rows # {}
    PROVE  \E m \in rows : \A x \in rows : ~RowAfter(orders, m, x)
<1> DEFINE Rank(r) == Cardinality(Before(orders, rows, r))
           ranks == {Rank(r) : r \in rows}
<1>1. \A r \in rows : Rank(r) \in Nat
  BY RowsFinite DEF Before
<1>2. ranks # {} /\ ranks \subseteq Nat
  BY <1>1
<1>3. PICK k \in ranks : \A j \in ranks : <<j, k>> \notin OpToRel(<, Nat)
  BY <1>2, NatLessThanWellFounded, WFMin
<1>4. PICK m \in rows : k = Rank(m)
  BY <1>3
<1>5. ASSUME NEW x \in rows, RowAfter(orders, m, x) PROVE FALSE
  <2>1. Before(orders, rows, x) \subseteq Before(orders, rows, m)
    BY <1>5, AfterTransitive DEF Before
  <2>2. x \in Before(orders, rows, m) /\ x \notin Before(orders, rows, x)
    BY <1>5, AfterIrreflexive DEF Before
  <2>3. IsFiniteSet(Before(orders, rows, m))
    BY RowsFinite DEF Before
  <2>4. Rank(x) <= Rank(m) /\ Rank(x) # Rank(m)
    BY <2>1, <2>2, <2>3, FS_Subset
  <2>5. Rank(x) \in Nat /\ Rank(m) \in Nat /\ Rank(x) \in ranks
    BY <1>1
  <2>6. <<Rank(x), k>> \in OpToRel(<, Nat)
    BY <1>4, <2>4, <2>5 DEF OpToRel
  <2> QED  BY <1>3, <2>5, <2>6
<1> QED  BY <1>5

\* What a LIMIT cuts off is preceded by as many rows as it lets through: the
\* first row before it that was cut off would have too few rows before it.
LEMMA LimitedEnough ==
    ASSUME NEW orders \in Seq(Order), NEW rows \in SUBSET Rows, NEW n \in Nat,
           NEW r \in rows, r \notin Limited(orders, rows, n)
    PROVE  Cardinality(Before(orders, Limited(orders, rows, n), r)) >= n
<1> DEFINE sent == Before(orders, Limited(orders, rows, n), r)
           cut == Before(orders, rows, r) \ sent
<1>1. sent \subseteq Before(orders, rows, r) /\ sent \in SUBSET Rows /\ cut \in SUBSET Rows
  BY DEF Before, Limited
<1>2. Cardinality(sent) \in Nat /\ IsFiniteSet(sent)
  BY <1>1, RowsFinite
<1>3. ~(Cardinality(Before(orders, rows, r)) < n)
  BY DEF Limited, Before
<1>4. CASE cut = {}
  <2>1. sent = Before(orders, rows, r)
    BY <1>1, <1>4
  <2> QED  BY <1>2, <1>3, <2>1
<1>5. CASE cut # {}
  <2>1. PICK m \in cut : \A x \in cut : ~RowAfter(orders, m, x)
    BY <1>1, <1>5, FirstOf
  <2>2. m \in rows /\ RowAfter(orders, r, m) /\ m \notin Limited(orders, rows, n)
    BY DEF Before
  <2>3. Before(orders, rows, m) \subseteq sent
    <3> SUFFICES ASSUME NEW x \in rows, RowAfter(orders, m, x) PROVE x \in sent
      BY DEF Before
    <3>1. RowAfter(orders, r, x)
      BY <2>2, AfterTransitive
    <3> QED  BY <2>1, <3>1 DEF Before
  <2>4. Cardinality(Before(orders, rows, m)) <= Cardinality(sent)
    BY <1>2, <2>3, FS_Subset
  <2>5. ~(Cardinality(Before(orders, rows, m)) < n)
    BY <2>2 DEF Limited, Before
  <2>6. Cardinality(Before(orders, rows, m)) \in Nat
    BY RowsFinite DEF Before
  <2> QED  BY <1>2, <2>4, <2>5, <2>6
<1> QED  BY <1>4, <1>5

\* A sequence has no more rows than its length.
LEMMA RowsOfList ==
    ASSUME NEW s \in Seq(Rows)
    PROVE  /\ {s[i] : i \in DOMAIN s} \in SUBSET Rows
           /\ Cardinality({s[i] : i \in DOMAIN s}) <= Len(s)
<1> DEFINE S == {s[i] : i \in DOMAIN s}
<1>1. S \in SUBSET Rows /\ Len(s) \in Nat /\ DOMAIN s = 1 .. Len(s)
  OBVIOUS
<1>2. s \in Surjection(1 .. Len(s), S)
  BY <1>1 DEF Surjection
<1>3. ExistsSurjection(1 .. Len(s), S)
  BY <1>2 DEF ExistsSurjection
<1> QED  BY <1>1, <1>3, FS_SurjCardinalityBound

-------------------------------------------------------------------------------
(* The inductive invariant.                                                *)

Listed == {list[i] : i \in DOMAIN list}

\* The rows the page being read owes its caller.
Due(r) ==
    cursor # NoCursor =>
        KeyAfter(OrdersOf[call.call], KeyOf(OrdersOf[call.call], r), cursor.keys)

\* A row nobody touched is still in the table, and the filter of the
\* traversal keeps it.
StableStays ==
    stable # {} => stable \subseteq table \cap Matches[scope[2]]

\* More rows than the page has room for come before r and are read or sent.
Crowded(r) ==
    Cardinality(Before(OrdersOf[call.call], Listed \cup Sent, r)) > call.size

\* No row due is lost while a page is read.
Covered ==
    pc # "idle" =>
        \A r \in stable : Due(r) =>
            \/ r \in Listed
            \/ pc = "reading" /\ (r \in Sent \/ Crowded(r))
            \/ pc = "closed" /\ hasMore
                 /\ RowAfter(OrdersOf[call.call], r, list[call.size])

TInv ==
    /\ IInv
    /\ StableStays
    /\ Covered
    /\ NothingSkipped

\* What a call that is being served is made of.
LEMMA Serving ==
    ASSUME IInv, pc # "idle"
    PROVE  /\ call.call \in Call /\ call.size \in Nat /\ call.size > 0
           /\ OrdersOf[call.call] \in Seq(Order)
           /\ list \in Seq(Rows) /\ Len(list) \in Nat /\ Len(list) <= call.size
           /\ stable \subseteq Rows /\ Sent \subseteq Rows /\ Listed \subseteq Rows
           /\ scope = CursorScope(call.call) /\ scope[1] = OrdersOf[call.call]
<1>1. /\ call \in [call : Call, size : Sizes \ {0}]
      /\ list \in Seq(Rows) /\ stable \subseteq Rows
      /\ \A x \in pending : x.row \in Rows
  BY DEF IInv, TypeOK
<1>2. call.call \in Call /\ call.size \in Nat \ {0}
  BY <1>1, CallAssumption
<1>3. Len(list) <= call.size /\ scope = CursorScope(call.call)
  BY DEF IInv, PageInOrder
<1>4. OrdersOf[call.call] \in Seq(Order)
  BY <1>2, CallFacts
<1>5. Sent \subseteq Rows /\ Listed \subseteq Rows
  BY <1>1 DEF Sent, Listed
<1> QED  BY <1>1, <1>2, <1>3, <1>4, <1>5 DEF CursorScope

-------------------------------------------------------------------------------
(* A statement leaves out no row that is due.                              *)

LEMMA StaysQuery ==
    ASSUME TInv, NEW c \in Call, NEW size \in Sizes, Query(c, size)
    PROVE  stable' \subseteq table \cap Matches[ArgsOf[c]] /\ scope' = CursorScope(c)
<1>1. scope' = CursorScope(c)
  BY DEF Query
<1>2. CASE cursor = NoCursor
  BY <1>1, <1>2 DEF Query
<1>3. CASE cursor # NoCursor
  <2>1. scope = CursorScope(c) /\ stable' = stable
    BY <1>3, Continues DEF Query, TInv
  <2>2. scope[2] = ArgsOf[c]
    BY <2>1 DEF CursorScope
  <2> QED  BY <1>1, <2>1, <2>2 DEF TInv, StableStays
<1> QED  BY <1>2, <1>3

\* The rows a call that goes on from the cursor can have.
Remaining(c) ==
    {r \in table \cap Matches[ArgsOf[c]] :
        cursor # NoCursor => KeyAfter(OrdersOf[c], KeyOf(OrdersOf[c], r), cursor.keys)}

SentFor(c, size) == {x.row : x \in ResultSet(c, size, cursor)}

\* Only such rows are sent.
LEMMA SentRemaining ==
    ASSUME IInv, NEW c \in Call, NEW size \in Sizes, Query(c, size)
    PROVE  /\ SentFor(c, size) \subseteq Remaining(c)
           /\ Remaining(c) \in SUBSET Rows /\ SentFor(c, size) \in SUBSET Rows
<1>1. Remaining(c) \in SUBSET Rows
  BY CallAssumption DEF Remaining
<1>2. ASSUME NEW x \in ResultSet(c, size, cursor) PROVE x.row \in Remaining(c)
  <2>1. x.row \in table \cap Matches[ArgsOf[c]] /\ x.row \in Rows
    BY SentRows, CallAssumption
  <2>2. cursor # NoCursor => cursor.keys \in Key(OrdersOf[c])
    BY Continues
  <2> QED  BY <2>1, <2>2, SentBeyond DEF Remaining
<1> QED  BY <1>1, <1>2 DEF SentFor

\* Some branch asks for each of them.
LEMMA SomeBranch ==
    ASSUME IInv, NEW c \in Call, NEW size \in Sizes, Query(c, size),
           NEW r \in Remaining(c)
    PROVE  \E b \in Branches(OrdersOf[c], cursor) : r \in BranchRows(c, b, cursor)
<1>1. r \in table \cap Matches[ArgsOf[c]]
  BY DEF Remaining
<1>2. CASE cursor = NoCursor
  BY <1>1, <1>2 DEF Branches, BranchRows
<1>3. CASE cursor # NoCursor
  <2>1. cursor.keys \in Key(OrdersOf[c])
    BY <1>3, Continues
  <2>2. r \in Rows
    BY <1>1, CallAssumption
  <2>3. PICK p \in AfterPredicates(OrdersOf[c], cursor.keys) :
          Satisfies(p, OrdersOf[c], cursor.keys, KeyOf(OrdersOf[c], r))
    BY <1>3, <2>1, <2>2, CallFacts, KeyOfType, PredicateComplete DEF Remaining
  <2> QED  BY <1>1, <1>3, <2>3 DEF Branches, BranchRows
<1> QED  BY <1>2, <1>3

\* It sends the row, or more rows before it than a page holds.
LEMMA SentOrCrowded ==
    ASSUME IInv, NEW c \in Call, NEW size \in Sizes, Query(c, size),
           NEW r \in Remaining(c)
    PROVE  \/ r \in SentFor(c, size)
           \/ Cardinality(Before(OrdersOf[c], SentFor(c, size), r)) > size
<1> DEFINE orders == OrdersOf[c]
           sent == SentFor(c, size)
<1>1. /\ size \in Nat /\ PageLimit(size) \in Nat /\ PageLimit(size) > size
      /\ orders \in Seq(Order) /\ sent \subseteq Rows
  BY CallAssumption, CallFacts, SentRemaining DEF PageLimit
<1>2. PICK b \in Branches(orders, cursor) : r \in BranchRows(c, b, cursor)
  BY SomeBranch
<1> DEFINE rows == BranchRows(c, b, cursor)
           some == Limited(orders, rows, PageLimit(size))
<1>3. rows \in SUBSET Rows
  BY CallAssumption DEF BranchRows
<1>4. some \subseteq sent
  <2> SUFFICES ASSUME NEW s \in some PROVE s \in sent
    OBVIOUS
  <2>1. [branch |-> b, row |-> s] \in ResultSet(c, size, cursor)
    BY <1>2 DEF ResultSet
  <2>2. [branch |-> b, row |-> s].row = s
    OBVIOUS
  <2> QED  BY <2>1, <2>2 DEF SentFor
<1>5. CASE r \in some
  BY <1>4, <1>5
<1>6. CASE r \notin some
  <2>1. Cardinality(Before(orders, some, r)) >= PageLimit(size)
    BY <1>1, <1>2, <1>3, <1>6, LimitedEnough
  <2>2. Before(orders, some, r) \subseteq Before(orders, sent, r)
    BY <1>4 DEF Before
  <2>3. Before(orders, sent, r) \in SUBSET Rows
    BY <1>1 DEF Before
  <2>4. /\ IsFiniteSet(Before(orders, sent, r))
        /\ Cardinality(Before(orders, sent, r)) \in Nat
    BY <2>3, RowsFinite
  <2>5. Before(orders, some, r) \in SUBSET Rows
    BY <2>2, <2>3
  <2>6. Cardinality(Before(orders, some, r)) \in Nat
    BY <2>5, RowsFinite
  <2>7. Cardinality(Before(orders, some, r)) <= Cardinality(Before(orders, sent, r))
    BY <2>2, <2>4, FS_Subset
  <2> QED  BY <1>1, <2>1, <2>4, <2>6, <2>7
<1> QED  BY <1>5, <1>6

LEMMA CoveredQuery ==
    ASSUME TInv, NEW c \in Call, NEW size \in Sizes, Query(c, size)
    PROVE  Covered'
<1>1. /\ pc' = "reading" /\ call'.call = c /\ call'.size = size
      /\ Sent' = SentFor(c, size) /\ cursor' = cursor /\ list' = list
  BY DEF Query, Sent, SentFor
<1>2. Listed' = {}
  <2>1. list' = <<>>
    BY DEF Query, TInv, IInv, PageInOrder
  <2> QED  BY <2>1 DEF Listed
<1>3. ASSUME NEW r \in stable', Due(r)' PROVE r \in Sent' \/ Crowded(r)'
  <2>1. r \in Remaining(c)
    BY <1>1, <1>3, StaysQuery DEF Due, Remaining
  <2>2. \/ r \in SentFor(c, size)
        \/ Cardinality(Before(OrdersOf[c], SentFor(c, size), r)) > size
    BY <2>1, SentOrCrowded DEF TInv
  <2>3. Listed' \cup Sent' = SentFor(c, size)
    BY <1>1, <1>2
  <2> QED  BY <1>1, <2>2, <2>3 DEF Crowded
<1> QED  BY <1>1, <1>3 DEF Covered

-------------------------------------------------------------------------------
(* Reading the rows loses none.                                            *)

\* A row taken moves from what is to be sent to the list.
LEMMA CoveredTakeRow ==
    ASSUME TInv, NEW x \in pending, TakeRow(x)
    PROVE  Covered'
<1>1. /\ pc = "reading" /\ pc' = "reading"
      /\ list' = Append(list, x.row) /\ pending' = pending \ {x}
      /\ UNCHANGED <<call, cursor, stable>>
  BY DEF TakeRow, Receive, traversal
<1>2. list \in Seq(Rows) /\ x.row \in Rows
  BY DEF TInv, IInv, TypeOK
<1>3. /\ Len(list') = Len(list) + 1 /\ DOMAIN list' = 1 .. (Len(list) + 1)
      /\ DOMAIN list = 1 .. Len(list) /\ Len(list) \in Nat
      /\ list'[Len(list) + 1] = x.row
      /\ \A i \in 1 .. Len(list) : list'[i] = list[i]
  BY <1>1, <1>2
<1>4. Listed' = Listed \cup {x.row}
  BY <1>3 DEF Listed
<1>5. Sent \subseteq Sent' \cup {x.row} /\ Sent' \subseteq Sent /\ x.row \in Sent
  BY <1>1 DEF Sent
<1>6. Listed' \cup Sent' = Listed \cup Sent
  BY <1>4, <1>5
<1>7. ASSUME NEW r \in stable', Due(r)'
      PROVE  r \in Listed' \/ r \in Sent' \/ Crowded(r)'
  <2>1. r \in stable /\ Due(r)
    BY <1>1, <1>7 DEF Due
  <2>2. r \in Listed \/ r \in Sent \/ Crowded(r)
    BY <1>1, <2>1 DEF TInv, Covered
  <2>3. CASE Crowded(r)
    BY <1>1, <1>6, <2>3 DEF Crowded
  <2> QED  BY <1>4, <1>5, <2>2, <2>3
<1> QED  BY <1>1, <1>7 DEF Covered

\* A row before which more come than the page holds has one of them still to
\* be sent.
LEMMA OneIsToCome ==
    ASSUME IInv, pc # "idle", NEW r, Crowded(r)
    PROVE  \E s \in Sent : RowAfter(OrdersOf[call.call], r, s)
<1> SUFFICES ASSUME \A s \in Sent : ~RowAfter(OrdersOf[call.call], r, s)
             PROVE  FALSE
  OBVIOUS
<1> DEFINE few == Before(OrdersOf[call.call], Listed \cup Sent, r)
<1>1. few \subseteq Listed
  BY DEF Before
<1>2. Listed \in SUBSET Rows /\ Cardinality(Listed) <= Len(list)
  BY Serving, RowsOfList DEF Listed
<1>3. IsFiniteSet(Listed) /\ Cardinality(Listed) \in Nat
  BY <1>2, RowsFinite
<1>4. few \in SUBSET Rows
  BY <1>1, <1>2
<1>5. Cardinality(few) \in Nat
  BY <1>4, RowsFinite
<1>6. Cardinality(few) <= Cardinality(Listed)
  BY <1>1, <1>3, FS_Subset
<1>7. Len(list) \in Nat /\ Len(list) <= call.size /\ call.size \in Nat
  BY Serving
<1> QED  BY <1>2, <1>3, <1>5, <1>6, <1>7 DEF Crowded

\* What is still to be sent comes after the last row of the full page.
LEMMA CoveredLookAhead ==
    ASSUME TInv, NEW x \in pending, LookAhead(x)
    PROVE  Covered'
<1> DEFINE orders == OrdersOf[call.call]
           last == list[call.size]
<1>1. /\ pc = "reading" /\ pc' = "closed" /\ hasMore'
      /\ Len(list) = call.size
      /\ UNCHANGED <<call, list, cursor, stable>>
  BY DEF LookAhead, Receive, traversal
<1>2. /\ IInv /\ call.size \in Nat /\ call.size > 0 /\ orders \in Seq(Order)
      /\ list \in Seq(Rows) /\ stable \subseteq Rows /\ Sent \subseteq Rows
  BY <1>1, Serving DEF TInv
<1>3. call.size \in DOMAIN list /\ last \in Rows
  BY <1>1, <1>2
<1>4. \A s \in Sent : RowAfter(orders, s, last)
  BY <1>1, <1>2, <1>3 DEF IInv, PageInOrder, Sent
<1>5. ASSUME NEW r \in stable', Due(r)'
      PROVE  r \in Listed' \/ RowAfter(orders, r, last)
  <2>1. r \in stable /\ Due(r) /\ r \in Rows
    BY <1>1, <1>2, <1>5 DEF Due
  <2>2. r \in Listed \/ r \in Sent \/ Crowded(r)
    BY <1>1, <2>1 DEF TInv, Covered
  <2>3. CASE r \in Listed
    BY <1>1, <2>3 DEF Listed
  <2>4. CASE r \in Sent
    BY <1>4, <2>4
  <2>5. CASE Crowded(r)
    <3>1. PICK s \in Sent : RowAfter(orders, r, s)
      BY <1>1, <1>2, <2>5, OneIsToCome
    <3> QED  BY <1>2, <1>3, <1>4, <2>1, <3>1, AfterTransitive
  <2> QED  BY <2>2, <2>3, <2>4, <2>5
<1> QED  BY <1>1, <1>5 DEF Covered

\* When nothing is left to send, every row due is in the list.
LEMMA CoveredEndOfRows ==
    ASSUME TInv, EndOfRows
    PROVE  Covered'
<1>1. /\ pc = "reading" /\ pc' = "closed"
      /\ UNCHANGED <<call, list, cursor, stable>>
      /\ pending = {} \/ Len(list) = PageLimit(call.size)
  BY DEF EndOfRows, traversal
<1>2. IInv /\ Len(list) <= call.size /\ call.size \in Nat
  BY <1>1, Serving DEF TInv
<1>3. Sent = {}
  BY <1>1, <1>2 DEF PageLimit, Sent
<1>4. ASSUME NEW r \in stable', Due(r)' PROVE r \in Listed'
  <2>1. r \in stable /\ Due(r)
    BY <1>1, <1>4 DEF Due
  <2>2. r \in Listed \/ r \in Sent \/ Crowded(r)
    BY <1>1, <2>1 DEF TInv, Covered
  <2>3. ~Crowded(r)
    BY <1>1, <1>2, <1>3, OneIsToCome
  <2> QED  BY <1>1, <1>3, <2>2, <2>3 DEF Listed
<1> QED  BY <1>1, <1>4 DEF Covered

-------------------------------------------------------------------------------
(* Between pages.                                                          *)

\* Every row due was in the page, or comes after the row the cursor is at.
LEMMA SkippedReturn ==
    ASSUME TInv, Return
    PROVE  NothingSkipped'
<1> DEFINE orders == OrdersOf[call.call]
<1>1. /\ pc = "closed" /\ UNCHANGED <<scope, stable>>
      /\ delivered' = delivered \o list
      /\ ended' = ~hasMore
      /\ hasMore => cursor' = [scope |-> CursorScope(call.call), keys |-> keys]
      /\ ~hasMore => cursor' = NoCursor
  BY DEF Return
<1>2. /\ scope[1] = orders /\ call.size \in Nat
      /\ list \in Seq(Rows) /\ stable \subseteq Rows
  BY <1>1, Serving DEF TInv
<1>3. delivered \in Seq(Rows)
  BY DEF TInv, IInv, TypeOK
<1>4. hasMore => keys = KeyOf(orders, list[call.size])
  BY <1>1 DEF TInv, IInv, PageInOrder
<1> SUFFICES ASSUME NEW r \in stable,
                    ~(\E i \in DOMAIN delivered' : delivered'[i] = r)
             PROVE  \/ ~ended' /\ cursor' = NoCursor
                    \/ /\ cursor' # NoCursor
                       /\ KeyAfter(orders, KeyOf(orders, r), cursor'.keys)
  BY <1>1, <1>2 DEF NothingSkipped
<1>5. r \notin Listed
  <2> SUFFICES ASSUME NEW i \in DOMAIN list, list[i] = r PROVE FALSE
    BY DEF Listed
  <2>1. /\ Len(delivered) + i \in DOMAIN delivered'
        /\ delivered'[Len(delivered) + i] = r
    BY <1>1, <1>2, <1>3
  <2> QED  BY <2>1
<1>6. ~(\E i \in DOMAIN delivered : delivered[i] = r)
  <2> SUFFICES ASSUME NEW i \in DOMAIN delivered, delivered[i] = r PROVE FALSE
    OBVIOUS
  <2>1. i \in DOMAIN delivered' /\ delivered'[i] = r
    BY <1>1, <1>2, <1>3
  <2> QED  BY <2>1
<1>7. Due(r)
  BY <1>2, <1>6 DEF TInv, NothingSkipped, Due
<1>8. hasMore /\ RowAfter(orders, r, list[call.size])
  BY <1>1, <1>5, <1>7 DEF TInv, Covered
<1>9. ~ended'
  BY <1>1, <1>8
<1>10. cursor'.keys = keys
  BY <1>1, <1>8
<1> QED  BY <1>4, <1>8, <1>9, <1>10 DEF RowAfter

\* A row a statement starts with is not lost by it.
LEMMA SkippedQuery ==
    ASSUME TInv, NEW c \in Call, NEW size \in Sizes, Query(c, size)
    PROVE  NothingSkipped'
<1>1. CASE cursor = NoCursor
  BY <1>1 DEF Query, NothingSkipped
<1>2. CASE cursor # NoCursor
  <2>1. UNCHANGED <<scope, delivered, stable, ended, cursor>>
    BY <1>2, Continues DEF Query, TInv
  <2> QED  BY <2>1 DEF TInv, NothingSkipped
<1> QED  BY <1>1, <1>2

\* Others' writes take rows from the table and from the stable ones alike.
LEMMA AfterWrite ==
    ASSUME TInv, Write
    PROVE  StableStays' /\ Covered' /\ NothingSkipped'
<1>1. PICK gone, new : Touch(gone, new)
  BY DEF Write, Insert, Delete, Update
<1>2. /\ table' = (table \ gone) \cup new /\ stable' = stable \ gone
      /\ UNCHANGED <<pc, call, pending, list, hasMore, cursor, scope, delivered, ended>>
  BY <1>1 DEF Touch, callVars
<1>3. StableStays'
  BY <1>2 DEF TInv, StableStays
<1>4. Covered'
  BY <1>2 DEF TInv, Covered, Due, Crowded, Sent, Listed
<1>5. NothingSkipped'
  BY <1>2 DEF TInv, NothingSkipped
<1> QED  BY <1>3, <1>4, <1>5

LEMMA TraversalNext == TInv /\ [Next]_vars => TInv'
<1> SUFFICES ASSUME TInv, [Next]_vars PROVE TInv'
  OBVIOUS
<1>1. IInv'
  BY TypeNext, PageNext, DeliveredNext, CursorNext DEF TInv, IInv
<1>2. ASSUME NEW c \in Call, NEW size \in Sizes, Query(c, size) PROVE TInv'
  <2>1. /\ stable' \subseteq table \cap Matches[ArgsOf[c]]
        /\ scope' = CursorScope(c) /\ table' = table
    BY <1>2, StaysQuery DEF Query
  <2>2. StableStays'
    BY <2>1 DEF StableStays, CursorScope
  <2> QED  BY <1>1, <1>2, <2>2, CoveredQuery, SkippedQuery DEF TInv
<1>3. ASSUME UNCHANGED <<table, stable, scope>> PROVE StableStays'
  BY <1>3 DEF TInv, StableStays
<1>4. ASSUME UNCHANGED traversal PROVE NothingSkipped'
  BY <1>4 DEF TInv, NothingSkipped, traversal
<1>5. ASSUME NEW x \in pending, TakeRow(x) PROVE TInv'
  BY <1>1, <1>3, <1>4, <1>5, CoveredTakeRow DEF TakeRow, traversal, TInv
<1>6. ASSUME NEW x \in pending, LookAhead(x) PROVE TInv'
  BY <1>1, <1>3, <1>4, <1>6, CoveredLookAhead DEF LookAhead, traversal, TInv
<1>7. CASE EndOfRows
  BY <1>1, <1>3, <1>4, <1>7, CoveredEndOfRows DEF EndOfRows, traversal, TInv
<1>8. ASSUME NEW reason, Abandon(reason) PROVE Covered'
  BY <1>8 DEF Abandon, Covered
<1>9. CASE Return
  BY <1>1, <1>3, <1>8, <1>9, SkippedReturn DEF Return, TInv
<1>10. ASSUME NEW reason, Abandon(reason), UNCHANGED <<table, traversal>>
       PROVE  TInv'
  BY <1>1, <1>3, <1>4, <1>8, <1>10 DEF traversal, TInv
<1>11. CASE Write
  BY <1>1, <1>11, AfterWrite DEF TInv
<1>12. CASE UNCHANGED vars
  <2>1. UNCHANGED <<table, traversal>> /\ UNCHANGED <<pc, call, pending, list, hasMore>>
    BY <1>12 DEF vars, callVars
  <2>2. Covered'
    BY <2>1 DEF TInv, Covered, Due, Crowded, Sent, Listed, traversal
  <2> QED  BY <1>1, <1>3, <1>4, <2>1, <2>2 DEF traversal, TInv
<1> QED
  BY <1>2, <1>5, <1>6, <1>7, <1>9, <1>10, <1>11, <1>12
     DEF Next, Request, Serve, Refuse, RefuseToken, Fail

-------------------------------------------------------------------------------
(* The theorem.                                                            *)

\* A row nobody touched since the traversal started has been delivered or is
\* still ahead of the cursor, and at the end it has been delivered, whatever
\* others write, however large the pages and wherever a call fails.
THEOREM TraversalComplete == Spec => []NothingSkipped
<1>1. Init => TInv
  <2>1. Init => IInv
    BY TypeInit DEF Init, IInv, PageInOrder, DeliveredInOrder, CursorIsLastDelivered
  <2>2. Init => StableStays /\ Covered /\ NothingSkipped
    BY DEF Init, StableStays, Covered, NothingSkipped
  <2> QED  BY <2>1, <2>2 DEF TInv
<1>2. TInv => NothingSkipped
  BY DEF TInv
<1> QED  BY <1>1, <1>2, TraversalNext, PTL DEF Spec

-------------------------------------------------------------------------------
(* The pages are those of CursorPages.                                     *)

\* A page that no row follows has been read to the end.
Drained == pc = "closed" /\ ~hasMore => pending = {}

LEMMA DrainedNext == IInv /\ Drained /\ [Next]_vars => Drained'
<1> SUFFICES ASSUME IInv, Drained, [Next]_vars PROVE Drained'
  OBVIOUS
<1>1. ASSUME NEW c \in Call, NEW size \in Sizes, Query(c, size) PROVE Drained'
  BY <1>1 DEF Query, Drained
<1>2. ASSUME NEW x \in pending, TakeRow(x) PROVE Drained'
  BY <1>2 DEF TakeRow, Receive, Drained
<1>3. ASSUME NEW x \in pending, LookAhead(x) PROVE Drained'
  BY <1>3 DEF LookAhead, Drained
<1>4. CASE EndOfRows
  <2>1. Len(list) <= call.size /\ call.size \in Nat /\ Len(list) \in Nat
    BY <1>4, Serving DEF EndOfRows
  <2> QED  BY <1>4, <2>1 DEF EndOfRows, PageLimit, Drained
<1>5. ASSUME NEW reason, Abandon(reason) PROVE Drained'
  BY <1>5 DEF Abandon, Drained
<1>6. ASSUME UNCHANGED callVars PROVE Drained'
  BY <1>6 DEF callVars, Drained
<1> QED
  BY <1>1, <1>2, <1>3, <1>4, <1>5, <1>6
     DEF Next, Request, Serve, Refuse, Return, RefuseToken, Fail,
         Write, Insert, Delete, Update, Touch, vars

\* CursorPages compares rows as CursorTraversal does.
LEMMA SameOrder ==
    ASSUME NEW orders, NEW r, NEW s
    PROVE  /\ Pages!RowAfter(orders, r, s) <=> RowAfter(orders, r, s)
           /\ Pages!KeyOf(orders, r) = KeyOf(orders, r)
  BY DEF Pages!RowAfter, RowAfter, Pages!KeyAfter, KeyAfter, Pages!KeyOf, KeyOf,
         Pages!CellAfter, CellAfter, Pages!Follows, Follows,
         Pages!PgNullsFirst, PgNullsFirst

LEMMA SameKeyOrder ==
    ASSUME NEW orders, NEW a, NEW b
    PROVE  Pages!KeyAfter(orders, a, b) <=> KeyAfter(orders, a, b)
  BY DEF Pages!KeyAfter, KeyAfter, Pages!CellAfter, CellAfter, Pages!Follows, Follows,
         Pages!PgNullsFirst, PgNullsFirst

LEMMA SameCount ==
    ASSUME NEW S
    PROVE  Pages!Cardinality(S) = Cardinality(S)
  BY DEF Pages!Cardinality, Cardinality

LEMMA SameFirst ==
    ASSUME NEW orders, NEW rows, NEW n
    PROVE  Pages!FirstRows(orders, rows, n) = Limited(orders, rows, n)
<1>1. \A r : {s \in rows : Pages!RowAfter(orders, r, s)}
                = {s \in rows : RowAfter(orders, r, s)}
  BY SameOrder
<1>2. \A r : Pages!Cardinality({s \in rows : Pages!RowAfter(orders, r, s)})
                = Cardinality({s \in rows : RowAfter(orders, r, s)})
  BY <1>1, SameCount
<1> QED  BY <1>2 DEF Pages!FirstRows, Limited

-------------------------------------------------------------------------------
(* What a page is made of.                                                 *)

\* A LIMIT on what was sent gives the rows a LIMIT on the whole would have
\* given, and tells as well whether there are more.
LEMMA SentIsEnough ==
    ASSUME IInv, NEW c \in Call, NEW size \in Sizes, Query(c, size)
    PROVE  LET sent == SentFor(c, size)
               rest == Remaining(c)
           IN  /\ Limited(OrdersOf[c], sent, size) = Limited(OrdersOf[c], rest, size)
               /\ Cardinality(sent) > size <=> Cardinality(rest) > size
<1> DEFINE orders == OrdersOf[c]
           sent == SentFor(c, size)
           rest == Remaining(c)
<1>1. /\ sent \subseteq rest /\ sent \in SUBSET Rows /\ rest \in SUBSET Rows
      /\ orders \in Seq(Order) /\ size \in Nat
  BY SentRemaining, CallFacts, CallAssumption
<1>2. /\ IsFiniteSet(sent) /\ IsFiniteSet(rest)
      /\ Cardinality(sent) \in Nat /\ Cardinality(rest) \in Nat
  BY <1>1, RowsFinite
<1>3. \A r : /\ Before(orders, sent, r) \subseteq Before(orders, rest, r)
             /\ Before(orders, sent, r) \subseteq sent
             /\ Before(orders, sent, r) \in SUBSET Rows
             /\ Before(orders, rest, r) \in SUBSET Rows
  BY <1>1 DEF Before
<1>4. \A r : /\ Cardinality(Before(orders, sent, r)) \in Nat
             /\ Cardinality(Before(orders, rest, r)) \in Nat
             /\ IsFiniteSet(Before(orders, sent, r))
             /\ IsFiniteSet(Before(orders, rest, r))
  BY <1>3, RowsFinite
<1>5. \A r : /\ Cardinality(Before(orders, sent, r))
                    <= Cardinality(Before(orders, rest, r))
             /\ Cardinality(Before(orders, sent, r)) <= Cardinality(sent)
  BY <1>2, <1>3, <1>4, FS_Subset
<1>6. ASSUME NEW r \in rest, r \notin sent
      PROVE  Cardinality(Before(orders, sent, r)) > size
  BY <1>6, SentOrCrowded
<1>7. Limited(orders, sent, size) =
        {r \in sent : Cardinality(Before(orders, sent, r)) < size}
  BY DEF Limited, Before
<1>8. Limited(orders, rest, size) =
        {r \in rest : Cardinality(Before(orders, rest, r)) < size}
  BY DEF Limited, Before
<1>9. ASSUME NEW r \in rest, Cardinality(Before(orders, rest, r)) < size
      PROVE  r \in sent /\ Cardinality(Before(orders, sent, r)) < size
  <2>1. Cardinality(Before(orders, sent, r)) < size
    BY <1>1, <1>4, <1>5, <1>9
  <2>2. r \in sent
    <3> HIDE DEF sent, rest, orders
    <3> QED  BY <1>1, <1>4, <1>6, <2>1
  <2> QED  BY <2>1, <2>2
<1>10. ASSUME NEW r \in sent, Cardinality(Before(orders, sent, r)) < size
       PROVE  Cardinality(Before(orders, rest, r)) < size
  <2>1. ASSUME NEW s \in Before(orders, rest, r) PROVE s \in Before(orders, sent, r)
    <3>1. s \in rest /\ RowAfter(orders, r, s) /\ s \in Rows /\ r \in Rows
      BY <1>1 DEF Before
    <3>2. CASE s \in sent
      BY <3>1, <3>2 DEF Before
    <3>3. CASE s \notin sent
      <4>1. Cardinality(Before(orders, sent, s)) > size
        BY <1>6, <3>1, <3>3
      <4>2. \A t \in Rows : RowAfter(orders, s, t) => RowAfter(orders, r, t)
        BY <1>1, <3>1, AfterTransitive
      <4>3. Before(orders, sent, s) \subseteq Before(orders, sent, r)
        BY <1>1, <4>2 DEF Before
      <4>4. Cardinality(Before(orders, sent, s)) <= Cardinality(Before(orders, sent, r))
        BY <1>4, <4>3, FS_Subset
      <4>5. /\ Cardinality(Before(orders, sent, s)) \in Nat
            /\ Cardinality(Before(orders, sent, r)) \in Nat
        BY <1>4
      <4> QED  BY <1>1, <1>10, <4>1, <4>4, <4>5
    <3> QED  BY <3>2, <3>3
  <2>2. Before(orders, rest, r) = Before(orders, sent, r)
    BY <1>3, <2>1
  <2> QED  BY <1>10, <2>2
<1>11. Limited(orders, sent, size) = Limited(orders, rest, size)
  <2> HIDE DEF sent, rest, orders
  <2> QED  BY <1>1, <1>7, <1>8, <1>9, <1>10
<1>12. Cardinality(sent) <= Cardinality(rest)
  BY <1>1, <1>2, FS_Subset
<1>13. ASSUME Cardinality(rest) > size PROVE Cardinality(sent) > size
  <2>1. CASE rest = sent
    BY <1>13, <2>1
  <2>2. CASE rest # sent
    <3>1. PICK s \in rest : s \notin sent
      BY <1>1, <2>2
    <3>2. Cardinality(Before(orders, sent, s)) > size
      BY <1>6, <3>1
    <3>3. /\ Cardinality(Before(orders, sent, s)) \in Nat
          /\ Cardinality(Before(orders, sent, s)) <= Cardinality(sent)
      BY <1>4, <1>5
    <3> QED  BY <1>1, <1>2, <3>2, <3>3
  <2> QED  BY <2>1, <2>2
<1> QED  BY <1>1, <1>2, <1>11, <1>12, <1>13

\* Taking the first row of what was sent leaves the page as it is.
LEMMA FirstTaken ==
    ASSUME NEW orders \in Seq(Order), NEW sent \in SUBSET Rows, NEW x \in sent,
           NEW room \in Nat, room > 0,
           \A r \in sent \ {x} : RowAfter(orders, r, x) /\ ~RowAfter(orders, x, r)
    PROVE  /\ Limited(orders, sent, room)
                = {x} \cup Limited(orders, sent \ {x}, room - 1)
           /\ Cardinality(sent) > room <=> Cardinality(sent \ {x}) > room - 1
<1> DEFINE left == sent \ {x}
<1>1. left \in SUBSET Rows
  OBVIOUS
<1>2. IsFiniteSet(sent) /\ Cardinality(sent) \in Nat /\ Cardinality(left) \in Nat
  BY <1>1, RowsFinite
<1>3. Cardinality(left) = Cardinality(sent) - 1
  BY <1>2, FS_RemoveElement
<1>4. x \in Limited(orders, sent, room)
  <2>1. {s \in sent : RowAfter(orders, x, s)} = {}
    BY AfterIrreflexive
  <2> QED  BY <2>1, FS_EmptySet DEF Limited
<1>5. ASSUME NEW r \in left
      PROVE  r \in Limited(orders, sent, room) <=> r \in Limited(orders, left, room - 1)
  <2> DEFINE all == {s \in sent : RowAfter(orders, r, s)}
             some == {s \in left : RowAfter(orders, r, s)}
  <2>1. x \in all /\ some = all \ {x} /\ all \in SUBSET Rows /\ some \in SUBSET Rows
    OBVIOUS
  <2>2. IsFiniteSet(all) /\ Cardinality(all) \in Nat /\ Cardinality(some) \in Nat
    BY <2>1, RowsFinite
  <2>3. Cardinality(some) = Cardinality(all) - 1
    <3> HIDE DEF all, some
    <3> QED  BY <2>1, <2>2, FS_RemoveElement
  <2>4. Cardinality(all) < room <=> Cardinality(some) < room - 1
    BY <2>2, <2>3
  <2>5. r \in Limited(orders, sent, room) <=> Cardinality(all) < room
    BY DEF Limited
  <2>6. r \in Limited(orders, left, room - 1) <=> Cardinality(some) < room - 1
    BY DEF Limited
  <2> QED  BY <2>4, <2>5, <2>6
<1>6. /\ Limited(orders, sent, room) \subseteq sent
      /\ Limited(orders, left, room - 1) \subseteq left
  BY DEF Limited
<1>7. Limited(orders, sent, room) = {x} \cup Limited(orders, left, room - 1)
  <2> HIDE DEF left
  <2>1. sent = {x} \cup left
    BY DEF left
  <2> QED  BY <1>4, <1>5, <1>6, <2>1
<1> QED  BY <1>2, <1>3, <1>7

\* No row precedes less than none.
LEMMA NoRoom ==
    ASSUME NEW orders, NEW rows \in SUBSET Rows
    PROVE  Limited(orders, rows, 0) = {}
<1>1. \A r : {s \in rows : RowAfter(orders, r, s)} \in SUBSET Rows
  OBVIOUS
<1>2. \A r : Cardinality({s \in rows : RowAfter(orders, r, s)}) \in Nat
  BY <1>1, RowsFinite
<1> QED  BY <1>2 DEF Limited

-------------------------------------------------------------------------------
(* Every step is one of CursorPages or none.                               *)

Position == IF cursor = NoCursor THEN NoCursor ELSE cursor.keys

LEMMA PositionAtStart ==
    ASSUME IInv
    PROVE  Position = NoCursor <=> cursor = NoCursor
<1> SUFFICES ASSUME cursor # NoCursor PROVE cursor.keys # NoCursor
  BY DEF Position
<1>1. PICK c \in Call : cursor.keys \in Key(OrdersOf[c])
  BY DEF IInv, TypeOK
<1> QED  BY <1>1, CursorAssumption

LEMMA SameRemaining ==
    ASSUME IInv, NEW c \in Call
    PROVE  Pages!Remaining(c) = Remaining(c)
<1>1. ASSUME cursor # NoCursor PROVE Position = cursor.keys
  BY <1>1 DEF Position
<1>2. \A r : (Position # NoCursor =>
                Pages!KeyAfter(OrdersOf[c], Pages!KeyOf(OrdersOf[c], r), Position))
        <=> (cursor # NoCursor =>
                KeyAfter(OrdersOf[c], KeyOf(OrdersOf[c], r), cursor.keys))
  BY <1>1, PositionAtStart, SameOrder, SameKeyOrder
<1> QED  BY <1>2 DEF Pages!Remaining, Remaining, Position

LEMMA MapQuery ==
    ASSUME IInv, NEW c \in Call, NEW size \in Sizes, Query(c, size)
    PROVE  Pages!Read(c, size)
<1> DEFINE orders == OrdersOf[c]
<1>1. /\ pc = "idle" /\ pc' = "reading" /\ call'.call = c /\ call'.size = size
      /\ Sent' = SentFor(c, size) /\ scope' = CursorScope(c)
      /\ UNCHANGED <<table, list, hasMore, cursor>>
      /\ cursor = NoCursor => delivered' = <<>>
      /\ cursor # NoCursor => delivered' = delivered
  BY DEF Query, Sent, SentFor
<1>2. list = <<>> /\ ~hasMore /\ size \in Nat
  BY <1>1, CallAssumption DEF IInv, PageInOrder
<1>3. PageInFlight = NoPage
  BY <1>1 DEF PageInFlight
<1>4. Position # NoCursor => scope = Pages!ScopeOf(c)
  BY Continues, PositionAtStart DEF CursorScope, Pages!ScopeOf
<1>5. scope' = Pages!ScopeOf(c)
  BY <1>1 DEF CursorScope, Pages!ScopeOf
<1>6. Position' = Position
  BY <1>1 DEF Position
<1>7. {delivered'[i] : i \in DOMAIN delivered'}
        = IF Position = NoCursor THEN {} ELSE {delivered[i] : i \in DOMAIN delivered}
  <2>1. CASE cursor = NoCursor
    <3>1. {delivered'[i] : i \in DOMAIN delivered'} = {}
      BY <1>1, <2>1
    <3> QED  BY <2>1, <3>1, PositionAtStart
  <2>2. CASE cursor # NoCursor
    BY <1>1, <2>2, PositionAtStart
  <2> QED  BY <2>1, <2>2
<1>8. PageInFlight' = [rows |-> Pages!FirstRows(orders, Pages!Remaining(c), size),
                       more |-> Pages!Cardinality(Pages!Remaining(c)) > size]
  <2>1. PageInFlight' =
          [rows |-> {list'[i] : i \in DOMAIN list'}
                      \cup Limited(orders, SentFor(c, size), size - Len(list')),
           more |-> hasMore' \/ Cardinality(SentFor(c, size)) > size - Len(list')]
    BY <1>1 DEF PageInFlight
  <2>2. {list'[i] : i \in DOMAIN list'} = {} /\ size - Len(list') = size
    BY <1>1, <1>2
  <2>3. (hasMore' \/ Cardinality(SentFor(c, size)) > size)
          = (Cardinality(Remaining(c)) > size)
    BY <1>1, <1>2, SentIsEnough
  <2>4. PageInFlight' = [rows |-> Limited(orders, Remaining(c), size),
                         more |-> Cardinality(Remaining(c)) > size]
    BY <2>1, <2>2, <2>3, SentIsEnough
  <2> QED  BY <2>4, SameRemaining, SameFirst, SameCount
<1> QED
  BY <1>1, <1>3, <1>4, <1>5, <1>6, <1>7, <1>8 DEF Pages!Read, Position

\* While a page is read it stays what it was when its statement started.
LEMMA MapTakeRow ==
    ASSUME IInv, NEW x \in pending, TakeRow(x)
    PROVE  PageInFlight' = PageInFlight
<1> DEFINE orders == OrdersOf[call.call]
           room == call.size - Len(list)
<1>1. /\ pc = "reading" /\ pc' = "reading" /\ Len(list) # call.size
      /\ list' = Append(list, x.row) /\ pending' = pending \ {x}
      /\ UNCHANGED <<call, hasMore>>
      /\ \A y \in pending : ~RowAfter(orders, x.row, y.row)
  BY DEF TakeRow, Receive, traversal
<1>2. /\ call.call \in Call /\ orders \in Seq(Order) /\ list \in Seq(Rows)
      /\ call.size \in Nat /\ Len(list) \in Nat /\ Len(list) <= call.size
      /\ Sent \in SUBSET Rows
  BY <1>1, Serving
<1>3. \A y \in pending : y.row \in Rows /\ (y # x => y.row[Pk] # x.row[Pk])
  BY <1>1 DEF IInv, TypeOK, PageInOrder
<1>4. room \in Nat /\ room > 0
  BY <1>1, <1>2
<1>5. x.row \in Sent /\ Sent' = Sent \ {x.row}
  BY <1>1, <1>3 DEF Sent
<1>6. ASSUME NEW r \in Sent \ {x.row}
      PROVE  RowAfter(orders, r, x.row) /\ ~RowAfter(orders, x.row, r)
  <2>1. PICK y \in pending : r = y.row
    BY DEF Sent
  <2>2. y # x /\ ~RowAfter(orders, x.row, r)
    BY <1>1, <1>6, <2>1
  <2>3. x.row[Pk] # r[Pk] /\ r \in Rows /\ x.row \in Rows
    BY <1>3, <2>1, <2>2
  <2> QED  BY <1>2, <2>2, <2>3, RowsOrdered
<1>7. /\ Limited(orders, Sent, room) = {x.row} \cup Limited(orders, Sent', room - 1)
      /\ Cardinality(Sent) > room <=> Cardinality(Sent') > room - 1
  <2> DEFINE row == x.row
  <2>1. /\ orders \in Seq(Order) /\ Sent \in SUBSET Rows /\ row \in Sent
        /\ room \in Nat /\ room > 0
        /\ \A r \in Sent \ {row} :
              RowAfter(orders, r, row) /\ ~RowAfter(orders, row, r)
    BY <1>2, <1>4, <1>5, <1>6
  <2> HIDE DEF room, orders, row
  <2>2. /\ Limited(orders, Sent, room) = {row} \cup Limited(orders, Sent \ {row}, room - 1)
        /\ Cardinality(Sent) > room <=> Cardinality(Sent \ {row}) > room - 1
    BY <2>1, FirstTaken
  <2> QED  BY <1>5, <2>2 DEF row
<1>8. {list'[i] : i \in DOMAIN list'} = {list[i] : i \in DOMAIN list} \cup {x.row}
  <2>1. /\ DOMAIN list' = 1 .. (Len(list) + 1) /\ DOMAIN list = 1 .. Len(list)
        /\ list'[Len(list) + 1] = x.row
        /\ \A i \in 1 .. Len(list) : list'[i] = list[i]
    BY <1>1, <1>2, <1>3
  <2> QED  BY <1>2, <2>1
<1>9. call'.size - Len(list') = room - 1
  BY <1>1, <1>2
<1>10. PageInFlight = [rows |-> {list[i] : i \in DOMAIN list}
                                    \cup Limited(orders, Sent, room),
                       more |-> hasMore \/ Cardinality(Sent) > room]
  BY <1>1 DEF PageInFlight
<1>11. PageInFlight' = [rows |-> {list'[i] : i \in DOMAIN list'}
                                    \cup Limited(orders, Sent', room - 1),
                        more |-> hasMore \/ Cardinality(Sent') > room - 1]
  BY <1>1, <1>9 DEF PageInFlight
<1>12. (hasMore \/ Cardinality(Sent) > room) = (hasMore \/ Cardinality(Sent') > room - 1)
  BY <1>7
<1>13. {list'[i] : i \in DOMAIN list'} \cup Limited(orders, Sent', room - 1)
          = {list[i] : i \in DOMAIN list} \cup Limited(orders, Sent, room)
  BY <1>7, <1>8
<1> HIDE DEF room, orders
<1> QED  BY <1>10, <1>11, <1>12, <1>13

LEMMA MapLookAhead ==
    ASSUME IInv, NEW x \in pending, LookAhead(x)
    PROVE  PageInFlight' = PageInFlight
<1>1. /\ pc = "reading" /\ pc' = "closed" /\ Len(list) = call.size /\ hasMore'
      /\ pending' = pending \ {x}
      /\ UNCHANGED <<call, list>>
  BY DEF LookAhead, Receive
<1>2. call.size - Len(list) = 0 /\ Sent \in SUBSET Rows /\ Sent' \in SUBSET Rows
  BY <1>1, Serving DEF Sent
<1>3. Limited(OrdersOf[call.call], Sent, 0) = {}
      /\ Limited(OrdersOf[call.call], Sent', 0) = {}
  BY <1>2, NoRoom
<1>4. Cardinality(Sent) > 0
  <2>1. Sent # {} /\ IsFiniteSet(Sent) /\ Cardinality(Sent) \in Nat
    BY <1>2, RowsFinite DEF Sent
  <2> QED  BY <2>1, FS_EmptySet
<1>5. PageInFlight = [rows |-> {list[i] : i \in DOMAIN list}, more |-> TRUE]
  BY <1>1, <1>2, <1>3, <1>4 DEF PageInFlight
<1>6. PageInFlight' = [rows |-> {list[i] : i \in DOMAIN list}, more |-> TRUE]
  BY <1>1, <1>2, <1>3 DEF PageInFlight
<1> QED  BY <1>5, <1>6

\* The last row of a list in order is the one no other comes after.
LEMMA LastListed ==
    ASSUME NEW orders \in Seq(Order), NEW rows \in Seq(Rows), rows # <<>>,
           Ascending(orders, rows)
    PROVE  Pages!LastRow(orders, {rows[i] : i \in DOMAIN rows}) = rows[Len(rows)]
<1> DEFINE S == {rows[i] : i \in DOMAIN rows}
           last == rows[Len(rows)]
<1>1. Len(rows) \in DOMAIN rows /\ last \in S /\ DOMAIN rows = 1 .. Len(rows)
      /\ Len(rows) \in Nat
  OBVIOUS
<1>2. ASSUME NEW s \in S PROVE ~RowAfter(orders, s, last)
  <2>1. PICK i \in DOMAIN rows : s = rows[i]
    OBVIOUS
  <2>2. s \in Rows /\ last \in Rows
    BY <1>1, <2>1
  <2>3. CASE i = Len(rows)
    BY <2>1, <2>2, <2>3, AfterIrreflexive
  <2>4. CASE i # Len(rows)
    <3>1. RowAfter(orders, last, s)
      BY <1>1, <2>1, <2>4 DEF Ascending
    <3> QED  BY <2>2, <3>1, AfterIrreflexive, AfterTransitive
  <2> QED  BY <2>3, <2>4
<1>3. ASSUME NEW r \in S, \A s \in S : ~RowAfter(orders, s, r) PROVE r = last
  <2>1. PICK i \in DOMAIN rows : r = rows[i]
    OBVIOUS
  <2>2. ~RowAfter(orders, last, r)
    BY <1>1, <1>3
  <2> QED  BY <1>1, <2>1, <2>2 DEF Ascending
<1>4. Pages!LastRow(orders, S) = CHOOSE r \in S : \A s \in S : ~RowAfter(orders, s, r)
  BY SameOrder DEF Pages!LastRow
<1> HIDE DEF S, last
<1> QED  BY <1>1, <1>2, <1>3, <1>4 DEF S, last

\* A page is not the absence of one.
LEMMA SomePage ==
    ASSUME pc # "idle"
    PROVE  PageInFlight # NoPage
<1>1. DOMAIN PageInFlight = {"rows", "more"}
  BY DEF PageInFlight
<1>2. DOMAIN NoPage = {}
  BY DEF NoPage
<1> QED  BY <1>1, <1>2

\* What is in flight when the rows are closed is what was read.
LEMMA ClosedPage ==
    ASSUME IInv, Drained, pc = "closed"
    PROVE  PageInFlight.rows = Listed /\ (PageInFlight.more <=> hasMore)
<1> DEFINE orders == OrdersOf[call.call]
           room == call.size - Len(list)
<1>1. /\ PageInFlight.rows = Listed \cup Limited(orders, Sent, room)
      /\ PageInFlight.more = (hasMore \/ Cardinality(Sent) > room)
  BY DEF PageInFlight, Listed
<1>2. /\ Sent \in SUBSET Rows /\ room \in Nat
      /\ call.size \in Nat /\ Len(list) \in Nat
  BY Serving
<1>3. CASE hasMore
  <2>1. room = 0
    BY <1>2, <1>3 DEF IInv, PageInOrder
  <2>2. Limited(orders, Sent, room) = {}
    BY <1>2, <2>1, NoRoom
  <2> QED  BY <1>1, <1>3, <2>2
<1>4. CASE ~hasMore
  <2>1. Sent = {}
    BY <1>4 DEF Drained, Sent
  <2>2. Limited(orders, Sent, room) = {} /\ Cardinality(Sent) = 0
    BY <2>1, FS_EmptySet DEF Limited
  <2>3. ~(Cardinality(Sent) > room)
    BY <1>2, <2>2
  <2> HIDE DEF room, orders
  <2> QED  BY <1>1, <1>4, <2>2, <2>3
<1> QED  BY <1>3, <1>4

LEMMA MapReturn ==
    ASSUME IInv, Drained, Return
    PROVE  Pages!Deliver
<1> DEFINE orders == OrdersOf[call.call]
<1>1. /\ pc = "closed" /\ pc' = "idle" /\ UNCHANGED <<table, scope>>
      /\ delivered' = delivered \o list
      /\ hasMore => cursor' = [scope |-> CursorScope(call.call), keys |-> keys]
      /\ ~hasMore => cursor' = NoCursor
  BY DEF Return, Abandon
<1>2. /\ call.call \in Call /\ call.size \in Nat /\ call.size > 0
      /\ orders \in Seq(Order) /\ scope[1] = orders
      /\ list \in Seq(Rows) /\ delivered \in Seq(Rows)
  BY <1>1, Serving DEF IInv, TypeOK
<1>3. PageInFlight # NoPage /\ PageInFlight' = NoPage
  BY <1>1, SomePage DEF PageInFlight
<1>4. PageInFlight.rows = Listed /\ (PageInFlight.more <=> hasMore)
  BY <1>1, ClosedPage
<1>5. {delivered'[i] : i \in DOMAIN delivered'}
        = {delivered[i] : i \in DOMAIN delivered} \cup PageInFlight.rows
  <2> DEFINE m == Len(delivered)
             n == Len(list)
  <2>1. /\ m \in Nat /\ n \in Nat
        /\ DOMAIN delivered = 1 .. m /\ DOMAIN list = 1 .. n
        /\ DOMAIN delivered' = 1 .. (m + n)
        /\ \A i \in 1 .. m : i \in 1 .. (m + n) /\ delivered'[i] = delivered[i]
        /\ \A i \in 1 .. n : m + i \in 1 .. (m + n) /\ delivered'[m + i] = list[i]
    BY <1>1, <1>2
  <2>2. ASSUME NEW i \in 1 .. (m + n)
        PROVE  \/ \E j \in 1 .. m : delivered'[i] = delivered[j]
               \/ \E j \in 1 .. n : delivered'[i] = list[j]
    <3>1. CASE i <= m
      <4>1. i \in 1 .. m
        BY <2>1, <3>1
      <4> QED  BY <2>1, <4>1
    <3>2. CASE i > m
      <4>1. i - m \in 1 .. n /\ m + (i - m) = i
        BY <2>1, <3>2
      <4> QED  BY <2>1, <4>1
    <3> QED  BY <2>1, <3>1, <3>2
  <2>3. Listed = {list[j] : j \in 1 .. n}
    BY <2>1 DEF Listed
  <2> HIDE DEF m, n
  <2>4. {delivered'[i] : i \in 1 .. (m + n)}
          = {delivered[j] : j \in 1 .. m} \cup {list[j] : j \in 1 .. n}
    <3> DEFINE all == {delivered'[i] : i \in 1 .. (m + n)}
               old == {delivered[j] : j \in 1 .. m}
               new == {list[j] : j \in 1 .. n}
    <3>1. ASSUME NEW i \in 1 .. (m + n) PROVE delivered'[i] \in old \cup new
      BY <2>2
    <3>2. ASSUME NEW j \in 1 .. m PROVE delivered[j] \in all
      <4>1. j \in 1 .. (m + n) /\ delivered'[j] = delivered[j]
        BY <2>1
      <4> QED  BY <4>1
    <3>3. ASSUME NEW j \in 1 .. n PROVE list[j] \in all
      <4>1. m + j \in 1 .. (m + n) /\ delivered'[m + j] = list[j]
        BY <2>1
      <4> QED  BY <4>1
    <3>4. all \subseteq old \cup new
      BY <3>1
    <3>5. old \subseteq all /\ new \subseteq all
      BY <3>2, <3>3
    <3> QED  BY <3>4, <3>5
  <2> QED  BY <1>4, <2>1, <2>3, <2>4
<1>6. Position' = IF PageInFlight.more
                  THEN Pages!KeyOf(scope[1], Pages!LastRow(scope[1], PageInFlight.rows))
                  ELSE NoCursor
  <2>1. CASE hasMore
    <3>1. /\ keys = KeyOf(orders, list[call.size]) /\ Len(list) = call.size
          /\ Ascending(orders, list)
      BY <1>1, <2>1 DEF IInv, PageInOrder
    <3>2. list # <<>> /\ list[call.size] \in Rows
      BY <1>2, <3>1
    <3>3. Pages!LastRow(orders, Listed) = list[call.size]
      BY <1>2, <3>1, <3>2, LastListed DEF Listed
    <3>4. keys \in Key(orders)
      BY <1>2, <3>1, <3>2, KeyOfType
    <3>5. cursor' # NoCursor /\ cursor'.keys = keys
      BY <1>1, <1>2, <2>1, <3>4, CursorAssumption DEF CursorScope
    <3>6. Position' = KeyOf(orders, list[call.size])
      BY <3>1, <3>5 DEF Position
    <3> QED  BY <1>2, <1>4, <2>1, <3>3, <3>6, SameOrder
  <2>2. CASE ~hasMore
    BY <1>1, <1>4, <2>2 DEF Position
  <2> QED  BY <2>1, <2>2
<1> QED  BY <1>1, <1>3, <1>5, <1>6 DEF Pages!Deliver, Position

LEMMA MapNext ==
    ASSUME IInv, IInv', Drained, [Next]_vars
    PROVE  [Pages!Next]_(Pages!vars)
<1> DEFINE Stutter == UNCHANGED Pages!vars
<1>1. ASSUME UNCHANGED <<table, scope, cursor, delivered>>, PageInFlight' = PageInFlight
      PROVE  Stutter
  BY <1>1 DEF Pages!vars
<1>2. ASSUME NEW c \in Call, NEW size \in Sizes, Refuse(c, size) PROVE Stutter
  BY <1>1, <1>2 DEF Refuse, Abandon, PageInFlight, traversal
<1>3. ASSUME NEW c \in Call, NEW size \in Sizes, Query(c, size) PROVE Pages!Next
  BY <1>3, MapQuery DEF Pages!Next
<1>4. ASSUME NEW x \in pending, TakeRow(x) PROVE Stutter
  BY <1>1, <1>4, MapTakeRow DEF TakeRow, traversal
<1>5. ASSUME NEW x \in pending, LookAhead(x) PROVE Stutter
  BY <1>1, <1>5, MapLookAhead DEF LookAhead, traversal
<1>6. CASE EndOfRows
  <2>1. /\ pc = "reading" /\ pc' = "closed"
        /\ UNCHANGED <<call, pending, list, hasMore, table, traversal>>
    BY <1>6 DEF EndOfRows
  <2>2. PageInFlight' = PageInFlight
    BY <2>1 DEF PageInFlight, Sent
  <2> QED  BY <1>1, <2>1, <2>2 DEF traversal
<1>7. CASE Return
  BY <1>7, MapReturn DEF Pages!Next
<1>8. ASSUME NEW reason, Abandon(reason), pc # "idle",
             UNCHANGED <<table, scope, cursor, delivered>>
      PROVE  Pages!Next
  <2>1. PageInFlight # NoPage /\ PageInFlight' = NoPage
    BY <1>8, SomePage DEF Abandon, PageInFlight
  <2>2. Pages!Drop
    BY <1>8, <2>1 DEF Pages!Drop
  <2> QED  BY <2>2 DEF Pages!Next
<1>9. CASE RefuseToken
  BY <1>8, <1>9 DEF RefuseToken, traversal
<1>10. CASE Fail
  BY <1>8, <1>10 DEF Fail, traversal
<1>11. CASE Write
  <2>1. UNCHANGED <<callVars, scope, cursor, delivered>>
    BY <1>11 DEF Write, Insert, Delete, Update, Touch
  <2>2. PageInFlight' = PageInFlight
    BY <2>1 DEF PageInFlight, Sent, callVars
  <2>3. table' \in SUBSET Rows
    BY DEF IInv, TypeOK, TablesOf
  <2>4. Pages!Write
    BY <2>1, <2>2, <2>3 DEF Pages!Write
  <2> QED  BY <2>4 DEF Pages!Next
<1>12. CASE UNCHANGED vars
  <2>1. UNCHANGED <<callVars, table, scope, cursor, delivered>>
    BY <1>12 DEF vars, traversal
  <2>2. PageInFlight' = PageInFlight
    BY <2>1 DEF PageInFlight, Sent, callVars
  <2> QED  BY <1>1, <2>1, <2>2
<1> QED
  BY <1>2, <1>3, <1>4, <1>5, <1>6, <1>7, <1>9, <1>10, <1>11, <1>12
     DEF Next, Request, Serve

\* The traversal implements CursorPages: every page is what one statement
\* would read, at one instant, of the rows after the cursor; it is delivered
\* as a whole or not at all.
THEOREM Refinement == Spec => PagesOfOneSnapshot
<1>1. Init => Pages!Init
  <2> SUFFICES ASSUME Init PROVE Pages!Init
    OBVIOUS
  <2>1. table \in SUBSET Rows /\ scope = <<>> /\ cursor = NoCursor
    BY DEF Init, TablesOf
  <2>2. {delivered[i] : i \in DOMAIN delivered} = {} /\ PageInFlight = NoPage
    BY DEF Init, PageInFlight
  <2> QED  BY <2>1, <2>2 DEF Pages!Init
<1>2. Init => Drained
  BY DEF Init, Drained
<1>3. IInv /\ IInv' /\ Drained /\ [Next]_vars => [Pages!Next]_(Pages!vars)
  BY MapNext
<1> QED
  BY <1>1, <1>2, <1>3, Inductive, DrainedNext, PTL
     DEF Spec, PagesOfOneSnapshot, Pages!Spec

===============================================================================
