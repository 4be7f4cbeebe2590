--------------------------- MODULE PageQueryProofs -----------------------------
(***************************************************************************)
(* For any options, models and sorts, and any number of concurrent         *)
(* requests: what Make accepts, what the cache of whitelists holds, and    *)
(* what the effective orders are.                                          *)
(*                                                                         *)
(* The orders are a matter of the loop "add" alone: it leaves the first    *)
(* mentions of the columns, in their order (Ranks).  That a request's      *)
(* answer is still the one of the whitelist there is (IsAnswered) rests on *)
(* LoadOrStore; that the whitelist is whole on the walk, which for some    *)
(* struct types has each field either behind it or to come (WalkOK).       *)
(***************************************************************************)
EXTENDS PageQuery, FiniteSetTheorems, WellFoundedInduction, TLAPS

-------------------------------------------------------------------------------
(* Numbers.                                                                *)

\* The least of some numbers.
LEMMA Least ==
    ASSUME NEW T, T \subseteq Nat, T # {}
    PROVE  \E m \in T : \A j \in T : m <= j
<1>1. PICK m \in T : \A i \in T : << i, m >> \notin OpToRel(<, Nat)
  BY NatLessThanWellFounded, WFMin
<1>2. ASSUME NEW j \in T PROVE m <= j
  <2>1. j \in Nat /\ m \in Nat
    OBVIOUS
  <2>2. ~(j < m)
    BY <1>1, <2>1 DEF OpToRel
  <2> QED  BY <2>1, <2>2
<1> QED  BY <1>2

\* Induction, for a set of numbers.
LEMMA Inducts ==
    ASSUME NEW S, 0 \in S, \A n \in Nat : n \in S => n + 1 \in S
    PROVE  Nat \subseteq S
<1> DEFINE T == Nat \ S
<1> SUFFICES ASSUME T # {} PROVE FALSE
  OBVIOUS
<1>1. PICK m \in T : \A j \in T : m <= j
  <2>1. T \subseteq Nat
    OBVIOUS
  <2> HIDE DEF T
  <2> QED  BY <2>1, Least
<1>2. m \in Nat /\ m \notin S /\ m # 0
  BY <1>1
<1>3. m - 1 \in Nat /\ (m - 1) + 1 = m
  BY <1>2
<1>4. m - 1 \in S
  BY <1>1, <1>3
<1> QED  BY <1>2, <1>3, <1>4

-------------------------------------------------------------------------------
(* The loop of "add": its fold is some function that adds order by order,  *)
(* and there is one.                                                       *)

Adds(f, p, s, n) ==
    f = [t \in SUBSET (1 .. n) |->
            IF t = {} THEN p ELSE AddOrder(f[t \ {Max(t)}], s[Max(t)])]

LEMMA MaxOfPrefix ==
    ASSUME NEW n \in Nat, NEW t \in SUBSET (1 .. n + 1), n + 1 \in t
    PROVE  Max(t) = n + 1
<1>1. \A y \in t : n + 1 >= y
  OBVIOUS
<1>2. \A x \in t : (\A y \in t : x >= y) => x = n + 1
  OBVIOUS
<1> QED  BY <1>1, <1>2 DEF Max

LEMMA AddsExists ==
    ASSUME NEW p, NEW s, NEW n \in Nat
    PROVE  \E f : Adds(f, p, s, n)
<1> DEFINE S == {m \in Nat : \E f : Adds(f, p, s, m)}
<1>1. 0 \in S
  <2> DEFINE f == [t \in SUBSET (1 .. 0) |-> p]
  <2>1. 1 .. 0 = {}
    OBVIOUS
  <2>2. f = [t \in SUBSET (1 .. 0) |->
                IF t = {} THEN p ELSE AddOrder(f[t \ {Max(t)}], s[Max(t)])]
    BY <2>1
  <2>3. Adds(f, p, s, 0)
    BY <2>2 DEF Adds
  <2> QED  BY <2>3
<1>2. ASSUME NEW m \in Nat, m \in S PROVE m + 1 \in S
  <2>1. PICK f : Adds(f, p, s, m)
    BY <1>2
  <2> DEFINE P == SUBSET (1 .. m + 1)
             g == [t \in P |-> IF m + 1 \in t THEN AddOrder(f[t \ {m + 1}], s[m + 1]) ELSE f[t]]
             h == [t \in P |-> IF t = {} THEN p ELSE AddOrder(g[t \ {Max(t)}], s[Max(t)])]
  <2>2. \A t \in SUBSET (1 .. m) :
            f[t] = IF t = {} THEN p ELSE AddOrder(f[t \ {Max(t)}], s[Max(t)])
    BY <2>1 DEF Adds
  <2>3. \A t \in P : m + 1 \notin t => t \in SUBSET (1 .. m)
    OBVIOUS
  <2>4. ASSUME NEW t \in P PROVE g[t] = h[t]
    <3>1. CASE m + 1 \in t
      <4>1. Max(t) = m + 1
        BY <3>1, MaxOfPrefix
      <4>2. t \ {m + 1} \in P /\ m + 1 \notin t \ {m + 1}
        OBVIOUS
      <4>3. g[t \ {m + 1}] = f[t \ {m + 1}]
        BY <4>2
      <4> QED  BY <3>1, <4>1, <4>3
    <3>2. CASE m + 1 \notin t
      <4>1. t \ {Max(t)} \in P /\ m + 1 \notin t \ {Max(t)}
        BY <3>2
      <4>2. g[t \ {Max(t)}] = f[t \ {Max(t)}]
        BY <4>1
      <4>3. g[t] = f[t] /\ t \in SUBSET (1 .. m)
        BY <3>2, <2>3
      <4> HIDE DEF g
      <4> QED  BY <2>2, <4>2, <4>3
    <3> QED  BY <3>1, <3>2
  <2>5. g = h
    <3>1. g = [t \in P |-> g[t]] /\ h = [t \in P |-> h[t]]
      OBVIOUS
    <3> HIDE DEF g, h
    <3> QED  BY <2>4, <3>1
  <2>6. Adds(g, p, s, m + 1)
    <3> HIDE DEF g
    <3> QED  BY <2>5 DEF Adds
  <2> QED  BY <2>6
<1>3. n \in S
  <2> HIDE DEF S
  <2> QED  BY <1>1, <1>2, Inducts
<1> QED  BY <1>3

\* What is needed of the loop: it starts from what is there, and each step
\* adds the next order.
LEMMA AddOrdersSteps ==
    ASSUME NEW p, NEW s, NEW n \in Nat, DOMAIN s = 1 .. n
    PROVE  \E g : /\ g[0] = p
                  /\ \A k \in 0 .. n - 1 : g[k + 1] = AddOrder(g[k], s[k + 1])
                  /\ g[n] = AddOrders(p, s)
<1> DEFINE f == CHOOSE f : Adds(f, p, s, n)
           g == [k \in 0 .. n |-> f[1 .. k]]
<1>1. Adds(f, p, s, n)
  BY AddsExists
<1>2. AddOrders(p, s) = f[1 .. n]
  BY DEF AddOrders, FoldLeft, MapThenFoldSet, Adds
<1>3. \A t \in SUBSET (1 .. n) :
        f[t] = IF t = {} THEN p ELSE AddOrder(f[t \ {Max(t)}], s[Max(t)])
  BY <1>1 DEF Adds
<1>4. 1 .. 0 = {} /\ {} \in SUBSET (1 .. n)
  OBVIOUS
<1>5. ASSUME NEW k \in 0 .. n - 1
      PROVE  f[1 .. k + 1] = AddOrder(f[1 .. k], s[k + 1])
  <2> DEFINE t == 1 .. k + 1
  <2>1. t \in SUBSET (1 .. n) /\ k + 1 \in t /\ t \ {k + 1} = 1 .. k /\ k \in Nat
    OBVIOUS
  <2>2. Max(t) = k + 1
    BY <2>1, MaxOfPrefix
  <2>3. t # {}
    BY <2>1
  <2> HIDE DEF t, f
  <2> QED  BY <1>3, <2>1, <2>2, <2>3 DEF t
<1>6. f[1 .. 0] = p
  <2> HIDE DEF f
  <2> QED  BY <1>3, <1>4
<1> HIDE DEF f
<1>7. g[0] = p /\ g[n] = AddOrders(p, s)
  BY <1>2, <1>6
<1>8. \A k \in 0 .. n - 1 : g[k + 1] = AddOrder(g[k], s[k + 1])
  <2> TAKE k \in 0 .. n - 1
  <2>1. k \in 0 .. n /\ k + 1 \in 0 .. n
    OBVIOUS
  <2> QED  BY <1>5, <2>1
<1> HIDE DEF g
<1> QED  BY <1>7, <1>8

-------------------------------------------------------------------------------
(* What the loop makes of the orders wanted.                               *)

\* Of the first k wanted, those that mention a column for the first time.
FirstsUpTo(w, k) ==
    {i \in 1 .. k : \A j \in 1 .. (i - 1) : w[j].column # w[i].column}

\* The orders p are the first mentions among the first k of w, in their order.
Ranks(p, w, k) ==
    /\ \A i, j \in DOMAIN p : p[i].column = p[j].column => i = j
    /\ {p[i].column : i \in DOMAIN p} = {w[i].column : i \in 1 .. k}
    /\ IsFiniteSet({w[i].column : i \in 1 .. k})
    /\ Cardinality({w[i].column : i \in 1 .. k}) = Len(p)
    /\ Cardinality(FirstsUpTo(w, k)) = Len(p)
    /\ \A i \in FirstsUpTo(w, k) :
        /\ Cardinality(FirstsUpTo(w, i)) \in 1 .. Len(p)
        /\ p[Cardinality(FirstsUpTo(w, i))] = w[i]

LEMMA FirstsAreFinite ==
    ASSUME NEW w, NEW k \in Nat
    PROVE  IsFiniteSet(FirstsUpTo(w, k))
<1>1. IsFiniteSet(1 .. k)
  BY FS_Interval
<1>2. FirstsUpTo(w, k) \subseteq 1 .. k
  BY DEF FirstsUpTo
<1> QED  BY <1>1, <1>2, FS_Subset

LEMMA NothingRanks ==
    ASSUME NEW w
    PROVE  Ranks(<<>>, w, 0)
<1>1. 1 .. 0 = {} /\ DOMAIN <<>> = {} /\ Len(<<>>) = 0
  OBVIOUS
<1>2. FirstsUpTo(w, 0) = {}
  BY <1>1 DEF FirstsUpTo
<1>3. {<<>>[i].column : i \in DOMAIN <<>>} = {} /\ {w[i].column : i \in 1 .. 0} = {}
  BY <1>1
<1> QED  BY <1>1, <1>2, <1>3, FS_EmptySet DEF Ranks

\* One more order ranks behind them, unless its column is there.
LEMMA OneMoreRanks ==
    ASSUME NEW B, NEW p \in Seq(B), NEW w, NEW k \in Nat, w[k + 1] \in B,
           Ranks(p, w, k)
    PROVE  /\ AddOrder(p, w[k + 1]) \in Seq(B)
           /\ Ranks(AddOrder(p, w[k + 1]), w, k + 1)
<1> DEFINE o == w[k + 1]
           q == AddOrder(p, o)
           F == FirstsUpTo(w, k)
           C == {w[i].column : i \in 1 .. k}
           there == \E i \in DOMAIN p : p[i].column = o.column
<1>1. 1 .. k + 1 = (1 .. k) \cup {k + 1} /\ k + 1 \notin 1 .. k /\ (k + 1) - 1 = k
  OBVIOUS
<1>2. there <=> \E i \in 1 .. k : w[i].column = o.column
  <2>1. there <=> o.column \in {p[i].column : i \in DOMAIN p}
    OBVIOUS
  <2>2. {p[i].column : i \in DOMAIN p} = C
    BY DEF Ranks
  <2> QED  BY <2>1, <2>2
<1>3. {w[i].column : i \in 1 .. k + 1} = C \cup {o.column}
  BY <1>1
<1>4. FirstsUpTo(w, k + 1) = IF there THEN F ELSE F \cup {k + 1}
  <2>1. \A i \in 1 .. k : i \in FirstsUpTo(w, k + 1) <=> i \in F
    BY <1>1 DEF FirstsUpTo
  <2>2. k + 1 \in FirstsUpTo(w, k + 1) <=> ~there
    BY <1>1, <1>2 DEF FirstsUpTo
  <2>3. FirstsUpTo(w, k + 1) \subseteq (1 .. k) \cup {k + 1} /\ F \subseteq 1 .. k
    BY <1>1 DEF FirstsUpTo
  <2> DEFINE z == k + 1
             G == FirstsUpTo(w, k + 1)
             K == 1 .. k
  <2>4. /\ \A i \in K : i \in G <=> i \in F
        /\ z \in G <=> ~there
        /\ G \subseteq K \cup {z}
        /\ F \subseteq K
    BY <1>1, <2>1, <2>2, <2>3
  <2>5. z \notin K
    BY <1>1
  <2> HIDE DEF F, there, z, G, K
  <2>6. CASE there
    <3>1. G = F
      BY <2>4, <2>5, <2>6
    <3> QED  BY <2>6, <3>1 DEF z, G
  <2>7. CASE ~there
    <3>1. G = F \cup {z}
      BY <2>4, <2>5, <2>7
    <3> QED  BY <2>7, <3>1 DEF z, G
  <2> QED  BY <2>6, <2>7
<1>5. k + 1 \notin F /\ IsFiniteSet(F) /\ Cardinality(F) = Len(p)
  <2>1. IsFiniteSet(F)
    BY FirstsAreFinite
  <2>2. k + 1 \notin F
    BY <1>1 DEF FirstsUpTo
  <2>3. Cardinality(F) = Len(p)
    BY DEF Ranks
  <2> QED  BY <2>1, <2>2, <2>3
<1>6. IsFiniteSet(C) /\ Cardinality(C) = Len(p) /\ {p[i].column : i \in DOMAIN p} = C
  BY DEF Ranks
<1>7. CASE there
  <2>1. q = p
    BY <1>7 DEF AddOrder
  <2>2. C \cup {o.column} = C
    BY <1>2, <1>7
  <2>3. FirstsUpTo(w, k + 1) = F
    BY <1>4, <1>7
  <2>4. {w[i].column : i \in 1 .. k + 1} = C
    BY <1>3, <2>2
  <2>5. Ranks(p, w, k + 1)
    <3> HIDE DEF C, F
    <3>1. /\ \A i, j \in DOMAIN p : p[i].column = p[j].column => i = j
          /\ \A i \in F :
                /\ Cardinality(FirstsUpTo(w, i)) \in 1 .. Len(p)
                /\ p[Cardinality(FirstsUpTo(w, i))] = w[i]
      BY DEF Ranks, F
    <3> QED  BY <1>5, <1>6, <2>3, <2>4, <3>1 DEF Ranks
  <2> HIDE DEF q
  <2> QED  BY <2>1, <2>5 DEF q
<1>8. CASE ~there
  <2>1. q = Append(p, o)
    BY <1>8 DEF AddOrder
  <2>2. /\ q \in Seq(B) /\ Len(q) = Len(p) + 1 /\ Len(p) \in Nat
        /\ DOMAIN q = DOMAIN p \cup {Len(p) + 1}
        /\ DOMAIN p = 1 .. Len(p) /\ DOMAIN q = 1 .. Len(p) + 1
        /\ \A i \in DOMAIN p : q[i] = p[i]
        /\ q[Len(p) + 1] = o
    <3> HIDE DEF q
    <3> QED  BY <2>1
  <2>3. \A i \in DOMAIN p : p[i].column # o.column
    BY <1>8
  <2>4. o.column \notin C
    BY <1>2, <1>8
  <2> HIDE DEF o, q
  <2>5. \A i, j \in DOMAIN q : q[i].column = q[j].column => i = j
    BY <2>2, <2>3 DEF Ranks
  <2>6. {q[i].column : i \in DOMAIN q} = C \cup {o.column}
    <3>1. {q[i].column : i \in DOMAIN q}
            = {q[i].column : i \in DOMAIN p} \cup {q[Len(p) + 1].column}
      BY <2>2
    <3>2. {q[i].column : i \in DOMAIN p} = {p[i].column : i \in DOMAIN p}
      BY <2>2
    <3> QED  BY <1>6, <2>2, <3>1, <3>2
  <2>7. IsFiniteSet(C \cup {o.column}) /\ Cardinality(C \cup {o.column}) = Len(q)
    <3> DEFINE c == o.column
    <3>1. c \notin C
      BY <2>4
    <3> HIDE DEF C, c
    <3>2. IsFiniteSet(C \cup {c}) /\ Cardinality(C \cup {c}) = Cardinality(C) + 1
      BY <1>6, <3>1, FS_AddElement
    <3> QED  BY <1>6, <2>2, <3>2 DEF c
  <2>8. Cardinality(FirstsUpTo(w, k + 1)) = Len(q)
    <3> DEFINE z == k + 1
    <3>1. FirstsUpTo(w, k + 1) = F \cup {z} /\ z \notin F
      BY <1>4, <1>5, <1>8
    <3> HIDE DEF F, z
    <3>2. Cardinality(F \cup {z}) = Cardinality(F) + 1
      BY <1>5, <3>1, FS_AddElement
    <3> QED  BY <1>5, <2>2, <3>1, <3>2
  <2>9. ASSUME NEW i \in FirstsUpTo(w, k + 1)
        PROVE  /\ Cardinality(FirstsUpTo(w, i)) \in 1 .. Len(q)
               /\ q[Cardinality(FirstsUpTo(w, i))] = w[i]
    <3>1. CASE i \in F
      <4>1. /\ Cardinality(FirstsUpTo(w, i)) \in 1 .. Len(p)
            /\ p[Cardinality(FirstsUpTo(w, i))] = w[i]
        BY <3>1 DEF Ranks
      <4> QED  BY <2>2, <4>1
    <3>2. CASE i = k + 1
      <4>1. Cardinality(FirstsUpTo(w, i)) = Len(q)
        BY <2>8, <3>2
      <4> QED  BY <2>2, <3>2, <4>1 DEF o
    <3> QED  BY <1>4, <3>1, <3>2
  <2>10. Ranks(q, w, k + 1)
    <3> HIDE DEF C
    <3> QED  BY <1>3, <2>5, <2>6, <2>7, <2>8, <2>9 DEF Ranks
  <2> QED  BY <2>2, <2>10 DEF q, o
<1> QED  BY <1>7, <1>8

\* The n orders s, of B, come in w behind the first k.
Continues(w, k, s, n, B) ==
    DOMAIN s = 1 .. n /\ \A i \in 1 .. n : w[k + i] = s[i] /\ s[i] \in B

\* And so does a whole sequence of orders.
LEMMA AddOrdersRanks ==
    ASSUME NEW B, NEW p \in Seq(B), NEW w, NEW k \in Nat, Ranks(p, w, k),
           NEW s, NEW n \in Nat, Continues(w, k, s, n, B)
    PROVE  AddOrders(p, s) \in Seq(B) /\ Ranks(AddOrders(p, s), w, k + n)
<1>1. PICK g : /\ g[0] = p
               /\ \A i \in 0 .. n - 1 : g[i + 1] = AddOrder(g[i], s[i + 1])
               /\ g[n] = AddOrders(p, s)
  BY AddOrdersSteps DEF Continues
<1> DEFINE S == {i \in Nat : i <= n => g[i] \in Seq(B) /\ Ranks(g[i], w, k + i)}
<1>2. 0 \in S
  BY <1>1
<1>3. ASSUME NEW i \in Nat, i \in S PROVE i + 1 \in S
  <2> SUFFICES ASSUME i + 1 <= n
               PROVE  g[i + 1] \in Seq(B) /\ Ranks(g[i + 1], w, k + (i + 1))
    OBVIOUS
  <2>1. /\ i \in 0 .. n - 1 /\ i + 1 \in 1 .. n /\ i <= n
        /\ k + i \in Nat /\ k + (i + 1) = (k + i) + 1
    OBVIOUS
  <2>2. g[i] \in Seq(B) /\ Ranks(g[i], w, k + i)
    BY <1>3, <2>1
  <2>3. w[(k + i) + 1] = s[i + 1] /\ s[i + 1] \in B
    BY <2>1 DEF Continues
  <2>4. g[i + 1] = AddOrder(g[i], w[(k + i) + 1])
    BY <1>1, <2>1, <2>3
  <2>5. g[i + 1] \in Seq(B) /\ Ranks(g[i + 1], w, (k + i) + 1)
    BY <2>1, <2>2, <2>3, <2>4, OneMoreRanks
  <2> QED  BY <2>1, <2>5
<1>4. n \in S
  <2> HIDE DEF S
  <2> QED  BY <1>2, <1>3, Inducts
<1> QED  BY <1>1, <1>4

\* In q the orders p stay, and what comes behind them is of the n orders s.
Extends(q, p, s, n) ==
    /\ Len(p) <= Len(q)
    /\ \A i \in 1 .. Len(p) : q[i] = p[i]
    /\ \A i \in (Len(p) + 1) .. Len(q) : \E j \in 1 .. n : q[i] = s[j]

LEMMA AddOrdersExtends ==
    ASSUME NEW B, NEW p \in Seq(B), NEW w, NEW k \in Nat,
           NEW s, NEW n \in Nat, Continues(w, k, s, n, B)
    PROVE  Extends(AddOrders(p, s), p, s, n)
<1>1. PICK g : /\ g[0] = p
               /\ \A i \in 0 .. n - 1 : g[i + 1] = AddOrder(g[i], s[i + 1])
               /\ g[n] = AddOrders(p, s)
  BY AddOrdersSteps DEF Continues
<1> DEFINE S == {i \in Nat : i <= n => g[i] \in Seq(B) /\ Extends(g[i], p, s, n)}
<1>2. 0 \in S
  <2>1. Extends(p, p, s, n)
    BY DEF Extends
  <2> QED  BY <1>1, <2>1
<1>3. ASSUME NEW i \in Nat, i \in S PROVE i + 1 \in S
  <2> SUFFICES ASSUME i + 1 <= n 
               PROVE  g[i + 1] \in Seq(B) /\ Extends(g[i + 1], p, s, n)
    OBVIOUS
  <2> DEFINE q == g[i]
             o == s[i + 1]
             x == g[i + 1]
  <2>1. i \in 0 .. n - 1 /\ i + 1 \in 1 .. n /\ i <= n
    OBVIOUS
  <2>2. q \in Seq(B) /\ Extends(q, p, s, n)
    BY <1>3, <2>1
  <2>3. x = AddOrder(q, o) /\ o \in B
    BY <1>1, <2>1 DEF Continues
  <2>4. x = q \/ x = Append(q, o)
    BY <2>3 DEF AddOrder
  <2> HIDE DEF q, o, x
  <2>5. CASE x = q
    BY <2>2, <2>5 DEF x
  <2>6. CASE x = Append(q, o)
    <3>1. /\ q \in Seq(B) /\ Len(q) \in Nat /\ Len(p) \in Nat /\ Len(p) <= Len(q)
      BY <2>2 DEF Extends
    <3>2. /\ x \in Seq(B) /\ Len(x) = Len(q) + 1
          /\ \A j \in 1 .. Len(q) : x[j] = q[j]
          /\ x[Len(q) + 1] = o
      BY <2>3, <2>6, <3>1
    <3>3. \A j \in 1 .. Len(p) : x[j] = p[j]
      BY <2>2, <3>1, <3>2 DEF Extends
    <3>4. ASSUME NEW j \in (Len(p) + 1) .. Len(x) PROVE \E m \in 1 .. n : x[j] = s[m]
      <4>1. CASE j = Len(q) + 1
        BY <2>1, <3>2, <4>1 DEF o
      <4>2. CASE j # Len(q) + 1
        <5>1. j \in (Len(p) + 1) .. Len(q) /\ j \in 1 .. Len(q)
          BY <3>1, <3>2, <4>2
        <5> QED  BY <2>2, <3>2, <5>1 DEF Extends
      <4> QED  BY <4>1, <4>2
    <3>5. Len(p) <= Len(x)
      BY <3>1, <3>2
    <3> QED  BY <3>2, <3>3, <3>4, <3>5 DEF x, Extends
  <2> QED  BY <2>4, <2>5, <2>6
<1>4. n \in S
  <2> HIDE DEF S
  <2> QED  BY <1>2, <1>3, Inducts
<1> QED  BY <1>1, <1>4

-------------------------------------------------------------------------------
(* Effective orders.                                                       *)

AskedOrders(cols, sort) == [i \in DOMAIN sort |-> Asked(cols, sort[i])]

\* The bodies of the three properties of orders, of what was wanted before the
\* tie.
Firsts(wanted) ==
    {i \in DOMAIN wanted : \A j \in 1 .. (i - 1) : wanted[j].column # wanted[i].column}

IsTotal(orders, tie) ==
    /\ IsInjective([i \in DOMAIN orders |-> orders[i].column])
    /\ Columns(tie) \subseteq Columns(orders)

Place(wanted, i) == Cardinality({j \in Firsts(wanted) : j <= i})

Honours(orders, asks, tie) ==
    LET wanted == asks \o tie
    IN  /\ Len(orders) = Cardinality(Firsts(wanted))
        /\ \A i \in Firsts(wanted) :
            IF i <= Len(asks)
            THEN orders[Place(wanted, i)] = wanted[i]
            ELSE /\ orders[Place(wanted, i)].column = wanted[i].column
                 /\ orders[Place(wanted, i)].nulls = wanted[i].nulls

TieIsLast(orders, wanted, tie) ==
    LET n == Cardinality(Columns(wanted))
    IN  IF n = 0
        THEN \A i \in DOMAIN orders : \E j \in DOMAIN tie : orders[i] = tie[j]
        ELSE \A i \in (n + 1) .. Len(orders) : orders[i].desc = orders[n].desc

\* Without an error every sort value was accepted, and orders were added.
LEMMA NothingRefused ==
    ASSUME NEW q, NEW cols, NEW sort, NEW n \in Nat, DOMAIN sort = 1 .. n,
           ResolveOrders(q, cols, sort).err = "none"
    PROVE  LET parts == AddOrders(AddOrders(<<>>, q.head), AskedOrders(cols, sort))
           IN  ResolveOrders(q, cols, sort).orders = AddOrders(parts, Following(parts, q.tie))
<1> DEFINE refused == {i \in DOMAIN sort : SortError(cols, sort[i]) # "none"}
<1>1. refused = {}
  <2> SUFFICES ASSUME refused # {} PROVE FALSE
    OBVIOUS
  <2>1. ResolveOrders(q, cols, sort).err = SortError(cols, sort[Min(refused)])
    BY DEF ResolveOrders
  <2>2. \E m \in refused : \A j \in refused : m <= j
    <3>1. refused \subseteq Nat
      OBVIOUS
    <3> HIDE DEF refused
    <3> QED  BY <3>1, Least
  <2>3. Min(refused) \in refused
    <3> HIDE DEF refused
    <3> QED  BY <2>2 DEF Min
  <2> QED  BY <2>1, <2>3
<1> QED  BY <1>1 DEF ResolveOrders, AskedOrders

LEMMA FollowingFacts ==
    ASSUME NEW parts, NEW tie \in Seq(GivenOrder)
    PROVE  LET t == Following(parts, tie)
           IN  /\ DOMAIN t = 1 .. Len(tie)
               /\ \A i \in 1 .. Len(tie) :
                    /\ t[i].column = tie[i].column /\ t[i].nulls = tie[i].nulls
                    /\ parts = <<>> => t[i] = tie[i]
                    /\ parts # <<>> => t[i].desc = Last(parts).desc
<1>1. DOMAIN tie = 1 .. Len(tie) /\ \A i \in 1 .. Len(tie) : tie[i] \in GivenOrder
  OBVIOUS
<1>2. CASE parts = <<>>
  BY <1>1, <1>2 DEF Following
<1>3. CASE parts # <<>>
  <2>1. Following(parts, tie) = [i \in 1 .. Len(tie) |-> [tie[i] EXCEPT !.desc = Last(parts).desc]]
    BY <1>1, <1>3 DEF Following
  <2>2. ASSUME NEW i \in 1 .. Len(tie)
        PROVE  LET o == [tie[i] EXCEPT !.desc = Last(parts).desc]
               IN  /\ o.column = tie[i].column /\ o.nulls = tie[i].nulls
                   /\ o.desc = Last(parts).desc
    BY <1>1 DEF GivenOrder
  <2> QED  BY <1>3, <2>1, <2>2
<1> QED  BY <1>2, <1>3

LEMMA ResolvedOrders ==
    ASSUME NEW q, q.head \in Seq(GivenOrder), q.tie \in Seq(GivenOrder),
           NEW cols, NEW sort \in Seq(SortValue),
           ResolveOrders(q, cols, sort).err = "none"
    PROVE  LET orders == ResolveOrders(q, cols, sort).orders
               wanted == q.head \o AskedOrders(cols, sort)
           IN  /\ IsTotal(orders, q.tie)
               /\ Honours(orders, wanted, q.tie)
               /\ TieIsLast(orders, wanted, q.tie)
<1> DEFINE h == q.head
           a == AskedOrders(cols, sort)
           first == AddOrders(<<>>, h)
           parts == AddOrders(first, a)
           t == Following(parts, q.tie)
           orders == ResolveOrders(q, cols, sort).orders
           x == Len(h)
           y == Len(sort)
           m == x + y
           n == Len(q.tie)
           S == {h[i] : i \in 1 .. x} \cup {a[i] : i \in 1 .. y}
           wanted == h \o a
           all == wanted \o q.tie
           w == [i \in 1 .. m + n |-> IF i <= m THEN wanted[i] ELSE t[i - m]]
           B == {w[i] : i \in 1 .. m + n}
<1>1. /\ x \in Nat /\ y \in Nat /\ n \in Nat
      /\ DOMAIN h = 1 .. x /\ DOMAIN sort = 1 .. y /\ DOMAIN q.tie = 1 .. n
  OBVIOUS
<1>2. DOMAIN a = 1 .. y /\ Len(a) = y /\ a \in Seq({a[i] : i \in 1 .. y})
  BY <1>1 DEF AskedOrders
<1>3. orders = AddOrders(parts, t)
  BY <1>1, NothingRefused
<1>4. /\ DOMAIN t = 1 .. n
      /\ \A i \in 1 .. n :
            /\ t[i].column = q.tie[i].column /\ t[i].nulls = q.tie[i].nulls
            /\ parts = <<>> => t[i] = q.tie[i]
            /\ parts # <<>> => t[i].desc = Last(parts).desc
  <2> HIDE DEF parts
  <2> QED  BY FollowingFacts
<1>5. h \in Seq({h[i] : i \in 1 .. x})
  OBVIOUS
<1> HIDE DEF h, a, t, parts, first, orders, x, y, n
<1>6. /\ DOMAIN wanted = 1 .. m /\ Len(wanted) = m /\ wanted \in Seq(S)
      /\ \A i \in 1 .. x : wanted[i] = h[i]
      /\ \A i \in 1 .. y : wanted[x + i] = a[i]
  <2> DEFINE H == {h[i] : i \in 1 .. x}
             A == {a[i] : i \in 1 .. y}
  <2>1. h \in Seq(H) /\ a \in Seq(A) /\ Len(h) = x /\ Len(a) = y
    BY <1>2, <1>5 DEF x
  <2>2. S = H \cup A
    OBVIOUS
  <2> HIDE DEF S, wanted, H, A
  <2>3. h \in Seq(S) /\ a \in Seq(S)
    BY <2>1, <2>2
  <2>4. /\ DOMAIN (h \o a) = 1 .. Len(h) + Len(a) /\ Len(h \o a) = Len(h) + Len(a)
        /\ \A i \in 1 .. Len(h) : (h \o a)[i] = h[i]
        /\ \A i \in 1 .. Len(a) : (h \o a)[Len(h) + i] = a[i]
    BY <2>3
  <2>5. h \o a \in Seq(S)
    BY <2>3
  <2> QED  BY <2>1, <2>4, <2>5 DEF wanted
<1> HIDE DEF wanted, S
<1>7. /\ m \in Nat /\ m + n \in Nat
      /\ Continues(w, 0, h, x, B)
      /\ Continues(w, x, a, y, B)
      /\ Continues(w, m, t, n, B)
      /\ \A i \in 1 .. n : w[m + i] = t[i]
      /\ \A i \in 1 .. m : w[i] = wanted[i]
  <2>1. \A i \in 1 .. m : w[i] = wanted[i] /\ i \in 1 .. m + n
    BY <1>1
  <2>2. \A i \in 1 .. x : i \in 1 .. m /\ w[0 + i] = h[i] /\ 0 + i = i
    BY <1>1, <1>6, <2>1
  <2>3. \A i \in 1 .. y : x + i \in 1 .. m /\ w[x + i] = a[i]
    BY <1>1, <1>6, <2>1
  <2>4. \A i \in 1 .. n : m + i \in 1 .. m + n /\ ~(m + i <= m) /\ (m + i) - m = i
    BY <1>1
  <2>5. \A i \in 1 .. n : w[m + i] = t[i]
    BY <2>4
  <2>6. \A i \in 1 .. m + n : w[i] \in B
    OBVIOUS
  <2>7. m \in Nat /\ m + n \in Nat
    BY <1>1
  <2> HIDE DEF w, B
  <2>8. Continues(w, 0, h, x, B)
    BY <1>1, <2>2, <2>6, <2>7 DEF Continues, h
  <2>9. Continues(w, x, a, y, B)
    BY <1>1, <1>2, <2>3, <2>6, <2>7 DEF Continues
  <2>10. Continues(w, m, t, n, B)
    BY <1>4, <2>4, <2>5, <2>6, <2>7 DEF Continues
  <2> QED  BY <2>1, <2>5, <2>7, <2>8, <2>9, <2>10
<1> HIDE DEF w, B
<1>8. first \in Seq(B) /\ Ranks(first, w, x)
  <2>1. <<>> \in Seq(B) /\ Ranks(<<>>, w, 0) /\ 0 + x = x
    BY <1>1, NothingRanks
  <2> QED  BY <1>1, <1>7, <2>1, AddOrdersRanks DEF first
<1>9. parts \in Seq(B) /\ Ranks(parts, w, m)
  BY <1>1, <1>2, <1>7, <1>8, AddOrdersRanks DEF parts
<1>10. orders \in Seq(B) /\ Ranks(orders, w, m + n)
  BY <1>1, <1>3, <1>4, <1>7, <1>9, AddOrdersRanks
<1>11. /\ Len(parts) <= Len(orders)
       /\ \A i \in 1 .. Len(parts) : orders[i] = parts[i]
       /\ \A i \in (Len(parts) + 1) .. Len(orders) : \E j \in 1 .. n : orders[i] = t[j]
  <2>1. Extends(AddOrders(parts, t), parts, t, n)
    <3> HIDE DEF m
    <3> QED  BY <1>1, <1>7, <1>9, AddOrdersExtends
  <2> QED  BY <1>3, <2>1 DEF Extends
<1>12. /\ DOMAIN all = 1 .. m + n
       /\ \A i \in 1 .. m : all[i] = wanted[i]
       /\ \A i \in 1 .. n : all[m + i] = q.tie[i]
  <2> DEFINE T == S \cup GivenOrder
             u == q.tie
  <2>1. wanted \in Seq(T) /\ u \in Seq(T)
    BY <1>6
  <2> HIDE DEF T, u
  <2>2. /\ DOMAIN (wanted \o u) = 1 .. Len(wanted) + Len(u)
        /\ \A i \in 1 .. Len(wanted) : (wanted \o u)[i] = wanted[i]
        /\ \A i \in 1 .. Len(u) : (wanted \o u)[Len(wanted) + i] = u[i]
    BY <2>1
  <2>3. Len(wanted) = m /\ Len(u) = n
    BY <1>6 DEF n, u
  <2> HIDE DEF m
  <2> QED  BY <2>2, <2>3 DEF u
<1> HIDE DEF m
<1>13. IsTotal(orders, q.tie)
  <2>1. IsInjective([i \in DOMAIN orders |-> orders[i].column])
    BY <1>10 DEF Ranks, IsInjective
  <2>2. Columns(orders) = {w[i].column : i \in 1 .. m + n}
    BY <1>10 DEF Ranks, Columns
  <2>3. ASSUME NEW i \in DOMAIN q.tie PROVE q.tie[i].column \in {w[j].column : j \in 1 .. m + n}
    <3>1. i \in 1 .. n /\ m + i \in 1 .. m + n
      BY <1>1, <1>7
    <3>2. w[m + i].column = q.tie[i].column
      BY <1>4, <1>7, <3>1
    <3> QED  BY <3>1, <3>2
  <2> QED  BY <2>1, <2>2, <2>3 DEF IsTotal, Columns
<1>14. Honours(orders, wanted, q.tie)
  <2>1. \A i \in 1 .. m + n : i <= m \/ i - m \in 1 .. n
    BY <1>1, <1>7
  <2>2. \A i \in 1 .. m + n : all[i].column = w[i].column /\ all[i].nulls = w[i].nulls
    <3> TAKE i \in 1 .. m + n
    <3>1. CASE i <= m
      <4>1. i \in 1 .. m
        BY <1>7, <3>1
      <4> QED  BY <1>7, <1>12, <4>1
    <3>2. CASE i - m \in 1 .. n
      <4>1. PICK k \in 1 .. n : i = m + k
        BY <1>7, <3>2
      <4>2. w[m + k] = t[k] /\ all[m + k] = q.tie[k]
        BY <1>7, <1>12
      <4>3. t[k].column = q.tie[k].column /\ t[k].nulls = q.tie[k].nulls
        BY <1>4
      <4> HIDE DEF all
      <4> QED  BY <4>1, <4>2, <4>3
    <3> QED  BY <2>1, <3>1, <3>2
  <2>3. \A j \in 1 .. m + n :
            j \in Firsts(all) <=> \A z \in 1 .. (j - 1) : w[z].column # w[j].column
    <3> TAKE j \in 1 .. m + n
    <3>1. \A z \in 1 .. (j - 1) : z \in 1 .. m + n
      BY <1>7
    <3> HIDE DEF all
    <3> QED  BY <1>12, <2>2, <3>1 DEF Firsts
  <2>4. \A j \in Firsts(all) : j \in 1 .. m + n
    BY <1>12 DEF Firsts
  <2>5. Firsts(all) = FirstsUpTo(w, m + n)
    <3> HIDE DEF all
    <3> QED  BY <2>3, <2>4 DEF FirstsUpTo
  <2>6. Len(orders) = Cardinality(Firsts(all))
    BY <1>10, <2>5 DEF Ranks
  <2>7. ASSUME NEW i \in Firsts(all)
        PROVE  orders[Place(all, i)] = w[i]
    <3>1. i \in 1 .. m + n
      BY <2>4
    <3>2. \A j : j \in 1 .. i <=> j \in 1 .. m + n /\ j <= i
      BY <1>7, <3>1
    <3>3. {j \in Firsts(all) : j <= i} = FirstsUpTo(w, i)
      BY <2>5, <3>2 DEF FirstsUpTo
    <3> HIDE DEF all
    <3> QED  BY <1>10, <2>5, <3>3 DEF Ranks, Place
  <2>8. \A i \in 1 .. m + n : i <= m => all[i] = w[i]
    BY <1>7, <1>12
  <2> HIDE DEF all
  <2> QED  BY <1>6, <2>2, <2>4, <2>6, <2>7, <2>8 DEF Honours, all
<1>15. TieIsLast(orders, wanted, q.tie)
  <2>1. Cardinality(Columns(wanted)) = Len(parts)
    <3>1. Columns(wanted) = {w[i].column : i \in 1 .. m}
      <4>1. DOMAIN wanted = 1 .. m /\ \A i \in 1 .. m : w[i] = wanted[i]
        BY <1>6, <1>7
      <4> HIDE DEF wanted
      <4> QED  BY <4>1 DEF Columns
    <3> QED  BY <1>9, <3>1 DEF Ranks
  <2>2. Len(parts) \in Nat /\ Len(orders) \in Nat /\ DOMAIN orders = 1 .. Len(orders)
    BY <1>9, <1>10
  <2>3. CASE Len(parts) = 0
    <3>1. parts = <<>>
      BY <1>9, <2>3
    <3>2. ASSUME NEW i \in DOMAIN orders PROVE \E j \in DOMAIN q.tie : orders[i] = q.tie[j]
      <4>1. PICK j \in 1 .. n : orders[i] = t[j]
        BY <1>11, <2>2, <2>3
      <4> QED  BY <1>1, <1>4, <3>1, <4>1
    <3> QED  BY <2>1, <2>3, <3>2 DEF TieIsLast
  <2>4. CASE Len(parts) # 0
    <3>1. parts # <<>> /\ Len(parts) \in 1 .. Len(parts)
      BY <1>9, <2>2, <2>4
    <3>2. Last(parts) = parts[Len(parts)] /\ orders[Len(parts)] = parts[Len(parts)]
      BY <1>11, <3>1 DEF Last
    <3>3. ASSUME NEW i \in (Len(parts) + 1) .. Len(orders)
          PROVE  orders[i].desc = orders[Len(parts)].desc
      <4>1. PICK j \in 1 .. n : orders[i] = t[j]
        BY <1>11
      <4> QED  BY <1>4, <3>1, <3>2, <4>1
    <3> QED  BY <2>1, <2>4, <3>3 DEF TieIsLast
  <2> QED  BY <2>3, <2>4
<1> QED  BY <1>13, <1>14, <1>15 DEF orders, wanted, h, a

-------------------------------------------------------------------------------
(* The inductive invariant.                                                *)

TypeOK ==
    /\ todo \in [Request -> {Idle} \cup Seq(StructField)]
    /\ mine = [r \in Request |-> mine[r]]
    /\ asked = [r \in Request |-> asked[r]]
    /\ answer = [r \in Request |-> answer[r]]
    /\ cache = [k \in Keys |-> cache[k]]
    /\ \A r \in Request : asked[r].sort \in Seq(SortValue)

\* Where Make stands.
MakeOK ==
    /\ made = "new" => query = <<>> /\ sortable = NoEntries
    /\ made # "new" => query \in Options
    /\ made \in {"normalising", "ok"} => MakeError(query) = "none"
    /\ made = "normalising" => query.cols # NoCols
    /\ made \in {"normalising", "ok"} /\ query.cols = NoCols => sortable = NoEntries

\* The names the range has been at; their order has left no trace.
Visited == DOMAIN query.cols \ left

NormaliseOK ==
    (made # "new" /\ MakeError(query) = "none" /\ query.cols # NoCols) =>
        IF made \in {"normalising", "ok"}
        THEN /\ left \subseteq DOMAIN query.cols
             /\ made = "ok" => left = {}
             /\ DOMAIN sortable = {Lower[f] : f \in Visited}
             /\ \A f \in Visited :
                    /\ f # Empty /\ query.cols[f] # Empty
                    /\ sortable[Lower[f]] = query.cols[f]
        ELSE ~WellFormed(query.cols)

KeyOf(r) == <<asked[r].model, query.tag>>

WhitelistOf(r) ==
    IF Derives(asked[r].sort)
    THEN cache[KeyOf(r)]
    ELSE [by |-> "query", cols |-> sortable]

AnswerFrom(whitelist, sort) ==
    LET found == ResolveOrders(query, whitelist.cols, sort)
    IN  [err |-> found.err, orders |-> found.orders, by |-> whitelist.by]

\* An answer is still the one of the whitelist there is.
IsAnswered(r) ==
    /\ Derives(asked[r].sort) => KeyOf(r) \in Keys /\ cache[KeyOf(r)] # Uncached
    /\ answer[r] = AnswerFrom(WhitelistOf(r), asked[r].sort)

RequestOK(r) ==
    /\ made \in {"new", "normalising"} =>
            answer[r] = Nothing /\ asked[r].sort = <<>>
    /\ todo[r] # Idle =>
            made = "ok" /\ Derives(asked[r].sort) /\ asked[r].model \in Model
    /\ made = "ok" /\ todo[r] = Idle =>
            \/ answer[r] = Nothing /\ asked[r].sort = <<>>
            \/ /\ answer[r].by = "nobody"
               /\ answer[r].err \in {"ErrUnsortableModel", "ErrAmbiguousSortField"}
            \/ IsAnswered(r)

Fields(types) == UNION {{FieldsOf[m][i] : i \in DOMAIN FieldsOf[m]} : m \in types}

Entry(f, tag) == <<Lower[NameOf(f, tag)], ColumnOf(f)>>

Entries(cols) == {<<n, cols[n]>> : n \in DOMAIN cols}

IsSortable(f, tag) == ~Flattened(f) /\ ~Skipped(f, tag) /\ (f.exported \/ f.anonymous)

\* What the walk has to do for a field is done, or among what is to come.
Handled(f, types, tag, cols) ==
    /\ Flattened(f) => f.embeds \in types
    /\ IsSortable(f, tag) => Entry(f, tag) \in Entries(cols)

ToCome(fields) == {fields[i] : i \in DOMAIN fields}

\* The walk of a request: it is among the parts of the model, it has made no
\* entry that is not of them, and it loses none.
WalkOK(r) ==
    todo[r] # Idle =>
        /\ ToCome(todo[r]) \subseteq Fields(PartsOf(asked[r].model))
        /\ Entries(mine[r]) \subseteq
            {Entry(f, query.tag) : f \in SortableFields(asked[r].model, query.tag)}
        /\ \E types \in SUBSET Model :
            /\ asked[r].model \in types
            /\ \A f \in Fields(types) :
                f \in ToCome(todo[r]) \/ Handled(f, types, query.tag, mine[r])

IInv ==
    /\ TypeOK
    /\ MakeOK
    /\ NormaliseOK
    /\ \A r \in Request : RequestOK(r) /\ WalkOK(r)
    /\ CacheIsWhole

LEMMA InitOK == Init => IInv
<1> SUFFICES ASSUME Init PROVE IInv
  OBVIOUS
<1>1. TypeOK
  <2>1. todo \in [Request -> {Idle} \cup Seq(StructField)]
    BY DEF Init
  <2>2. \A r \in Request : asked[r].sort = <<>>
    BY DEF Init
  <2>3. <<>> \in Seq(SortValue)
    OBVIOUS
  <2>4. /\ mine = [r \in Request |-> mine[r]]
        /\ answer = [r \in Request |-> answer[r]]
        /\ cache = [k \in Keys |-> cache[k]]
    BY DEF Init
  <2>5. asked = [r \in Request |-> asked[r]]
    BY DEF Init
  <2> QED  BY <2>1, <2>2, <2>3, <2>4, <2>5 DEF TypeOK
<1>2. MakeOK /\ NormaliseOK
  BY DEF Init, MakeOK, NormaliseOK
<1>3. ASSUME NEW r \in Request PROVE RequestOK(r) /\ WalkOK(r)
  BY DEF Init, RequestOK, WalkOK
<1>4. CacheIsWhole
  BY DEF Init, CacheIsWhole
<1> QED  BY <1>1, <1>2, <1>3, <1>4 DEF IInv

LEMMA TypeNext ==
    ASSUME IInv, [Next]_vars
    PROVE  TypeOK'
<1> USE DEF TypeOK
<1>1. TypeOK
  BY DEF IInv
<1>2. CASE UNCHANGED vars
  BY <1>1, <1>2 DEF vars, makeVars, requestVars
<1>3. CASE \/ \E q \in Options : Make(q)
           \/ \E name \in left : Normalise(name)
           \/ Normalised
  BY <1>1, <1>3 DEF Make, Normalise, Normalised, requestVars
<1>4. ASSUME NEW r \in Request, NEW sort \in Sorts, NEW type \in RowType,
             Refuse(r, type, sort) \/ Build(r, type, sort) \/ Derive(r, type, sort)
      PROVE  TypeOK'
  <2>1. sort \in Seq(SortValue)
    BY RequestAssumption
  <2>2. /\ asked' = [asked EXCEPT ![r] = [model |-> type, sort |-> sort]]
        /\ \E x : answer' = [answer EXCEPT ![r] = x]
        /\ mine' = mine \/ \E x : mine' = [mine EXCEPT ![r] = x]
        /\ cache' = cache
    BY <1>4 DEF Refuse, Build, Derive, Answered, makeVars
  <2>3. todo' \in [Request -> {Idle} \cup Seq(StructField)]
    <3>1. CASE Derive(r, type, sort)
      <4>1. type \in Model /\ FieldsOf[type] \in Seq(StructField)
        BY <3>1, ModelAssumption DEF Derive
      <4> QED  BY <1>1, <3>1, <4>1 DEF Derive
    <3>2. CASE Refuse(r, type, sort) \/ Build(r, type, sort)
      BY <1>1, <3>2 DEF Refuse, Build
    <3> QED  BY <1>4, <3>1, <3>2
  <2>4. \A i \in Request : asked'[i].sort \in Seq(SortValue)
    BY <1>1, <2>1, <2>2
  <2> QED  BY <1>1, <2>2, <2>3, <2>4
<1>5. ASSUME NEW r \in Request, Walk(r) \/ Derived(r)
      PROVE  TypeOK'
  <2>1. /\ asked' = asked
        /\ answer' = answer \/ \E x : answer' = [answer EXCEPT ![r] = x]
        /\ mine' = mine \/ \E x : mine' = [mine EXCEPT ![r] = x]
        /\ cache' = cache \/ \E k, x : cache' = [cache EXCEPT ![k] = x]
    BY <1>5 DEF Walk, Derived, Answered, makeVars
  <2>2. todo' \in [Request -> {Idle} \cup Seq(StructField)]
    <3>1. CASE Walk(r)
      <4> DEFINE field == Head(todo[r])
                 rest == Tail(todo[r])
      <4>1. /\ todo[r] \in Seq(StructField) /\ todo[r] # <<>>
            /\ \/ todo' = [todo EXCEPT ![r] = rest]
               \/ Flattened(field) /\ todo' = [todo EXCEPT ![r] = FieldsOf[field.embeds] \o rest]
               \/ todo' = [todo EXCEPT ![r] = Idle]
        BY <1>1, <3>1 DEF Walk, Unfolded, Fate
      <4>2. field \in StructField /\ rest \in Seq(StructField)
        BY <4>1
      <4>3. Flattened(field) => FieldsOf[field.embeds] \o rest \in Seq(StructField)
        <5>1. Flattened(field) => field.embeds \in Model
          BY <4>2 DEF StructField, Flattened
        <5>2. Flattened(field) => FieldsOf[field.embeds] \in Seq(StructField)
          BY <5>1, ModelAssumption
        <5> HIDE DEF rest
        <5> QED  BY <4>2, <5>2
      <4> HIDE DEF field, rest
      <4> QED  BY <1>1, <4>1, <4>2, <4>3
    <3>2. CASE Derived(r)
      BY <1>1, <3>2 DEF Derived
    <3> QED  BY <1>5, <3>1, <3>2
  <2> QED  BY <1>1, <2>1, <2>2
<1> QED  BY <1>2, <1>3, <1>4, <1>5 DEF Next

\* Neither the query nor its whitelist changes once Make is through, nor a
\* whitelist in the cache.
LEMMA RequestsLeaveMake ==
    ASSUME NEW r \in Request,
           \/ \E sort \in Sorts, type \in RowType :
                Refuse(r, type, sort) \/ Build(r, type, sort) \/ Derive(r, type, sort)
           \/ Walk(r) \/ Derived(r)
    PROVE  UNCHANGED makeVars
BY DEF Refuse, Build, Derive, Walk, Derived

LEMMA CacheStays ==
    ASSUME TypeOK, [Next]_vars
    PROVE  \A k \in Keys : cache[k] # Uncached => cache'[k] = cache[k]
<1>1. CASE cache' = cache
  BY <1>1
<1>2. ASSUME NEW r \in Request, Derived(r)
      PROVE  \A k \in Keys : cache[k] # Uncached => cache'[k] = cache[k]
  BY <1>2 DEF Derived, LoadOrStore, TypeOK
<1>3. cache' = cache \/ \E r \in Request : Derived(r)
  BY DEF Next, Make, Normalise, Normalised, Refuse, Build, Derive, Walk, vars
<1> QED  BY <1>1, <1>2, <1>3

-------------------------------------------------------------------------------
(* Make.                                                                   *)

LEMMA ErrorsOfMake ==
    ASSUME NEW q
    PROVE  MakeError(q) \in {"none", "ErrNoSQL", "ErrNoTie", "ErrInvalidNulls",
                             "ErrInvalidColumn"}
BY DEF MakeError, FirstError, OrderError

LEMMA NormaliseStep ==
    ASSUME IInv, NEW name \in left, Normalise(name)
    PROVE  NormaliseOK'
<1> DEFINE column == query.cols[name]
<1>1. /\ made = "normalising" /\ query' = query /\ left' = left \ {name}
      /\ MakeError(query) = "none" /\ query.cols # NoCols /\ query \in Options
  BY DEF Normalise, IInv, MakeOK
<1>2. /\ left \subseteq DOMAIN query.cols
      /\ DOMAIN sortable = {Lower[f] : f \in Visited}
      /\ \A f \in Visited :
            /\ f # Empty /\ query.cols[f] # Empty
            /\ sortable[Lower[f]] = query.cols[f]
  BY <1>1 DEF IInv, NormaliseOK
<1>3. name \in DOMAIN query.cols /\ name \notin Visited
  BY <1>2 DEF Visited
<1>4. CASE EntryError(name) = "none"
  <2>1. made' = "normalising" /\ sortable' = Put(sortable, name, column)
    BY <1>1, <1>4 DEF Normalise
  <2>2. Visited' = Visited \cup {name}
    BY <1>1, <1>3 DEF Visited
  <2>3. name # Empty /\ column # Empty /\ ~Ambiguous(sortable, name, column)
    BY <1>4 DEF EntryError
  <2>4. DOMAIN sortable' = DOMAIN sortable \cup {Lower[name]}
    BY <2>1 DEF Put
  <2>5. \A n \in DOMAIN sortable' : sortable'[n] = IF n = Lower[name] THEN column ELSE sortable[n]
    BY <2>1 DEF Put
  <2>6. DOMAIN sortable' = {Lower[f] : f \in Visited'}
    BY <1>2, <2>2, <2>4
  <2>7. ASSUME NEW f \in Visited'
        PROVE  /\ f # Empty /\ query.cols[f] # Empty
               /\ sortable'[Lower[f]] = query.cols[f]
    <3>1. Lower[f] \in DOMAIN sortable'
      BY <2>6
    <3>2. CASE f = name
      BY <2>3, <2>5, <3>1, <3>2
    <3>3. CASE f \in Visited
      <4>1. Lower[f] \in DOMAIN sortable
        BY <1>2, <3>3
      <4>2. Lower[f] = Lower[name] => sortable[Lower[f]] = column
        BY <2>3, <4>1 DEF Ambiguous
      <4> QED  BY <1>2, <2>5, <3>1, <3>3, <4>2
    <3> QED  BY <2>2, <3>2, <3>3
  <2>8. left' \subseteq DOMAIN query.cols
    BY <1>1, <1>2
  <2> QED  BY <1>1, <2>1, <2>6, <2>7, <2>8 DEF NormaliseOK
<1>5. CASE EntryError(name) # "none"
  <2>1. made' = EntryError(name) /\ made' \notin {"normalising", "ok"}
    BY <1>5 DEF Normalise, EntryError
  <2>2. name = Empty \/ column = Empty \/ Ambiguous(sortable, name, column)
    BY <1>5 DEF EntryError
  <2>3. ~WellFormed(query.cols)
    <3>1. CASE name = Empty \/ column = Empty
      BY <1>3, <3>1 DEF WellFormed
    <3>2. CASE Ambiguous(sortable, name, column)
      <4>1. Lower[name] \in DOMAIN sortable /\ sortable[Lower[name]] # column
        BY <3>2 DEF Ambiguous
      <4>2. PICK f \in Visited : Lower[f] = Lower[name]
        BY <1>2, <4>1
      <4>3. query.cols[f] # column /\ f \in DOMAIN query.cols
        BY <1>2, <4>1, <4>2 DEF Visited
      <4> QED  BY <1>3, <4>2, <4>3 DEF WellFormed
    <3> QED  BY <2>2, <3>1, <3>2
  <2> QED  BY <1>1, <2>1, <2>3 DEF NormaliseOK
<1> QED  BY <1>4, <1>5

LEMMA MakeNext ==
    ASSUME IInv, [Next]_vars
    PROVE  MakeOK' /\ NormaliseOK'
<1>1. MakeOK /\ NormaliseOK /\ TypeOK
  BY DEF IInv
<1>2. CASE UNCHANGED makeVars
  BY <1>1, <1>2 DEF MakeOK, NormaliseOK, makeVars, Visited
<1>3. ASSUME NEW q \in Options, Make(q) PROVE MakeOK' /\ NormaliseOK'
  <2>1. /\ query' = q /\ sortable' = NoEntries
        /\ MakeError(q) # "none" => made' = MakeError(q)
        /\ MakeError(q) = "none" =>
                made' = IF q.cols = NoCols THEN "ok" ELSE "normalising"
        /\ left' = IF made' = "normalising" THEN DOMAIN q.cols ELSE {}
    BY <1>1, <1>3 DEF Make, MakeOK
  <2>2. MakeError(q) # "none" => made' \notin {"new", "normalising", "ok"}
    <3> DEFINE e == MakeError(q)
    <3>1. e \in {"none", "ErrNoSQL", "ErrNoTie", "ErrInvalidNulls", "ErrInvalidColumn"}
      BY ErrorsOfMake
    <3>2. e # "none" => made' = e
      BY <2>1
    <3> HIDE DEF e
    <3>3. e # "none" => made' \notin {"new", "normalising", "ok"}
      BY <3>1, <3>2
    <3> QED  BY <3>3 DEF e
  <2>3. MakeOK'
    BY <2>1, <2>2 DEF MakeOK
  <2>4. NormaliseOK'
    <3> SUFFICES ASSUME MakeError(q) = "none", q.cols # NoCols PROVE NormaliseOK'
      BY <2>1 DEF NormaliseOK
    <3>1. made' = "normalising" /\ left' = DOMAIN q.cols
      BY <2>1
    <3>2. Visited' = {}
      BY <2>1, <3>1 DEF Visited
    <3>3. DOMAIN sortable' = {}
      BY <2>1 DEF NoEntries
    <3> QED  BY <2>1, <3>1, <3>2, <3>3 DEF NormaliseOK
  <2> QED  BY <2>3, <2>4
<1>4. ASSUME NEW name \in left, Normalise(name) PROVE MakeOK' /\ NormaliseOK'
  <2>1. made' \in {"normalising", "ErrUnknownSortField", "ErrInvalidColumn", "ErrAmbiguousSortField"}
    BY <1>4 DEF Normalise, EntryError
  <2>2. MakeOK'
    BY <1>1, <1>4, <2>1 DEF MakeOK, Normalise
  <2> QED  BY <1>4, <2>2, NormaliseStep
<1>5. CASE Normalised
  <2>1. MakeOK'
    BY <1>1, <1>5 DEF MakeOK, Normalised
  <2>2. NormaliseOK'
    BY <1>1, <1>5 DEF MakeOK, NormaliseOK, Normalised, Visited
  <2> QED  BY <2>1, <2>2
<1> QED  BY <1>2, <1>3, <1>4, <1>5, RequestsLeaveMake DEF Next, vars

-------------------------------------------------------------------------------
(* Requests.                                                               *)

\* Whoever does not move keeps its answer, and the whitelist it came from.
LEMMA OthersStand ==
    ASSUME IInv, [Next]_vars, UNCHANGED makeVars, NEW r \in Request,
           UNCHANGED <<todo[r], asked[r], answer[r]>>
    PROVE  RequestOK(r)'
<1>1. RequestOK(r) /\ TypeOK
  BY DEF IInv
<1>2. query' = query /\ made' = made /\ sortable' = sortable
  BY DEF makeVars
<1>3. \A s : Derives(s)' <=> Derives(s)
  BY <1>2 DEF Derives
<1>4. ASSUME IsAnswered(r) PROVE IsAnswered(r)'
  <2>1. KeyOf(r)' = KeyOf(r)
    BY <1>2 DEF KeyOf
  <2>2. Derives(asked[r].sort) =>
            KeyOf(r) \in Keys /\ cache[KeyOf(r)] # Uncached /\ cache'[KeyOf(r)] = cache[KeyOf(r)]
    BY <1>1, <1>4, CacheStays DEF IsAnswered
  <2>3. WhitelistOf(r)' = WhitelistOf(r)
    BY <1>2, <1>3, <2>1, <2>2 DEF WhitelistOf
  <2>4. AnswerFrom(WhitelistOf(r), asked[r].sort)' = AnswerFrom(WhitelistOf(r), asked[r].sort)
    BY <1>2, <2>3 DEF AnswerFrom
  <2> QED  BY <1>3, <1>4, <2>1, <2>2, <2>4 DEF IsAnswered
<1> QED  BY <1>1, <1>2, <1>3, <1>4 DEF RequestOK

LEMMA RefuseOK ==
    ASSUME IInv, NEW r \in Request, NEW type \in RowType, NEW sort \in Sorts,
           Refuse(r, type, sort)
    PROVE  RequestOK(r)'
<1>1. TypeOK /\ made \notin {"new", "normalising"} /\ made' = made /\ todo' = todo /\ todo[r] = Idle
  BY DEF IInv, Refuse, makeVars
<1>2. answer'[r] = [Nothing EXCEPT !.err = IF made # "ok" THEN "ErrNoSQL" ELSE "ErrUnsortableModel"]
  BY <1>1 DEF Refuse, TypeOK
<1>3. made = "ok" => answer'[r].by = "nobody" /\ answer'[r].err = "ErrUnsortableModel"
  BY <1>2 DEF Nothing
<1> QED  BY <1>1, <1>3 DEF RequestOK

LEMMA BuildOK ==
    ASSUME IInv, NEW r \in Request, NEW type \in RowType, NEW sort \in Sorts,
           Build(r, type, sort)
    PROVE  RequestOK(r)'
<1>1. /\ TypeOK /\ MakeOK /\ made = "ok" /\ todo[r] = Idle
      /\ made' = made /\ todo' = todo /\ query' = query /\ sortable' = sortable
      /\ cache' = cache
  BY DEF IInv, Build, makeVars
<1>2. asked'[r] = [model |-> type, sort |-> sort]
  BY <1>1 DEF Build, TypeOK
<1>3. Derives(asked[r].sort)' <=> Derives(sort)
  BY <1>1, <1>2 DEF Derives
<1>4. KeyOf(r)' = <<type, query.tag>>
  BY <1>1, <1>2 DEF KeyOf
<1>5. IsAnswered(r)'
  <2>1. CASE ~Derives(sort)
    <3>1. (IF query.cols = NoCols THEN NoEntries ELSE sortable) = sortable
      BY <1>1 DEF MakeOK
    <3>2. answer'[r] = AnswerFrom([by |-> "query", cols |-> sortable], sort)
      BY <1>1, <2>1, <3>1 DEF Build, Answered, TypeOK, AnswerFrom
    <3>3. WhitelistOf(r)' = [by |-> "query", cols |-> sortable]
      BY <1>1, <1>3, <2>1 DEF WhitelistOf
    <3>4. AnswerFrom(WhitelistOf(r), asked[r].sort)' = AnswerFrom([by |-> "query", cols |-> sortable], sort)
      BY <1>1, <1>2, <3>3 DEF AnswerFrom
    <3> QED  BY <1>3, <2>1, <3>2, <3>4 DEF IsAnswered
  <2>2. CASE Derives(sort)
    <3> DEFINE key == <<type, query.tag>>
    <3>1. /\ type \in Model /\ cache[key] # Uncached
          /\ answer'[r] = AnswerFrom(cache[key], sort)
      BY <1>1, <2>2 DEF Build, Answered, TypeOK, AnswerFrom
    <3>2. key \in Keys
      <4>1. query.tag \in TagKey
        BY <1>1, <2>2, OptionsAssumption DEF MakeOK, Derives
      <4> QED  BY <3>1, <4>1 DEF Keys
    <3>3. WhitelistOf(r)' = cache[key]
      BY <1>1, <1>3, <1>4, <2>2 DEF WhitelistOf
    <3>4. AnswerFrom(WhitelistOf(r), asked[r].sort)' = AnswerFrom(cache[key], sort)
      BY <1>1, <1>2, <3>3 DEF AnswerFrom
    <3>5. Keys' = Keys /\ Uncached' = Uncached
      BY DEF Keys, Uncached
    <3> QED  BY <1>1, <1>3, <1>4, <2>2, <3>1, <3>2, <3>4, <3>5 DEF IsAnswered
  <2> QED  BY <2>1, <2>2
<1> QED  BY <1>1, <1>5 DEF RequestOK

LEMMA DeriveOK ==
    ASSUME IInv, NEW r \in Request, NEW type \in RowType, NEW sort \in Sorts,
           Derive(r, type, sort)
    PROVE  RequestOK(r)'
<1>1. /\ TypeOK /\ made = "ok" /\ Derives(sort) /\ type \in Model
      /\ made' = made /\ query' = query
  BY DEF IInv, Derive, makeVars
<1>2. asked'[r] = [model |-> type, sort |-> sort] /\ todo'[r] = FieldsOf[type]
  BY <1>1 DEF Derive, TypeOK
<1>3. Derives(asked[r].sort)'
  BY <1>1, <1>2 DEF Derives
<1>4. todo'[r] # Idle
  <2>1. FieldsOf[type] \in Seq(StructField)
    BY <1>1, ModelAssumption
  <2> QED  BY <1>2, <2>1, RequestAssumption
<1> QED  BY <1>1, <1>2, <1>3, <1>4 DEF RequestOK

LEMMA WalkRequestOK ==
    ASSUME IInv, NEW r \in Request, Walk(r)
    PROVE  RequestOK(r)'
<1>1. /\ TypeOK /\ RequestOK(r) /\ made' = made /\ query' = query /\ asked' = asked
      /\ todo[r] # Idle /\ todo[r] # <<>>
  BY DEF IInv, Walk, makeVars
<1>2. made = "ok" /\ Derives(asked[r].sort) /\ asked[r].model \in Model
  BY <1>1 DEF RequestOK
<1>3. Derives(asked[r].sort)'
  BY <1>1, <1>2 DEF Derives
<1>4. \/ \E s : s \in Seq(StructField) /\ todo'[r] = s
      \/ todo'[r] = Idle /\ answer'[r] = [Nothing EXCEPT !.err = "ErrAmbiguousSortField"]
  <2> DEFINE field == Head(todo[r])
             rest == Tail(todo[r])
  <2>1. \/ todo'[r] = rest
        \/ Flattened(field) /\ todo'[r] = FieldsOf[field.embeds] \o rest
        \/ todo'[r] = Idle /\ answer'[r] = [Nothing EXCEPT !.err = "ErrAmbiguousSortField"]
    BY <1>1 DEF Walk, Unfolded, Fate, TypeOK
  <2>2. field \in StructField /\ rest \in Seq(StructField)
    BY <1>1 DEF TypeOK
  <2>3. Flattened(field) => FieldsOf[field.embeds] \o rest \in Seq(StructField)
    <3>1. Flattened(field) => field.embeds \in Model
      BY <2>2 DEF StructField, Flattened
    <3>2. Flattened(field) => FieldsOf[field.embeds] \in Seq(StructField)
      BY <3>1, ModelAssumption
    <3> HIDE DEF rest
    <3> QED  BY <2>2, <3>2
  <2> HIDE DEF field, rest
  <2> QED  BY <2>1, <2>2, <2>3
<1>5. CASE todo'[r] # Idle
  BY <1>1, <1>2, <1>3, <1>5 DEF RequestOK
<1>6. CASE todo'[r] = Idle
  <2>1. answer'[r] = [Nothing EXCEPT !.err = "ErrAmbiguousSortField"]
    BY <1>4, <1>6, RequestAssumption
  <2>2. answer'[r].by = "nobody" /\ answer'[r].err = "ErrAmbiguousSortField"
    BY <2>1 DEF Nothing
  <2> QED  BY <1>1, <1>2, <1>6, <2>2 DEF RequestOK
<1> QED  BY <1>5, <1>6

LEMMA DerivedOK ==
    ASSUME IInv, NEW r \in Request, Derived(r)
    PROVE  RequestOK(r)'
<1> DEFINE key == <<asked[r].model, query.tag>>
           whitelist == LoadOrStore(r, key)
<1>1. /\ TypeOK /\ MakeOK /\ RequestOK(r) /\ made' = made /\ query' = query /\ asked' = asked
      /\ todo[r] = <<>>
  BY DEF IInv, Derived, makeVars
<1>2. todo[r] # Idle
  <2>1. <<>> \in Seq(StructField)
    OBVIOUS
  <2> QED  BY <1>1, <2>1, RequestAssumption
<1>3. made = "ok" /\ Derives(asked[r].sort) /\ asked[r].model \in Model
  BY <1>1, <1>2 DEF RequestOK
<1>4. key \in Keys
  <2>1. query.tag \in TagKey
    BY <1>1, <1>3, OptionsAssumption DEF MakeOK, Derives
  <2> QED  BY <1>3, <2>1 DEF Keys
<1>5. cache'[key] = whitelist
  BY <1>1, <1>4 DEF Derived, TypeOK
<1>6. whitelist # Uncached
  <2>1. CASE cache[key] = Uncached
    <3>1. whitelist.by = r
      BY <2>1 DEF LoadOrStore
    <3> QED  BY <3>1, RequestAssumption DEF Uncached
  <2>2. CASE cache[key] # Uncached
    BY <2>2 DEF LoadOrStore
  <2> QED  BY <2>1, <2>2
<1>7. answer'[r] = AnswerFrom(whitelist, asked[r].sort)
  BY <1>1 DEF Derived, Answered, AnswerFrom, TypeOK
<1>8. KeyOf(r)' = key /\ (Derives(asked[r].sort)' <=> Derives(asked[r].sort))
  BY <1>1 DEF KeyOf, Derives
<1> HIDE DEF key, whitelist
<1>9. WhitelistOf(r)' = whitelist
  BY <1>3, <1>5, <1>8 DEF WhitelistOf
<1>10. AnswerFrom(WhitelistOf(r), asked[r].sort)' = AnswerFrom(whitelist, asked[r].sort)
  BY <1>1, <1>9 DEF AnswerFrom
<1>11. Keys' = Keys /\ Uncached' = Uncached
  BY DEF Keys, Uncached
<1>12. IsAnswered(r)'
  BY <1>4, <1>5, <1>6, <1>7, <1>8, <1>10, <1>11 DEF IsAnswered
<1>13. todo'[r] = Idle
  BY <1>1 DEF Derived, TypeOK
<1> QED  BY <1>1, <1>3, <1>12, <1>13 DEF RequestOK

LEMMA RequestNext ==
    ASSUME IInv, [Next]_vars, NEW r \in Request
    PROVE  RequestOK(r)'
<1>1. TypeOK /\ RequestOK(r)
  BY DEF IInv
<1>2. CASE UNCHANGED vars
  BY <1>2, OthersStand DEF vars, makeVars, requestVars
<1>3. ASSUME \/ \E q \in Options : Make(q)
             \/ \E name \in left : Normalise(name)
             \/ Normalised
      PROVE  RequestOK(r)'
  <2>1. made \in {"new", "normalising"} /\ UNCHANGED requestVars
    BY <1>3 DEF Make, Normalise, Normalised
  <2>2. answer'[r] = Nothing /\ asked'[r].sort = <<>> /\ todo'[r] = Idle
    BY <1>1, <2>1 DEF RequestOK, requestVars
  <2>3. Nothing' = Nothing
    BY DEF Nothing
  <2> QED  BY <2>2, <2>3 DEF RequestOK
<1>4. ASSUME NEW i \in Request, NEW sort \in Sorts, NEW type \in RowType,
             Refuse(i, type, sort) \/ Build(i, type, sort) \/ Derive(i, type, sort)
      PROVE  RequestOK(r)'
  <2>1. CASE i = r
    BY <1>4, <2>1, RefuseOK, BuildOK, DeriveOK
  <2>2. CASE i # r
    <3>1. UNCHANGED <<todo[r], asked[r], answer[r]>> /\ UNCHANGED makeVars
      BY <1>1, <1>4, <2>2 DEF TypeOK, Refuse, Build, Derive, Answered
    <3> QED  BY <3>1, OthersStand
  <2> QED  BY <2>1, <2>2
<1>5. ASSUME NEW i \in Request, Walk(i) \/ Derived(i)
      PROVE  RequestOK(r)'
  <2>1. CASE i = r
    BY <1>5, <2>1, WalkRequestOK, DerivedOK
  <2>2. CASE i # r
    <3>1. UNCHANGED <<todo[r], asked[r], answer[r]>> /\ UNCHANGED makeVars
      BY <1>1, <1>5, <2>2 DEF TypeOK, Walk, Derived, Answered
    <3> QED  BY <3>1, OthersStand
  <2> QED  BY <2>1, <2>2
<1> QED  BY <1>2, <1>3, <1>4, <1>5 DEF Next

-------------------------------------------------------------------------------
(* Walks.                                                                  *)

\* What a model flattens is part of it.
LEMMA PartsFacts ==
    ASSUME NEW model \in Model
    PROVE  /\ model \in PartsOf(model)
           /\ PartsOf(model) \subseteq Model
           /\ Closed(PartsOf(model))
           /\ \A types \in SUBSET Model :
                model \in types /\ Closed(types) => PartsOf(model) \subseteq types
<1>1. Closed(PartsOf(model))
  <2> SUFFICES ASSUME NEW m \in PartsOf(model), NEW i \in DOMAIN FieldsOf[m],
                      Flattened(FieldsOf[m][i])
               PROVE  FieldsOf[m][i].embeds \in PartsOf(model)
    BY DEF Closed
  <2> DEFINE e == FieldsOf[m][i].embeds
  <2>1. m \in Model /\ FieldsOf[m] \in Seq(StructField)
    BY ModelAssumption DEF PartsOf
  <2>2. FieldsOf[m][i] \in StructField
    BY <2>1
  <2>3. e \in Model
    BY <2>2 DEF StructField, Flattened
  <2>4. ASSUME NEW types \in SUBSET Model, model \in types, Closed(types)
        PROVE  e \in types
    <3>1. m \in types
      BY <2>4 DEF PartsOf
    <3> QED  BY <2>4, <3>1 DEF Closed
  <2> QED  BY <2>3, <2>4 DEF PartsOf
<1> QED  BY <1>1 DEF PartsOf

\* The fields of parts that are sortable are the sortable fields.
LEMMA SortableIs ==
    ASSUME NEW model, NEW tag
    PROVE  SortableFields(model, tag) = {f \in Fields(PartsOf(model)) : IsSortable(f, tag)}
BY DEF SortableFields, Fields, IsSortable

\* A field embedding a struct is anonymous.
LEMMA FieldFacts ==
    ASSUME NEW types \in SUBSET Model, NEW f \in Fields(types)
    PROVE  /\ f \in StructField
           /\ Flattened(f) => f.embeds \in Model /\ f.anonymous
<1>1. PICK m \in types : \E i \in DOMAIN FieldsOf[m] : f = FieldsOf[m][i]
  BY DEF Fields
<1>2. m \in Model /\ FieldsOf[m] \in Seq(StructField)
  BY ModelAssumption
<1>3. f \in StructField
  BY <1>1, <1>2
<1>4. f.embeds # NotEmbedded => f.anonymous
  BY <1>1, <1>2, ModelAssumption
<1> QED  BY <1>3, <1>4 DEF StructField, Flattened

\* What lies behind the head is still to come; so is all of a struct unfolded.
LEMMA ToComeFacts ==
    ASSUME NEW s \in Seq(StructField)
    PROVE  /\ s # <<>> => ToCome(s) = {Head(s)} \cup ToCome(Tail(s))
           /\ \A t \in Seq(StructField) : ToCome(t \o s) = ToCome(t) \cup ToCome(s)
<1>1. ASSUME s # <<>> PROVE ToCome(s) = {Head(s)} \cup ToCome(Tail(s))
  <2>1. /\ Len(s) \in Nat /\ Len(s) > 0 /\ Head(s) = s[1] /\ DOMAIN s = 1 .. Len(s)
        /\ DOMAIN Tail(s) = 1 .. Len(s) - 1
        /\ \A i \in 1 .. Len(s) - 1 : Tail(s)[i] = s[i + 1]
    BY <1>1
  <2>2. ASSUME NEW i \in DOMAIN s PROVE s[i] \in {Head(s)} \cup ToCome(Tail(s))
    <3>1. CASE i = 1
      BY <2>1, <3>1
    <3>2. CASE i # 1
      <4>1. i - 1 \in 1 .. Len(s) - 1 /\ (i - 1) + 1 = i
        BY <2>1, <3>2
      <4>2. Tail(s)[i - 1] = s[i]
        BY <2>1, <4>1
      <4> QED  BY <2>1, <4>1, <4>2 DEF ToCome
    <3> QED  BY <3>1, <3>2
  <2>3. 1 \in DOMAIN s /\ \A i \in 1 .. Len(s) - 1 : i + 1 \in DOMAIN s
    BY <2>1
  <2> QED  BY <2>1, <2>2, <2>3 DEF ToCome
<1>2. ASSUME NEW t \in Seq(StructField) PROVE ToCome(t \o s) = ToCome(t) \cup ToCome(s)
  <2> DEFINE u == t \o s
  <2>1. /\ Len(s) \in Nat /\ Len(t) \in Nat
        /\ DOMAIN s = 1 .. Len(s) /\ DOMAIN t = 1 .. Len(t) /\ DOMAIN u = 1 .. Len(t) + Len(s)
        /\ \A i \in 1 .. Len(t) : u[i] = t[i]
        /\ \A i \in 1 .. Len(s) : u[Len(t) + i] = s[i]
    OBVIOUS
  <2> HIDE DEF u
  <2>2. ASSUME NEW i \in DOMAIN u PROVE u[i] \in ToCome(t) \cup ToCome(s)
    <3>1. CASE i <= Len(t)
      <4>1. i \in 1 .. Len(t)
        BY <2>1, <3>1
      <4> QED  BY <2>1, <4>1 DEF ToCome
    <3>2. CASE ~(i <= Len(t))
      <4>1. i - Len(t) \in 1 .. Len(s) /\ Len(t) + (i - Len(t)) = i
        BY <2>1, <3>2
      <4>2. u[i] = s[i - Len(t)]
        BY <2>1, <4>1
      <4> QED  BY <2>1, <4>1, <4>2 DEF ToCome
    <3> QED  BY <3>1, <3>2
  <2>3. \A i \in 1 .. Len(t) : i \in DOMAIN u
    BY <2>1
  <2>4. \A i \in 1 .. Len(s) : Len(t) + i \in DOMAIN u
    BY <2>1
  <2>5. ToCome(t) \subseteq ToCome(u) /\ ToCome(s) \subseteq ToCome(u)
    BY <2>1, <2>3, <2>4 DEF ToCome
  <2>6. ToCome(u) \subseteq ToCome(t) \cup ToCome(s)
    BY <2>2 DEF ToCome
  <2> QED  BY <2>5, <2>6 DEF u
<1> QED  BY <1>1, <1>2

\* A name put keeps the other entries, and its own if that says the same.
LEMMA PutFacts ==
    ASSUME NEW cols, NEW name, NEW column, ~Ambiguous(cols, name, column)
    PROVE  Entries(Put(cols, name, column)) = Entries(cols) \cup {<< Lower[name], column >>}
<1> DEFINE key == Lower[name]
           new == Put(cols, name, column)
<1>1. /\ DOMAIN new = DOMAIN cols \cup {key}
      /\ \A n \in DOMAIN new : new[n] = IF n = key THEN column ELSE cols[n]
  BY DEF Put
<1>2. key \in DOMAIN cols => cols[key] = column
  BY DEF Ambiguous
<1> HIDE DEF key, new
<1>3. \A n \in DOMAIN cols : new[n] = cols[n]
  BY <1>1, <1>2
<1>4. new[key] = column
  BY <1>1
<1>5. Entries(new) = Entries(cols) \cup {<< key, column >>}
  BY <1>1, <1>3, <1>4 DEF Entries
<1> QED  BY <1>5 DEF key, new

LEMMA DeriveWalkOK ==
    ASSUME IInv, NEW r \in Request, NEW type \in RowType, NEW sort \in Sorts,
           Derive(r, type, sort)
    PROVE  WalkOK(r)'
<1>1. TypeOK /\ type \in Model /\ query' = query
  BY DEF IInv, Derive, makeVars
<1>2. /\ asked'[r] = [model |-> type, sort |-> sort] /\ todo'[r] = FieldsOf[type]
      /\ mine'[r] = NoEntries
  BY <1>1 DEF Derive, TypeOK
<1>3. ToCome(FieldsOf[type]) = Fields({type})
  BY DEF ToCome, Fields
<1>4. Fields({type}) \subseteq Fields(PartsOf(type))
  BY <1>1, PartsFacts DEF Fields
<1>5. Entries(mine'[r]) = {}
  BY <1>2 DEF Entries, NoEntries
<1>6. asked'[r].model = type
  BY <1>2
<1>7. ToCome(todo'[r]) = Fields({type})
  BY <1>2, <1>3
<1>8. \E types \in SUBSET Model :
        /\ asked'[r].model \in types
        /\ \A f \in Fields(types) :
            f \in ToCome(todo'[r]) \/ Handled(f, types, query'.tag, mine'[r])
  <2>1. {type} \in SUBSET Model
    BY <1>1
  <2> QED  BY <1>6, <1>7, <2>1
<1> QED  BY <1>4, <1>5, <1>6, <1>7, <1>8 DEF WalkOK

LEMMA WalkStepOK ==
    ASSUME IInv, NEW r \in Request, Walk(r)
    PROVE  WalkOK(r)'
<1> DEFINE field == Head(todo[r])
           rest == Tail(todo[r])
           model == asked[r].model
           tag == query.tag
           all == {Entry(f, tag) : f \in SortableFields(model, tag)}
<1>1. /\ TypeOK /\ RequestOK(r) /\ WalkOK(r)
      /\ made' = made /\ query' = query /\ asked' = asked
      /\ todo[r] # Idle /\ todo[r] # <<>>
  BY DEF IInv, Walk, makeVars
<1>2. todo[r] \in Seq(StructField) /\ model \in Model
  BY <1>1 DEF TypeOK, RequestOK
<1>3. field \in StructField /\ rest \in Seq(StructField)
  BY <1>1, <1>2
<1>4. ToCome(todo[r]) = {field} \cup ToCome(rest)
  BY <1>1, <1>2, ToComeFacts
<1>5. field \in Fields(PartsOf(model)) /\ ToCome(rest) \subseteq Fields(PartsOf(model))
  BY <1>1, <1>4 DEF WalkOK
<1>6. Flattened(field) => field.embeds \in Model /\ field.anonymous
  BY <1>2, <1>5, FieldFacts, PartsFacts
<1>7. Entries(mine[r]) \subseteq all
  BY <1>1 DEF WalkOK
<1>8. PICK types \in SUBSET Model :
        /\ model \in types
        /\ \A f \in Fields(types) :
            f \in ToCome(todo[r]) \/ Handled(f, types, tag, mine[r])
  BY <1>1 DEF WalkOK
<1> HIDE DEF field, rest
<1>9. CASE Fate(field, tag, mine[r]) = "skip"
  <2>1. todo'[r] = rest /\ mine'[r] = mine[r]
    BY <1>1, <1>9 DEF Walk, TypeOK, field, rest
  <2>2. ~Flattened(field) /\ ~IsSortable(field, tag)
    <3> DEFINE hidden == ~field.exported /\ ~field.anonymous
               flat == Flattened(field)
               skipped == Skipped(field, tag)
    <3>1. (IF hidden THEN "skip"
           ELSE IF flat THEN "flatten"
           ELSE IF skipped THEN "skip"
           ELSE IF Ambiguous(mine[r], NameOf(field, tag), ColumnOf(field)) THEN "refuse"
           ELSE "put") = "skip"
      BY <1>9 DEF Fate
    <3>2. hidden => ~flat
      BY <1>6
    <3>3. hidden => ~IsSortable(field, tag)
      BY DEF IsSortable
    <3>4. skipped => ~IsSortable(field, tag)
      BY DEF IsSortable
    <3> HIDE DEF hidden, flat, skipped
    <3>5. hidden \/ (~flat /\ skipped)
      BY <3>1
    <3> QED  BY <3>2, <3>3, <3>4, <3>5 DEF flat
  <2>3. Handled(field, types, tag, mine[r])
    BY <2>2 DEF Handled
  <2>4. \A f \in Fields(types) : f \in ToCome(rest) \/ Handled(f, types, tag, mine[r])
    BY <1>4, <1>8, <2>3
  <2> QED  BY <1>1, <1>5, <1>7, <1>8, <2>1, <2>4 DEF WalkOK
<1>10. CASE Fate(field, tag, mine[r]) = "put"
  <2> DEFINE new == mine'[r]
  <2>1. todo'[r] = rest /\ new = Put(mine[r], NameOf(field, tag), ColumnOf(field))
    BY <1>1, <1>10 DEF Walk, TypeOK, field, rest
  <2>2. IsSortable(field, tag) /\ ~Ambiguous(mine[r], NameOf(field, tag), ColumnOf(field))
    BY <1>10 DEF Fate, IsSortable
  <2>3. Entries(new) = Entries(mine[r]) \cup {Entry(field, tag)}
    BY <2>1, <2>2, PutFacts DEF Entry
  <2>4. field \in SortableFields(model, tag)
    BY <1>5, <2>2, SortableIs
  <2> HIDE DEF new
  <2>5. Entries(new) \subseteq all
    BY <1>7, <2>3, <2>4
  <2>6. Handled(field, types, tag, new)
    BY <2>2, <2>3 DEF Handled, IsSortable
  <2>7. \A f \in Fields(types) : Handled(f, types, tag, mine[r]) => Handled(f, types, tag, new)
    BY <2>3 DEF Handled
  <2>8. \A f \in Fields(types) : f \in ToCome(rest) \/ Handled(f, types, tag, new)
    BY <1>4, <1>8, <2>6, <2>7
  <2> QED  BY <1>1, <1>5, <1>8, <2>1, <2>5, <2>8 DEF WalkOK, new
<1>11. CASE Fate(field, tag, mine[r]) = "flatten"
  <2> DEFINE e == field.embeds
             more == types \cup {e}
  <2>1. /\ Flattened(field)
        /\ todo'[r] = FieldsOf[e] \o rest /\ mine'[r] = mine[r]
    BY <1>1, <1>11 DEF Walk, TypeOK, Unfolded, Fate, field, rest
  <2>2. e \in Model /\ FieldsOf[e] \in Seq(StructField) /\ more \in SUBSET Model
    BY <1>6, <2>1, ModelAssumption
  <2>3. ToCome(todo'[r]) = Fields({e}) \cup ToCome(rest)
    <3>1. ToCome(FieldsOf[e] \o rest) = ToCome(FieldsOf[e]) \cup ToCome(rest)
      BY <1>3, <2>2, ToComeFacts DEF rest
    <3>2. ToCome(FieldsOf[e]) = Fields({e})
      BY DEF ToCome, Fields
    <3> QED  BY <2>1, <3>1, <3>2
  <2>4. e \in PartsOf(model)
    <3>1. PICK m \in PartsOf(model) : \E i \in DOMAIN FieldsOf[m] : field = FieldsOf[m][i]
      BY <1>5 DEF Fields
    <3>2. Closed(PartsOf(model))
      BY <1>2, PartsFacts
    <3> QED  BY <2>1, <3>1, <3>2 DEF Closed
  <2>5. Fields({e}) \subseteq Fields(PartsOf(model))
    BY <2>4 DEF Fields
  <2>6. \A f \in Fields(types) : Handled(f, types, tag, mine[r]) => Handled(f, more, tag, mine[r])
    BY DEF Handled
  <2>7. Handled(field, more, tag, mine[r])
    BY <2>1 DEF Handled, IsSortable
  <2>8. Fields(more) = Fields(types) \cup Fields({e})
    BY DEF Fields
  <2>9. \A f \in Fields(more) : f \in ToCome(todo'[r]) \/ Handled(f, more, tag, mine[r])
    <3> HIDE DEF more
    <3> QED  BY <1>4, <1>8, <2>3, <2>6, <2>7, <2>8
  <2>10. model \in more
    BY <1>8
  <2> HIDE DEF more
  <2>11. ToCome(todo'[r]) \subseteq Fields(PartsOf(model))
    BY <1>5, <2>3, <2>5
  <2> QED  BY <1>1, <1>7, <2>1, <2>2, <2>9, <2>10, <2>11 DEF WalkOK
<1>12. CASE Fate(field, tag, mine[r]) = "refuse"
  <2>1. todo'[r] = Idle
    BY <1>1, <1>12 DEF Walk, TypeOK, field
  <2> QED  BY <2>1 DEF WalkOK
<1> QED  BY <1>9, <1>10, <1>11, <1>12 DEF Fate

LEMMA WalkNext ==
    ASSUME IInv, [Next]_vars, NEW r \in Request
    PROVE  WalkOK(r)'
<1>1. TypeOK /\ RequestOK(r) /\ WalkOK(r)
  BY DEF IInv
<1>2. CASE UNCHANGED <<query, todo[r], asked[r], mine[r]>>
  BY <1>1, <1>2 DEF WalkOK, SortableFields
<1>3. ASSUME \/ \E q \in Options : Make(q)
             \/ \E name \in left : Normalise(name)
             \/ Normalised
      PROVE  WalkOK(r)'
  <2>1. made # "ok" /\ UNCHANGED requestVars
    BY <1>3 DEF Make, Normalise, Normalised
  <2>2. todo'[r] = Idle
    BY <1>1, <2>1 DEF RequestOK, requestVars
  <2> QED  BY <2>2 DEF WalkOK
<1>4. ASSUME NEW i \in Request, NEW sort \in Sorts, NEW type \in RowType,
             Refuse(i, type, sort) \/ Build(i, type, sort) \/ Derive(i, type, sort)
      PROVE  WalkOK(r)'
  <2>1. CASE i = r /\ Derive(i, type, sort)
    BY <2>1, DeriveWalkOK
  <2>2. CASE i = r /\ (Refuse(i, type, sort) \/ Build(i, type, sort))
    <3>1. todo'[r] = Idle
      BY <2>2 DEF Refuse, Build
    <3> QED  BY <3>1 DEF WalkOK
  <2>3. CASE i # r
    <3>1. UNCHANGED <<query, todo[r], asked[r], mine[r]>>
      BY <1>1, <1>4, <2>3 DEF TypeOK, Refuse, Build, Derive, makeVars
    <3> QED  BY <1>2, <3>1
  <2> QED  BY <1>4, <2>1, <2>2, <2>3
<1>5. ASSUME NEW i \in Request, Walk(i) \/ Derived(i)
      PROVE  WalkOK(r)'
  <2>1. CASE i = r /\ Walk(i)
    BY <2>1, WalkStepOK
  <2>2. CASE i = r /\ Derived(i)
    <3>1. todo'[r] = Idle
      BY <1>1, <2>2 DEF Derived, TypeOK
    <3> QED  BY <3>1 DEF WalkOK
  <2>3. CASE i # r
    <3>1. UNCHANGED <<query, todo[r], asked[r], mine[r]>>
      BY <1>1, <1>5, <2>3 DEF TypeOK, Walk, Derived, makeVars
    <3> QED  BY <1>2, <3>1
  <2> QED  BY <1>5, <2>1, <2>2, <2>3
<1>6. CASE UNCHANGED vars
  BY <1>2, <1>6 DEF vars, makeVars, requestVars
<1> QED  BY <1>3, <1>4, <1>5, <1>6 DEF Next

\* A walk at its end has made all entries.
LEMMA WalkedIsWhole ==
    ASSUME IInv, NEW r \in Request, todo[r] = <<>>, todo[r] # Idle
    PROVE  Entries(mine[r]) =
            {Entry(f, query.tag) : f \in SortableFields(asked[r].model, query.tag)}
<1> DEFINE model == asked[r].model
           tag == query.tag
           all == {Entry(f, tag) : f \in SortableFields(model, tag)}
<1>1. RequestOK(r) /\ WalkOK(r)
  BY DEF IInv
<1>2. model \in Model
  BY <1>1 DEF RequestOK
<1>3. Entries(mine[r]) \subseteq all
  BY <1>1 DEF WalkOK
<1>4. ToCome(todo[r]) = {}
  BY DEF ToCome
<1>5. PICK types \in SUBSET Model :
        /\ model \in types
        /\ \A f \in Fields(types) :
            f \in ToCome(todo[r]) \/ Handled(f, types, tag, mine[r])
  BY <1>1 DEF WalkOK
<1>6. \A f \in Fields(types) : Handled(f, types, tag, mine[r])
  BY <1>4, <1>5
<1>7. Closed(types)
  BY <1>6 DEF Closed, Fields, Handled
<1>8. PartsOf(model) \subseteq types
  BY <1>2, <1>5, <1>7, PartsFacts
<1>9. Fields(PartsOf(model)) \subseteq Fields(types)
  BY <1>8 DEF Fields
<1>10. ASSUME NEW f \in SortableFields(model, tag) PROVE Entry(f, tag) \in Entries(mine[r])
  <2>1. f \in Fields(types) /\ IsSortable(f, tag)
    BY <1>9, SortableIs
  <2> QED  BY <1>6, <2>1 DEF Handled
<1> QED  BY <1>3, <1>10

LEMMA CacheNext ==
    ASSUME IInv, [Next]_vars
    PROVE  CacheIsWhole'
<1> DEFINE Whole(k) == Entries(cache[k].cols) = {Entry(f, k[2]) : f \in SortableFields(k[1], k[2])}
<1>1. CacheIsWhole <=> \A k \in Keys : cache[k] # Uncached => Whole(k)
  BY DEF CacheIsWhole, Entries, Entry
<1>2. CacheIsWhole' <=> \A k \in Keys : cache'[k] # Uncached =>
        Entries(cache'[k].cols) = {Entry(f, k[2]) : f \in SortableFields(k[1], k[2])}
  BY DEF CacheIsWhole, Entries, Entry
<1>3. CacheIsWhole /\ TypeOK
  BY DEF IInv
<1>4. CASE cache' = cache
  BY <1>1, <1>2, <1>3, <1>4
<1>5. ASSUME NEW r \in Request, Derived(r)
      PROVE  CacheIsWhole'
  <2> DEFINE key == <<asked[r].model, query.tag>>
  <2>1. todo[r] = <<>> /\ cache' = [cache EXCEPT ![key] = LoadOrStore(r, key)]
    BY <1>5 DEF Derived
  <2>2. todo[r] # Idle
    <3>1. <<>> \in Seq(StructField)
      OBVIOUS
    <3> QED  BY <2>1, <3>1, RequestAssumption
  <2>3. \A k \in Keys : k # key => cache'[k] = cache[k]
    BY <1>3, <2>1 DEF TypeOK
  <2>4. ASSUME key \in Keys, cache'[key] # Uncached
        PROVE  Entries(cache'[key].cols) =
                {Entry(f, key[2]) : f \in SortableFields(key[1], key[2])}
    <3>1. cache'[key] = LoadOrStore(r, key)
      BY <1>3, <2>1, <2>4 DEF TypeOK
    <3>2. key[1] = asked[r].model /\ key[2] = query.tag
      OBVIOUS
    <3>3. CASE cache[key] = Uncached
      <4>1. cache'[key].cols = mine[r]
        BY <3>1, <3>3 DEF LoadOrStore
      <4>2. Entries(mine[r]) =
                {Entry(f, query.tag) : f \in SortableFields(asked[r].model, query.tag)}
        BY <2>1, <2>2, WalkedIsWhole
      <4> HIDE DEF key
      <4> QED  BY <3>2, <4>1, <4>2
    <3>4. CASE cache[key] # Uncached
      <4>1. cache'[key] = cache[key]
        BY <3>1, <3>4 DEF LoadOrStore
      <4> HIDE DEF key
      <4> QED  BY <1>1, <1>3, <2>4, <3>4, <4>1
    <3> QED  BY <3>3, <3>4
  <2>5. ASSUME NEW k \in Keys, cache'[k] # Uncached
        PROVE  Entries(cache'[k].cols) = {Entry(f, k[2]) : f \in SortableFields(k[1], k[2])}
    <3> HIDE DEF key
    <3>1. CASE k = key
      BY <2>4, <2>5, <3>1
    <3>2. CASE k # key
      BY <1>1, <1>3, <2>3, <2>5, <3>2
    <3> QED  BY <3>1, <3>2
  <2> QED  BY <1>2, <2>5
<1>6. cache' = cache \/ \E r \in Request : Derived(r)
  BY DEF Next, Make, Normalise, Normalised, Refuse, Build, Derive, Walk, vars
<1> QED  BY <1>4, <1>5, <1>6

-------------------------------------------------------------------------------
(* The theorems.                                                           *)

LEMMA Invariant == Spec => []IInv
<1>1. IInv /\ [Next]_vars => IInv'
  <2> SUFFICES ASSUME IInv, [Next]_vars PROVE IInv'
    OBVIOUS
  <2>1. TypeOK'
    BY TypeNext
  <2>2. MakeOK' /\ NormaliseOK'
    BY MakeNext
  <2>3. \A r \in Request : RequestOK(r)' /\ WalkOK(r)'
    BY RequestNext, WalkNext
  <2>4. CacheIsWhole'
    BY CacheNext
  <2> QED  BY <2>1, <2>2, <2>3, <2>4 DEF IInv
<1> QED  BY InitOK, <1>1, PTL DEF Spec

\* Make accepts exactly the whitelists that name no field twice, and arrives at
\* the same one, whatever order the range takes: NewQuery on any Cols.
THEOREM AnyMapOrder == Spec => []MakeIgnoresMapOrder
<1>1. IInv => MakeIgnoresMapOrder
  <2> SUFFICES ASSUME IInv, query # <<>>, MakeError(query) = "none",
                      query.cols # NoCols, made # "normalising"
               PROVE  /\ made = "ok" <=> WellFormed(query.cols)
                      /\ made = "ok" =>
                            /\ DOMAIN sortable = {Lower[f] : f \in DOMAIN query.cols}
                            /\ \A f \in DOMAIN query.cols : sortable[Lower[f]] = query.cols[f]
    BY DEF MakeIgnoresMapOrder
  <2>1. made # "new" /\ NormaliseOK
    BY DEF IInv, MakeOK
  <2>2. CASE made = "ok"
    <3>1. Visited = DOMAIN query.cols
      BY <2>1, <2>2 DEF NormaliseOK, Visited
    <3>2. /\ DOMAIN sortable = {Lower[f] : f \in DOMAIN query.cols}
          /\ \A f \in DOMAIN query.cols :
                /\ f # Empty /\ query.cols[f] # Empty
                /\ sortable[Lower[f]] = query.cols[f]
      BY <2>1, <2>2, <3>1 DEF NormaliseOK
    <3>3. WellFormed(query.cols)
      BY <3>2 DEF WellFormed
    <3> QED  BY <2>2, <3>2, <3>3
  <2>3. CASE made # "ok"
    BY <2>1, <2>3 DEF NormaliseOK
  <2> QED  BY <2>2, <2>3
<1> QED  BY Invariant, <1>1, PTL

\* What sortableCache holds of a model names every sortable field of it,
\* embedded structs and all, and nothing else.
THEOREM CachedWhole == Spec => []CacheIsWhole
<1>1. IInv => CacheIsWhole
  BY DEF IInv
<1> QED  BY Invariant, <1>1, PTL

\* Any number of requests racing in sortableOf use the one whitelist stored.
THEOREM RacersAgree == Spec => []OneWhitelist
<1>1. IInv => OneWhitelist
  <2> SUFFICES ASSUME IInv, NEW r \in Request, todo[r] = Idle, made = "ok",
                      Derives(asked[r].sort),
                      answer[r].err \in {"none", "ErrUnknownSortField"}
               PROVE  answer[r].by = cache[<<asked[r].model, query.tag>>].by
    BY DEF OneWhitelist
  <2>1. asked[r].sort # <<>>
    BY DEF Derives
  <2>2. IsAnswered(r)
    BY <2>1 DEF IInv, RequestOK
  <2>3. answer[r] = AnswerFrom(cache[KeyOf(r)], asked[r].sort)
    BY <2>2 DEF IsAnswered, WhitelistOf
  <2> QED  BY <2>3 DEF AnswerFrom, KeyOf
<1> QED  BY Invariant, <1>1, PTL

\* Of a request that was resolved, resolveOrders made what it has to.
LEMMA ResolvedRequest ==
    ASSUME IInv, NEW r \in Request, Resolved(r)
    PROVE  /\ IsTotal(answer[r].orders, query.tie)
           /\ Honours(answer[r].orders, query.head \o AskedOf(r), query.tie)
           /\ TieIsLast(answer[r].orders, query.head \o AskedOf(r), query.tie)
<1> DEFINE cols == WhitelistOf(r).cols
           sort == asked[r].sort
<1>1. /\ made = "ok" /\ todo[r] = Idle
      /\ answer[r].by # "nobody" /\ answer[r].err = "none"
  BY DEF Resolved
<1>2. IsAnswered(r)
  BY <1>1 DEF IInv, RequestOK, Nothing
<1>3. /\ answer[r].err = ResolveOrders(query, cols, sort).err
      /\ answer[r].orders = ResolveOrders(query, cols, sort).orders
  BY <1>2 DEF IsAnswered, AnswerFrom
<1>4. query.head \in Seq(GivenOrder) /\ query.tie \in Seq(GivenOrder)
  BY <1>1, OptionsAssumption DEF IInv, MakeOK
<1>5. sort \in Seq(SortValue)
  BY DEF IInv, TypeOK
<1>6. AskedOf(r) = AskedOrders(cols, sort)
  BY DEF AskedOf, AskedOrders, WhitelistOf, KeyOf
<1> HIDE DEF cols, sort
<1> QED  BY <1>1, <1>3, <1>4, <1>5, <1>6, ResolvedOrders

\* The effective orders order by no column twice and by all of the tie.
THEOREM TotalOrders == Spec => []OrdersAreTotal
<1>1. IInv => OrdersAreTotal
  BY ResolvedRequest DEF OrdersAreTotal, IsTotal
<1> QED  BY Invariant, <1>1, PTL

\* The effective orders are the first mentions of each column in head, sort and
\* tie, in that order: those of head and sort as they are, those of the tie with
\* their NULLs.
THEOREM RequestsHonoured == Spec => []RequestIsHonoured
<1>1. IInv => RequestIsHonoured
  <2> SUFFICES ASSUME IInv, NEW r \in Request, Resolved(r)
               PROVE  Honours(answer[r].orders, query.head \o AskedOf(r), query.tie)
    BY DEF RequestIsHonoured, Honours, Firsts, Place
  <2> QED  BY ResolvedRequest
<1> QED  BY Invariant, <1>1, PTL

\* Behind other orders the tie runs in the direction of the last of them.
THEOREM TiesFollow == Spec => []TieFollows
<1>1. IInv => TieFollows
  <2> SUFFICES ASSUME IInv, NEW r \in Request, Resolved(r)
               PROVE  TieIsLast(answer[r].orders, query.head \o AskedOf(r), query.tie)
    BY DEF TieFollows, TieIsLast
  <2> QED  BY ResolvedRequest
<1> QED  BY Invariant, <1>1, PTL

===============================================================================
