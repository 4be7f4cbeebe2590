--------------------------- MODULE QueryMetricsProofs --------------------------
(***************************************************************************)
(* For any operations on any connections, and however often pgx calls a    *)
(* hook: each operation is reported once, at its first end, and the metric *)
(* is of that end.                                                         *)
(*                                                                         *)
(* For a batch the mark in its start record tells whether an end has been  *)
(* heard of (BatchKnows); a query or copy has room for one end only.  As   *)
(* long as a batch is not ended its record adds up the results heard so    *)
(* far (Summed), so the first end reports them all, and hooks behind it    *)
(* change neither the metric nor what it has to be (LaterHook).            *)
(***************************************************************************)
EXTENDS QueryMetrics, WellFoundedInduction, TLAPS

-------------------------------------------------------------------------------
(* Sums.                                                                   *)

\* The least of some numbers.
LEMMA Least ==
    ASSUME NEW T, T \subseteq Nat, T # {}
    PROVE  \E m \in T : \A j \in T : m <= j
<1>1. PICK m \in T : \A i \in T : <<i, m>> \notin OpToRel(<, Nat)
  BY NatLessThanWellFounded, WFMin
<1>2. ASSUME NEW j \in T PROVE m <= j
  <2>1. j \in Nat /\ m \in Nat
    OBVIOUS
  <2>2. ~(j < m)
    BY <1>1, <2>1 DEF OpToRel
  <2> QED  BY <2>1, <2>2
<1> QED  BY <1>2

\* Induction, for a set of numbers.
LEMMA Inducts ==
    ASSUME NEW S, 0 \in S, \A n \in Nat : n \in S => n + 1 \in S
    PROVE  Nat \subseteq S
<1> DEFINE T == Nat \ S
<1> SUFFICES ASSUME T # {} PROVE FALSE
  OBVIOUS
<1>1. PICK m \in T : \A j \in T : m <= j
  <2>1. T \subseteq Nat
    OBVIOUS
  <2> HIDE DEF T
  <2> QED  BY <2>1, Least
<1>2. m \in Nat /\ m \notin S /\ m # 0
  BY <1>1
<1>3. m - 1 \in Nat /\ (m - 1) + 1 = m
  BY <1>2
<1>4. m - 1 \in S
  BY <1>1, <1>3
<1> QED  BY <1>2, <1>3, <1>4

\* The rows of a sequence of results, as the property adds them up: a fold is
\* some function that adds row by row, and there is one.
Total(s) == FoldLeft(LAMBDA sum, x : sum + x.rows, 0, s)

Adds(f, s, n) ==
    f = [t \in SUBSET (1 .. n) |->
            IF t = {} THEN 0 ELSE f[t \ {Max(t)}] + s[Max(t)].rows]

LEMMA MaxOfPrefix ==
    ASSUME NEW n \in Nat, NEW t \in SUBSET (1 .. n + 1), n + 1 \in t
    PROVE  Max(t) = n + 1
<1>1. \A y \in t : n + 1 >= y
  OBVIOUS
<1>2. \A x \in t : (\A y \in t : x >= y) => x = n + 1
  OBVIOUS
<1> QED  BY <1>1, <1>2 DEF Max

LEMMA AddsExists ==
    ASSUME NEW s, NEW n \in Nat
    PROVE  \E f : Adds(f, s, n)
<1> DEFINE S == {m \in Nat : \E f : Adds(f, s, m)}
<1>1. 0 \in S
  <2> DEFINE f == [t \in SUBSET (1 .. 0) |-> 0]
  <2>1. 1 .. 0 = {}
    OBVIOUS
  <2>2. f = [t \in SUBSET (1 .. 0) |->
                IF t = {} THEN 0 ELSE f[t \ {Max(t)}] + s[Max(t)].rows]
    BY <2>1
  <2>3. Adds(f, s, 0)
    BY <2>2 DEF Adds
  <2> QED  BY <2>3
<1>2. ASSUME NEW m \in Nat, m \in S PROVE m + 1 \in S
  <2>1. PICK f : Adds(f, s, m)
    BY <1>2
  <2> DEFINE P == SUBSET (1 .. m + 1)
             g == [t \in P |-> IF m + 1 \in t THEN f[t \ {m + 1}] + s[m + 1].rows ELSE f[t]]
             h == [t \in P |-> IF t = {} THEN 0 ELSE g[t \ {Max(t)}] + s[Max(t)].rows]
  <2>2. \A t \in SUBSET (1 .. m) :
            f[t] = IF t = {} THEN 0 ELSE f[t \ {Max(t)}] + s[Max(t)].rows
    BY <2>1 DEF Adds
  <2>3. \A t \in P : m + 1 \notin t => t \in SUBSET (1 .. m)
    OBVIOUS
  <2>4. ASSUME NEW t \in P PROVE g[t] = h[t]
    <3>1. CASE m + 1 \in t
      <4>1. Max(t) = m + 1
        BY <3>1, MaxOfPrefix
      <4>2. t \ {m + 1} \in P /\ m + 1 \notin t \ {m + 1}
        OBVIOUS
      <4>3. g[t \ {m + 1}] = f[t \ {m + 1}]
        BY <4>2
      <4> QED  BY <3>1, <4>1, <4>3
    <3>2. CASE m + 1 \notin t
      <4>1. t \ {Max(t)} \in P /\ m + 1 \notin t \ {Max(t)}
        BY <3>2
      <4>2. g[t \ {Max(t)}] = f[t \ {Max(t)}]
        BY <4>1
      <4>3. g[t] = f[t] /\ t \in SUBSET (1 .. m)
        BY <3>2, <2>3
      <4> HIDE DEF g
      <4> QED  BY <2>2, <4>2, <4>3
    <3> QED  BY <3>1, <3>2
  <2>5. g = h
    <3>1. g = [t \in P |-> g[t]] /\ h = [t \in P |-> h[t]]
      OBVIOUS
    <3> HIDE DEF g, h
    <3> QED  BY <2>4, <3>1
  <2>6. Adds(g, s, m + 1)
    <3> HIDE DEF g
    <3> QED  BY <2>5 DEF Adds
  <2> QED  BY <2>6
<1>3. n \in S
  <2> HIDE DEF S
  <2> QED  BY <1>1, <1>2, Inducts
<1> QED  BY <1>3

LEMMA TotalIs ==
    ASSUME NEW s, DOMAIN s = 1 .. Len(s), Len(s) \in Nat
    PROVE  \E f : Adds(f, s, Len(s)) /\ Total(s) = f[1 .. Len(s)]
<1> DEFINE f == CHOOSE f : Adds(f, s, Len(s))
<1>1. Adds(f, s, Len(s))
  BY AddsExists
<1>2. Total(s) = f[1 .. Len(s)]
  BY DEF Total, FoldLeft, MapThenFoldSet, Adds
<1> QED  BY <1>1, <1>2

LEMMA AddsSteps ==
    ASSUME NEW f, NEW s, NEW n \in Nat, Adds(f, s, n)
    PROVE  /\ f[1 .. 0] = 0
           /\ \A k \in 0 .. n - 1 : f[1 .. k + 1] = f[1 .. k] + s[k + 1].rows
<1>1. \A t \in SUBSET (1 .. n) :
        f[t] = IF t = {} THEN 0 ELSE f[t \ {Max(t)}] + s[Max(t)].rows
  BY DEF Adds
<1>2. 1 .. 0 = {} /\ {} \in SUBSET (1 .. n)
  OBVIOUS
<1>3. ASSUME NEW k \in 0 .. n - 1
      PROVE  f[1 .. k + 1] = f[1 .. k] + s[k + 1].rows
  <2> DEFINE t == 1 .. k + 1
  <2>1. t \in SUBSET (1 .. n) /\ k + 1 \in t /\ t \ {k + 1} = 1 .. k /\ k \in Nat
    OBVIOUS
  <2>2. Max(t) = k + 1
    BY <2>1, MaxOfPrefix
  <2>3. t # {}
    BY <2>1
  <2> HIDE DEF t
  <2> QED  BY <1>1, <2>1, <2>2, <2>3 DEF t
<1> QED  BY <1>1, <1>2, <1>3

\* What is needed of the sum: nothing adds nothing, one more adds its rows.
LEMMA TotalOfNone == Total(<<>>) = 0
<1>1. DOMAIN <<>> = 1 .. 0 /\ Len(<<>>) = 0
  OBVIOUS
<1>2. PICK f : Adds(f, <<>>, 0) /\ Total(<<>>) = f[1 .. 0]
  BY <1>1, TotalIs
<1> QED  BY <1>2, AddsSteps

LEMMA TotalOfMore ==
    ASSUME NEW B, NEW s \in Seq(B), NEW x \in B
    PROVE  Total(Append(s, x)) = Total(s) + x.rows
<1> DEFINE n == Len(s)
           t == Append(s, x)
<1>1. /\ n \in Nat /\ DOMAIN s = 1 .. n /\ Len(t) = n + 1 /\ DOMAIN t = 1 .. n + 1
      /\ \A k \in 1 .. n : t[k] = s[k]
      /\ t[n + 1] = x
  OBVIOUS
<1> HIDE DEF t, n
<1>2. PICK f : Adds(f, s, n) /\ Total(s) = f[1 .. n]
  BY <1>1, TotalIs DEF n
<1>3. PICK g : Adds(g, t, n + 1) /\ Total(t) = g[1 .. n + 1]
  BY <1>1, TotalIs
<1>4. f[1 .. 0] = 0 /\ \A k \in 0 .. n - 1 : f[1 .. k + 1] = f[1 .. k] + s[k + 1].rows
  BY <1>1, <1>2, AddsSteps
<1>5. g[1 .. 0] = 0 /\ \A k \in 0 .. n : g[1 .. k + 1] = g[1 .. k] + t[k + 1].rows
  <2>1. n + 1 \in Nat /\ (n + 1) - 1 = n
    BY <1>1
  <2> QED  BY <1>3, <2>1, AddsSteps
<1> DEFINE S == {k \in Nat : k <= n => f[1 .. k] = g[1 .. k]}
<1>6. 0 \in S
  BY <1>4, <1>5
<1>7. ASSUME NEW k \in Nat, k \in S PROVE k + 1 \in S
  <2> SUFFICES ASSUME k + 1 <= n PROVE f[1 .. k + 1] = g[1 .. k + 1]
    OBVIOUS
  <2>1. k \in 0 .. n - 1 /\ k \in 0 .. n /\ k + 1 \in 1 .. n /\ k <= n
    BY <1>1
  <2>2. f[1 .. k] = g[1 .. k]
    BY <1>7, <2>1
  <2> QED  BY <1>1, <1>4, <1>5, <2>1, <2>2
<1>8. n \in S
  <2> HIDE DEF S
  <2> QED  BY <1>1, <1>6, <1>7, Inducts
<1>9. f[1 .. n] = g[1 .. n] /\ n \in 0 .. n
  BY <1>1, <1>8
<1> QED  BY <1>1, <1>2, <1>3, <1>5, <1>9 DEF t

-------------------------------------------------------------------------------
(* How often an operation is reported.                                     *)

Record == [rows : Nat, err : Err \cup {NoErr}, ended : BOOLEAN]

\* What a hook is told; an end of a batch counts no rows.
Heard == [rows : Nat, err : Err \cup {NoErr}] \cup {NoStart}

HookRecord == [hook : {"start", "query", "end"}, outcome : Heard]

TypeOK ==
    /\ start \in [Op -> Record \cup {NoStart, "began"}]
    /\ metrics \in [Op -> Seq([kind : {"query", "batch", "copy_from"}, rows : Nat,
                               err : Err \cup {NoErr}])]
    /\ hooks \in [Op -> Seq(HookRecord)]

\* A query or copy is started, then ended, and the end is reported.
OneEnd(o) ==
    KindOf[o] # "batch" =>
        /\ Len(hooks[o]) = 0 => Ends(o) = {} /\ Len(metrics[o]) = 0
        /\ Len(hooks[o]) = 1 => Ends(o) = {} /\ Len(metrics[o]) = 0
        /\ Len(hooks[o]) >= 2 => Ends(o) # {} /\ Len(metrics[o]) = 1

\* The record of a batch knows whether it was ended, and it was then reported.
BatchKnows(o) ==
    KindOf[o] = "batch" =>
        IF hooks[o] = <<>>
        THEN start[o] = NoStart /\ Ends(o) = {} /\ Len(metrics[o]) = 0
        ELSE /\ start[o] \in Record
             /\ start[o].ended <=> Ends(o) # {}
             /\ Len(metrics[o]) = IF start[o].ended THEN 1 ELSE 0

IInv == TypeOK /\ \A o \in Op : OneEnd(o) /\ BatchKnows(o)

LEMMA InitOK == Init => IInv
<1> SUFFICES ASSUME Init PROVE IInv
  OBVIOUS
<1>1. \A S : <<>> \in Seq(S)
  OBVIOUS
<1>2. TypeOK
  BY <1>1 DEF Init, TypeOK
<1>3. ASSUME NEW o \in Op PROVE OneEnd(o) /\ BatchKnows(o)
  <2>1. hooks[o] = <<>> /\ metrics[o] = <<>> /\ start[o] = NoStart
    BY DEF Init
  <2>2. Ends(o) = {}
    BY <2>1 DEF Ends
  <2> QED  BY <2>1, <2>2 DEF OneEnd, BatchKnows
<1> QED  BY <1>2, <1>3 DEF IInv

\* A hook is the next one of its operation, and nobody else's.
LEMMA HookFacts ==
    ASSUME TypeOK, NEW o \in Op, NEW name \in {"start", "query", "end"},
           NEW outcome \in Heard, Hook(o, name, outcome)
    PROVE  /\ hooks' \in [Op -> Seq(HookRecord)]
           /\ hooks'[o] # <<>> /\ Len(hooks'[o]) = Len(hooks[o]) + 1
           /\ Ends(o)' = IF name = "end" THEN Ends(o) \cup {Len(hooks[o]) + 1} ELSE Ends(o)
           /\ \A p \in Op \ {o} : hooks'[p] = hooks[p] /\ Ends(p)' = Ends(p)
<1> DEFINE h == [hook |-> name, outcome |-> outcome]
           n == Len(hooks[o]) + 1
<1>1. h \in HookRecord /\ hooks[o] \in Seq(HookRecord) /\ h.hook = name
  BY DEF HookRecord, TypeOK
<1>2. hooks' = [hooks EXCEPT ![o] = Append(hooks[o], h)]
  BY DEF Hook, TypeOK
<1> HIDE DEF h
<1>3. /\ Append(hooks[o], h) \in Seq(HookRecord)
      /\ Len(Append(hooks[o], h)) = n /\ n \in Nat \ {0}
      /\ DOMAIN hooks[o] = 1 .. (n - 1) /\ DOMAIN Append(hooks[o], h) = 1 .. n
      /\ \A i \in 1 .. (n - 1) : Append(hooks[o], h)[i] = hooks[o][i]
      /\ Append(hooks[o], h)[n] = h
  BY <1>1
<1>4. /\ hooks' \in [Op -> Seq(HookRecord)] /\ hooks'[o] = Append(hooks[o], h)
      /\ \A p \in Op \ {o} : hooks'[p] = hooks[p]
  BY <1>2, <1>3 DEF TypeOK
<1> HIDE DEF n
<1>5. Ends(o)' = IF name = "end" THEN Ends(o) \cup {n} ELSE Ends(o)
  <2>1. 1 .. n = (1 .. (n - 1)) \cup {n}
    BY <1>3
  <2>2. Ends(o)' = {i \in 1 .. n : Append(hooks[o], h)[i].hook = "end"}
    BY <1>3, <1>4 DEF Ends
  <2>3. Ends(o) = {i \in 1 .. (n - 1) : hooks[o][i].hook = "end"}
    BY <1>3 DEF Ends
  <2> QED  BY <1>1, <1>3, <2>1, <2>2, <2>3
<1>6. \A p \in Op \ {o} : Ends(p)' = Ends(p)
  BY <1>4 DEF Ends
<1>7. hooks'[o] # <<>>
  BY <1>3, <1>4
<1> QED  BY <1>3, <1>4, <1>5, <1>6, <1>7 DEF n

\* A report adds one metric, to its own operation.
LEMMA ReportFacts ==
    ASSUME TypeOK, NEW o \in Op, NEW rows \in Nat, NEW err \in Err \cup {NoErr},
           Report(o, rows, err)
    PROVE  /\ metrics' \in [Op -> Seq([kind : {"query", "batch", "copy_from"}, rows : Nat,
                                       err : Err \cup {NoErr}])]
           /\ Len(metrics'[o]) = Len(metrics[o]) + 1
           /\ \A p \in Op \ {o} : metrics'[p] = metrics[p]
<1> DEFINE M == [kind : {"query", "batch", "copy_from"}, rows : Nat, err : Err \cup {NoErr}]
           m == [kind |-> KindOf[o], rows |-> rows, err |-> err]
<1>1. m \in M
  BY KindAssumption
<1>2. metrics \in [Op -> Seq(M)] /\ metrics' = [metrics EXCEPT ![o] = Append(metrics[o], m)]
  BY DEF TypeOK, Report
<1> HIDE DEF m, M
<1>3. metrics[o] \in Seq(M)
  BY <1>2
<1>4. Append(metrics[o], m) \in Seq(M) /\ Len(Append(metrics[o], m)) = Len(metrics[o]) + 1
  BY <1>1, <1>3
<1>5. /\ metrics' \in [Op -> Seq(M)] /\ metrics'[o] = Append(metrics[o], m)
      /\ \A p \in Op \ {o} : metrics'[p] = metrics[p]
  BY <1>2, <1>4
<1> QED  BY <1>4, <1>5 DEF M

LEMMA OthersOK ==
    ASSUME IInv, NEW o \in Op, TypeOK', OneEnd(o)', BatchKnows(o)',
           \A p \in Op \ {o} : /\ hooks'[p] = hooks[p] /\ Ends(p)' = Ends(p)
                               /\ start'[p] = start[p] /\ metrics'[p] = metrics[p]
    PROVE  IInv'
<1>1. ASSUME NEW p \in Op \ {o} PROVE OneEnd(p)' /\ BatchKnows(p)'
  <2>1. OneEnd(p) /\ BatchKnows(p)
    BY DEF IInv
  <2> QED  BY <2>1 DEF OneEnd, BatchKnows
<1> QED  BY <1>1 DEF IInv

LEMMA NextOK == IInv /\ [Next]_vars => IInv'
<1> SUFFICES ASSUME IInv, [Next]_vars PROVE IInv'
  OBVIOUS
<1> USE DEF IInv
<1>1. CASE UNCHANGED vars
  BY <1>1 DEF vars, TypeOK, OneEnd, BatchKnows, Ends
<1>2. ASSUME NEW o \in Op, Next, 
             \/ TraceStart(o)
             \/ TraceBatchStart(o)
             \/ \E outcome \in Outcome : TraceEnd(o, outcome) \/ TraceBatchQuery(o, outcome)
             \/ \E err \in Err \cup {NoErr} : TraceBatchEnd(o, err)
      PROVE  IInv'
  <2>1. /\ TypeOK /\ OneEnd(o) /\ BatchKnows(o)
        /\ hooks[o] \in Seq(HookRecord) /\ Len(hooks[o]) \in Nat /\ Len(metrics[o]) \in Nat
        /\ start[o] \in Record \cup {NoStart, "began"}
        /\ NoStart \in Heard /\ Outcome \subseteq Heard
        /\ hooks[o] = <<>> => Len(hooks[o]) = 0
    <3>1. TypeOK /\ OneEnd(o) /\ BatchKnows(o)
      OBVIOUS
    <3>2. hooks[o] \in Seq(HookRecord)
      BY <3>1 DEF TypeOK
    <3>3. metrics[o] \in Seq([kind : {"query", "batch", "copy_from"}, rows : Nat,
                              err : Err \cup {NoErr}])
      BY <3>1 DEF TypeOK
    <3>4. start[o] \in Record \cup {NoStart, "began"}
      BY <3>1 DEF TypeOK
    <3>5. Len(hooks[o]) \in Nat /\ Len(metrics[o]) \in Nat
      BY <3>2, <3>3
    <3>6. NoStart \in Heard /\ Outcome \subseteq Heard
      BY KindAssumption DEF Heard, Outcome
    <3> QED  BY <3>1, <3>2, <3>4, <3>5, <3>6
  <2>2. CASE TraceStart(o)
    <3>1. /\ KindOf[o] # "batch" /\ hooks[o] = <<>> /\ Hook(o, "start", NoStart)
          /\ start' = [start EXCEPT ![o] = "began"] /\ metrics' = metrics
      BY <2>2 DEF TraceStart
    <3>2. /\ start' \in [Op -> Record \cup {NoStart, "began"}]
          /\ \A p \in Op \ {o} : start'[p] = start[p]
      BY <2>1, <3>1 DEF TypeOK
    <3>3. /\ hooks' \in [Op -> Seq(HookRecord)] /\ hooks'[o] # <<>>
          /\ Len(hooks'[o]) = 1 /\ Ends(o)' = Ends(o)
          /\ \A p \in Op \ {o} : hooks'[p] = hooks[p] /\ Ends(p)' = Ends(p)
      <4>1. "start" \in {"start", "query", "end"} /\ "start" # "end"
        OBVIOUS
      <4>2. Len(hooks[o]) + 1 = 1
        BY <2>1, <3>1
      <4> QED  BY <2>1, <3>1, <4>1, <4>2, HookFacts
    <3>4. TypeOK'
      BY <2>1, <3>1, <3>2, <3>3 DEF TypeOK
    <3>5. OneEnd(o)' /\ BatchKnows(o)'
      BY <2>1, <3>1, <3>3 DEF OneEnd, BatchKnows
    <3> QED  BY <3>1, <3>2, <3>3, <3>4, <3>5, OthersOK
  <2>3. CASE TraceBatchStart(o)
    <3> DEFINE r == [rows |-> 0, err |-> NoErr, ended |-> FALSE]
    <3>1. /\ KindOf[o] = "batch" /\ hooks[o] = <<>> /\ Hook(o, "start", NoStart)
          /\ start' = [start EXCEPT ![o] = r] /\ metrics' = metrics
      BY <2>3 DEF TraceBatchStart
    <3>2. r \in Record /\ r.ended = FALSE
      BY DEF Record
    <3> HIDE DEF r
    <3>3. /\ start' \in [Op -> Record \cup {NoStart, "began"}] /\ start'[o] = r
          /\ \A p \in Op \ {o} : start'[p] = start[p]
      BY <2>1, <3>1, <3>2 DEF TypeOK
    <3>4. TypeOK' /\ OneEnd(o)' /\ BatchKnows(o)'
      BY <2>1, <3>1, <3>2, <3>3, HookFacts DEF TypeOK, OneEnd, BatchKnows
    <3> QED  BY <2>1, <3>1, <3>3, <3>4, HookFacts, OthersOK
  <2>4. ASSUME NEW outcome \in Outcome, TraceEnd(o, outcome) PROVE IInv'
    <3>1. /\ KindOf[o] # "batch" /\ Len(hooks[o]) = 1 /\ Hook(o, "end", outcome)
          /\ Report(o, outcome.rows, outcome.err) /\ start' = start
      BY <2>4 DEF TraceEnd
    <3>2. outcome.rows \in Nat /\ outcome.err \in Err \cup {NoErr}
      BY KindAssumption DEF Outcome
    <3>3. /\ metrics' \in [Op -> Seq([kind : {"query", "batch", "copy_from"}, rows : Nat,
                                      err : Err \cup {NoErr}])]
          /\ Len(metrics'[o]) = Len(metrics[o]) + 1
          /\ \A p \in Op \ {o} : metrics'[p] = metrics[p]
      BY <2>1, <3>1, <3>2, ReportFacts
    <3>4. /\ hooks' \in [Op -> Seq(HookRecord)] /\ Len(hooks'[o]) = 2 /\ Ends(o)' # {}
          /\ \A p \in Op \ {o} : hooks'[p] = hooks[p] /\ Ends(p)' = Ends(p)
      <4>1. outcome \in Heard /\ "end" \in {"start", "query", "end"}
        BY <2>1
      <4>2. /\ hooks' \in [Op -> Seq(HookRecord)]
            /\ Len(hooks'[o]) = Len(hooks[o]) + 1
            /\ Ends(o)' = Ends(o) \cup {Len(hooks[o]) + 1}
            /\ \A p \in Op \ {o} : hooks'[p] = hooks[p] /\ Ends(p)' = Ends(p)
        BY <2>1, <3>1, <4>1, HookFacts
      <4> QED  BY <3>1, <4>2
    <3>5. TypeOK' /\ OneEnd(o)' /\ BatchKnows(o)'
      <4>1. TypeOK'
        BY <2>1, <3>1, <3>3, <3>4 DEF TypeOK
      <4>2. OneEnd(o)' /\ BatchKnows(o)'
        BY <2>1, <3>1, <3>3, <3>4 DEF OneEnd, BatchKnows
      <4> QED  BY <4>1, <4>2
    <3> QED  BY <3>1, <3>3, <3>4, <3>5, OthersOK
  <2>5. ASSUME NEW outcome \in Outcome, TraceBatchQuery(o, outcome) PROVE IInv'
    <3>1. /\ KindOf[o] = "batch" /\ start[o] # NoStart /\ Hook(o, "query", outcome)
          /\ metrics' = metrics
          /\ start' = IF start[o].ended THEN start
                      ELSE [start EXCEPT ![o].rows = @ + outcome.rows,
                                         ![o].err = FirstError(@, outcome.err)]
      BY <2>5 DEF TraceBatchQuery
    <3>2. outcome.rows \in Nat /\ outcome.err \in Err \cup {NoErr}
      BY KindAssumption DEF Outcome
    <3>3. hooks[o] # <<>> /\ start[o] \in Record
      BY <2>1, <3>1 DEF BatchKnows
    <3>4. FirstError(start[o].err, outcome.err) \in Err \cup {NoErr}
      BY <3>2, <3>3 DEF FirstError, Record
    <3>5. /\ start' \in [Op -> Record \cup {NoStart, "began"}]
          /\ start'[o] \in Record /\ start'[o].ended = start[o].ended
          /\ \A p \in Op \ {o} : start'[p] = start[p]
      <4>1. CASE start[o].ended
        BY <2>1, <3>1, <3>3, <4>1 DEF TypeOK
      <4>2. CASE ~start[o].ended
        <5> DEFINE r == [start[o] EXCEPT !.rows = @ + outcome.rows,
                                         !.err = FirstError(@, outcome.err)]
        <5>1. r \in Record /\ r.ended = start[o].ended
          <6>1. start[o].rows + outcome.rows \in Nat
            BY <3>2, <3>3 DEF Record
          <6> QED  BY <3>3, <3>4, <6>1 DEF Record
        <5>2. start' = [start EXCEPT ![o] = r]
          BY <2>1, <3>1, <3>3, <4>2 DEF TypeOK, Record
        <5> HIDE DEF r
        <5> QED  BY <2>1, <5>1, <5>2 DEF TypeOK
      <4> QED  BY <4>1, <4>2
    <3>6. /\ hooks' \in [Op -> Seq(HookRecord)] /\ hooks'[o] # <<>> /\ Ends(o)' = Ends(o)
          /\ \A p \in Op \ {o} : hooks'[p] = hooks[p] /\ Ends(p)' = Ends(p)
      BY <2>1, <3>1, HookFacts
    <3>7. TypeOK' /\ OneEnd(o)' /\ BatchKnows(o)'
      BY <2>1, <3>1, <3>3, <3>5, <3>6 DEF TypeOK, OneEnd, BatchKnows
    <3> QED  BY <3>1, <3>5, <3>6, <3>7, OthersOK
  <2>6. ASSUME NEW err \in Err \cup {NoErr}, TraceBatchEnd(o, err) PROVE IInv'
    <3> DEFINE out == [rows |-> 0, err |-> err]
    <3>1. /\ KindOf[o] = "batch" /\ start[o] # NoStart /\ Hook(o, "end", out)
          /\ IF start[o].ended
             THEN UNCHANGED <<start, metrics>>
             ELSE /\ start' = [start EXCEPT ![o] = Marked(@)]
                  /\ Report(o, start[o].rows, IF err # NoErr THEN err ELSE start[o].err)
      BY <2>6 DEF TraceBatchEnd
    <3>2. hooks[o] # <<>> /\ start[o] \in Record
      BY <2>1, <3>1 DEF BatchKnows
    <3>3. /\ hooks' \in [Op -> Seq(HookRecord)] /\ hooks'[o] # <<>> /\ Ends(o)' # {}
          /\ \A p \in Op \ {o} : hooks'[p] = hooks[p] /\ Ends(p)' = Ends(p)
      <4>1. out \in Heard
        BY DEF Heard
      <4> QED  BY <2>1, <3>1, <4>1, HookFacts
    <3>4. CASE start[o].ended
      <4>1. TypeOK' /\ OneEnd(o)' /\ BatchKnows(o)'
        BY <2>1, <3>1, <3>2, <3>3, <3>4 DEF TypeOK, OneEnd, BatchKnows
      <4> QED  BY <3>1, <3>3, <3>4, <4>1, OthersOK
    <3>5. CASE ~start[o].ended
      <4> DEFINE r == Marked(start[o])
                 e == IF err # NoErr THEN err ELSE start[o].err
      <4>1. /\ r \in Record /\ r.ended = TRUE
            /\ e \in Err \cup {NoErr} /\ start[o].rows \in Nat
        BY <3>2 DEF Record, Marked
      <4>2. start' = [start EXCEPT ![o] = r] /\ Report(o, start[o].rows, e)
        BY <3>1, <3>5
      <4> HIDE DEF r, e
      <4>3. /\ metrics' \in [Op -> Seq([kind : {"query", "batch", "copy_from"}, rows : Nat,
                                        err : Err \cup {NoErr}])]
            /\ Len(metrics'[o]) = Len(metrics[o]) + 1
            /\ \A p \in Op \ {o} : metrics'[p] = metrics[p]
        BY <2>1, <4>1, <4>2, ReportFacts
      <4>4. /\ start' \in [Op -> Record \cup {NoStart, "began"}] /\ start'[o] = r
            /\ \A p \in Op \ {o} : start'[p] = start[p]
        BY <2>1, <4>1, <4>2 DEF TypeOK
      <4>5. Len(metrics[o]) = 0
        BY <2>1, <3>1, <3>2, <3>5 DEF BatchKnows
      <4>6. TypeOK' /\ OneEnd(o)' /\ BatchKnows(o)'
        <5>1. TypeOK'
          BY <3>3, <4>3, <4>4, <4>1 DEF TypeOK
        <5>2. OneEnd(o)' /\ BatchKnows(o)'
          BY <3>1, <3>3, <4>1, <4>3, <4>4, <4>5 DEF OneEnd, BatchKnows
        <5> QED  BY <5>1, <5>2
      <4> QED  BY <3>3, <4>3, <4>4, <4>6, OthersOK
    <3> QED  BY <3>4, <3>5
  <2> QED  BY <1>2, <2>2, <2>3, <2>4, <2>5, <2>6
<1> QED  BY <1>1, <1>2 DEF Next

\* The invariant holds however pgx calls the hooks.
THEOREM Inductive == Spec => []IInv
  BY InitOK, NextOK, PTL DEF Spec

\* Every operation that was ended is reported once, and no other.
THEOREM ReportedOnce == Spec => []OneMetricEach
<1>1. IInv => OneMetricEach
  <2> SUFFICES ASSUME IInv, NEW o \in Op
               PROVE  Len(metrics[o]) = (IF Ends(o) = {} THEN 0 ELSE 1)
    BY DEF OneMetricEach
  <2>1. hooks[o] \in Seq(HookRecord)
    BY DEF IInv, TypeOK
  <2>2. Len(hooks[o]) \in Nat
    BY <2>1
  <2>3. \A n \in Nat : n = 0 \/ n = 1 \/ n >= 2
    OBVIOUS
  <2> QED  BY <2>2, <2>3 DEF IInv, OneEnd, BatchKnows
<1> QED  BY <1>1, Inductive, PTL

-------------------------------------------------------------------------------
(* What the metric tells.                                                  *)

Result == [rows : Nat, err : Err \cup {NoErr}]

\* The first error of a sequence of results.
FirstErr(s) ==
    LET errors == {i \in DOMAIN s : s[i].err # NoErr}
    IN  IF errors = {} THEN NoErr
        ELSE s[CHOOSE i \in errors : \A j \in errors : i <= j].err

LEMMA FirstErrOfNone == FirstErr(<<>>) = NoErr
  BY DEF FirstErr

LEMMA FirstErrOfMore ==
    ASSUME NEW s \in Seq(Result), NEW x \in Result
    PROVE  FirstErr(Append(s, x)) = FirstError(FirstErr(s), x.err)
<1> DEFINE n == Len(s)
           t == Append(s, x)
           before == {i \in DOMAIN s : s[i].err # NoErr}
           errors == {i \in DOMAIN t : t[i].err # NoErr}
           first == CHOOSE i \in before : \A j \in before : i <= j
           last == CHOOSE i \in errors : \A j \in errors : i <= j
<1>1. /\ n \in Nat /\ DOMAIN s = 1 .. n /\ DOMAIN t = 1 .. n + 1
      /\ \A k \in 1 .. n : t[k] = s[k]
      /\ t[n + 1] = x
  OBVIOUS
<1> HIDE DEF t, n
<1>2. CASE before = {}
  <2>1. FirstErr(s) = NoErr
    BY <1>2 DEF FirstErr
  <2>2. CASE x.err = NoErr
    <3>1. errors = {}
      BY <1>1, <1>2, <2>2
    <3> QED  BY <2>1, <2>2, <3>1 DEF FirstErr, FirstError, t
  <2>3. CASE x.err # NoErr
    <3>1. errors = {n + 1}
      BY <1>1, <1>2, <2>3
    <3>2. last = n + 1
      BY <1>1, <3>1
    <3>3. FirstErr(t) = t[last].err
      BY <3>1 DEF FirstErr
    <3> HIDE DEF last
    <3> QED  BY <1>1, <2>1, <3>2, <3>3 DEF FirstError, t
  <2> QED  BY <2>2, <2>3
<1>3. CASE before # {}
  <2>1. /\ \A j \in errors : j \in before \/ j = n + 1
        /\ before \subseteq errors /\ \A j \in before : j \in 1 .. n
    BY <1>1
  <2>2. PICK m \in before : \A j \in before : m <= j
    <3> HIDE DEF before
    <3>1. before \subseteq Nat
      BY <1>1, <2>1
    <3> QED  BY <1>3, <3>1, Least
  <2>3. first = m
    <3>1. \A i \in before : (\A j \in before : i <= j) => i = m
      BY <1>1, <2>1, <2>2
    <3> QED  BY <2>2, <3>1
  <2>4. last = m
    <3>1. m \in errors /\ \A j \in errors : m <= j
      BY <1>1, <2>1, <2>2
    <3>2. \A i \in errors : (\A j \in errors : i <= j) => i = m
      <4>1. errors \subseteq Nat
        BY <1>1
      <4> QED  BY <3>1, <4>1
    <3> QED  BY <3>1, <3>2
  <2>5. FirstErr(s) = s[m].err
    BY <1>3, <2>3 DEF FirstErr
  <2>6. FirstErr(t) = t[m].err
    BY <1>3, <2>1, <2>4 DEF FirstErr
  <2>7. s[m].err # NoErr /\ t[m] = s[m]
    BY <1>1, <2>1, <2>2
  <2> QED  BY <2>5, <2>6, <2>7 DEF FirstError, t
<1> QED  BY <1>2, <1>3

EndsIn(h) == {i \in DOMAIN h : h[i].hook = "end"}

FirstEnd(h) == CHOOSE i \in EndsIn(h) : \A j \in EndsIn(h) : i <= j

\* The results the hooks told after the start and up to an index.
Observed(h, end) == [i \in 1 .. (end - 1) |-> h[i + 1].outcome]

\* The first hook is the start, and the others tell results.
Shape(h) ==
    \A i \in DOMAIN h :
        IF i = 1 THEN h[i].hook = "start" ELSE h[i].outcome \in Result

\* A metric that is of the first end.
Faithful(o, h, m) ==
    LET heard == Observed(h, FirstEnd(h))
        end == heard[FirstEnd(h) - 1]
    IN  /\ m[1].kind = KindOf[o]
        /\ m[1].rows = Total(heard)
        /\ m[1].err = IF end.err # NoErr THEN end.err ELSE FirstErr(heard)

\* The record of a batch that is not ended adds up what was observed.
Summed(o) ==
    KindOf[o] = "batch" /\ hooks[o] # <<>> /\ ~start[o].ended =>
        LET told == Observed(hooks[o], Len(hooks[o]))
        IN  start[o].rows = Total(told) /\ start[o].err = FirstErr(told)

MInv ==
    \A o \in Op : /\ Shape(hooks[o]) /\ Summed(o)
                  /\ metrics[o] # <<>> => Faithful(o, hooks[o], metrics[o])

LEMMA ObservedFacts ==
    ASSUME NEW h \in Seq(HookRecord), Shape(h), NEW end \in 1 .. Len(h)
    PROVE  Observed(h, end) \in Seq(Result) /\ Len(Observed(h, end)) = end - 1
<1>1. \A i \in 1 .. (end - 1) : h[i + 1].outcome \in Result
  <2>1. \A i \in 1 .. (end - 1) : i + 1 \in DOMAIN h /\ i + 1 # 1
    OBVIOUS
  <2> QED  BY <2>1 DEF Shape
<1>2. Observed(h, end) \in [1 .. (end - 1) -> Result] /\ end - 1 \in Nat
  BY <1>1 DEF Observed
<1> QED  BY <1>2

\* A hook after the first end changes nothing of what the metric has to tell.
LEMMA LaterHook ==
    ASSUME NEW h \in Seq(HookRecord), NEW x \in HookRecord, EndsIn(h) # {}
    PROVE  /\ FirstEnd(Append(h, x)) = FirstEnd(h)
           /\ Observed(Append(h, x), FirstEnd(h)) = Observed(h, FirstEnd(h))
<1> DEFINE n == Len(h)
           t == Append(h, x)
<1>1. /\ n \in Nat /\ DOMAIN h = 1 .. n /\ DOMAIN t = 1 .. n + 1
      /\ \A k \in 1 .. n : t[k] = h[k]
  OBVIOUS
<1> HIDE DEF t, n
<1>2. /\ EndsIn(h) \subseteq 1 .. n /\ EndsIn(h) \subseteq EndsIn(t)
      /\ EndsIn(t) \subseteq EndsIn(h) \cup {n + 1}
  BY <1>1 DEF EndsIn
<1>3. PICK m \in EndsIn(h) : \A j \in EndsIn(h) : m <= j
  <2>1. EndsIn(h) \subseteq Nat
    BY <1>1, <1>2
  <2> QED  BY <2>1, Least
<1>4. FirstEnd(h) = m
  <2>1. \A i \in EndsIn(h) : (\A j \in EndsIn(h) : i <= j) => i = m
    BY <1>1, <1>2, <1>3
  <2> QED  BY <1>3, <2>1 DEF FirstEnd
<1>5. FirstEnd(t) = m
  <2>1. m \in EndsIn(t) /\ \A j \in EndsIn(t) : m <= j
    BY <1>1, <1>2, <1>3
  <2>2. \A i \in EndsIn(t) : (\A j \in EndsIn(t) : i <= j) => i = m
    BY <1>1, <1>2, <2>1
  <2> QED  BY <2>1, <2>2 DEF FirstEnd
<1>6. Observed(t, m) = Observed(h, m)
  <2>1. \A i \in 1 .. (m - 1) : t[i + 1] = h[i + 1]
    <3>1. m \in 1 .. n
      BY <1>2, <1>3
    <3>2. \A i \in 1 .. (m - 1) : i + 1 \in 1 .. n
      BY <1>1, <3>1
    <3> QED  BY <1>1, <3>2
  <2> QED  BY <2>1 DEF Observed
<1> QED  BY <1>4, <1>5, <1>6 DEF t

\* One more hook tells one more result.
LEMMA OneMoreHook ==
    ASSUME NEW h \in Seq(HookRecord), NEW x \in HookRecord, h # <<>>, Shape(h),
           x.outcome \in Result
    PROVE  /\ Shape(Append(h, x))
           /\ Len(Append(h, x)) = Len(h) + 1
           /\ Observed(Append(h, x), Len(h) + 1) = Append(Observed(h, Len(h)), x.outcome)
           /\ x.hook = "end" /\ EndsIn(h) = {} => FirstEnd(Append(h, x)) = Len(h) + 1
<1> DEFINE n == Len(h)
           t == Append(h, x)
           told == Observed(h, n)
<1>1. /\ n \in Nat \ {0} /\ DOMAIN h = 1 .. n /\ DOMAIN t = 1 .. n + 1
      /\ \A k \in 1 .. n : t[k] = h[k]
      /\ t[n + 1] = x /\ Len(t) = n + 1
  OBVIOUS
<1>2. told \in Seq(Result) /\ Len(told) = n - 1
  <2>1. n \in 1 .. Len(h)
    BY <1>1
  <2> QED  BY <1>1, <2>1, ObservedFacts
<1> HIDE DEF t, n
<1>3. Shape(t)
  <2> SUFFICES ASSUME NEW i \in DOMAIN t
               PROVE  IF i = 1 THEN t[i].hook = "start" ELSE t[i].outcome \in Result
    BY DEF Shape
  <2>1. CASE i \in 1 .. n
    BY <1>1, <2>1 DEF Shape
  <2>2. CASE i = n + 1
    BY <1>1, <2>2
  <2> QED  BY <1>1, <2>1, <2>2
<1>4. Observed(t, n + 1) = Append(told, x.outcome)
  <2> DEFINE s == Append(told, x.outcome)
  <2>1. /\ s \in Seq(Result) /\ Len(s) = n
        /\ \A i \in 1 .. n - 1 : s[i] = told[i]
        /\ s[n] = x.outcome
    <3> HIDE DEF told
    <3>1. (n - 1) + 1 = n /\ n - 1 \in Nat
      BY <1>1
    <3> QED  BY <1>2, <3>1
  <2>2. \A i \in 1 .. n : s[i] = t[i + 1].outcome
    <3> SUFFICES ASSUME NEW i \in 1 .. n PROVE s[i] = t[i + 1].outcome
      OBVIOUS
    <3>1. CASE i = n
      BY <1>1, <2>1, <3>1
    <3>2. CASE i # n
      <4>1. i \in 1 .. n - 1 /\ i + 1 \in 1 .. n
        BY <1>1, <3>2
      <4>2. told[i] = h[i + 1].outcome
        BY <4>1 DEF Observed
      <4> HIDE DEF s, told
      <4> QED  BY <1>1, <2>1, <4>1, <4>2
    <3> QED  BY <3>1, <3>2
  <2>3. s = [i \in 1 .. n |-> s[i]]
    <3> HIDE DEF s
    <3> QED  BY <2>1
  <2>4. Observed(t, n + 1) = [i \in 1 .. n |-> t[i + 1].outcome]
    <3>1. (n + 1) - 1 = n
      BY <1>1
    <3> QED  BY <3>1 DEF Observed
  <2> HIDE DEF s
  <2>5. Observed(t, n + 1) = s
    BY <2>2, <2>3, <2>4
  <2> QED  BY <2>5 DEF s
<1>5. ASSUME x.hook = "end", EndsIn(h) = {} PROVE FirstEnd(t) = n + 1
  <2>1. EndsIn(t) = {n + 1}
    BY <1>1, <1>5 DEF EndsIn
  <2> QED  BY <1>1, <2>1 DEF FirstEnd
<1> QED  BY <1>1, <1>3, <1>4, <1>5 DEF t, n

\* What is reported at the first end is faithful.
LEMMA FirstEndTold ==
    ASSUME NEW o \in Op, NEW h \in Seq(HookRecord), NEW x \in HookRecord, h # <<>>,
           Shape(h), x.outcome \in Result, x.hook = "end", EndsIn(h) = {}, NEW m,
           m[1] = [kind |-> KindOf[o],
                   rows |-> Total(Observed(h, Len(h))) + x.outcome.rows,
                   err |-> IF x.outcome.err # NoErr THEN x.outcome.err
                           ELSE FirstErr(Observed(h, Len(h)))]
    PROVE  Faithful(o, Append(h, x), m)
<1> DEFINE told == Observed(h, Len(h))
           heard == Append(told, x.outcome)
           n == Len(h)
<1>1. n \in Nat \ {0} /\ n \in 1 .. Len(h)
  OBVIOUS
<1>2. told \in Seq(Result) /\ Len(told) = n - 1
  BY <1>1, ObservedFacts
<1>3. /\ FirstEnd(Append(h, x)) = n + 1
      /\ Observed(Append(h, x), n + 1) = heard
  BY OneMoreHook
<1> HIDE DEF told, n
<1>4. (n + 1) - 1 = n /\ heard[n] = x.outcome
  <2>1. (n - 1) + 1 = n
    BY <1>1
  <2> QED  BY <1>1, <1>2, <2>1
<1>5. Total(heard) = Total(told) + x.outcome.rows
  BY <1>2, TotalOfMore
<1>6. FirstErr(heard) = FirstError(FirstErr(told), x.outcome.err)
  BY <1>2, FirstErrOfMore
<1> HIDE DEF heard
<1>7. x.outcome.err = NoErr => FirstErr(heard) = FirstErr(told)
  BY <1>6 DEF FirstError
<1>8. /\ m[1].kind = KindOf[o] /\ m[1].rows = Total(told) + x.outcome.rows
      /\ m[1].err = IF x.outcome.err # NoErr THEN x.outcome.err ELSE FirstErr(told)
  BY DEF told
<1> QED  BY <1>3, <1>4, <1>5, <1>7, <1>8 DEF Faithful

LEMMA HookAppends ==
    ASSUME TypeOK, NEW o \in Op, NEW name, NEW outcome, Hook(o, name, outcome)
    PROVE  /\ hooks'[o] = Append(hooks[o], [hook |-> name, outcome |-> outcome])
           /\ \A p \in Op \ {o} : hooks'[p] = hooks[p]
  BY DEF Hook, TypeOK

LEMMA OthersTold ==
    ASSUME MInv, NEW o \in Op,
           \A p \in Op \ {o} : /\ hooks'[p] = hooks[p] /\ start'[p] = start[p]
                               /\ metrics'[p] = metrics[p],
           Shape(hooks'[o]), Summed(o)',
           metrics'[o] # <<>> => Faithful(o, hooks'[o], metrics'[o])
    PROVE  MInv'
<1>1. ASSUME NEW p \in Op \ {o}
      PROVE  /\ Shape(hooks'[p]) /\ Summed(p)'
             /\ metrics'[p] # <<>> => Faithful(p, hooks'[p], metrics'[p])
  <2>1. /\ Shape(hooks[p]) /\ Summed(p)
        /\ metrics[p] # <<>> => Faithful(p, hooks[p], metrics[p])
    BY DEF MInv
  <2>2. hooks'[p] = hooks[p] /\ start'[p] = start[p] /\ metrics'[p] = metrics[p]
    OBVIOUS
  <2> QED  BY <2>1, <2>2 DEF Summed
<1> QED  BY <1>1 DEF MInv

\* An operation that was ended has been reported, and hears only later hooks.
LEMMA LaterTold ==
    ASSUME IInv, MInv, NEW o \in Op, NEW name \in {"query", "end"},
           NEW outcome \in Result,
           KindOf[o] = "batch", start[o] # NoStart, start[o] \in Record, start[o].ended,
           Hook(o, name, outcome), start' = start, metrics' = metrics
    PROVE  MInv'
<1> DEFINE h == hooks[o]
           x == [hook |-> name, outcome |-> outcome]
<1>1. h \in Seq(HookRecord) /\ TypeOK
  BY DEF IInv, TypeOK
<1>2. x \in HookRecord /\ x.outcome = outcome
  BY DEF HookRecord, Heard, Result
<1>3. hooks'[o] = Append(h, x) /\ \A p \in Op \ {o} : hooks'[p] = hooks[p]
  BY <1>1, HookAppends
<1>4. h # <<>> /\ EndsIn(h) # {}
  <2>1. BatchKnows(o) /\ start[o].ended = TRUE
    BY DEF IInv, Record
  <2>2. h # <<>>
    <3>1. ASSUME h = <<>> PROVE FALSE
      <4>1. start[o] = NoStart /\ Ends(o) = {} /\ Len(metrics[o]) = 0
        BY <2>1, <3>1 DEF BatchKnows
      <4> QED  BY <4>1
    <3> QED  BY <3>1
  <2>3. Ends(o) # {}
    BY <2>1, <2>2 DEF BatchKnows
  <2> QED  BY <2>2, <2>3 DEF Ends, EndsIn
<1> HIDE DEF x
<1>5. Shape(h) /\ Shape(Append(h, x))
  BY <1>1, <1>2, <1>4, OneMoreHook DEF MInv
<1>6. metrics[o] # <<>> => Faithful(o, Append(h, x), metrics[o])
  <2>1. /\ FirstEnd(Append(h, x)) = FirstEnd(h)
        /\ Observed(Append(h, x), FirstEnd(h)) = Observed(h, FirstEnd(h))
    BY <1>1, <1>2, <1>4, LaterHook
  <2>2. metrics[o] # <<>> => Faithful(o, h, metrics[o])
    BY DEF MInv
  <2> QED  BY <2>1, <2>2 DEF Faithful
<1>7. Summed(o)'
  BY DEF Summed
<1> QED  BY <1>3, <1>5, <1>6, <1>7, OthersTold

LEMMA MetricsInit == Init => MInv
<1> SUFFICES ASSUME Init, NEW o \in Op
             PROVE  hooks[o] = <<>> /\ metrics[o] = <<>>
  BY DEF MInv, Shape, Summed
<1> QED  BY DEF Init

LEMMA MetricsNext == IInv /\ MInv /\ [Next]_vars => MInv'
<1> SUFFICES ASSUME IInv, MInv, [Next]_vars PROVE MInv'
  OBVIOUS
<1>1. CASE UNCHANGED vars
  <2>1. \A o \in Op : Summed(o)' <=> Summed(o)
    BY <1>1 DEF vars, Summed
  <2> QED  BY <1>1, <2>1 DEF vars, MInv
<1>2. ASSUME NEW o \in Op,
             \/ TraceStart(o)
             \/ TraceBatchStart(o)
             \/ \E outcome \in Outcome : TraceEnd(o, outcome) \/ TraceBatchQuery(o, outcome)
             \/ \E err \in Err \cup {NoErr} : TraceBatchEnd(o, err)
      PROVE  MInv'
  <2> DEFINE h == hooks[o]
             told == Observed(h, Len(h))
  <2>1. /\ TypeOK /\ OneEnd(o) /\ BatchKnows(o)
        /\ h \in Seq(HookRecord) /\ Len(h) \in Nat
        /\ Shape(h) /\ Summed(o)
        /\ metrics[o] # <<>> => Faithful(o, h, metrics[o])
    <3>1. TypeOK /\ OneEnd(o) /\ BatchKnows(o) /\ h \in Seq(HookRecord)
      BY DEF IInv, TypeOK
    <3>2. Len(h) \in Nat
      BY <3>1
    <3> QED  BY <3>1, <3>2 DEF MInv
  <2>2. Outcome \subseteq Result /\ Result \subseteq Heard
    BY KindAssumption DEF Outcome, Result, Heard
  <2>3. DOMAIN start = Op /\ DOMAIN metrics = Op
    BY <2>1 DEF TypeOK
  <2>4. Len(metrics[o]) = 0 => metrics[o] = <<>>
    BY <2>1 DEF TypeOK
  <2>5. Ends(o) = EndsIn(h)
    BY DEF Ends, EndsIn
  <2>6. h # <<>> => told \in Seq(Result)
    <3> SUFFICES ASSUME h # <<>> PROVE told \in Seq(Result)
      OBVIOUS
    <3>1. Len(h) \in 1 .. Len(h)
      BY <2>1
    <3> QED  BY <2>1, <3>1, ObservedFacts
  <2>7. Observed(<<>>, 0) = <<>>
    BY DEF Observed
  <2>8. ASSUME h = <<>>, Hook(o, "start", NoStart)
        PROVE  /\ Shape(hooks'[o]) /\ hooks'[o] # <<>>
               /\ Len(hooks'[o]) = 1 /\ Observed(hooks'[o], 1) = <<>>
               /\ \A p \in Op \ {o} : hooks'[p] = hooks[p]
               /\ metrics[o] = <<>>
    <3> DEFINE x == [hook |-> "start", outcome |-> NoStart]
    <3>1. hooks'[o] = Append(<<>>, x) /\ \A p \in Op \ {o} : hooks'[p] = hooks[p]
      BY <2>1, <2>8, HookAppends
    <3>2. x.hook = "start"
      OBVIOUS
    <3> HIDE DEF x
    <3>3. Append(<<>>, x) = <<x>>
      OBVIOUS
    <3>4. Shape(<<x>>) /\ Observed(<<x>>, 1) = <<>> /\ Len(<<x>>) = 1 /\ <<x>> # <<>>
      BY <3>2 DEF Shape, Observed
    <3>5. Len(h) = 0
      BY <2>8
    <3>6. metrics[o] = <<>>
      BY <2>1, <2>4, <2>8, <3>5 DEF OneEnd, BatchKnows
    <3> QED  BY <3>1, <3>3, <3>4, <3>6
  <2>9. CASE TraceStart(o)
    <3>1. /\ KindOf[o] # "batch" /\ h = <<>> /\ Hook(o, "start", NoStart)
          /\ start' = [start EXCEPT ![o] = "began"] /\ metrics' = metrics
      BY <2>9 DEF TraceStart
    <3>2. Summed(o)'
      BY <3>1 DEF Summed
    <3>3. \A p \in Op \ {o} : start'[p] = start[p] /\ metrics'[p] = metrics[p]
      BY <2>3, <3>1
    <3> QED  BY <2>8, <3>1, <3>2, <3>3, OthersTold
  <2>10. CASE TraceBatchStart(o)
    <3> DEFINE r == [rows |-> 0, err |-> NoErr, ended |-> FALSE]
    <3>1. /\ h = <<>> /\ Hook(o, "start", NoStart)
          /\ start' = [start EXCEPT ![o] = r] /\ metrics' = metrics
      BY <2>10 DEF TraceBatchStart
    <3>2. r.rows = 0 /\ r.err = NoErr
      OBVIOUS
    <3> HIDE DEF r
    <3>3. start'[o] = r /\ \A p \in Op \ {o} : start'[p] = start[p] /\ metrics'[p] = metrics[p]
      BY <2>3, <3>1
    <3>4. Summed(o)'
      BY <2>8, <3>1, <3>2, <3>3, TotalOfNone, FirstErrOfNone DEF Summed
    <3> QED  BY <2>8, <3>1, <3>3, <3>4, OthersTold
  <2>11. ASSUME NEW outcome \in Outcome, TraceEnd(o, outcome) PROVE MInv'
    <3> DEFINE x == [hook |-> "end", outcome |-> outcome]
               m == [kind |-> KindOf[o], rows |-> outcome.rows, err |-> outcome.err]
    <3>1. /\ KindOf[o] # "batch" /\ Len(h) = 1 /\ Hook(o, "end", outcome)
          /\ metrics' = [metrics EXCEPT ![o] = Append(metrics[o], m)] /\ start' = start
      BY <2>11 DEF TraceEnd, Report
    <3>2. Ends(o) = {} /\ metrics[o] = <<>>
      BY <2>1, <2>4, <3>1 DEF OneEnd
    <3>3. /\ x \in HookRecord /\ x.hook = "end" /\ x.outcome = outcome
          /\ outcome \in Result
      BY <2>2 DEF HookRecord
    <3>4. hooks'[o] = Append(h, x) /\ \A p \in Op \ {o} : hooks'[p] = hooks[p]
      BY <2>1, <3>1, HookAppends
    <3>5. h # <<>>
      BY <3>1
    <3>6. outcome.rows \in Nat /\ told = <<>>
      BY <3>1, <3>3 DEF Result, Observed
    <3>7. m = [kind |-> KindOf[o], rows |-> Total(told) + outcome.rows,
               err |-> IF outcome.err # NoErr THEN outcome.err ELSE FirstErr(told)]
      BY <3>6, TotalOfNone, FirstErrOfNone
    <3> HIDE DEF x, m, told
    <3>8. metrics'[o] = Append(<<>>, m) /\ Append(<<>>, m)[1] = m
          /\ \A p \in Op \ {o} : start'[p] = start[p] /\ metrics'[p] = metrics[p]
      BY <2>3, <3>1, <3>2
    <3>9. Shape(hooks'[o])
      BY <2>1, <3>3, <3>4, <3>5, OneMoreHook
    <3>10. Faithful(o, hooks'[o], metrics'[o])
      <4>1. metrics'[o][1] = [kind |-> KindOf[o],
                   rows |-> Total(Observed(h, Len(h))) + x.outcome.rows,
                   err |-> IF x.outcome.err # NoErr THEN x.outcome.err
                           ELSE FirstErr(Observed(h, Len(h)))]
        BY <3>3, <3>7, <3>8 DEF told
      <4> QED  BY <2>1, <2>5, <3>2, <3>3, <3>4, <3>5, <4>1, FirstEndTold
    <3>11. Summed(o)'
      BY <3>1 DEF Summed
    <3> QED  BY <3>4, <3>8, <3>9, <3>10, <3>11, OthersTold
  <2>12. ASSUME NEW outcome \in Outcome, TraceBatchQuery(o, outcome) PROVE MInv'
    <3> DEFINE x == [hook |-> "query", outcome |-> outcome]
    <3>1. /\ KindOf[o] = "batch" /\ start[o] # NoStart /\ Hook(o, "query", outcome)
          /\ metrics' = metrics
          /\ start' = IF start[o].ended THEN start
                      ELSE [start EXCEPT ![o].rows = @ + outcome.rows,
                                         ![o].err = FirstError(@, outcome.err)]
      BY <2>12 DEF TraceBatchQuery
    <3>2. h # <<>> /\ start[o] \in Record
      BY <2>1, <3>1 DEF BatchKnows
    <3>3. CASE start[o].ended
      BY <2>2, <3>1, <3>2, <3>3, LaterTold
    <3>4. CASE ~start[o].ended
      <4> DEFINE r == [start[o] EXCEPT !.rows = @ + outcome.rows,
                                       !.err = FirstError(@, outcome.err)]
      <4>1. start' = [start EXCEPT ![o] = r]
        BY <2>3, <3>1, <3>2, <3>4 DEF Record
      <4>2. /\ r.rows = start[o].rows + outcome.rows
            /\ r.err = FirstError(start[o].err, outcome.err)
        BY <3>2 DEF Record
      <4>3. /\ x \in HookRecord /\ x.outcome = outcome /\ outcome \in Result
        BY <2>2 DEF HookRecord
      <4>4. hooks'[o] = Append(h, x) /\ \A p \in Op \ {o} : hooks'[p] = hooks[p]
        BY <2>1, <3>1, HookAppends
      <4> HIDE DEF r, x
      <4>5. /\ Shape(hooks'[o]) /\ Len(hooks'[o]) = Len(h) + 1
            /\ Observed(hooks'[o], Len(h) + 1) = Append(told, outcome)
        BY <2>1, <3>2, <4>3, <4>4, OneMoreHook
      <4>6. start'[o] = r
            /\ \A p \in Op \ {o} : start'[p] = start[p] /\ metrics'[p] = metrics[p]
        BY <2>3, <3>1, <4>1
      <4>7. metrics'[o] = <<>>
        BY <2>1, <2>4, <3>1, <3>2, <3>4 DEF BatchKnows
      <4>8. start[o].rows = Total(told) /\ start[o].err = FirstErr(told)
        BY <2>1, <3>1, <3>2, <3>4 DEF Summed
      <4>9. /\ Total(Append(told, outcome)) = Total(told) + outcome.rows
            /\ FirstErr(Append(told, outcome)) = FirstError(FirstErr(told), outcome.err)
        BY <2>6, <3>2, <4>3, TotalOfMore, FirstErrOfMore
      <4> HIDE DEF told
      <4>10. Summed(o)'
        BY <4>2, <4>5, <4>6, <4>8, <4>9 DEF Summed
      <4> QED  BY <4>4, <4>5, <4>6, <4>7, <4>10, OthersTold
    <3> QED  BY <3>3, <3>4
  <2>13. ASSUME NEW err \in Err \cup {NoErr}, TraceBatchEnd(o, err) PROVE MInv'
    <3> DEFINE out == [rows |-> 0, err |-> err]
               x == [hook |-> "end", outcome |-> out]
    <3>1. /\ KindOf[o] = "batch" /\ start[o] # NoStart /\ Hook(o, "end", out)
          /\ IF start[o].ended
             THEN UNCHANGED <<start, metrics>>
             ELSE /\ start' = [start EXCEPT ![o] = Marked(@)]
                  /\ Report(o, start[o].rows, IF err # NoErr THEN err ELSE start[o].err)
      BY <2>13 DEF TraceBatchEnd
    <3>2. h # <<>> /\ start[o] \in Record
      BY <2>1, <3>1 DEF BatchKnows
    <3>3. out \in Result /\ out.rows = 0 /\ out.err = err
      BY DEF Result
    <3> HIDE DEF out
    <3>4. CASE start[o].ended
      BY <3>1, <3>2, <3>3, <3>4, LaterTold
    <3>5. CASE ~start[o].ended
      <4> DEFINE e == IF err # NoErr THEN err ELSE start[o].err
                 m == [kind |-> KindOf[o], rows |-> start[o].rows, err |-> e]
      <4>1. /\ start' = [start EXCEPT ![o] = Marked(start[o])]
            /\ metrics' = [metrics EXCEPT ![o] = Append(metrics[o], m)]
        BY <2>3, <3>1, <3>5 DEF Report
      <4>2. Ends(o) = {} /\ metrics[o] = <<>>
        BY <2>1, <2>4, <3>1, <3>2, <3>5 DEF BatchKnows
      <4>3. /\ x \in HookRecord /\ x.hook = "end" /\ x.outcome = out
        BY <2>2, <3>3 DEF HookRecord
      <4>4. hooks'[o] = Append(h, x) /\ \A p \in Op \ {o} : hooks'[p] = hooks[p]
        BY <2>1, <3>1, HookAppends
      <4>5. /\ start[o].rows = Total(told) /\ start[o].err = FirstErr(told)
            /\ start[o].rows \in Nat
        BY <2>1, <3>1, <3>2, <3>5 DEF Summed, Record
      <4>6. m = [kind |-> KindOf[o], rows |-> Total(told) + out.rows,
                 err |-> IF out.err # NoErr THEN out.err ELSE FirstErr(told)]
        BY <3>3, <4>5
      <4>7. start'[o].ended = TRUE
        BY <2>3, <3>2, <4>1 DEF Marked, Record
      <4> HIDE DEF x, m, told
      <4>8. metrics'[o] = Append(<<>>, m) /\ Append(<<>>, m)[1] = m
            /\ \A p \in Op \ {o} : start'[p] = start[p] /\ metrics'[p] = metrics[p]
        BY <2>3, <4>1, <4>2
      <4>9. Shape(hooks'[o])
        BY <2>1, <3>2, <3>3, <4>3, <4>4, OneMoreHook
      <4>10. Faithful(o, hooks'[o], metrics'[o])
        <5>1. metrics'[o][1] = [kind |-> KindOf[o],
                     rows |-> Total(Observed(h, Len(h))) + x.outcome.rows,
                     err |-> IF x.outcome.err # NoErr THEN x.outcome.err
                             ELSE FirstErr(Observed(h, Len(h)))]
          BY <4>3, <4>6, <4>8 DEF told
        <5> QED  BY <2>1, <2>5, <3>2, <3>3, <4>2, <4>3, <4>4, <5>1, FirstEndTold
      <4>11. Summed(o)'
        BY <4>7 DEF Summed
      <4> QED  BY <4>4, <4>8, <4>9, <4>10, <4>11, OthersTold
    <3> QED  BY <3>4, <3>5
  <2> QED  BY <1>2, <2>9, <2>10, <2>11, <2>12, <2>13
<1> QED  BY <1>1, <1>2 DEF Next

\* The metric of an operation tells what was observed up to its first end and
\* nothing later, also when a callback panics and pgx ends the batch again.
THEOREM MetricsAreFaithful == Spec => []MetricIsOfFirstEnd
<1>1. Spec => [](IInv /\ MInv)
  <2>1. Init => MInv
    BY MetricsInit
  <2>2. IInv /\ MInv /\ [Next]_vars => MInv'
    BY MetricsNext
  <2> QED  BY <2>1, <2>2, Inductive, PTL DEF Spec
<1>2. MInv => MetricIsOfFirstEnd
  BY DEF MInv, MetricIsOfFirstEnd, Faithful, FirstEnd, Observed, Total, FirstErr,
         Ends, EndsIn
<1> QED  BY <1>1, <1>2, PTL

===============================================================================
