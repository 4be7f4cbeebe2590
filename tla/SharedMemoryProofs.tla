-------------------------- MODULE SharedMemoryProofs ---------------------------
(***************************************************************************)
(* For any number of goroutines, calls, rows, connections and arguments:   *)
(* fetches that share slices of one array neither disturb nor see one      *)
(* another's arguments, and what they returned stays as it was returned.   *)
(*                                                                         *)
(* The inductive invariant says where each slice lies and what it holds    *)
(* (Backed, Holding), and that a goroutine appends only to arrays of its   *)
(* own (Own), behind every slice of that array it still relies on          *)
(* (RowsOK).  A step then writes to arrays its goroutine owns (WritesOwn), *)
(* so the others keep what they have (OthersKeep), and to cells behind its *)
(* own slices, so it keeps its own.                                        *)
(***************************************************************************)
EXTENDS SharedMemory, FiniteSetTheorems, TLAPS


-------------------------------------------------------------------------------
(* Memory and slices.                                                      *)

RowName == Goroutine \X Nat \X Nat

\* What a cell can hold.
Val ==
    {Base[i] : i \in DOMAIN Base} \cup {First, None} \cup RowName
        \cup (Goroutine \X {"limit", "offset"})

Address == [owner : Goroutine \cup {None}, n : Nat]

SliceType == [at : Address, len : Nat, cap : Nat]

RowArrays(m, g) == {a \in DOMAIN m : a.owner = g /\ a.n > 0}

\* The arrays of a goroutine's rows are numbered without a gap.
Numbered(m, g) == \E k \in Nat : RowArrays(m, g) = {RowsOf(g, n) : n \in 1 .. k}

MemoryOK(m) ==
    /\ DOMAIN m \subseteq Address
    /\ m \in [DOMAIN m -> Seq(Val)]
    /\ BaseArray \in DOMAIN m /\ m[BaseArray] = Base
    /\ \A g \in Goroutine : Numbered(m, g)

\* A slice lies in an array that is there.
Backed(m, s) ==
    /\ s \in SliceType /\ s.at \in DOMAIN m
    /\ s.len <= s.cap /\ s.cap <= Len(m[s.at])

Holding(m, s, xs) ==
    /\ xs \in Seq(Val) /\ Len(xs) = s.len
    /\ \A i \in 1 .. s.len : m[s.at][i] = xs[i]

\* A slice no other goroutine writes to, or the one without room.
Own(g, s) == (s.at.owner = g /\ s.at.n > 0) \/ s = Nothing

-------------------------------------------------------------------------------
(* The inductive invariant.                                                *)

Rows(g, n) == [i \in 1 .. n |-> Row(g, i)]

\* The arguments a statement has to be sent with.
Wanted(g) == SubSeq(Base, 1, call[g].args.len) \o Extra(g, call[g].kind)

KeyOf(g) == [row |-> Row(g, Size), conn |-> None]

CallRecord ==
    [kind : Fetch, args : SliceType, params : SliceType, sent : Seq(Val),
     conn : Conn \cup {None}, rows : Nat, read : Nat, out : SliceType,
     before : Seq(Val), keys : {None} \cup [row : RowName, conn : {None}]]

\* The rows of a call that were decoded: not the one that was looked at.
Decoded(c) ==
    IF c.kind = "after" /\ c.read > Size THEN Size
    ELSE IF c.kind = "one" /\ c.read > 1 THEN 1 ELSE c.read

Errors == {"none", "failed", "ErrNoRows", "ErrTooManyRows"}

Answer == [err : Errors, token : {None} \cup RowName]

Typed ==
    /\ pc \in [Goroutine -> {"idle", "prepared", "reading", "closed"}]
    /\ calls \in [Goroutine -> Nat]
    /\ DOMAIN call = Goroutine /\ call = [g \in Goroutine |-> call[g]]
    /\ answer \in [Goroutine -> Answer]
    /\ DOMAIN kept = Goroutine /\ kept = [g \in Goroutine |-> kept[g]]

KeptOK(g) ==
    \A k \in kept[g] :
        /\ k \in [slice : SliceType, holds : Seq(Val)]
        /\ Backed(heap, k.slice) /\ Own(g, k.slice)
        /\ Holding(heap, k.slice, k.holds)

\* Arguments: of the caller's array while the call waits, as sent afterwards.
ArgsOK(g) ==
    LET c == call[g]
    IN  /\ \E len \in 0 .. Len(Base) : c.args = Slice(BaseArray, len, Len(Base))
        /\ pc[g] = "prepared" =>
            /\ Backed(heap, c.params) /\ c.params.at \in {BaseArray, ArgsOf(g)}
            /\ Holding(heap, c.params, Wanted(g))
        /\ pc[g] # "prepared" => c.sent = Wanted(g)

\* Rows: behind what the destination held, where no kept slice reaches.
RowsOK(g) ==
    LET c == call[g]
    IN  /\ pc[g] = "prepared" => c.read = 0
        /\ c.kind # "into" => c.before = <<>>
        /\ Backed(heap, c.out) /\ Own(g, c.out)
        /\ Holding(heap, c.out, c.before \o Rows(g, Decoded(c)))
        /\ \A k \in kept[g] :
            k.slice.at = c.out.at => k.slice.len <= Len(c.before)
        /\ c.kind = "after" /\ c.read >= Size => c.keys = KeyOf(g)

CallOK(g) == pc[g] # "idle" => call[g] \in CallRecord /\ ArgsOK(g) /\ RowsOK(g)

TokenOK(g) == answer[g].token # None => answer[g].token = Row(g, Size)

IInv ==
    /\ Typed
    /\ MemoryOK(heap)
    /\ \A g \in Goroutine : KeptOK(g) /\ CallOK(g) /\ TokenOK(g)

-------------------------------------------------------------------------------
(* Lemmas about memory.                                                    *)

LEMMA ContentsAre ==
    ASSUME NEW m, MemoryOK(m), NEW s, Backed(m, s)
    PROVE  /\ Holding(m, s, Contents(m, s))
           /\ \A xs : Holding(m, s, xs) => xs = Contents(m, s)
<1>1. m[s.at] \in Seq(Val) /\ s.len \in Nat /\ s.len <= Len(m[s.at])
  BY DEF MemoryOK, Backed, SliceType
<1> DEFINE a == m[s.at]
<1> HIDE DEF a
<1>2. /\ SubSeq(a, 1, s.len) \in Seq(Val) /\ Len(SubSeq(a, 1, s.len)) = s.len
      /\ \A i \in 1 .. s.len : SubSeq(a, 1, s.len)[i] = a[i]
  BY <1>1 DEF a
<1>3. ASSUME NEW xs, Holding(m, s, xs) PROVE xs = SubSeq(a, 1, s.len)
  <2>1. xs \in Seq(Val) /\ Len(xs) = s.len /\ \A i \in 1 .. s.len : xs[i] = a[i]
    BY <1>3 DEF Holding, a
  <2> QED  BY <1>1, <1>2, <2>1
<1> QED  BY <1>2, <1>3 DEF Holding, Contents, a

\* The next array of rows has an address of its own.
LEMMA Fresh ==
    ASSUME MemoryOK(heap), NEW g \in Goroutine
    PROVE  /\ NextArray(g) \in Address /\ NextArray(g) \notin DOMAIN heap
           /\ NextArray(g).owner = g /\ NextArray(g).n > 0
           /\ \E k \in Nat : RowArrays(heap, g) \cup {NextArray(g)}
                                = {RowsOf(g, n) : n \in 1 .. k}
<1>1. PICK k \in Nat : RowArrays(heap, g) = {RowsOf(g, n) : n \in 1 .. k}
  BY DEF MemoryOK, Numbered
<1> DEFINE R == {RowsOf(g, n) : n \in 1 .. k}
<1>2. Cardinality(R) = k
  <2> DEFINE f == [n \in 1 .. k |-> RowsOf(g, n)]
  <2>1. f \in Bijection(1 .. k, R)
    <3>1. \A i, j \in 1 .. k : RowsOf(g, i) = RowsOf(g, j) => i = j
      BY DEF RowsOf
    <3> QED  BY <3>1 DEF Bijection, Injection, Surjection, IsInjective
  <2>2. ExistsBijection(1 .. k, R)
    BY <2>1 DEF ExistsBijection
  <2>3. IsFiniteSet(1 .. k) /\ Cardinality(1 .. k) = k
    BY FS_Interval
  <2> QED  BY <2>2, <2>3, FS_Bijection
<1>3. NextArray(g) = RowsOf(g, k + 1)
  BY <1>1, <1>2 DEF NextArray, RowArrays
<1>4. RowsOf(g, k + 1) \notin DOMAIN heap
  <2> SUFFICES ASSUME RowsOf(g, k + 1) \in DOMAIN heap PROVE FALSE
    OBVIOUS
  <2>1. RowsOf(g, k + 1) \in R
    BY <1>1 DEF RowArrays, RowsOf
  <2>2. PICK n \in 1 .. k : RowsOf(g, n) = RowsOf(g, k + 1)
    BY <2>1
  <2> QED  BY <2>2 DEF RowsOf
<1>5. R \cup {RowsOf(g, k + 1)} = {RowsOf(g, n) : n \in 1 .. (k + 1)}
  <2>1. 1 .. (k + 1) = (1 .. k) \cup {k + 1}
    OBVIOUS
  <2> QED  BY <2>1
<1> QED  BY <1>1, <1>3, <1>4, <1>5 DEF RowsOf, Address

\* What memory a step leaves to a slice.
Same(m, m2, s) ==
    /\ s.at \in DOMAIN m2 /\ Len(m2[s.at]) = Len(m[s.at])
    /\ \A i \in 1 .. s.len : m2[s.at][i] = m[s.at][i]

LEMMA Frame ==
    ASSUME NEW m, NEW m2, MemoryOK(m), NEW s, Backed(m, s), Same(m, m2, s)
    PROVE  /\ Backed(m2, s)
           /\ \A xs : Holding(m, s, xs) => Holding(m2, s, xs)
  BY DEF Backed, Same, Holding

LEMMA PadFacts ==
    ASSUME NEW xs \in Seq(Val), NEW cap \in Nat, Len(xs) <= cap
    PROVE  /\ Pad(xs, cap) \in Seq(Val) /\ Len(Pad(xs, cap)) = cap
           /\ \A i \in 1 .. Len(xs) : Pad(xs, cap)[i] = xs[i]
<1>1. None \in Val
  BY DEF Val
<1>2. \A i \in 1 .. cap : (IF i <= Len(xs) THEN xs[i] ELSE None) \in Val
  BY <1>1
<1>3. Pad(xs, cap) \in [1 .. cap -> Val]
  BY <1>2 DEF Pad
<1>4. Pad(xs, cap) \in Seq(Val) /\ Len(Pad(xs, cap)) = cap
  BY <1>3
<1>5. \A i \in 1 .. Len(xs) : i \in 1 .. cap
  OBVIOUS
<1> QED  BY <1>4, <1>5 DEF Pad

\* A sequence that holds what is behind a slice in its array is not longer.
LEMMA Joined ==
    ASSUME NEW xs \in Seq(Val), NEW ys \in Seq(Val)
    PROVE  /\ xs \o ys \in Seq(Val) /\ Len(xs \o ys) = Len(xs) + Len(ys)
           /\ \A i \in 1 .. Len(xs) : (xs \o ys)[i] = xs[i]
           /\ \A i \in 1 .. Len(ys) : (xs \o ys)[Len(xs) + i] = ys[i]
  OBVIOUS

\* append without room: a new array holds everything.
LEMMA AppendedAway ==
    ASSUME MemoryOK(heap), NEW s, Backed(heap, s), NEW xs \in Seq(Val),
           NEW fresh \in Address, fresh # s.at, s.len + Len(xs) > s.cap,
           NEW ys, Holding(heap, s, ys)
    PROVE  LET t == AppendedTo(s, xs, fresh)
               m == Written(s, xs, fresh)
           IN  /\ t \in SliceType /\ t.at = fresh /\ t.len = s.len + Len(xs)
               /\ \E array \in Seq(Val) : m = Allocated(heap, fresh, array)
               /\ Backed(m, t) /\ Holding(m, t, ys \o xs)
<1> DEFINE len == s.len + Len(xs)
           cap == Larger(len, 2 * s.cap)
           t == AppendedTo(s, xs, fresh)
           m == Written(s, xs, fresh)
           all == ys \o xs
<1>1. s \in SliceType /\ s.len \in Nat /\ s.cap \in Nat
  BY DEF Backed, SliceType
<1>2. ys \in Seq(Val) /\ Len(ys) = s.len /\ ys = Contents(heap, s)
  BY ContentsAre DEF Holding
<1>3. all \in Seq(Val) /\ Len(all) = len
  BY <1>1, <1>2
<1>4. cap \in Nat /\ len <= cap /\ len \in Nat
  BY <1>1 DEF Larger
<1>5. t = Slice(fresh, len, cap)
  BY <1>1 DEF AppendedTo
<1>6. t \in SliceType /\ t.at = fresh /\ t.len = len /\ t.cap = cap
  BY <1>4, <1>5 DEF Slice, SliceType
<1>7. m = Allocated(heap, fresh, Pad(all, cap))
  BY <1>2, <1>6 DEF Written
<1>8. /\ Pad(all, cap) \in Seq(Val) /\ Len(Pad(all, cap)) = cap
      /\ \A i \in 1 .. len : Pad(all, cap)[i] = all[i]
  BY <1>3, <1>4, PadFacts
<1> HIDE DEF m, t, all, cap, len
<1>9. m[fresh] = Pad(all, cap) /\ fresh \in DOMAIN m
  <2>1. /\ DOMAIN Allocated(heap, fresh, Pad(all, cap)) = DOMAIN heap \cup {fresh}
        /\ Allocated(heap, fresh, Pad(all, cap))[fresh] = Pad(all, cap)
    BY DEF Allocated
  <2> QED  BY <1>7, <2>1
<1>10. Backed(m, t)
  BY <1>4, <1>6, <1>8, <1>9 DEF Backed
<1>11. Holding(m, t, all)
  BY <1>3, <1>6, <1>8, <1>9 DEF Holding
<1> QED  BY <1>6, <1>7, <1>8, <1>10, <1>11 DEF m, t, all, cap, len

\* append with room: the cells behind the slice are written, no others.
LEMMA AppendedInPlace ==
    ASSUME MemoryOK(heap), NEW s, Backed(heap, s), NEW xs \in Seq(Val),
           NEW fresh \in Address, s.len + Len(xs) <= s.cap,
           NEW ys, Holding(heap, s, ys)
    PROVE  LET t == AppendedTo(s, xs, fresh)
               m == Written(s, xs, fresh)
           IN  /\ t \in SliceType /\ t.at = s.at /\ t.len = s.len + Len(xs)
               /\ DOMAIN m = DOMAIN heap
               /\ m[s.at] \in Seq(Val) /\ Len(m[s.at]) = Len(heap[s.at])
               /\ \A i \in 1 .. s.len : m[s.at][i] = heap[s.at][i]
               /\ \A b \in DOMAIN heap \ {s.at} : m[b] = heap[b]
               /\ Backed(m, t) /\ Holding(m, t, ys \o xs)
<1> DEFINE len == s.len + Len(xs)
           t == AppendedTo(s, xs, fresh)
           m == Written(s, xs, fresh)
           all == ys \o xs
           old == heap[s.at]
           new == [i \in DOMAIN old |-> IF i \in s.len + 1 .. len THEN all[i] ELSE old[i]]
<1>1. /\ s \in SliceType /\ s.len \in Nat /\ s.cap \in Nat /\ s.at \in DOMAIN heap
      /\ s.cap <= Len(old) /\ old \in Seq(Val)
  BY DEF Backed, SliceType, MemoryOK
<1>2. ys \in Seq(Val) /\ Len(ys) = s.len /\ ys = Contents(heap, s)
      /\ \A i \in 1 .. s.len : old[i] = ys[i]
  BY ContentsAre DEF Holding
<1>3. /\ all \in Seq(Val) /\ Len(all) = len /\ len \in Nat
      /\ \A i \in 1 .. s.len : all[i] = ys[i]
  BY <1>1, <1>2
<1>4. t = [s EXCEPT !.len = len]
  BY DEF AppendedTo
<1>5. t \in SliceType /\ t.at = s.at /\ t.len = len /\ t.cap = s.cap
  BY <1>1, <1>3, <1>4 DEF SliceType
<1>6. m = [heap EXCEPT ![s.at] = new]
  BY <1>2, <1>5 DEF Written
<1> HIDE DEF all, m, t
<1>7. new \in Seq(Val) /\ Len(new) = Len(old)
  <2>1. DOMAIN old = 1 .. Len(old) /\ \A i \in 1 .. Len(old) : old[i] \in Val
    BY <1>1
  <2>2. \A i \in 1 .. len : all[i] \in Val
    BY <1>3
  <2>3. \A i \in DOMAIN old : i \in s.len + 1 .. len => i \in 1 .. len
    BY <1>1, <2>1
  <2>4. new \in [1 .. Len(old) -> Val]
    BY <2>1, <2>2, <2>3
  <2>5. Len(old) \in Nat
    BY <1>1
  <2> HIDE DEF new, old
  <2> QED  BY <2>4, <2>5
<1>8. \A i \in 1 .. s.len : new[i] = old[i]
  <2>1. \A i \in 1 .. s.len : i \in DOMAIN old /\ i \notin s.len + 1 .. len
    BY <1>1, <1>3
  <2> QED  BY <2>1
<1>9. \A i \in 1 .. len : new[i] = all[i]
  <2>1. \A i \in 1 .. len : i \in DOMAIN old /\ (i \in 1 .. s.len \/ i \in s.len + 1 .. len)
    BY <1>1, <1>3, <1>5
  <2> QED  BY <2>1, <1>8, <1>2, <1>3
<1> HIDE DEF new
<1>10. DOMAIN m = DOMAIN heap /\ m[s.at] = new /\ \A b \in DOMAIN heap \ {s.at} : m[b] = heap[b]
  BY <1>1, <1>6 DEF MemoryOK
<1>11. Backed(m, t)
  BY <1>1, <1>3, <1>5, <1>7, <1>10 DEF Backed
<1>12. Holding(m, t, all)
  BY <1>3, <1>5, <1>9, <1>10 DEF Holding
<1> QED  BY <1>5, <1>7, <1>8, <1>10, <1>11, <1>12 DEF all, m, t, new

-------------------------------------------------------------------------------
(* What a goroutine's step leaves to the others.                           *)

\* A goroutine writes only to arrays it owns, and none goes away.
WritesOwn(g) ==
    /\ DOMAIN heap \subseteq DOMAIN heap'
    /\ \A b \in DOMAIN heap : b.owner # g => heap'[b] = heap[b]

\* A step of g changes the variables of g only.
StepOf(g) ==
    \A o \in Goroutine \ {g} :
        /\ pc'[o] = pc[o] /\ call'[o] = call[o] /\ calls'[o] = calls[o]
        /\ kept'[o] = kept[o] /\ answer'[o] = answer[o]

LEMMA AllocationKeeps ==
    ASSUME MemoryOK(heap), NEW g \in Goroutine, NEW a \in Address, a.owner = g,
           a.n = 0 \/ a = NextArray(g),
           NEW array \in Seq(Val), heap' = Allocated(heap, a, array)
    PROVE  /\ MemoryOK(heap)' /\ WritesOwn(g)
           /\ \A b \in DOMAIN heap \ {a} : heap'[b] = heap[b]
<1>1. /\ DOMAIN heap' = DOMAIN heap \cup {a} /\ heap'[a] = array
      /\ \A b \in DOMAIN heap \ {a} : heap'[b] = heap[b]
  BY DEF Allocated
<1>2. heap' \in [DOMAIN heap' -> Seq(Val)]
  <2>1. heap' = [b \in DOMAIN heap' |-> heap'[b]]
    BY DEF Allocated
  <2>2. \A b \in DOMAIN heap' : heap'[b] \in Seq(Val)
    BY <1>1 DEF MemoryOK
  <2> QED  BY <2>1, <2>2
<1>3. DOMAIN heap' \subseteq Address
  BY <1>1 DEF MemoryOK
<1>4. a # BaseArray
  BY FetchAssumption DEF BaseArray
<1>5. BaseArray \in DOMAIN heap' /\ heap'[BaseArray] = Base
  BY <1>1, <1>4 DEF MemoryOK
<1>6. ASSUME NEW o \in Goroutine PROVE Numbered(heap', o)
  <2>1. CASE o = g /\ a.n # 0
    <3>1. a = NextArray(g)
      BY <2>1
    <3>2. PICK k \in Nat :
            RowArrays(heap, g) \cup {NextArray(g)} = {RowsOf(g, n) : n \in 1 .. k}
      BY Fresh
    <3>3. a.owner = g /\ a.n > 0
      BY <3>1, Fresh
    <3>4. RowArrays(heap', g) = RowArrays(heap, g) \cup {a}
      BY <1>1, <3>3 DEF RowArrays
    <3> QED  BY <2>1, <3>1, <3>2, <3>4 DEF Numbered
  <2>2. CASE o # g \/ a.n = 0
    <3>1. RowArrays(heap', o) = RowArrays(heap, o)
      BY <1>1, <2>2 DEF RowArrays
    <3> QED  BY <3>1 DEF Numbered, MemoryOK
  <2> QED  BY <2>1, <2>2
<1>7. MemoryOK(heap)'
  BY <1>2, <1>3, <1>5, <1>6 DEF MemoryOK
<1> QED  BY <1>1, <1>7 DEF WritesOwn

LEMMA OverwritingKeeps ==
    ASSUME MemoryOK(heap), NEW g \in Goroutine, NEW a \in DOMAIN heap, a.owner = g,
           heap' = [b \in DOMAIN heap |-> heap'[b]], heap'[a] \in Seq(Val),
           \A b \in DOMAIN heap \ {a} : heap'[b] = heap[b]
    PROVE  MemoryOK(heap)' /\ WritesOwn(g)
<1>1. DOMAIN heap' = DOMAIN heap
  OBVIOUS
<1>2. heap' \in [DOMAIN heap' -> Seq(Val)]
  <2>1. \A b \in DOMAIN heap : heap'[b] \in Seq(Val)
    BY DEF MemoryOK
  <2>2. heap' \in [DOMAIN heap -> Seq(Val)]
    BY <2>1
  <2> QED  BY <1>1, <2>2
<1>3. a # BaseArray
  BY FetchAssumption DEF BaseArray
<1>4. \A o \in Goroutine : RowArrays(heap', o) = RowArrays(heap, o)
  BY <1>1 DEF RowArrays
<1>5. \A o \in Goroutine : Numbered(heap', o)
  BY <1>4 DEF Numbered, MemoryOK
<1>6. BaseArray \in DOMAIN heap' /\ heap'[BaseArray] = Base /\ DOMAIN heap' \subseteq Address
  BY <1>1, <1>3 DEF MemoryOK
<1>7. MemoryOK(heap)'
  BY <1>2, <1>5, <1>6 DEF MemoryOK
<1> QED  BY <1>1, <1>7 DEF WritesOwn

\* What others rely on lies in arrays that this goroutine does not own.
LEMMA OthersKeep ==
    ASSUME IInv, NEW g \in Goroutine, WritesOwn(g), StepOf(g),
           NEW o \in Goroutine, o # g
    PROVE  (KeptOK(o) /\ CallOK(o) /\ TokenOK(o))'
<1>1. /\ pc'[o] = pc[o] /\ call'[o] = call[o] /\ calls'[o] = calls[o]
      /\ kept'[o] = kept[o] /\ answer'[o] = answer[o]
  BY DEF StepOf
<1>2. MemoryOK(heap) /\ KeptOK(o) /\ CallOK(o) /\ TokenOK(o)
  BY DEF IInv
<1>3. \A i : Row(o, i)' = Row(o, i)
  BY <1>1 DEF Row
<1>4. ASSUME NEW s, Backed(heap, s), s.at.owner # g
      PROVE  Same(heap, heap', s)
  BY <1>4 DEF WritesOwn, Same, Backed
<1>5. ASSUME NEW s, Backed(heap, s), Own(o, s) PROVE s.at.owner # g
  BY <1>5, FetchAssumption DEF Own, Nothing, Slice, BaseArray
<1>6. ASSUME NEW s, Backed(heap, s), s.at.owner # g
      PROVE  /\ Backed(heap', s)
             /\ \A xs : Holding(heap, s, xs) => Holding(heap', s, xs)
  BY <1>2, <1>4, <1>6, Frame
<1>7. KeptOK(o)'
  <2> SUFFICES ASSUME NEW k \in kept[o]
               PROVE  /\ k \in [slice : SliceType, holds : Seq(Val)]
                      /\ Backed(heap', k.slice) /\ Own(o, k.slice)
                      /\ Holding(heap', k.slice, k.holds)
    BY <1>1 DEF KeptOK
  <2>1. /\ k \in [slice : SliceType, holds : Seq(Val)]
        /\ Backed(heap, k.slice) /\ Own(o, k.slice)
        /\ Holding(heap, k.slice, k.holds)
    BY <1>2 DEF KeptOK
  <2> QED  BY <2>1, <1>5, <1>6
<1>8. CallOK(o)'
  <2> SUFFICES ASSUME pc[o] # "idle"
               PROVE  (call[o] \in CallRecord /\ ArgsOK(o) /\ RowsOK(o))'
    BY <1>1 DEF CallOK
  <2>1. call[o] \in CallRecord /\ ArgsOK(o) /\ RowsOK(o)
    BY <1>2 DEF CallOK
  <2>2. (call[o] \in CallRecord)'
    BY <2>1, <1>1
  <2>3. ArgsOK(o)'
    <3>1. Wanted(o)' = Wanted(o)
      BY <1>1 DEF Wanted
    <3>2. CASE pc[o] = "prepared"
      <4>1. /\ Backed(heap, call[o].params) /\ call[o].params.at \in {BaseArray, ArgsOf(o)}
            /\ Holding(heap, call[o].params, Wanted(o))
        BY <2>1, <3>2 DEF ArgsOK
      <4>2. call[o].params.at.owner # g
        BY <4>1, FetchAssumption DEF BaseArray, ArgsOf
      <4>3. Backed(heap', call[o].params) /\ Holding(heap', call[o].params, Wanted(o))
        BY <4>1, <4>2, <1>6
      <4> QED  BY <2>1, <1>1, <3>1, <4>1, <4>3, <3>2 DEF ArgsOK
    <3>3. CASE pc[o] # "prepared"
      BY <2>1, <1>1, <3>1, <3>3 DEF ArgsOK
    <3> QED  BY <3>2, <3>3
  <2>4. RowsOK(o)'
    <3> DEFINE c == call[o]
    <3>1. \A n : Rows(o, n)' = Rows(o, n)
      BY <1>3 DEF Rows
    <3>2. KeyOf(o)' = KeyOf(o)
      BY <1>3 DEF KeyOf
    <3>3. /\ Backed(heap, c.out) /\ Own(o, c.out)
          /\ Holding(heap, c.out, c.before \o Rows(o, Decoded(c)))
      BY <2>1 DEF RowsOK
    <3>4. Backed(heap', c.out) /\ Holding(heap', c.out, c.before \o Rows(o, Decoded(c)))
      BY <3>3, <1>5, <1>6
    <3>5. Rows(o, Decoded(c))' = Rows(o, Decoded(c))
      BY <1>1, <1>3 DEF Rows, Decoded
    <3> QED  BY <2>1, <1>1, <3>2, <3>3, <3>4, <3>5 DEF RowsOK
  <2> QED  BY <2>2, <2>3, <2>4
<1>9. TokenOK(o)'
  BY <1>1, <1>2, <1>3 DEF TokenOK
<1> QED  BY <1>7, <1>8, <1>9

LEMMA StepKeeps ==
    ASSUME IInv, NEW g \in Goroutine, Typed', MemoryOK(heap)', WritesOwn(g), StepOf(g),
           KeptOK(g)', CallOK(g)', TokenOK(g)'
    PROVE  IInv'
<1>1. \A o \in Goroutine : (KeptOK(o) /\ CallOK(o) /\ TokenOK(o))'
  BY OthersKeep
<1> QED  BY <1>1 DEF IInv

LEMMA QuietHeap ==
    ASSUME IInv, heap' = heap, NEW g \in Goroutine
    PROVE  MemoryOK(heap)' /\ WritesOwn(g)
  BY DEF IInv, WritesOwn

-------------------------------------------------------------------------------
(* The steps that leave memory alone.                                      *)

\* The rows are closed: what was decoded stays what it is.
LEMMA ClosingKeeps ==
    ASSUME IInv, NEW g \in Goroutine, NEW i \in Nat, pc[g] = "reading",
           call' = [call EXCEPT ![g].read = i, ![g].conn = None],
           Decoded([call[g] EXCEPT !.read = i, !.conn = None]) = Decoded(call[g]),
           call[g].kind = "after" /\ i >= Size => call[g].read >= Size,
           pc' = [pc EXCEPT ![g] = "closed"], UNCHANGED <<heap, calls, kept, answer>>
    PROVE  IInv'
<1>1. Typed /\ KeptOK(g) /\ CallOK(g) /\ TokenOK(g)
  BY DEF IInv
<1>2. call[g] \in CallRecord /\ ArgsOK(g) /\ RowsOK(g)
  BY <1>1 DEF CallOK
<1>3. /\ call'[g] = [call[g] EXCEPT !.read = i, !.conn = None] /\ pc'[g] = "closed"
      /\ calls'[g] = calls[g] /\ kept'[g] = kept[g] /\ answer'[g] = answer[g]
  BY <1>1 DEF Typed
<1>4. /\ call'[g] \in CallRecord /\ call'[g].read = i
      /\ call'[g].kind = call[g].kind /\ call'[g].args = call[g].args
      /\ call'[g].sent = call[g].sent /\ call'[g].out = call[g].out
      /\ call'[g].before = call[g].before /\ call'[g].keys = call[g].keys
  <2>1. ASSUME NEW c \in CallRecord
        PROVE  LET d == [c EXCEPT !.read = i, !.conn = None]
               IN  /\ d \in CallRecord /\ d.read = i
                   /\ d.kind = c.kind /\ d.args = c.args /\ d.sent = c.sent
                   /\ d.out = c.out /\ d.before = c.before /\ d.keys = c.keys
    BY DEF CallRecord
  <2> QED  BY <1>2, <1>3, <2>1
<1>5. \A n : Row(g, n)' = Row(g, n)
  BY <1>3 DEF Row
<1>6. StepOf(g)
  BY <1>1 DEF StepOf, Typed
<1>7. Typed'
  BY <1>1 DEF Typed
<1>8. KeptOK(g)' /\ TokenOK(g)'
  BY <1>1, <1>3, <1>5 DEF KeptOK, TokenOK
<1>9. ArgsOK(g)'
  BY <1>2, <1>3, <1>4 DEF ArgsOK, Wanted
<1>10. RowsOK(g)'
  <2>1. Decoded(call[g])' = Decoded(call[g])
    BY <1>3
  <2>2. Rows(g, Decoded(call[g]))' = Rows(g, Decoded(call[g]))
    BY <2>1, <1>5 DEF Rows
  <2>3. KeyOf(g)' = KeyOf(g)
    BY <1>5 DEF KeyOf
  <2> QED  BY <1>2, <1>3, <1>4, <2>2, <2>3 DEF RowsOK
<1> QED  BY <1>4, <1>6, <1>7, <1>8, <1>9, <1>10, StepKeeps, QuietHeap DEF CallOK

LEMMA LookAheadKeeps ==
    ASSUME IInv, NEW g \in Goroutine, LookAhead(g)
    PROVE  IInv'
<1> DEFINE i == call[g].read + 1
<1>1. call[g] \in CallRecord /\ Size \in Nat \ {0}
  BY FetchAssumption DEF IInv, CallOK, LookAhead
<1>2. /\ i \in Nat /\ call[g].read \in Nat
      /\ \/ call[g].kind = "after" /\ i = Size + 1
         \/ call[g].kind = "one" /\ i = 2
  BY <1>1 DEF LookAhead, CallRecord
<1> DEFINE c == [call[g] EXCEPT !.read = i, !.conn = None]
<1>3. c.kind = call[g].kind /\ c.read = i
  BY <1>1 DEF CallRecord
<1>4. Decoded(c) = Decoded(call[g])
  BY <1>1, <1>2, <1>3 DEF Decoded
<1> HIDE DEF c
<1>5. call' = [call EXCEPT ![g].read = i, ![g].conn = None]
  BY DEF LookAhead
<1>6. call[g].kind = "after" /\ i >= Size => call[g].read >= Size
  BY <1>1, <1>2
<1>7. /\ pc[g] = "reading" /\ pc' = [pc EXCEPT ![g] = "closed"]
      /\ UNCHANGED <<heap, calls, kept, answer>>
  BY DEF LookAhead
<1> QED  BY <1>2, <1>4, <1>5, <1>6, <1>7, ClosingKeeps DEF c

LEMMA EndOfRowsKeeps ==
    ASSUME IInv, NEW g \in Goroutine, EndOfRows(g)
    PROVE  IInv'
<1>1. call[g] \in CallRecord /\ call[g].read \in Nat
  BY DEF IInv, CallOK, EndOfRows, CallRecord
<1> DEFINE c == [call[g] EXCEPT !.read = call[g].read, !.conn = None]
<1>2. c.kind = call[g].kind /\ c.read = call[g].read
  BY <1>1 DEF CallRecord
<1>3. Decoded(c) = Decoded(call[g])
  BY <1>2 DEF Decoded
<1>4. call' = [call EXCEPT ![g].read = call[g].read, ![g].conn = None]
  <2>1. [call[g] EXCEPT !.conn = None] = c
    BY <1>1 DEF CallRecord
  <2> QED  BY <2>1 DEF EndOfRows
<1> QED  BY <1>1, <1>3, <1>4, ClosingKeeps DEF EndOfRows

\* A call ends: what it leaves with its caller is intact.
LEMMA EndsKeeps ==
    ASSUME IInv, NEW g \in Goroutine, NEW result \in Answer,
           result.token \in {None, Row(g, Size)}, Ends(g, result),
           \/ kept' = kept
           \/ \E k \in [slice : SliceType, holds : Seq(Val)] :
                /\ Backed(heap, k.slice) /\ Own(g, k.slice)
                /\ Holding(heap, k.slice, k.holds)
                /\ kept' = [kept EXCEPT ![g] = @ \cup {k}]
    PROVE  IInv'
<1>1. Typed /\ KeptOK(g)
  BY DEF IInv
<1>2. heap' = heap /\ calls' = calls /\ pc'[g] = "idle" /\ answer'[g] = result
  BY <1>1 DEF Ends, Typed
<1>3. Typed'
  <2>1. /\ pc' \in [Goroutine -> {"idle", "prepared", "reading", "closed"}]
        /\ answer' \in [Goroutine -> Answer] /\ calls' \in [Goroutine -> Nat]
    BY <1>1 DEF Ends, Typed
  <2>2. DOMAIN call' = Goroutine /\ call' = [o \in Goroutine |-> call'[o]]
    BY <1>1 DEF Ends, Typed
  <2>3. DOMAIN kept' = Goroutine /\ kept' = [o \in Goroutine |-> kept'[o]]
    BY <1>1 DEF Typed
  <2> QED  BY <2>1, <2>2, <2>3 DEF Typed
<1>4. StepOf(g)
  BY <1>1 DEF StepOf, Typed, Ends
<1>5. KeptOK(g)'
  <2> SUFFICES ASSUME NEW k \in kept'[g]
               PROVE  /\ k \in [slice : SliceType, holds : Seq(Val)]
                      /\ Backed(heap, k.slice) /\ Own(g, k.slice)
                      /\ Holding(heap, k.slice, k.holds)
    BY <1>2 DEF KeptOK
  <2>1. CASE k \in kept[g]
    BY <1>1, <2>1 DEF KeptOK
  <2>2. CASE k \notin kept[g]
    BY <1>1, <2>2 DEF Typed
  <2> QED  BY <2>1, <2>2
<1>6. CallOK(g)'
  BY <1>2 DEF CallOK
<1>7. TokenOK(g)'
  BY <1>2 DEF TokenOK, Row
<1> QED  BY <1>2, <1>3, <1>4, <1>5, <1>6, <1>7, StepKeeps, QuietHeap

LEMMA FailedAnswer ==
    ASSUME NEW err \in Errors
    PROVE  Failed(err) \in Answer /\ Failed(err).token = None
  BY DEF Failed, Answer

LEMMA FailKeeps ==
    ASSUME IInv, NEW g \in Goroutine, Fail(g)
    PROVE  IInv'
<1>1. Ends(g, Failed("failed")) /\ kept' = kept
  BY DEF Fail
<1>2. Failed("failed") \in Answer /\ Failed("failed").token = None
  BY FailedAnswer DEF Errors
<1> QED  BY <1>1, <1>2, EndsKeeps

LEMMA ReturnNotOneKeeps ==
    ASSUME IInv, NEW g \in Goroutine, ReturnNotOne(g)
    PROVE  IInv'
<1> DEFINE err == IF call[g].read = 0 THEN "ErrNoRows" ELSE "ErrTooManyRows"
<1>1. Ends(g, Failed(err)) /\ kept' = kept
  BY DEF ReturnNotOne
<1>2. err \in Errors
  BY DEF Errors
<1> HIDE DEF err
<1>3. Failed(err) \in Answer /\ Failed(err).token = None
  BY <1>2, FailedAnswer
<1> QED  BY <1>1, <1>3, EndsKeeps

LEMMA RowsFacts ==
    ASSUME Typed, NEW g \in Goroutine, NEW n \in Nat
    PROVE  /\ Rows(g, n) \in Seq(Val) /\ Len(Rows(g, n)) = n
           /\ \A i \in 1 .. n : Rows(g, n)[i] = Row(g, i)
<1>1. \A i \in 1 .. n : Row(g, i) \in Val
  BY DEF Typed, Row, Val, RowName
<1>2. Rows(g, n) \in [1 .. n -> Val] /\ \A i \in 1 .. n : Rows(g, n)[i] = Row(g, i)
  BY <1>1 DEF Rows
<1> QED  BY <1>2

LEMMA ReturnKeeps ==
    ASSUME IInv, NEW g \in Goroutine, Return(g)
    PROVE  IInv'
<1> DEFINE c == call[g]
           token == IF c.kind = "after" /\ c.read > Size THEN Encoded(c.keys) ELSE None
           k == [slice |-> List(c), holds |-> Holds(g)]
<1>1. Typed /\ MemoryOK(heap) /\ Size \in Nat \ {0}
  BY FetchAssumption DEF IInv
<1>2. c \in CallRecord /\ RowsOK(g) /\ pc[g] = "closed" /\ (c.kind = "one" => c.read = 1)
  BY DEF IInv, CallOK, Return
<1>3. c.read \in Nat /\ c.out \in SliceType /\ c.before \in Seq(Val) /\ c.out.len \in Nat
      /\ c.out.cap \in Nat
  BY <1>2 DEF CallRecord, SliceType
<1>4. token \in {None, Row(g, Size)} /\ token \in {None} \cup RowName
  <2>1. CASE c.kind = "after" /\ c.read > Size
    <3>1. c.keys = KeyOf(g)
      BY <1>1, <1>2, <1>3, <2>1 DEF RowsOK
    <3>2. Encoded(c.keys) = Row(g, Size)
      BY <3>1 DEF Encoded, KeyOf
    <3> QED  BY <1>1, <2>1, <3>2 DEF Typed, Row, RowName
  <2>2. CASE ~(c.kind = "after" /\ c.read > Size)
    BY <2>2
  <2> QED  BY <2>1, <2>2
<1>5. /\ Backed(heap, c.out) /\ Own(g, c.out)
      /\ Holding(heap, c.out, c.before \o Rows(g, Decoded(c)))
      /\ c.kind # "into" => c.before = <<>>
  BY <1>2 DEF RowsOK
<1>6. Decoded(c) \in Nat
  BY <1>1, <1>3 DEF Decoded
<1> DEFINE d == Decoded(c)
           all == c.before \o Rows(g, d)
           n == List(c).len - Len(c.before)
<1>7. /\ Rows(g, d) \in Seq(Val) /\ Len(Rows(g, d)) = d
      /\ \A i \in 1 .. d : Rows(g, d)[i] = Row(g, i)
  BY <1>1, <1>6, RowsFacts
<1>8. all \in Seq(Val) /\ Len(all) = Len(c.before) + d /\ Len(all) = c.out.len
      /\ Len(c.before) \in Nat
  <2>1. Len(all) = c.out.len
    BY <1>5 DEF Holding
  <2>2. all \in Seq(Val) /\ Len(all) = Len(c.before) + d
    <3> HIDE DEF d
    <3> QED  BY <1>3, <1>7, Joined
  <2> QED  BY <1>3, <2>1, <2>2
<1>9. /\ List(c) \in SliceType /\ List(c).at = c.out.at
      /\ List(c).cap = c.out.cap /\ List(c).len <= c.out.len
      /\ (List(c) = c.out \/ (c.kind = "page" /\ c.out.len > Size))
  BY <1>1, <1>3 DEF List, SliceType
<1>10. List(c).len \in Nat /\ n \in Nat /\ n <= d
  <2>1. CASE List(c) = c.out
    <3>1. Len(c.before) + d = c.out.len /\ Len(c.before) \in Nat /\ d \in Nat
      BY <1>6, <1>8
    <3> HIDE DEF d
    <3> QED  BY <2>1, <3>1, <1>3
  <2>2. CASE c.kind = "page" /\ c.out.len > Size
    <3>1. c.before = <<>>
      BY <1>5, <2>2
    <3> QED  BY <3>1, <1>1, <1>8, <1>9, <1>6, <1>3 DEF SliceType
  <2> QED  BY <1>9, <2>1, <2>2
<1>11. Backed(heap, List(c)) /\ Own(g, List(c))
  <2>1. Backed(heap, List(c))
    BY <1>3, <1>5, <1>9, <1>10 DEF Backed
  <2>2. Own(g, List(c))
    <3>1. CASE List(c) = c.out
      BY <1>5, <3>1
    <3>2. CASE c.kind = "page" /\ c.out.len > Size
      <4>1. c.out # Nothing
        BY <3>2, <1>1 DEF Nothing, Slice
      <4> QED  BY <4>1, <1>5, <1>9 DEF Own
    <3> QED  BY <1>9, <3>1, <3>2
  <2> QED  BY <2>1, <2>2
<1>12. /\ Holds(g) = c.before \o Rows(g, n)
       /\ Rows(g, n) \in Seq(Val) /\ Len(Rows(g, n)) = n
       /\ \A i \in 1 .. n : Rows(g, n)[i] = Row(g, i)
  BY <1>1, <1>10, RowsFacts DEF Holds, Rows
<1> HIDE DEF n, d
<1>13. Holding(heap, List(c), Holds(g))
  <2>1. /\ Holds(g) \in Seq(Val) /\ Len(Holds(g)) = List(c).len
        /\ \A i \in 1 .. Len(c.before) : Holds(g)[i] = c.before[i]
        /\ \A i \in 1 .. n : Holds(g)[Len(c.before) + i] = Row(g, i)
    <3>1. /\ Holds(g) \in Seq(Val) /\ Len(Holds(g)) = Len(c.before) + n
          /\ \A i \in 1 .. Len(c.before) : Holds(g)[i] = c.before[i]
          /\ \A i \in 1 .. n : Holds(g)[Len(c.before) + i] = Rows(g, n)[i]
      <4> DEFINE xs == c.before
                 ys == Rows(g, n)
      <4>1. xs \in Seq(Val) /\ ys \in Seq(Val) /\ Len(ys) = n /\ Holds(g) = xs \o ys
        BY <1>3, <1>12
      <4> HIDE DEF xs, ys
      <4>2. /\ xs \o ys \in Seq(Val) /\ Len(xs \o ys) = Len(xs) + Len(ys)
            /\ \A i \in 1 .. Len(xs) : (xs \o ys)[i] = xs[i]
            /\ \A i \in 1 .. Len(ys) : (xs \o ys)[Len(xs) + i] = ys[i]
        BY <4>1, Joined
      <4> QED  BY <4>1, <4>2 DEF xs, ys
    <3>2. Len(c.before) + n = List(c).len
      BY <1>8, <1>10 DEF n
    <3> QED  BY <3>1, <3>2, <1>12
  <2>2. /\ \A i \in 1 .. Len(c.before) : all[i] = c.before[i]
        /\ \A i \in 1 .. d : all[Len(c.before) + i] = Row(g, i)
    BY <1>3, <1>7, Joined
  <2>3. ASSUME NEW i \in 1 .. List(c).len PROVE heap[List(c).at][i] = Holds(g)[i]
    <3>1. heap[List(c).at][i] = all[i]
      <4>1. i \in 1 .. c.out.len
        BY <1>3, <1>9, <1>10
      <4> QED  BY <4>1, <1>5, <1>9 DEF Holding, d
    <3>2. CASE i <= Len(c.before)
      BY <1>8, <1>10, <2>1, <2>2, <3>1, <3>2
    <3>3. CASE i > Len(c.before)
      <4>1. PICK j \in 1 .. n : i = Len(c.before) + j
        <5>1. i - Len(c.before) \in 1 .. n
          BY <1>8, <1>10, <3>3 DEF n
        <5> QED  BY <5>1, <1>8
      <4>2. j \in 1 .. d
        BY <1>6, <1>10 DEF d
      <4> QED  BY <2>1, <2>2, <3>1, <4>1, <4>2
    <3> QED  BY <1>8, <1>10, <3>2, <3>3
  <2> QED  BY <2>1, <2>3 DEF Holding
<1>14. k \in [slice : SliceType, holds : Seq(Val)] /\ k.slice = List(c) /\ k.holds = Holds(g)
  BY <1>9, <1>13 DEF Holding
<1>15. Ends(g, [err |-> "none", token |-> token]) /\ kept' = [kept EXCEPT ![g] = @ \cup {k}]
  BY DEF Return
<1>16. [err |-> "none", token |-> token] \in Answer
  <2> HIDE DEF token
  <2> QED  BY <1>4 DEF Answer, Errors
<1> HIDE DEF token, k
<1> QED  BY <1>4, <1>11, <1>13, <1>14, <1>15, <1>16, EndsKeeps

-------------------------------------------------------------------------------
(* The steps that write to memory.                                         *)

LEMMA KeptStays ==
    ASSUME IInv, NEW g \in Goroutine, kept'[g] \subseteq kept[g],
           \A k \in kept[g] : Same(heap, heap', k.slice)
    PROVE  KeptOK(g)'
<1> SUFFICES ASSUME NEW k \in kept[g]
             PROVE  /\ k \in [slice : SliceType, holds : Seq(Val)]
                    /\ Backed(heap', k.slice) /\ Own(g, k.slice)
                    /\ Holding(heap', k.slice, k.holds)
  BY DEF KeptOK
<1>1. /\ k \in [slice : SliceType, holds : Seq(Val)]
      /\ Backed(heap, k.slice) /\ Own(g, k.slice)
      /\ Holding(heap, k.slice, k.holds) /\ MemoryOK(heap)
  BY DEF IInv, KeptOK
<1>2. Same(heap, heap', k.slice)
  OBVIOUS
<1> QED  BY <1>1, <1>2, Frame

\* An allocation is behind no slice there is.
LEMMA AllocationLeaves ==
    ASSUME IInv, NEW g \in Goroutine, NEW a \in Address,
           \A b \in DOMAIN heap \ {a} : heap'[b] = heap[b],
           DOMAIN heap \subseteq DOMAIN heap',
           a = ArgsOf(g) \/ a = NextArray(g)
    PROVE  \A s : Backed(heap, s) /\ Own(g, s) => s.at # a /\ Same(heap, heap', s)
<1> SUFFICES ASSUME NEW s, Backed(heap, s), Own(g, s)
             PROVE  s.at # a /\ Same(heap, heap', s)
  OBVIOUS
<1>1. s.at \in DOMAIN heap
  BY DEF Backed
<1>2. s.at # a
  <2>1. CASE a = ArgsOf(g)
    BY <2>1, FetchAssumption DEF ArgsOf, Own, Nothing, Slice, BaseArray
  <2>2. CASE a = NextArray(g)
    BY <2>2, <1>1, Fresh DEF IInv
  <2> QED  BY <2>1, <2>2
<1> QED  BY <1>1, <1>2 DEF Same

LEMMA SendKeeps ==
    ASSUME IInv, NEW g \in Goroutine, NEW conn \in Conn, NEW n \in 0 .. MaxRows,
           Send(g, conn, n)
    PROVE  IInv'
<1> DEFINE c == call[g]
           room == IF c.kind = "page" THEN Size + 1 ELSE Size
           page == Slice(NextArray(g), 0, room)
           reserves == c.kind \in {"page", "after"}
           d == call'[g]
<1>1. Typed /\ MemoryOK(heap) /\ KeptOK(g) /\ TokenOK(g) /\ Size \in Nat \ {0} /\ n \in Nat
  BY FetchAssumption DEF IInv
<1>2. c \in CallRecord /\ ArgsOK(g) /\ RowsOK(g) /\ pc[g] = "prepared"
  BY DEF IInv, CallOK, Send
<1>3. /\ NextArray(g) \in Address /\ NextArray(g) \notin DOMAIN heap
      /\ NextArray(g).owner = g /\ NextArray(g).n > 0
  BY <1>1, Fresh
<1>4. room \in Nat /\ room >= 0 /\ page \in SliceType
      /\ page.at = NextArray(g) /\ page.len = 0 /\ page.cap = room
  BY <1>1, <1>3 DEF Slice, SliceType
<1>5. Contents(heap, c.params) = Wanted(g) /\ Wanted(g) \in Seq(Val)
  <2>1. Backed(heap, c.params) /\ Holding(heap, c.params, Wanted(g))
    BY <1>2 DEF ArgsOK
  <2>2. Wanted(g) \in Seq(Val)
    BY <2>1 DEF Holding
  <2> QED  BY <1>1, <2>1, <2>2, ContentsAre
<1> DEFINE out == IF reserves THEN page ELSE c.out
<1>6. /\ d \in CallRecord /\ d.kind = c.kind /\ d.args = c.args
      /\ d.sent = Wanted(g) /\ d.read = c.read /\ d.out = out
      /\ d.before = c.before /\ d.keys = c.keys
  <2>1. d = [c EXCEPT !.conn = conn, !.rows = n, !.sent = Wanted(g), !.out = out]
    BY <1>1, <1>5 DEF Send, Typed
  <2>2. out \in SliceType
    BY <1>2, <1>4 DEF CallRecord
  <2> HIDE DEF out
  <2>3. /\ d.kind = c.kind /\ d.args = c.args /\ d.params = c.params
        /\ d.sent = Wanted(g) /\ d.read = c.read /\ d.out = out
        /\ d.before = c.before /\ d.keys = c.keys /\ d.conn = conn /\ d.rows = n
    BY <1>2, <2>1 DEF CallRecord
  <2>4. d = [kind |-> c.kind, args |-> c.args, params |-> c.params, sent |-> Wanted(g),
             conn |-> conn, rows |-> n, read |-> c.read, out |-> out,
             before |-> c.before, keys |-> c.keys]
    BY <1>2, <2>1 DEF CallRecord
  <2>5. d \in CallRecord
    BY <1>1, <1>2, <1>5, <2>2, <2>4 DEF CallRecord
  <2> QED  BY <2>3, <2>5
<1>7. /\ pc'[g] = "reading" /\ calls'[g] = calls[g] /\ kept'[g] = kept[g]
      /\ answer'[g] = answer[g]
  BY <1>1 DEF Send, Typed
<1>8. StepOf(g) /\ Typed'
  <2>1. call' = [call EXCEPT ![g] = d]
    BY <1>1 DEF Send, Typed
  <2> HIDE DEF d
  <2>2. /\ pc' \in [Goroutine -> {"idle", "prepared", "reading", "closed"}]
        /\ DOMAIN call' = Goroutine /\ call' = [o \in Goroutine |-> call'[o]]
    BY <1>1, <2>1 DEF Send, Typed
  <2>3. \A o \in Goroutine \ {g} : call'[o] = call[o] /\ pc'[o] = pc[o]
    BY <1>1, <2>1 DEF Send, Typed
  <2> QED  BY <1>1, <2>2, <2>3 DEF Send, Typed, StepOf
<1>9. /\ MemoryOK(heap)' /\ WritesOwn(g)
      /\ \A b \in DOMAIN heap \ {NextArray(g)} : heap'[b] = heap[b]
      /\ reserves => /\ NextArray(g) \in DOMAIN heap' /\ Len(heap'[NextArray(g)]) = room
                     /\ c.before = <<>>
      /\ ~reserves => heap' = heap
  <2>1. CASE reserves
    <3>1. /\ Pad(<<>>, room) \in Seq(Val) /\ Len(Pad(<<>>, room)) = room
      <4>1. <<>> \in Seq(Val) /\ Len(<<>>) = 0
        OBVIOUS
      <4> QED  BY <1>4, <4>1, PadFacts
    <3>2. heap' = Allocated(heap, NextArray(g), Pad(<<>>, room))
      BY <2>1, <1>4 DEF Send
    <3>3. NextArray(g) \in DOMAIN heap' /\ heap'[NextArray(g)] = Pad(<<>>, room)
      BY <3>2 DEF Allocated
    <3>4. c.before = <<>>
      BY <1>2, <2>1 DEF RowsOK
    <3> HIDE DEF room
    <3>5. \A x \in Seq(Val) : heap' = Allocated(heap, NextArray(g), x) =>
            /\ MemoryOK(heap)' /\ WritesOwn(g)
            /\ \A b \in DOMAIN heap \ {NextArray(g)} : heap'[b] = heap[b]
      BY <1>1, <1>3, AllocationKeeps
    <3> QED  BY <2>1, <3>1, <3>2, <3>3, <3>4, <3>5
  <2>2. CASE ~reserves
    <3>1. heap' = heap
      BY <2>2 DEF Send
    <3> QED  BY <2>2, <3>1, QuietHeap
  <2> QED  BY <2>1, <2>2
<1>10. ASSUME NEW s, Backed(heap, s), Own(g, s)
       PROVE  s.at # NextArray(g) /\ Same(heap, heap', s)
  BY <1>3, <1>9, <1>10, AllocationLeaves DEF WritesOwn
<1>11. KeptOK(g)'
  <2>1. \A k \in kept[g] : Same(heap, heap', k.slice)
    BY <1>1, <1>10 DEF KeptOK
  <2> QED  BY <1>7, <2>1, KeptStays
<1>12. ArgsOK(g)'
  BY <1>2, <1>6, <1>7 DEF ArgsOK, Wanted
<1>13. RowsOK(g)'
  <2>1. c.read = 0 /\ Decoded(c) = 0
    BY <1>1, <1>2 DEF RowsOK, Decoded
  <2>2. Decoded(call[g])' = 0
    BY <1>1, <1>6, <2>1 DEF Decoded
  <2>3. Rows(g, 0)' = Rows(g, 0) /\ Rows(g, 0) = <<>>
    BY <1>7 DEF Rows, Row
  <2>4. Backed(heap, c.out) /\ Own(g, c.out) /\ Holding(heap, c.out, c.before \o Rows(g, 0))
    BY <1>2, <2>1 DEF RowsOK
  <2>5. Same(heap, heap', c.out)
    BY <2>4, <1>10
  <2>6. Backed(heap', out) /\ Own(g, out) /\ Holding(heap', out, c.before \o <<>>)
    <3>1. CASE reserves
      <4>1. Backed(heap', page)
        BY <1>4, <1>9, <3>1 DEF Backed
      <4>2. Own(g, page)
        BY <1>3, <1>4 DEF Own
      <4>3. Holding(heap', page, <<>> \o <<>>)
        BY <1>4 DEF Holding
      <4> QED  BY <3>1, <1>9, <4>1, <4>2, <4>3
    <3>2. CASE ~reserves
      BY <3>2, <1>1, <2>3, <2>4, <2>5, Frame
    <3> QED  BY <3>1, <3>2
  <2>7. ASSUME NEW k \in kept[g], k.slice.at = out.at
        PROVE  k.slice.len <= Len(c.before)
    <3>1. CASE reserves
      BY <3>1, <2>7, <1>1, <1>4, <1>10 DEF KeptOK
    <3>2. CASE ~reserves
      BY <3>2, <2>7, <1>2 DEF RowsOK
    <3> QED  BY <3>1, <3>2
  <2>8. /\ c.kind # "into" => c.before = <<>>
        /\ ~(c.kind = "after" /\ c.read >= Size)
    BY <1>1, <1>2, <2>1 DEF RowsOK
  <2> HIDE DEF out
  <2> QED  BY <1>6, <1>7, <2>2, <2>3, <2>6, <2>7, <2>8 DEF RowsOK
<1>14. TokenOK(g)'
  BY <1>1, <1>7 DEF TokenOK, Row
<1> QED  BY <1>6, <1>8, <1>9, <1>11, <1>12, <1>13, <1>14, StepKeeps DEF CallOK

LEMMA RowsGrow ==
    ASSUME Typed, NEW g \in Goroutine, NEW n \in Nat, NEW xs \in Seq(Val)
    PROVE  (xs \o Rows(g, n)) \o <<Row(g, n + 1)>> = xs \o Rows(g, n + 1)
<1>1. /\ Rows(g, n) \in Seq(Val) /\ Len(Rows(g, n)) = n
      /\ \A i \in 1 .. n : Rows(g, n)[i] = Row(g, i)
  BY RowsFacts
<1>2. /\ Rows(g, n + 1) \in Seq(Val) /\ Len(Rows(g, n + 1)) = n + 1
      /\ \A i \in 1 .. n + 1 : Rows(g, n + 1)[i] = Row(g, i)
  <2>1. n + 1 \in Nat
    OBVIOUS
  <2> QED  BY <2>1, RowsFacts
<1>3. <<Row(g, n + 1)>> \in Seq(Val) /\ Len(<<Row(g, n + 1)>>) = 1
  BY DEF Typed, Row, Val, RowName
<1> DEFINE ys == Rows(g, n)
           zs == Rows(g, n + 1)
           r == Row(g, n + 1)
<1>4. /\ ys \in Seq(Val) /\ Len(ys) = n /\ zs \in Seq(Val) /\ Len(zs) = n + 1
      /\ \A i \in 1 .. n : ys[i] = zs[i]
      /\ zs[n + 1] = r /\ <<r>> \in Seq(Val)
  BY <1>1, <1>2, <1>3
<1> HIDE DEF ys, zs, r
<1> DEFINE m == Len(xs)
           p == (xs \o ys) \o <<r>>
           q == xs \o zs
<1>5. /\ p \in Seq(Val) /\ Len(p) = m + n + 1 /\ q \in Seq(Val) /\ Len(q) = m + n + 1
      /\ m \in Nat
  BY <1>4
<1>6. ASSUME NEW i \in 1 .. m + n + 1 PROVE p[i] = q[i]
  <2>1. CASE i <= m
    BY <2>1, <1>4, <1>5
  <2>2. CASE m < i /\ i <= m + n
    BY <2>2, <1>4, <1>5
  <2>3. CASE i = m + n + 1
    <3>1. xs \o ys \in Seq(Val) /\ Len(xs \o ys) = m + n
      BY <1>4
    <3>2. p[m + n + 1] = r
      <4> DEFINE xy == xs \o ys
      <4>1. xy \in Seq(Val) /\ Len(xy) = m + n /\ <<r>> \in Seq(Val) /\ m + n \in Nat
        BY <3>1, <1>4, <1>5
      <4> HIDE DEF xy, m
      <4>2. (xy \o <<r>>)[m + n + 1] = r
        BY <4>1
      <4> QED  BY <4>2 DEF xy, m
    <3>3. q[m + n + 1] = r
      BY <1>4, <1>5
    <3> QED  BY <2>3, <3>2, <3>3
  <2> QED  BY <1>5, <2>1, <2>2, <2>3
<1>7. p = q
  <2> HIDE DEF p, q, m
  <2> QED  BY <1>5, <1>6
<1> QED  BY <1>7 DEF ys, zs, r

LEMMA NextRowKeeps ==
    ASSUME IInv, NEW g \in Goroutine, NextRow(g)
    PROVE  IInv'
<1> DEFINE c == call[g]
           i == c.read + 1
           fresh == NextArray(g)
           xs == <<Row(g, i)>>
           out == AppendedTo(c.out, xs, fresh)
           held == c.before \o Rows(g, c.read)
           d == call'[g]
<1>1. Typed /\ MemoryOK(heap) /\ KeptOK(g) /\ TokenOK(g) /\ Size \in Nat \ {0}
  BY FetchAssumption DEF IInv
<1>2. /\ c \in CallRecord /\ ArgsOK(g) /\ RowsOK(g) /\ pc[g] = "reading"
      /\ c.kind = "after" => i <= Size
      /\ c.kind = "one" => i = 1
  BY DEF IInv, CallOK, NextRow
<1>3. /\ c.read \in Nat /\ i \in Nat /\ c.out \in SliceType /\ c.before \in Seq(Val)
      /\ c.out.len \in Nat /\ c.out.cap \in Nat
  BY <1>2 DEF CallRecord, SliceType
<1>4. Decoded(c) = c.read
  BY <1>1, <1>2, <1>3 DEF Decoded
<1>5. /\ Backed(heap, c.out) /\ Own(g, c.out) /\ Holding(heap, c.out, held)
      /\ \A k \in kept[g] : k.slice.at = c.out.at => k.slice.len <= Len(c.before)
      /\ c.kind # "into" => c.before = <<>>
  BY <1>2, <1>4 DEF RowsOK
<1>6. Row(g, i) \in RowName /\ xs \in Seq(Val) /\ Len(xs) = 1
  BY <1>1, <1>3 DEF Typed, Row, Val, RowName
<1>7. /\ fresh \in Address /\ fresh \notin DOMAIN heap
      /\ fresh.owner = g /\ fresh.n > 0
  BY <1>1, Fresh
<1>8. heap' = Written(c.out, xs, fresh)
  BY DEF NextRow
<1>9. Len(c.before) <= c.out.len
  <2>1. Rows(g, c.read) \in Seq(Val) /\ Len(Rows(g, c.read)) = c.read
    BY <1>1, <1>3, RowsFacts
  <2>2. Len(held) = c.out.len
    BY <1>5 DEF Holding
  <2>3. Len(held) = Len(c.before) + c.read
    <3> DEFINE bs == c.before
               rs == Rows(g, c.read)
    <3>1. bs \in Seq(Val) /\ rs \in Seq(Val) /\ Len(rs) = c.read
      BY <1>3, <2>1
    <3> HIDE DEF bs, rs
    <3>2. Len(bs \o rs) = Len(bs) + Len(rs)
      BY <3>1
    <3> QED  BY <3>1, <3>2 DEF bs, rs
  <2>4. Len(c.before) \in Nat
    BY <1>3
  <2> QED  BY <1>3, <2>2, <2>3, <2>4
<1> HIDE DEF xs, fresh, out, held
<1>10. /\ MemoryOK(heap)' /\ WritesOwn(g)
       /\ out \in SliceType /\ Own(g, out)
       /\ Backed(heap', out) /\ Holding(heap', out, held \o xs)
       /\ \A k \in kept[g] : Same(heap, heap', k.slice)
       /\ \A k \in kept[g] : k.slice.at = out.at => k.slice.len <= Len(c.before)
  <2>1. CASE c.out.len + 1 <= c.out.cap
    <3>1. /\ out \in SliceType /\ out.at = c.out.at
          /\ DOMAIN heap' = DOMAIN heap
          /\ heap'[c.out.at] \in Seq(Val) /\ Len(heap'[c.out.at]) = Len(heap[c.out.at])
          /\ \A n \in 1 .. c.out.len : heap'[c.out.at][n] = heap[c.out.at][n]
          /\ \A b \in DOMAIN heap \ {c.out.at} : heap'[b] = heap[b]
          /\ Backed(heap', out) /\ Holding(heap', out, held \o xs)
      <4> DEFINE s == c.out
      <4>1. /\ MemoryOK(heap) /\ Backed(heap, s) /\ xs \in Seq(Val) /\ fresh \in Address
            /\ s.len + Len(xs) <= s.cap /\ Holding(heap, s, held)
        BY <1>1, <1>5, <1>6, <1>7, <2>1
      <4> HIDE DEF s
      <4>2. /\ out \in SliceType /\ out.at = s.at
            /\ DOMAIN heap' = DOMAIN heap
            /\ heap'[s.at] \in Seq(Val) /\ Len(heap'[s.at]) = Len(heap[s.at])
            /\ \A n \in 1 .. s.len : heap'[s.at][n] = heap[s.at][n]
            /\ \A b \in DOMAIN heap \ {s.at} : heap'[b] = heap[b]
            /\ Backed(heap', out) /\ Holding(heap', out, held \o xs)
        BY <4>1, <1>8, AppendedInPlace DEF out, s
      <4> QED  BY <4>2 DEF s
    <3>2. c.out.at.owner = g /\ c.out.at.n > 0
      BY <2>1, <1>5 DEF Own, Nothing, Slice
    <3>3. heap' = [b \in DOMAIN heap |-> heap'[b]]
      <4>1. out.at = c.out.at
        BY <3>1
      <4>2. heap' = [heap EXCEPT ![c.out.at] =
                        [n \in DOMAIN heap[c.out.at] |->
                            IF n \in c.out.len + 1 .. out.len
                            THEN (Contents(heap, c.out) \o xs)[n] ELSE heap[c.out.at][n]]]
        BY <4>1, <1>8 DEF Written, out
      <4> QED  BY <4>2
    <3>4. MemoryOK(heap)' /\ WritesOwn(g)
      <4>1. c.out.at \in DOMAIN heap
        BY <1>5 DEF Backed
      <4> QED  BY <1>1, <3>1, <3>2, <3>3, <4>1, OverwritingKeeps
    <3>5. ASSUME NEW k \in kept[g] PROVE Same(heap, heap', k.slice)
      <4>1. Backed(heap, k.slice) /\ k.slice.len \in Nat
        BY <1>1 DEF KeptOK, Backed, SliceType
      <4>2. CASE k.slice.at = c.out.at
        <5>1. k.slice.len <= c.out.len
          BY <4>1, <4>2, <1>3, <1>5, <1>9
        <5> QED  BY <4>1, <4>2, <5>1, <1>3, <3>1 DEF Same, Backed
      <4>3. CASE k.slice.at # c.out.at
        BY <4>1, <4>3, <3>1 DEF Same, Backed
      <4> QED  BY <4>2, <4>3
    <3>6. Own(g, out)
      BY <3>1, <3>2 DEF Own
    <3> QED  BY <1>5, <3>1, <3>4, <3>5, <3>6
  <2>2. CASE ~(c.out.len + 1 <= c.out.cap)
    <3>1. c.out.at # fresh
      BY <1>5, <1>7 DEF Backed
    <3>2. c.out.len + Len(xs) > c.out.cap
      BY <2>2, <1>3, <1>6
    <3>3. /\ out \in SliceType /\ out.at = fresh
          /\ Backed(heap', out) /\ Holding(heap', out, held \o xs)
          /\ \E array \in Seq(Val) : heap' = Allocated(heap, fresh, array)
      <4> DEFINE s == c.out
      <4>1. /\ MemoryOK(heap) /\ Backed(heap, s) /\ xs \in Seq(Val) /\ fresh \in Address
            /\ fresh # s.at /\ s.len + Len(xs) > s.cap /\ Holding(heap, s, held)
        BY <1>1, <1>5, <1>6, <1>7, <3>1, <3>2
      <4> HIDE DEF s
      <4>2. LET t == AppendedTo(s, xs, fresh)
                m == Written(s, xs, fresh)
            IN  /\ t \in SliceType /\ t.at = fresh
                /\ \E array \in Seq(Val) : m = Allocated(heap, fresh, array)
                /\ Backed(m, t) /\ Holding(m, t, held \o xs)
        BY <4>1, AppendedAway
      <4> QED  BY <4>2, <1>8 DEF s, out
    <3>4. /\ MemoryOK(heap)' /\ WritesOwn(g)
          /\ \A b \in DOMAIN heap \ {fresh} : heap'[b] = heap[b]
      BY <1>1, <1>7, <3>3, AllocationKeeps DEF fresh
    <3>5. \A s : Backed(heap, s) /\ Own(g, s) => s.at # fresh /\ Same(heap, heap', s)
      BY <1>7, <3>4, AllocationLeaves DEF WritesOwn, fresh
    <3>6. \A k \in kept[g] : k.slice.at # fresh /\ Same(heap, heap', k.slice)
      BY <1>1, <3>5 DEF KeptOK
    <3>7. Own(g, out)
      BY <3>3, <1>7 DEF Own
    <3> QED  BY <3>3, <3>4, <3>6, <3>7
  <2> QED  BY <2>1, <2>2
<1> DEFINE keys == IF c.kind = "after" /\ i = Size THEN KeyOf(g) ELSE c.keys
<1>11. /\ d \in CallRecord /\ d.kind = c.kind /\ d.args = c.args
       /\ d.sent = c.sent /\ d.read = i /\ d.out = out
       /\ d.before = c.before /\ d.keys = keys
  <2>1. d = [c EXCEPT !.read = i, !.out = out, !.keys = keys]
    BY <1>1 DEF NextRow, Typed, KeysOf, KeyOf, out, xs, fresh
  <2>2. keys \in {None} \cup [row : RowName, conn : {None}]
    <3>1. KeyOf(g) \in [row : RowName, conn : {None}]
      BY <1>1 DEF KeyOf, Typed, Row, RowName
    <3>2. c.keys \in {None} \cup [row : RowName, conn : {None}]
      BY <1>2 DEF CallRecord
    <3> QED  BY <3>1, <3>2
  <2> HIDE DEF keys
  <2>3. /\ d.kind = c.kind /\ d.args = c.args /\ d.params = c.params
        /\ d.sent = c.sent /\ d.read = i /\ d.out = out
        /\ d.before = c.before /\ d.keys = keys /\ d.conn = c.conn /\ d.rows = c.rows
    BY <1>2, <2>1 DEF CallRecord
  <2>4. d = [kind |-> c.kind, args |-> c.args, params |-> c.params, sent |-> c.sent,
             conn |-> c.conn, rows |-> c.rows, read |-> i, out |-> out,
             before |-> c.before, keys |-> keys]
    BY <1>2, <2>1 DEF CallRecord
  <2>5. d \in CallRecord
    BY <1>2, <1>3, <1>10, <2>2, <2>4 DEF CallRecord
  <2> QED  BY <2>3, <2>5
<1>12. /\ pc'[g] = "reading" /\ calls'[g] = calls[g] /\ kept'[g] = kept[g]
       /\ answer'[g] = answer[g]
  BY <1>2 DEF NextRow
<1>13. StepOf(g) /\ Typed'
  <2>1. call' = [call EXCEPT ![g] = d]
    BY <1>1 DEF NextRow, Typed
  <2> HIDE DEF d
  <2>2. DOMAIN call' = Goroutine /\ call' = [o \in Goroutine |-> call'[o]]
    BY <1>1, <2>1 DEF Typed
  <2>3. \A o \in Goroutine \ {g} : call'[o] = call[o]
    BY <1>1, <2>1 DEF Typed
  <2> QED  BY <1>1, <2>2, <2>3 DEF NextRow, Typed, StepOf
<1>14. KeptOK(g)'
  BY <1>10, <1>12, KeptStays
<1>15. ArgsOK(g)'
  BY <1>2, <1>11, <1>12 DEF ArgsOK, Wanted
<1>16. RowsOK(g)'
  <2>1. Decoded(call[g])' = i
    BY <1>1, <1>2, <1>3, <1>11 DEF Decoded
  <2>2. \A n : Row(g, n)' = Row(g, n)
    BY <1>12 DEF Row
  <2>3. Rows(g, Decoded(call[g]))' = Rows(g, i) /\ KeyOf(g)' = KeyOf(g)
    BY <2>1, <2>2 DEF Rows, KeyOf
  <2>4. held \o xs = c.before \o Rows(g, i)
    BY <1>1, <1>3, RowsGrow DEF held, xs
  <2>5. c.kind = "after" /\ i >= Size => keys = KeyOf(g)
    BY <1>1, <1>2, <1>3
  <2> HIDE DEF keys
  <2> QED  BY <1>5, <1>10, <1>11, <1>12, <2>3, <2>4, <2>5 DEF RowsOK
<1>17. TokenOK(g)'
  BY <1>1, <1>12 DEF TokenOK, Row
<1> QED  BY <1>10, <1>11, <1>13, <1>14, <1>15, <1>16, <1>17, StepKeeps DEF CallOK

\* What a statement's arguments are made from.
Passed(len) == Slice(BaseArray, len, Len(Base))

LEMMA PassedFacts ==
    ASSUME MemoryOK(heap), NEW len \in Given, NEW cap \in {len, Len(Base)}
    PROVE  LET s == Slice(BaseArray, len, cap)
           IN  /\ s.at = BaseArray /\ s.len = len /\ s.cap = cap
               /\ Backed(heap, s) /\ Contents(heap, s) = SubSeq(Base, 1, len)
               /\ Holding(heap, s, SubSeq(Base, 1, len))
<1> DEFINE s == Slice(BaseArray, len, cap)
<1>1. /\ len \in Nat /\ len <= Len(Base) /\ Len(Base) \in Nat
      /\ BaseArray \in DOMAIN heap /\ heap[BaseArray] = Base
  BY FetchAssumption DEF MemoryOK
<1>2. s.at = BaseArray /\ s.len = len /\ s.cap = cap
  BY DEF Slice
<1>3. s \in SliceType
  BY <1>1 DEF Slice, SliceType, BaseArray, Address
<1>4. Backed(heap, s)
  BY <1>1, <1>2, <1>3 DEF Backed
<1>5. Contents(heap, s) = SubSeq(Base, 1, len)
  BY <1>1, <1>2 DEF Contents
<1>6. Holding(heap, s, Contents(heap, s))
  BY <1>4, ContentsAre
<1> QED  BY <1>2, <1>4, <1>5, <1>6

LEMMA ExtraFacts ==
    ASSUME NEW g \in Goroutine, NEW kind \in Fetch
    PROVE  /\ Extra(g, kind) \in Seq(Val)
           /\ kind = "page" => Len(Extra(g, kind)) = 2
           /\ kind = "after" => Len(Extra(g, kind)) = 1
           /\ kind \notin {"page", "after"} => Extra(g, kind) = <<>>
<1>1. <<g, "limit">> \in Val /\ <<g, "offset">> \in Val
  BY DEF Val
<1> QED  BY <1>1 DEF Extra, Fetch

LEMMA ParamsFacts ==
    ASSUME IInv, NEW g \in Goroutine, NEW kind \in Fetch, NEW len \in Given,
           heap' = ParamsWritten(g, kind, Passed(len))
    PROVE  LET p == Params(g, kind, Passed(len))
           IN  /\ MemoryOK(heap)' /\ WritesOwn(g)
               /\ \A b \in DOMAIN heap \ {ArgsOf(g)} : heap'[b] = heap[b]
               /\ Backed(heap', p) /\ p.at \in {BaseArray, ArgsOf(g)}
               /\ Holding(heap', p, SubSeq(Base, 1, len) \o Extra(g, kind))
<1> DEFINE p == Params(g, kind, Passed(len))
           a == ArgsOf(g)
           given == SubSeq(Base, 1, len)
           extra == Extra(g, kind)
<1>1. MemoryOK(heap) /\ len \in Nat /\ Len(Base) \in Nat
  BY FetchAssumption DEF IInv
<1>2. a \in Address /\ a.owner = g /\ a.n = 0 /\ a # BaseArray
  BY FetchAssumption DEF ArgsOf, Address, BaseArray
<1>3. given \in Seq(Val) /\ Len(given) = len
  <2>1. Holding(heap, Passed(len), given) /\ Passed(len).len = len
    BY <1>1, PassedFacts DEF Passed
  <2> QED  BY <2>1 DEF Holding
<1>4. extra \in Seq(Val)
  BY ExtraFacts
<1>5. ASSUME NEW array \in Seq(Val), heap' = Allocated(heap, a, array)
      PROVE  /\ MemoryOK(heap)' /\ WritesOwn(g)
             /\ \A b \in DOMAIN heap \ {a} : heap'[b] = heap[b]
  BY <1>1, <1>2, <1>5, AllocationKeeps
<1>6. CASE kind = "page"
  <2> DEFINE s == Slice(BaseArray, len, len)
  <2>1. /\ s.at = BaseArray /\ s.len = len /\ s.cap = len
        /\ Backed(heap, s) /\ Holding(heap, s, given)
    BY <1>1, PassedFacts
  <2>2. Clip(Passed(len)) = s
    BY DEF Clip, Passed, Slice
  <2>3. Len(extra) = 2
    BY <1>6, ExtraFacts
  <2>4. p = AppendedTo(s, extra, a) /\ heap' = Written(s, extra, a)
    BY <1>6, <2>2 DEF Params, ParamsWritten
  <2>5. s.len + Len(extra) > s.cap /\ a # s.at
    BY <1>1, <1>2, <2>1, <2>3
  <2> HIDE DEF s, a, extra, given, p
  <2>6. LET t == AppendedTo(s, extra, a)
            m == Written(s, extra, a)
        IN  /\ t.at = a /\ Backed(m, t) /\ Holding(m, t, given \o extra)
            /\ \E array \in Seq(Val) : m = Allocated(heap, a, array)
    BY <1>1, <1>2, <1>4, <2>1, <2>5, AppendedAway
  <2>7. /\ p.at = a /\ Backed(heap', p) /\ Holding(heap', p, given \o extra)
        /\ \E array \in Seq(Val) : heap' = Allocated(heap, a, array)
    BY <2>4, <2>6
  <2> QED  BY <1>5, <2>7 DEF a, p, extra, given
<1>7. CASE kind = "after"
  <2> DEFINE array == given \o extra
  <2>1. array \in Seq(Val) /\ Len(array) = len + 1
    <3>1. Len(extra) = 1
      BY <1>7, ExtraFacts
    <3> HIDE DEF given, extra
    <3>2. given \o extra \in Seq(Val) /\ Len(given \o extra) = Len(given) + Len(extra)
      BY <1>3, <1>4
    <3> QED  BY <1>3, <3>1, <3>2
  <2>2. Contents(heap, Passed(len)) = given /\ Passed(len).len = len
    BY <1>1, PassedFacts DEF Passed
  <2>3. heap' = Allocated(heap, a, array) /\ p = Slice(a, len + 1, len + 1)
    BY <1>7, <2>2 DEF Params, ParamsWritten
  <2>4. a \in DOMAIN heap' /\ heap'[a] = array
    <3> HIDE DEF array, a
    <3> QED  BY <2>3 DEF Allocated
  <2>5. p \in SliceType /\ p.at = a /\ p.len = len + 1 /\ p.cap = len + 1
    BY <1>1, <1>2, <2>3 DEF Slice, SliceType
  <2> HIDE DEF array, a, p
  <2>6. Backed(heap', p) /\ Holding(heap', p, array)
    BY <1>1, <2>1, <2>4, <2>5 DEF Backed, Holding
  <2> QED  BY <1>5, <2>1, <2>3, <2>5, <2>6 DEF array, a, p
<1>8. CASE kind \notin {"page", "after"}
  <2>1. heap' = heap /\ p = Passed(len)
    BY <1>8 DEF Params, ParamsWritten, Fetch
  <2>2. given \o extra = given
    <3>1. extra = <<>>
      BY <1>8, ExtraFacts
    <3> HIDE DEF given, extra
    <3> QED  BY <1>3, <3>1
  <2>3. Backed(heap, p) /\ p.at = BaseArray /\ Holding(heap, p, given)
    BY <1>1, <2>1, PassedFacts DEF Passed
  <2>4. MemoryOK(heap)' /\ WritesOwn(g)
    BY <2>1, QuietHeap
  <2> QED  BY <2>1, <2>2, <2>3, <2>4
<1> QED  BY <1>6, <1>7, <1>8

\* A call starts with a destination that is the goroutine's own, or with none.
LEMMA PrepareKeeps ==
    ASSUME IInv, NEW g \in Goroutine, NEW kind \in Fetch, NEW len \in Given,
           NEW dst, Backed(heap, dst), Own(g, dst), kind # "into" => dst = Nothing,
           Prepare(g, kind, len, dst)
    PROVE  IInv'
<1> DEFINE args == Passed(len)
           p == Params(g, kind, args)
           before == Contents(heap, dst)
           d == call'[g]
<1>1. Typed /\ MemoryOK(heap) /\ KeptOK(g) /\ Size \in Nat \ {0}
  BY FetchAssumption DEF IInv
<1>2. heap' = ParamsWritten(g, kind, args)
  BY DEF Prepare, Passed
<1>3. /\ MemoryOK(heap)' /\ WritesOwn(g)
      /\ \A b \in DOMAIN heap \ {ArgsOf(g)} : heap'[b] = heap[b]
      /\ Backed(heap', p) /\ p.at \in {BaseArray, ArgsOf(g)}
      /\ Holding(heap', p, SubSeq(Base, 1, len) \o Extra(g, kind))
  BY <1>2, ParamsFacts
<1>4. /\ args \in SliceType /\ args.len = len /\ len \in 0 .. Len(Base)
  <2>1. len \in 0 .. Len(Base) /\ Len(Base) \in Nat
    BY FetchAssumption DEF MemoryOK
  <2> QED  BY <2>1 DEF Passed, Slice, SliceType, BaseArray, Address
<1>5. Holding(heap, dst, before) /\ before \in Seq(Val) /\ Len(before) = dst.len
      /\ dst \in SliceType /\ p \in SliceType
  BY <1>1, <1>3, ContentsAre DEF Holding, Backed
<1>6. ArgsOf(g) \in Address
  BY DEF ArgsOf, Address
<1>7. \A s : Backed(heap, s) /\ Own(g, s) => Same(heap, heap', s)
  BY <1>3, <1>6, AllocationLeaves DEF WritesOwn
<1> HIDE DEF p, before, args
<1>8. d = [kind |-> kind, args |-> args, params |-> p,
           sent |-> <<>>, conn |-> None, rows |-> 0, read |-> 0,
           out |-> dst, before |-> before, keys |-> None]
  BY <1>1 DEF Prepare, Typed, Target, p, before, args, Passed
<1>9. /\ d \in CallRecord
      /\ d.kind = kind /\ d.args = args /\ d.params = p
      /\ d.read = 0 /\ d.out = dst /\ d.before = before /\ d.keys = None
  <2>1. <<>> \in Seq(Val)
    OBVIOUS
  <2> QED  BY <1>4, <1>5, <1>8, <2>1 DEF CallRecord
<1>10. /\ pc'[g] = "prepared" /\ kept'[g] = Lent(kept[g], dst) /\ answer'[g] = NoAnswer
       /\ StepOf(g)
  BY <1>1 DEF Prepare, Typed, StepOf
<1>11. Typed'
  <2>1. NoAnswer \in Answer
    BY FailedAnswer DEF NoAnswer, Errors
  <2>2. pc' \in [Goroutine -> {"idle", "prepared", "reading", "closed"}]
        /\ calls' \in [Goroutine -> Nat] /\ answer' \in [Goroutine -> Answer]
    BY <1>1, <2>1 DEF Prepare, Typed
  <2>3. DOMAIN call' = Goroutine /\ call' = [o \in Goroutine |-> call'[o]]
    BY <1>1 DEF Prepare, Typed
  <2>4. DOMAIN kept' = Goroutine /\ kept' = [o \in Goroutine |-> kept'[o]]
    BY <1>1 DEF Prepare, Typed
  <2> QED  BY <2>2, <2>3, <2>4 DEF Typed
<1>12. KeptOK(g)'
  <2>1. kept'[g] \subseteq kept[g]
    BY <1>10 DEF Lent
  <2>2. \A k \in kept[g] : Same(heap, heap', k.slice)
    BY <1>1, <1>7 DEF KeptOK
  <2> QED  BY <2>1, <2>2, KeptStays
<1>13. ArgsOK(g)'
  <2>1. Wanted(g)' = SubSeq(Base, 1, len) \o Extra(g, kind)
    BY <1>4, <1>9 DEF Wanted
  <2>2. \E n \in 0 .. Len(Base) : d.args = Slice(BaseArray, n, Len(Base))
    BY <1>4, <1>9 DEF args, Passed
  <2> HIDE DEF d
  <2> QED  BY <1>3, <1>9, <1>10, <2>1, <2>2 DEF ArgsOK, d
<1>14. RowsOK(g)'
  <2>1. Backed(heap', dst) /\ Holding(heap', dst, before)
    BY <1>1, <1>5, <1>7, Frame
  <2>2. Decoded(call[g])' = 0
    BY <1>1, <1>9 DEF Decoded
  <2>3. Rows(g, Decoded(call[g]))' = <<>>
    BY <2>2 DEF Rows
  <2>4. before \o <<>> = before
    BY <1>5
  <2>5. kind # "into" => before = <<>>
    <3> SUFFICES ASSUME dst = Nothing PROVE before = <<>>
      OBVIOUS
    <3>1. Len(before) = 0
      BY <1>5 DEF Nothing, Slice
    <3> QED  BY <1>5, <3>1
  <2>6. ASSUME NEW k \in kept'[g], k.slice.at = dst.at
        PROVE  k.slice.len <= Len(before)
    <3>1. k \in kept[g] /\ ~(k.slice.len > dst.len)
      BY <1>10, <2>6 DEF Lent
    <3>2. k.slice.len \in Nat /\ dst.len \in Nat
      BY <1>1, <1>5, <3>1 DEF KeptOK, SliceType
    <3> QED  BY <1>5, <3>1, <3>2
  <2>7. ~(kind = "after" /\ 0 >= Size)
    BY <1>1
  <2> QED  BY <1>9, <1>10, <2>1, <2>3, <2>4, <2>5, <2>6, <2>7 DEF RowsOK
<1>15. TokenOK(g)'
  BY <1>10, FailedAnswer DEF TokenOK, NoAnswer, Errors
<1> QED  BY <1>3, <1>9, <1>10, <1>11, <1>12, <1>13, <1>14, <1>15, StepKeeps DEF CallOK

\* No goroutine relies on anything behind an empty slice.
LEMMA NothingFacts ==
    ASSUME MemoryOK(heap), NEW g
    PROVE  Backed(heap, Nothing) /\ Own(g, Nothing)
<1>1. BaseArray \in DOMAIN heap /\ heap[BaseArray] = Base /\ Base \in Seq(Val)
  BY DEF MemoryOK
<1> QED  BY <1>1 DEF Own, Nothing, Slice, Backed, SliceType, BaseArray, Address

LEMMA FetchFreshKeeps ==
    ASSUME IInv, NEW g \in Goroutine, NEW kind \in Fetch, NEW len \in Given,
           FetchFresh(g, kind, len)
    PROVE  IInv'
<1>1. Backed(heap, Nothing) /\ Own(g, Nothing)
  BY NothingFacts DEF IInv
<1>2. Prepare(g, kind, len, Nothing)
  BY DEF FetchFresh
<1> QED  BY <1>1, <1>2, PrepareKeeps

LEMMA FetchIntoKeeps ==
    ASSUME IInv, NEW g \in Goroutine, NEW len \in Given, FetchInto(g, len)
    PROVE  IInv'
<1>1. PICK k \in kept[g] :
        \E n \in {0, k.slice.len} : Prepare(g, "into", len, [k.slice EXCEPT !.len = n])
  BY DEF FetchInto
<1>2. PICK n \in {0, k.slice.len} : Prepare(g, "into", len, [k.slice EXCEPT !.len = n])
  BY <1>1
<1> DEFINE dst == [k.slice EXCEPT !.len = n]
<1>3. Backed(heap, k.slice) /\ Own(g, k.slice) /\ k.slice \in SliceType
  BY DEF IInv, KeptOK, Backed
<1>4. n \in Nat /\ n <= k.slice.len
  BY <1>3 DEF SliceType
<1>5. dst \in SliceType /\ dst.at = k.slice.at /\ dst.len = n /\ dst.cap = k.slice.cap
  BY <1>3, <1>4 DEF SliceType
<1>6. Backed(heap, dst)
  BY <1>3, <1>4, <1>5 DEF Backed, SliceType
<1>7. Own(g, dst)
  <2>1. CASE k.slice = Nothing
    <3>1. n = 0
      BY <1>4, <2>1 DEF Nothing, Slice
    <3>2. dst = Nothing
      BY <2>1, <3>1 DEF Nothing, Slice
    <3> QED  BY <3>2 DEF Own
  <2>2. CASE k.slice # Nothing
    BY <1>3, <1>5, <2>2 DEF Own
  <2> QED  BY <2>1, <2>2
<1>8. "into" \in Fetch
  BY DEF Fetch
<1> HIDE DEF dst
<1> QED  BY <1>2, <1>6, <1>7, <1>8, PrepareKeeps DEF dst

-------------------------------------------------------------------------------
(* The invariant holds.                                                    *)

LEMMA InitHolds == Init => IInv
<1> SUFFICES ASSUME Init PROVE IInv
  OBVIOUS
<1> DEFINE R == {RowsOf(g, 1) : g \in Goroutine}
<1>1. /\ heap = [a \in {BaseArray} \cup R |-> IF a = BaseArray THEN Base ELSE <<First, None>>]
      /\ BaseArray \notin R
  <2>1. \A g \in Goroutine : RowsOf(g, 1) # BaseArray
    BY DEF RowsOf, BaseArray
  <2> QED  BY <2>1 DEF Init
<1>2. Typed
  BY DEF Init, Typed, NoAnswer, Failed, Answer, Errors
<1>3. Base \in Seq(Val) /\ <<First, None>> \in Seq(Val) /\ Len(<<First, None>>) = 2
  <2>1. {Base[i] : i \in DOMAIN Base} \subseteq Val /\ First \in Val /\ None \in Val
    BY DEF Val
  <2>2. Base \in Seq({Base[i] : i \in DOMAIN Base})
    BY FetchAssumption
  <2>3. \A i \in 1 .. Len(Base) : Base[i] \in Val
    BY <2>1, <2>2
  <2> QED  BY <2>1, <2>2, <2>3
<1>4. \A g \in Goroutine : RowsOf(g, 1) \in DOMAIN heap /\ heap[RowsOf(g, 1)] = <<First, None>>
  BY <1>1
<1>5. MemoryOK(heap)
  <2>1. DOMAIN heap = {BaseArray} \cup R /\ heap \in [DOMAIN heap -> Seq(Val)]
    BY <1>1, <1>3
  <2>2. DOMAIN heap \subseteq Address
    BY <2>1 DEF BaseArray, RowsOf, Address
  <2>3. BaseArray \in DOMAIN heap /\ heap[BaseArray] = Base
    BY <1>1
  <2>4. ASSUME NEW g \in Goroutine PROVE Numbered(heap, g)
    <3>1. RowArrays(heap, g) = {RowsOf(g, 1)}
      BY <2>1, <2>4 DEF RowArrays, RowsOf, BaseArray
    <3>2. {RowsOf(g, n) : n \in 1 .. 1} = {RowsOf(g, 1)}
      OBVIOUS
    <3> QED  BY <3>1, <3>2 DEF Numbered
  <2> QED  BY <2>1, <2>2, <2>3, <2>4 DEF MemoryOK
<1>6. ASSUME NEW g \in Goroutine PROVE KeptOK(g) /\ CallOK(g) /\ TokenOK(g)
  <2>1. CallOK(g) /\ TokenOK(g)
    BY DEF Init, CallOK, TokenOK, NoAnswer, Failed
  <2>2. kept[g] = {[slice |-> Destination(g), holds |-> <<First>>]}
    BY DEF Init
  <2> DEFINE s == Destination(g)
  <2>3. s \in SliceType /\ s.at = RowsOf(g, 1) /\ s.len = 1 /\ s.cap = 2
    BY DEF Destination, Slice, SliceType, RowsOf, Address
  <2>4. Backed(heap, s)
    <3>1. s.at \in DOMAIN heap /\ heap[s.at] = <<First, None>>
      BY <1>4, <2>3
    <3> HIDE DEF s
    <3> QED  BY <1>3, <2>3, <3>1 DEF Backed
  <2>5. Own(g, s)
    BY <2>3 DEF Own, RowsOf
  <2>6. Holding(heap, s, <<First>>) /\ <<First>> \in Seq(Val)
    <3>1. First \in Val
      BY DEF Val
    <3>2. \A i \in 1 .. 1 : i = 1
      OBVIOUS
    <3> QED  BY <1>4, <2>3, <3>1, <3>2 DEF Holding
  <2> HIDE DEF s
  <2> QED  BY <2>1, <2>2, <2>3, <2>4, <2>5, <2>6 DEF KeptOK, s
<1> QED  BY <1>2, <1>5, <1>6 DEF IInv

LEMMA RestKeeps ==
    ASSUME IInv, UNCHANGED vars
    PROVE  IInv'
<1>1. Typed' /\ MemoryOK(heap)'
  BY DEF vars, IInv, Typed
<1>2. ASSUME NEW g \in Goroutine PROVE KeptOK(g)' /\ CallOK(g)' /\ TokenOK(g)'
  <2>1. KeptOK(g) /\ CallOK(g) /\ TokenOK(g)
    BY DEF IInv
  <2>2. Wanted(g)' = Wanted(g) /\ KeyOf(g)' = KeyOf(g)
    BY DEF vars, Wanted, KeyOf, Row
  <2>3. Rows(g, Decoded(call[g]))' = Rows(g, Decoded(call[g]))
    BY DEF vars, Rows, Row
  <2>4. KeptOK(g)' /\ TokenOK(g)'
    BY <2>1 DEF vars, KeptOK, TokenOK, Row
  <2>5. CallOK(g)'
    <3>1. pc[g] # "idle" => (ArgsOK(g) /\ RowsOK(g) => ArgsOK(g)' /\ RowsOK(g)')
      BY <2>2, <2>3 DEF vars, ArgsOK, RowsOK
    <3> QED  BY <2>1, <3>1 DEF vars, CallOK
  <2> QED  BY <2>4, <2>5
<1> QED  BY <1>1, <1>2 DEF IInv

LEMMA NextKeeps == IInv /\ [Next]_vars => IInv'
<1> SUFFICES ASSUME IInv, [Next]_vars PROVE IInv'
  OBVIOUS
<1>1. ASSUME NEW g \in Goroutine, NEW len \in Given, FetchInto(g, len) PROVE IInv'
  BY <1>1, FetchIntoKeeps
<1>2. ASSUME NEW g \in Goroutine, NEW len \in Given, NEW kind \in Fetch,
             FetchFresh(g, kind, len)
      PROVE  IInv'
  BY <1>2, FetchFreshKeeps
<1>3. ASSUME NEW g \in Goroutine, NEW c \in Conn, NEW n \in 0 .. MaxRows, Send(g, c, n)
      PROVE  IInv'
  BY <1>3, SendKeeps
<1>4. ASSUME NEW g \in Goroutine, NextRow(g) PROVE IInv'
  BY <1>4, NextRowKeeps
<1>5. ASSUME NEW g \in Goroutine, LookAhead(g) PROVE IInv'
  BY <1>5, LookAheadKeeps
<1>6. ASSUME NEW g \in Goroutine, EndOfRows(g) PROVE IInv'
  BY <1>6, EndOfRowsKeeps
<1>7. ASSUME NEW g \in Goroutine, Fail(g) PROVE IInv'
  BY <1>7, FailKeeps
<1>8. ASSUME NEW g \in Goroutine, Return(g) PROVE IInv'
  BY <1>8, ReturnKeeps
<1>9. ASSUME NEW g \in Goroutine, ReturnNotOne(g) PROVE IInv'
  BY <1>9, ReturnNotOneKeeps
<1>10. CASE Rest \/ UNCHANGED vars
  BY <1>10, RestKeeps DEF Rest
<1> QED  BY <1>1, <1>2, <1>3, <1>4, <1>5, <1>6, <1>7, <1>8, <1>9, <1>10 DEF Next

LEMMA Invariant == Spec => []IInv
  BY InitHolds, NextKeeps, PTL DEF Spec

-------------------------------------------------------------------------------

\* Each statement is sent with the arguments of its call and its own behind
\* them, whatever calls with slices of the same array interleave, and that
\* array is never written (collect.go:117).
THEOREM ArgumentsAreAsGiven == Spec => []ArgsAsGiven
<1>1. IInv => ArgsAsGiven
  <2> SUFFICES ASSUME IInv PROVE ArgsAsGiven
    OBVIOUS
  <2>1. heap[BaseArray] = Base
    BY DEF IInv, MemoryOK
  <2>2. ASSUME NEW g \in Goroutine, pc[g] \in {"reading", "closed"}
        PROVE  call[g].sent = SubSeq(Base, 1, call[g].args.len) \o Extra(g, call[g].kind)
    BY <2>2 DEF IInv, CallOK, ArgsOK, Wanted
  <2> QED  BY <2>1, <2>2 DEF ArgsAsGiven
<1> QED  BY <1>1, Invariant, PTL

\* What a fetch returned, and what was in front of it in a destination, stays
\* as it was returned, whatever calls follow or fail (db.go:28-31).
THEOREM ReturnedRowsStay == Spec => []KeptIsIntact
<1>1. IInv => KeptIsIntact
  <2> SUFFICES ASSUME IInv, NEW g \in Goroutine, NEW k \in kept[g]
               PROVE  Contents(heap, k.slice) = k.holds
    BY DEF KeptIsIntact
  <2> QED  BY ContentsAre DEF IInv, KeptOK
<1> QED  BY <1>1, Invariant, PTL

\* The token of a keyset page is of the last row of that page, whatever the
\* read buffer of its connection held since (collect.go:253).
THEOREM TokensAreOfLastRows == Spec => []TokenIsOfLastRow
<1>1. IInv => TokenIsOfLastRow
  BY DEF IInv, TokenOK, TokenIsOfLastRow
<1> QED  BY <1>1, Invariant, PTL

===============================================================================
