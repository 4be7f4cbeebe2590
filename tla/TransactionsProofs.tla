--------------------------- MODULE TransactionsProofs --------------------------
(***************************************************************************)
(* For any callers, callbacks, pool and number of scopes: what COMMIT      *)
(* leaves is what was written outside the scopes rolled back, no call      *)
(* keeps a connection, and every step is one of NestedScopes.              *)
(*                                                                         *)
(* The first half is about one transaction and whatever its callbacks do   *)
(* to it.  ROLLBACK TO SAVEPOINT restores the writes pending when the      *)
(* savepoint was made; that these are the writes outside the scope (and    *)
(* outside those rolled back since) holds because an open handle is under  *)
(* every write made after it (Nested), so a scope begun inside it takes    *)
(* nothing from before it.                                                 *)
(***************************************************************************)
EXTENDS Transactions, TLAPS

-------------------------------------------------------------------------------
(* One transaction.                                                        *)

Savepoint == [handle : Nat, before : SUBSET Nat]

Fate == {"open", "kept", "dropped", "failed", "unknown"}

TxType ==
    [status : {"active", "aborted", "lost", "over"}, fate : Seq(Fate),
     savepoints : Seq(Savepoint), under : Seq(SUBSET Nat),
     pending : SUBSET Nat, durable : SUBSET Nat, rejected : SUBSET Nat]

\* The handles a rollback has reached.
Dropped(t) == {h \in DOMAIN t.fate : t.fate[h] = "dropped"}

\* The writes outside some handles and outside what was rolled back.
Outside(t, handles) ==
    {w \in DOMAIN t.under : t.under[w] \cap (Dropped(t) \cup handles) = {}}

\* Savepoints are those of handles, in the order these were made.
Ordered(t) ==
    /\ \A i \in DOMAIN t.savepoints : t.savepoints[i].handle \in DOMAIN t.fate \ {1}
    /\ \A i, j \in DOMAIN t.savepoints :
        i < j => t.savepoints[i].handle < t.savepoints[j].handle

\* An open handle is over every write made after it.
Nested(t) ==
    \A w \in DOMAIN t.under :
        /\ t.under[w] \subseteq DOMAIN t.fate
        /\ \A h \in OpenHandles(t), g \in t.under[w] : h <= g => h \in t.under[w]

\* A savepoint remembers the writes outside its scope.
Remembered(t) ==
    \A i \in DOMAIN t.savepoints :
        LET sp == t.savepoints[i]
        IN  t.fate[sp.handle] = "open" => sp.before = Outside(t, {sp.handle})

\* What is pending is what was not rolled back.
Pending(t) == t.status \in {"active", "aborted"} => t.pending = Outside(t, {})

TxShape(t) ==
    /\ t \in TxType
    /\ t.fate # <<>>
    /\ t.fate[1] = "open" =>
        /\ t.status # "over"
        /\ t.durable = {}
        /\ Ordered(t) /\ Nested(t) /\ Remembered(t) /\ Pending(t)

\* A callback that failed leaves its handle dropped, or failed to.
Rejections(t) ==
    \A h \in t.rejected : h \in DOMAIN t.fate /\ t.fate[h] \in {"dropped", "failed"}

\* What COMMIT left, once it was sent.
Outcome(t) ==
    LET kept == Outside(t, {})
    IN  /\ t.fate[1] = "kept" => t.durable = kept
        /\ t.fate[1] = "unknown" => t.durable \in {kept, {}}
        /\ t.fate[1] \notin {"kept", "unknown"} => t.durable = {}

TxOK(t) == TxShape(t) /\ Rejections(t) /\ Outcome(t)

LEMMA NewOK == TxOK(NewTx)
<1>1. NewTx \in TxType
  <2>1. <<"open">> \in Seq(Fate)
    BY DEF Fate
  <2>2. ASSUME NEW S PROVE <<>> \in Seq(S)
    OBVIOUS
  <2> QED  BY <2>1, <2>2 DEF NewTx, TxType
<1>2. /\ NewTx.fate = <<"open">> /\ NewTx.fate[1] = "open"
      /\ DOMAIN NewTx.savepoints = {} /\ DOMAIN NewTx.under = {}
      /\ NewTx.pending = {} /\ NewTx.durable = {} /\ NewTx.rejected = {}
      /\ NewTx.status = "active"
  BY DEF NewTx
<1>3. Outside(NewTx, {}) = {}
  BY <1>2 DEF Outside
<1>4. Ordered(NewTx) /\ Nested(NewTx) /\ Remembered(NewTx) /\ Pending(NewTx)
  BY <1>2, <1>3 DEF Ordered, Nested, Remembered, Pending
<1>5. TxShape(NewTx)
  BY <1>1, <1>2, <1>4 DEF TxShape
<1>6. Rejections(NewTx) /\ Outcome(NewTx)
  BY <1>2 DEF Rejections, Outcome
<1> QED
  BY <1>5, <1>6 DEF TxOK

-------------------------------------------------------------------------------
(* Its statements.                                                         *)

\* A scope that is closed without being undone leaves what is pending, and
\* at most takes savepoints away.
Fates(t, h, f) == [t.fate EXCEPT ![h] = f]

LEMMA CloseShape ==
    ASSUME NEW t, TxShape(t), NEW h \in DOMAIN t.fate, h # 1, t.fate[1] = "open",
           NEW fate \in {"kept", "failed"}, t.fate[h] = "open",
           NEW u \in TxType, u.fate = Fates(t, h, fate),
           u.under = t.under, u.pending = t.pending, u.durable = t.durable,
           u.status # "over", t.status = "lost" => u.status = "lost",
           DOMAIN u.savepoints \subseteq DOMAIN t.savepoints,
           \A i \in DOMAIN u.savepoints : u.savepoints[i] = t.savepoints[i]
    PROVE  TxShape(u) /\ Dropped(u) = Dropped(t)
<1>1. /\ t.fate \in Seq(Fate) /\ DOMAIN u.fate = DOMAIN t.fate
      /\ \A g \in DOMAIN t.fate : u.fate[g] = IF g = h THEN fate ELSE t.fate[g]
  BY DEF TxShape, TxType, Fates
<1>2. u.fate[1] = "open" /\ u.fate # <<>>
  BY <1>1 DEF TxShape
<1>3. Dropped(u) = Dropped(t)
  BY <1>1 DEF Dropped
<1>4. \A handles : Outside(u, handles) = Outside(t, handles)
  BY <1>3 DEF Outside
<1>5. OpenHandles(u) \subseteq OpenHandles(t)
  BY <1>1 DEF OpenHandles
<1>6. Ordered(u)
  BY <1>1 DEF TxShape, Ordered
<1>7. Nested(u)
  <2>1. /\ \A w \in DOMAIN t.under : t.under[w] \subseteq DOMAIN t.fate
        /\ \A w \in DOMAIN t.under : \A o \in OpenHandles(t), g \in t.under[w] :
                o <= g => o \in t.under[w]
    BY DEF TxShape, Nested
  <2> QED  BY <1>1, <1>5, <2>1 DEF Nested
<1>8. Remembered(u)
  <2> SUFFICES ASSUME NEW i \in DOMAIN u.savepoints,
                      u.fate[u.savepoints[i].handle] = "open"
               PROVE  u.savepoints[i].before = Outside(u, {u.savepoints[i].handle})
    BY DEF Remembered
  <2>1. i \in DOMAIN t.savepoints /\ u.savepoints[i] = t.savepoints[i]
    OBVIOUS
  <2>2. t.savepoints[i].handle \in DOMAIN t.fate
    BY <2>1 DEF TxShape, Ordered
  <2>3. t.fate[t.savepoints[i].handle] = "open"
    BY <1>1, <2>1, <2>2
  <2>4. t.savepoints[i].before = Outside(t, {t.savepoints[i].handle})
    BY <2>1, <2>3 DEF TxShape, Remembered
  <2> QED  BY <1>4, <2>1, <2>4
<1>9. Pending(u)
  <2>1. t.status \in {"active", "aborted", "lost", "over"}
    BY DEF TxShape, TxType
  <2> QED  BY <1>4, <2>1 DEF TxShape, Pending
<1> QED  BY <1>2, <1>3, <1>6, <1>7, <1>8, <1>9 DEF TxShape

\* ROLLBACK TO SAVEPOINT restores what is outside the scope.
LEMMA DropShape ==
    ASSUME NEW t, TxShape(t), NEW h \in DOMAIN t.fate, h # 1, t.fate[1] = "open",
           t.fate[h] = "open", NEW i \in Place(t, h),
           NEW u \in TxType, u.fate = Fates(t, h, "dropped"),
           u.under = t.under, u.pending = t.savepoints[i].before,
           u.durable = t.durable, u.status = "active",
           DOMAIN u.savepoints = 1 .. i,
           \A k \in 1 .. i : u.savepoints[k] = t.savepoints[k]
    PROVE  TxShape(u)
<1>1. /\ t.fate \in Seq(Fate) /\ DOMAIN u.fate = DOMAIN t.fate
      /\ \A g \in DOMAIN t.fate : u.fate[g] = IF g = h THEN "dropped" ELSE t.fate[g]
  BY DEF TxShape, TxType, Fates
<1>2. /\ i \in DOMAIN t.savepoints /\ t.savepoints[i].handle = h
      /\ t.savepoints \in Seq(Savepoint) /\ 1 .. i \subseteq DOMAIN t.savepoints
  BY DEF Place, TxShape, TxType
<1>3. u.fate[1] = "open" /\ u.fate # <<>>
  BY <1>1 DEF TxShape
<1>4. Dropped(u) = Dropped(t) \cup {h}
  BY <1>1 DEF Dropped
<1>5. Pending(u)
  <2>1. t.savepoints[i].before = Outside(t, {h})
    BY <1>2 DEF TxShape, Remembered
  <2>2. Outside(u, {}) = Outside(t, {h})
    BY <1>4 DEF Outside
  <2> QED  BY <2>1, <2>2 DEF Pending
<1>6. OpenHandles(u) \subseteq OpenHandles(t)
  BY <1>1 DEF OpenHandles
<1>7. Ordered(u)
  BY <1>1, <1>2 DEF TxShape, Ordered
<1>8. Nested(u)
  BY <1>1, <1>6 DEF TxShape, Nested
<1>9. Remembered(u)
  <2> SUFFICES ASSUME NEW k \in 1 .. i, NEW g, g = t.savepoints[k].handle,
                      u.fate[g] = "open"
               PROVE  t.savepoints[k].before = Outside(u, {g})
    BY <1>2 DEF Remembered
  <2>1. k \in DOMAIN t.savepoints /\ g \in DOMAIN t.fate /\ g \in Nat /\ h \in Nat
    BY <1>2 DEF TxShape, Ordered, TxType
  <2>2. g # h /\ t.fate[g] = "open"
    BY <1>1, <2>1
  <2>3. g < h
    BY <1>2, <2>1, <2>2 DEF TxShape, Ordered
  <2>4. t.savepoints[k].before = Outside(t, {g})
    BY <2>1, <2>2 DEF TxShape, Remembered
  <2>5. \A w \in DOMAIN t.under : h \in t.under[w] => g \in t.under[w]
    BY <2>1, <2>2, <2>3 DEF TxShape, Nested, OpenHandles
  <2>6. Outside(u, {g}) = Outside(t, {g})
    BY <1>4, <2>5 DEF Outside
  <2> QED  BY <2>4, <2>6
<1> QED  BY <1>3, <1>5, <1>7, <1>8, <1>9 DEF TxShape

\* SAVEPOINT: no write is under the new handle yet.
LEMMA MarkOK ==
    ASSUME NEW t, TxOK(t), t.fate[1] = "open", t.status = "active"
    PROVE  TxOK(Marked(t)) /\ Marked(t).fate[1] = "open"
<1> DEFINE h == Len(t.fate) + 1
           n == Len(t.savepoints)
           u == Marked(t)
<1>1. /\ t.fate \in Seq(Fate) /\ t.savepoints \in Seq(Savepoint)
      /\ h \in Nat /\ n \in Nat /\ h # 1
  BY DEF TxOK, TxShape, TxType
<1>2. /\ u.fate = Append(t.fate, "open") /\ DOMAIN u.fate = DOMAIN t.fate \cup {h}
      /\ h \notin DOMAIN t.fate /\ u.fate[h] = "open"
      /\ \A g \in DOMAIN t.fate : u.fate[g] = t.fate[g]
  BY <1>1 DEF Marked, TxOK, TxShape, TxType
<1>3. /\ DOMAIN u.savepoints = DOMAIN t.savepoints \cup {n + 1}
      /\ u.savepoints[n + 1].handle = h /\ u.savepoints[n + 1].before = t.pending
      /\ \A i \in DOMAIN t.savepoints : u.savepoints[i] = t.savepoints[i] /\ i < n + 1
  BY <1>1 DEF Marked, TxOK, TxShape, TxType
<1>4. /\ u.under = t.under /\ u.pending = t.pending /\ u.durable = t.durable
      /\ u.status = t.status /\ u.rejected = t.rejected
  BY DEF Marked, TxOK, TxShape, TxType
<1>5. u \in TxType
  <2>1. [handle |-> h, before |-> t.pending] \in Savepoint
    BY <1>1 DEF TxOK, TxShape, TxType, Savepoint
  <2>2. Append(t.savepoints, [handle |-> h, before |-> t.pending]) \in Seq(Savepoint)
    BY <1>1, <2>1
  <2>3. Append(t.fate, "open") \in Seq(Fate)
    BY <1>1 DEF Fate
  <2> QED  BY <2>2, <2>3 DEF Marked, TxOK, TxShape, TxType
<1> HIDE DEF u
<1>6. u.fate[1] = "open" /\ u.fate # <<>>
  BY <1>1, <1>2 DEF TxOK, TxShape
<1>7. Dropped(u) = Dropped(t)
  BY <1>2 DEF Dropped
<1>8. \A handles : Outside(u, handles) = Outside(t, handles)
  BY <1>4, <1>7 DEF Outside
<1>9. \A w \in DOMAIN t.under : h \notin t.under[w] /\ t.under[w] \subseteq DOMAIN t.fate
  BY <1>2 DEF TxOK, TxShape, Nested
<1>10. Ordered(u)
  <2>1. \A i \in DOMAIN t.savepoints : t.savepoints[i].handle \in DOMAIN t.fate \ {1}
                                       /\ t.savepoints[i].handle < h
    BY <1>1 DEF TxOK, TxShape, Ordered
  <2>2. \A i, j \in DOMAIN t.savepoints :
            i < j => t.savepoints[i].handle < t.savepoints[j].handle
    BY DEF TxOK, TxShape, Ordered
  <2>3. \A i \in DOMAIN t.savepoints : ~(n + 1 < i)
    BY <1>1
  <2> QED  BY <1>1, <1>2, <1>3, <2>1, <2>2, <2>3 DEF Ordered
<1>11. Nested(u)
  <2>1. ASSUME NEW w \in DOMAIN t.under, NEW o \in OpenHandles(u),
               NEW g \in t.under[w], o <= g
        PROVE  o \in t.under[w]
    <3>1. g \in DOMAIN t.fate
      BY <1>9
    <3>2. o # h
      BY <1>1, <2>1, <3>1
    <3>3. o \in OpenHandles(t)
      BY <1>2, <3>2 DEF OpenHandles
    <3> QED  BY <2>1, <3>3 DEF TxOK, TxShape, Nested
  <2> QED  BY <1>2, <1>4, <1>9, <2>1 DEF Nested
<1>12. Remembered(u)
  <2>1. \A i \in DOMAIN t.savepoints : t.savepoints[i].handle \in DOMAIN t.fate
    BY DEF TxOK, TxShape, Ordered
  <2>2. \A i \in DOMAIN t.savepoints :
            u.fate[t.savepoints[i].handle] = "open"
                => t.savepoints[i].before = Outside(u, {t.savepoints[i].handle})
    BY <1>2, <1>8, <2>1 DEF TxOK, TxShape, Remembered
  <2>3. t.pending = Outside(u, {h})
    <3>1. t.pending = Outside(t, {})
      BY DEF TxOK, TxShape, Pending
    <3> QED  BY <1>4, <1>7, <1>9, <3>1 DEF Outside
  <2>4. ASSUME NEW i \in DOMAIN u.savepoints, u.fate[u.savepoints[i].handle] = "open"
        PROVE  u.savepoints[i].before = Outside(u, {u.savepoints[i].handle})
    <3>1. CASE i \in DOMAIN t.savepoints
      BY <1>3, <2>2, <2>4, <3>1
    <3>2. CASE i = n + 1
      BY <1>3, <2>3, <3>2
    <3> QED  BY <1>3, <3>1, <3>2
  <2> QED  BY <2>4 DEF Remembered
<1>13. Pending(u)
  BY <1>4, <1>8 DEF Pending, TxOK, TxShape
<1>14. TxShape(u)
  BY <1>4, <1>5, <1>6, <1>10, <1>11, <1>12, <1>13 DEF TxOK, TxShape
<1>15. Rejections(u) /\ Outcome(u)
  BY <1>2, <1>4, <1>6 DEF TxOK, TxShape, Rejections, Outcome
<1> QED  BY <1>6, <1>14, <1>15 DEF TxOK, u

\* A write is under every open handle, and pending.
Written(t) ==
    [t EXCEPT !.under = Append(@, OpenHandles(t)), !.pending = @ \cup {Len(t.under) + 1}]

LEMMA WriteOK ==
    ASSUME NEW t, TxOK(t), t.fate[1] = "open", t.status = "active"
    PROVE  TxOK(Written(t)) /\ Written(t).fate[1] = "open"
<1> DEFINE n == Len(t.under) + 1
           u == Written(t)
<1>1. /\ t.under \in Seq(SUBSET Nat) /\ t.fate \in Seq(Fate) /\ n \in Nat
      /\ t.pending \in SUBSET Nat
  BY DEF TxOK, TxShape, TxType
<1>2. OpenHandles(t) \in SUBSET Nat
  BY <1>1 DEF OpenHandles
<1>3. /\ DOMAIN u.under = DOMAIN t.under \cup {n} /\ n \notin DOMAIN t.under
      /\ u.under[n] = OpenHandles(t)
      /\ \A w \in DOMAIN t.under : u.under[w] = t.under[w]
      /\ u.pending = t.pending \cup {n}
  BY <1>1, <1>2 DEF Written, TxOK, TxShape, TxType
<1>4. /\ u.fate = t.fate /\ u.savepoints = t.savepoints /\ u.durable = t.durable
      /\ u.status = t.status /\ u.rejected = t.rejected
  BY DEF Written, TxOK, TxShape, TxType
<1>5. u \in TxType
  <2>1. Append(t.under, OpenHandles(t)) \in Seq(SUBSET Nat)
    BY <1>1, <1>2
  <2>2. t.pending \cup {Len(t.under) + 1} \in SUBSET Nat
    BY <1>1
  <2> QED  BY <2>1, <2>2 DEF Written, TxOK, TxShape, TxType
<1> HIDE DEF u
<1>6. Dropped(u) = Dropped(t) /\ OpenHandles(u) = OpenHandles(t)
  BY <1>4 DEF Dropped, OpenHandles
<1>7. Dropped(t) \cap OpenHandles(t) = {}
  BY DEF Dropped, OpenHandles
<1>8. Outside(u, {}) = Outside(t, {}) \cup {n}
  BY <1>3, <1>6, <1>7 DEF Outside
<1>9. ASSUME NEW h \in OpenHandles(t) PROVE Outside(u, {h}) = Outside(t, {h})
  BY <1>3, <1>6 DEF Outside
<1>10. Ordered(u)
  BY <1>4 DEF TxOK, TxShape, Ordered
<1>11. Nested(u)
  <2>1. OpenHandles(t) \subseteq DOMAIN t.fate
    BY DEF OpenHandles
  <2>2. ASSUME NEW w \in DOMAIN u.under
        PROVE  /\ u.under[w] \subseteq DOMAIN u.fate
               /\ \A h \in OpenHandles(u), g \in u.under[w] : h <= g => h \in u.under[w]
    <3>1. CASE w = n
      BY <1>3, <1>4, <1>6, <2>1, <3>1
    <3>2. CASE w \in DOMAIN t.under
      BY <1>3, <1>4, <1>6, <3>2 DEF TxOK, TxShape, Nested
    <3> QED  BY <1>3, <3>1, <3>2
  <2> QED  BY <2>2 DEF Nested
<1>12. Remembered(u)
  <2> SUFFICES ASSUME NEW i \in DOMAIN t.savepoints, NEW h, h = t.savepoints[i].handle,
                      t.fate[h] = "open"
               PROVE  t.savepoints[i].before = Outside(u, {h})
    BY <1>4 DEF Remembered
  <2>1. h \in OpenHandles(t)
    BY DEF TxOK, TxShape, Ordered, OpenHandles
  <2>2. t.savepoints[i].before = Outside(t, {h})
    BY DEF TxOK, TxShape, Remembered
  <2> QED  BY <1>9, <2>1, <2>2
<1>13. Pending(u)
  BY <1>3, <1>4, <1>8 DEF Pending, TxOK, TxShape
<1>14. TxShape(u)
  BY <1>4, <1>5, <1>10, <1>11, <1>12, <1>13 DEF TxOK, TxShape
<1>15. Rejections(u) /\ Outcome(u)
  BY <1>4 DEF TxOK, TxShape, Rejections, Outcome
<1> QED  BY <1>4, <1>14, <1>15 DEF TxOK, u

\* A statement that fails, or the connection, leaves what was pending.
LEMMA FailOK ==
    ASSUME NEW t, TxOK(t), t.fate[1] = "open", NEW u \in {Aborted(t), Lost(t)}
    PROVE  TxOK(u) /\ u.fate[1] = "open"
<1>1. /\ u \in TxType /\ u.fate = t.fate /\ u.savepoints = t.savepoints
      /\ u.under = t.under /\ u.pending = t.pending /\ u.durable = t.durable
      /\ u.rejected = t.rejected /\ u.status # "over"
      /\ t.status = "lost" => u.status = "lost"
  BY DEF Aborted, Lost, TxOK, TxShape, TxType
<1>2. Dropped(u) = Dropped(t) /\ OpenHandles(u) = OpenHandles(t)
  BY <1>1 DEF Dropped, OpenHandles
<1>3. \A handles : Outside(u, handles) = Outside(t, handles)
  BY <1>1, <1>2 DEF Outside
<1>4. Ordered(u) /\ Nested(u) /\ Remembered(u)
  <2>1. Ordered(u)
    BY <1>1 DEF TxOK, TxShape, Ordered
  <2>2. Nested(u)
    BY <1>1, <1>2 DEF TxOK, TxShape, Nested
  <2>3. Remembered(u)
    BY <1>1, <1>3 DEF TxOK, TxShape, Remembered
  <2> QED  BY <2>1, <2>2, <2>3
<1>5. Pending(u)
  <2>1. t.status \in {"active", "aborted", "lost", "over"}
    BY DEF TxOK, TxShape, TxType
  <2> QED  BY <1>1, <1>3, <2>1 DEF TxOK, TxShape, Pending
<1> QED  BY <1>1, <1>4, <1>5 DEF TxOK, TxShape, Rejections, Outcome

\* What a callback was refused does not change the shape.
LEMMA RejectShape ==
    ASSUME NEW t, TxShape(t), NEW r \in SUBSET Nat,
           NEW u, u = [t EXCEPT !.rejected = r]
    PROVE  /\ TxShape(u)
           /\ u.fate = t.fate /\ u.savepoints = t.savepoints /\ u.under = t.under
           /\ u.pending = t.pending /\ u.durable = t.durable
           /\ u.status = t.status /\ u.rejected = r
<1>1. /\ u \in TxType /\ u.fate = t.fate /\ u.savepoints = t.savepoints
      /\ u.under = t.under /\ u.pending = t.pending /\ u.durable = t.durable
      /\ u.status = t.status /\ u.rejected = r
  BY DEF TxShape, TxType
<1>2. Dropped(u) = Dropped(t) /\ OpenHandles(u) = OpenHandles(t)
  BY <1>1 DEF Dropped, OpenHandles
<1>3. \A handles : Outside(u, handles) = Outside(t, handles)
  BY <1>1, <1>2 DEF Outside
<1>4. ASSUME t.fate[1] = "open"
      PROVE  Ordered(u) /\ Nested(u) /\ Remembered(u) /\ Pending(u)
  <2>1. Ordered(u)
    BY <1>1, <1>4 DEF TxShape, Ordered
  <2>2. Nested(u)
    BY <1>1, <1>2, <1>4 DEF TxShape, Nested
  <2>3. Remembered(u)
    BY <1>1, <1>3, <1>4 DEF TxShape, Remembered
  <2>4. Pending(u)
    BY <1>1, <1>3, <1>4 DEF TxShape, Pending
  <2> QED  BY <2>1, <2>2, <2>3, <2>4
<1> QED  BY <1>1, <1>4 DEF TxShape

\* What was written in a scope that closes stays, or what was pending outside
\* it is all that stays.
Closes(t, h, u) ==
    /\ \E f \in {"kept", "dropped", "failed"} : u.fate = Fates(t, h, f)
    /\ u.under = t.under /\ u.durable = t.durable
    /\ \/ /\ u.pending = t.pending
          /\ u.status \in {t.status, "aborted", "lost"}
          /\ t.status = "lost" => u.status = "lost"
       \/ /\ u.pending = Outside(t, {h})
          /\ u.status = "active" /\ t.status # "lost"

\* A scope was finished: only its own fate changed, and nothing is durable.
Finished(t, h, u, fates) ==
    /\ TxShape(u) /\ Closes(t, h, u)
    /\ u.fate[1] = "open" /\ u.durable = {} /\ u.rejected = t.rejected
    /\ DOMAIN u.fate = DOMAIN t.fate
    /\ \A g \in DOMAIN t.fate \ {h} : u.fate[g] = t.fate[g]
    /\ u.fate[h] \in fates

LEMMA PrefixFacts ==
    ASSUME NEW S, NEW s \in Seq(S), NEW k \in 0 .. Len(s)
    PROVE  /\ SubSeq(s, 1, k) \in Seq(S) /\ DOMAIN SubSeq(s, 1, k) = 1 .. k
           /\ \A j \in 1 .. k : SubSeq(s, 1, k)[j] = s[j] /\ j \in DOMAIN s
  OBVIOUS

LEMMA AppendFacts ==
    ASSUME NEW S, NEW s \in Seq(S), s # <<>>, NEW e \in S
    PROVE  /\ Append(s, e) \in Seq(S) /\ Append(s, e) # <<>>
           /\ DOMAIN Append(s, e) = DOMAIN s \cup {Len(s) + 1} /\ 1 \in DOMAIN s
           /\ \A i \in DOMAIN s : Append(s, e)[i] = s[i]
           /\ Append(s, e)[Len(s) + 1] = e
  OBVIOUS

LEMMA FateFacts ==
    ASSUME NEW t, TxShape(t), NEW h \in DOMAIN t.fate, h # 1, Usable(t, h),
           NEW f \in {"kept", "dropped", "failed"}
    PROVE  /\ t \in TxType /\ t.fate[1] = "open" /\ t.fate[h] = "open"
           /\ t.savepoints \in Seq(Savepoint) /\ t.durable = {} /\ t.status # "over"
           /\ Fates(t, h, f) \in Seq(Fate) /\ DOMAIN Fates(t, h, f) = DOMAIN t.fate
           /\ Fates(t, h, f)[1] = "open" /\ Fates(t, h, f)[h] = f
           /\ \A g \in DOMAIN t.fate \ {h} : Fates(t, h, f)[g] = t.fate[g]
<1>1. /\ t \in TxType /\ t.fate \in Seq(Fate) /\ t.fate[1] = "open" /\ t.fate[h] = "open"
      /\ t.savepoints \in Seq(Savepoint) /\ t.durable = {} /\ t.status # "over"
      /\ t.fate # <<>>
  BY DEF TxShape, TxType, Usable
<1>2. 1 \in DOMAIN t.fate
  BY <1>1
<1>3. f \in Fate
  BY DEF Fate
<1> QED  BY <1>1, <1>2, <1>3 DEF Fates

\* A handle is closed and its savepoint stays behind.
LEMMA UnsentShape ==
    ASSUME NEW t, TxShape(t), NEW h \in DOMAIN t.fate, h # 1, Usable(t, h),
           NEW u \in {Unsent(t, h), Lost(Unsent(t, h)), Aborted(Unsent(t, h))}
    PROVE  Finished(t, h, u, {"failed"})
<1> DEFINE fates == Fates(t, h, "failed")
<1>1. /\ t \in TxType /\ t.fate[1] = "open" /\ t.fate[h] = "open"
      /\ t.durable = {} /\ t.status # "over"
      /\ fates \in Seq(Fate) /\ DOMAIN fates = DOMAIN t.fate
      /\ fates[1] = "open" /\ fates[h] = "failed"
      /\ \A g \in DOMAIN t.fate \ {h} : fates[g] = t.fate[g]
  BY FateFacts
<1>2. /\ u \in TxType /\ u.fate = fates
      /\ u.under = t.under /\ u.pending = t.pending /\ u.durable = t.durable
      /\ u.rejected = t.rejected /\ u.savepoints = t.savepoints
      /\ u.status # "over" /\ (t.status = "lost" => u.status = "lost")
      /\ u.status \in {t.status, "aborted", "lost"}
  BY <1>1 DEF Unsent, Lost, Aborted, Closed, TxType, Fates
<1>3. TxShape(u)
  BY <1>1, <1>2, CloseShape
<1>4. Closes(t, h, u)
  BY <1>2 DEF Closes
<1> QED  BY <1>1, <1>2, <1>3, <1>4 DEF Finished

LEMMA ReleaseShape ==
    ASSUME NEW t, TxShape(t), NEW h \in DOMAIN t.fate, h # 1, Usable(t, h),
           NEW u, u = Release(t, h)
    PROVE  Finished(t, h, u, {"kept", "failed"})
<1>1. CASE t.status = "active" /\ Place(t, h) # {}
  <2> DEFINE i == CHOOSE i \in Place(t, h) : TRUE
             fates == Fates(t, h, "kept")
             left == SubSeq(t.savepoints, 1, i - 1)
  <2>1. i \in DOMAIN t.savepoints
    BY <1>1 DEF Place
  <2> HIDE DEF i
  <2>2. /\ t \in TxType /\ t.fate[1] = "open" /\ t.fate[h] = "open"
        /\ t.savepoints \in Seq(Savepoint) /\ t.durable = {} /\ t.status # "over"
        /\ fates \in Seq(Fate) /\ DOMAIN fates = DOMAIN t.fate
        /\ fates[1] = "open" /\ fates[h] = "kept"
        /\ \A g \in DOMAIN t.fate \ {h} : fates[g] = t.fate[g]
    BY FateFacts
  <2>3. /\ left \in Seq(Savepoint) /\ DOMAIN left \subseteq DOMAIN t.savepoints
        /\ \A k \in DOMAIN left : left[k] = t.savepoints[k]
    <3>1. i - 1 \in 0 .. Len(t.savepoints)
      BY <2>1, <2>2
    <3> QED  BY <2>2, <3>1, PrefixFacts
  <2> HIDE DEF left
  <2>4. u = [[t EXCEPT !.fate[h] = "kept"] EXCEPT !.savepoints = left]
    BY <1>1 DEF Release, Closed, i, left
  <2>5. /\ u \in TxType /\ u.fate = fates
        /\ u.under = t.under /\ u.pending = t.pending /\ u.durable = t.durable
        /\ u.rejected = t.rejected /\ u.savepoints = left /\ u.status = t.status
    BY <2>2, <2>3, <2>4 DEF TxType, Fates
  <2>6. TxShape(u)
    <3>1. /\ u.status # "over" /\ (t.status = "lost" => u.status = "lost")
          /\ DOMAIN u.savepoints \subseteq DOMAIN t.savepoints
          /\ \A k \in DOMAIN u.savepoints : u.savepoints[k] = t.savepoints[k]
      BY <2>2, <2>3, <2>5
    <3>2. /\ t.fate[1] = "open" /\ t.fate[h] = "open"
          /\ u \in TxType /\ u.fate = Fates(t, h, "kept")
          /\ u.under = t.under /\ u.pending = t.pending /\ u.durable = t.durable
      BY <2>2, <2>5
    <3> QED  BY <3>1, <3>2, CloseShape
  <2>7. Closes(t, h, u)
    BY <2>5 DEF Closes
  <2> QED  BY <2>2, <2>5, <2>6, <2>7 DEF Finished
<1>2. CASE ~(t.status = "active" /\ Place(t, h) # {})
  <2>1. u = Aborted(Unsent(t, h))
    BY <1>2 DEF Release, Unsent
  <2> QED  BY <2>1, UnsentShape DEF Finished
<1> QED  BY <1>1, <1>2

LEMMA RollbackToShape ==
    ASSUME NEW t, TxShape(t), NEW h \in DOMAIN t.fate, h # 1, Usable(t, h),
           NEW u, u = RollbackTo(t, h)
    PROVE  Finished(t, h, u, {"dropped", "failed"})
<1>1. CASE t.status # "lost" /\ Place(t, h) # {}
  <2> DEFINE i == CHOOSE i \in Place(t, h) : TRUE
             fates == Fates(t, h, "dropped")
             left == SubSeq(t.savepoints, 1, i)
  <2>1. i \in Place(t, h) /\ i \in DOMAIN t.savepoints
    BY <1>1 DEF Place
  <2> HIDE DEF i
  <2>2. /\ t \in TxType /\ t.fate[1] = "open" /\ t.fate[h] = "open"
        /\ t.savepoints \in Seq(Savepoint) /\ t.durable = {} /\ t.status # "over"
        /\ fates \in Seq(Fate) /\ DOMAIN fates = DOMAIN t.fate
        /\ fates[1] = "open" /\ fates[h] = "dropped"
        /\ \A g \in DOMAIN t.fate \ {h} : fates[g] = t.fate[g]
    BY FateFacts
  <2>3. /\ left \in Seq(Savepoint) /\ DOMAIN left = 1 .. i
        /\ \A k \in 1 .. i : left[k] = t.savepoints[k]
        /\ t.savepoints[i] \in Savepoint
    BY <2>1, <2>2
  <2> HIDE DEF left
  <2>4. t.savepoints[i].before \in SUBSET Nat
    BY <2>3 DEF Savepoint
  <2>5. u = [[t EXCEPT !.fate[h] = "dropped"]
                EXCEPT !.status = "active", !.savepoints = left,
                       !.pending = t.savepoints[i].before]
    BY <1>1 DEF RollbackTo, Closed, i, left
  <2>6. /\ u \in TxType /\ u.fate = fates
        /\ u.under = t.under /\ u.pending = t.savepoints[i].before
        /\ u.durable = t.durable /\ u.rejected = t.rejected
        /\ u.savepoints = left /\ u.status = "active"
    BY <2>2, <2>3, <2>4, <2>5 DEF TxType, Fates
  <2>7. TxShape(u)
    <3>1. /\ DOMAIN u.savepoints = 1 .. i
          /\ \A k \in 1 .. i : u.savepoints[k] = t.savepoints[k]
      BY <2>3, <2>6
    <3>2. /\ t.fate[1] = "open" /\ t.fate[h] = "open"
          /\ u \in TxType /\ u.fate = Fates(t, h, "dropped")
          /\ u.under = t.under /\ u.pending = t.savepoints[i].before
          /\ u.durable = t.durable /\ u.status = "active"
      BY <2>2, <2>6
    <3> QED  BY <2>1, <3>1, <3>2, DropShape
  <2>8. Closes(t, h, u)
    <3>1. t.savepoints[i].before = Outside(t, {h})
      BY <2>1, <2>2 DEF Place, TxShape, Remembered
    <3> QED  BY <1>1, <2>6, <3>1 DEF Closes
  <2> QED  BY <2>2, <2>6, <2>7, <2>8 DEF Finished
<1>2. CASE ~(t.status # "lost" /\ Place(t, h) # {})
  <2>1. u = Aborted(Unsent(t, h))
    BY <1>2 DEF RollbackTo, Unsent
  <2> QED  BY <2>1, UnsentShape DEF Finished
<1> QED  BY <1>1, <1>2

\* The root is closed for good.
LEMMA OverFacts ==
    ASSUME NEW t, TxShape(t), NEW f \in Fate \ {"open"}, NEW d \in SUBSET Nat,
           NEW u, u = Over(t, f, d)
    PROVE  /\ TxShape(u)
           /\ u.fate[1] = f /\ DOMAIN u.fate = DOMAIN t.fate
           /\ \A g \in DOMAIN t.fate \ {1} : u.fate[g] = t.fate[g]
           /\ u.under = t.under /\ u.durable = d /\ u.rejected = t.rejected
           /\ u.status = "over" /\ u.pending = {}
<1> DEFINE fates == [t.fate EXCEPT ![1] = f]
<1>1. t \in TxType /\ t.fate \in Seq(Fate) /\ t.fate # <<>>
  BY DEF TxShape, TxType
<1>2. /\ fates \in Seq(Fate) /\ DOMAIN fates = DOMAIN t.fate /\ fates[1] = f
      /\ \A g \in DOMAIN t.fate \ {1} : fates[g] = t.fate[g]
      /\ fates # <<>>
  BY <1>1
<1> HIDE DEF fates
<1>3. <<>> \in Seq(Savepoint)
  OBVIOUS
<1>4. u = [t EXCEPT !.status = "over", !.savepoints = <<>>, !.pending = {},
                    !.fate = fates, !.durable = d]
  BY <1>1 DEF Over, TxType, fates
<1>5. u \in TxType
  BY <1>1, <1>2, <1>3, <1>4 DEF TxType
<1>6. /\ u.fate = fates /\ u.under = t.under /\ u.durable = d
      /\ u.rejected = t.rejected /\ u.status = "over" /\ u.pending = {}
  BY <1>1, <1>4 DEF TxType
<1> QED  BY <1>2, <1>5, <1>6 DEF TxShape

\* What a finished handle leaves, of whatever it was called on.
Ended(t, h, u) ==
    /\ TxOK(u)
    /\ DOMAIN u.fate = DOMAIN t.fate
    /\ h = 1 => u.fate[1] # "open"

LEMMA CommitRootOK ==
    ASSUME NEW t, TxOK(t), t.fate[1] = "open", NEW u \in CommitRoot(t)
    PROVE  Ended(t, 1, u)
<1>1. /\ TxShape(t) /\ t.pending \in SUBSET Nat /\ {} \in SUBSET Nat
      /\ \A h \in t.rejected : h # 1 /\ h \in DOMAIN t.fate
                               /\ t.fate[h] \in {"dropped", "failed"}
  BY DEF TxOK, TxShape, TxType, Rejections
<1>2. PICK f \in {"kept", "unknown", "failed"}, d \in {t.pending, {}} :
        /\ u = Over(t, f, d)
        /\ f = "failed" => d = {}
        /\ f = "kept" => d = t.pending
        /\ f # "failed" => t.status = "active"
  BY DEF CommitRoot
<1>3. f \in Fate \ {"open"} /\ d \in SUBSET Nat
  BY <1>1 DEF Fate
<1>4. /\ TxShape(u)
      /\ u.fate[1] = f /\ DOMAIN u.fate = DOMAIN t.fate
      /\ \A g \in DOMAIN t.fate \ {1} : u.fate[g] = t.fate[g]
      /\ u.under = t.under /\ u.durable = d /\ u.rejected = t.rejected
  BY <1>1, <1>2, <1>3, OverFacts
<1>5. Rejections(u)
  BY <1>1, <1>4 DEF Rejections
<1>6. Outcome(u)
  <2>1. Dropped(u) = Dropped(t)
    BY <1>4 DEF Dropped
  <2>2. Outside(u, {}) = Outside(t, {})
    BY <1>4, <2>1 DEF Outside
  <2>3. f # "failed" => t.pending = Outside(t, {})
    BY <1>2 DEF TxOK, TxShape, Pending
  <2> QED  BY <1>2, <1>4, <2>2, <2>3 DEF Outcome
<1> QED  BY <1>4, <1>5, <1>6 DEF Ended, TxOK

LEMMA CommitOK ==
    ASSUME NEW t, TxOK(t), NEW h \in DOMAIN t.fate, NEW u \in Commit(t, h)
    PROVE  Ended(t, h, u)
<1>1. CASE ~Usable(t, h)
  <2>1. u = t
    BY <1>1 DEF Commit
  <2> QED  BY <1>1, <2>1 DEF Ended, Usable
<1>2. CASE Usable(t, h) /\ h = 1
  BY <1>2, CommitRootOK DEF Commit, Usable
<1>3. CASE Usable(t, h) /\ h # 1
  <2>1. TxShape(t) /\ u \in {Release(t, h), Unsent(t, h), Lost(Unsent(t, h))}
    BY <1>3 DEF Commit, TxOK
  <2>2. Finished(t, h, u, {"kept", "failed"})
    <3>1. CASE u = Release(t, h)
      BY <1>3, <2>1, <3>1, ReleaseShape
    <3>2. CASE u \in {Unsent(t, h), Lost(Unsent(t, h))}
      BY <1>3, <2>1, <3>2, UnsentShape DEF Finished
    <3> QED  BY <2>1, <3>1, <3>2
  <2>3. Rejections(u)
    BY <1>3, <2>2 DEF Finished, TxOK, Rejections, Usable
  <2> QED  BY <1>3, <2>2, <2>3 DEF Ended, Finished, TxOK, Outcome
<1> QED  BY <1>1, <1>2, <1>3

\* A rollback, and the one of a callback that failed, which is noted first.
LEMMA RollbackOK ==
    ASSUME NEW t, TxOK(t), NEW h \in DOMAIN t.fate,
           NEW s \in {t, Reject(t, h)}, NEW u \in Rollback(s, h)
    PROVE  Ended(t, h, u)
<1>1. CASE ~Usable(t, h)
  <2>1. u = t
    BY <1>1 DEF Rollback, Reject
  <2> QED  BY <1>1, <2>1 DEF Ended, Usable
<1>2. CASE Usable(t, h)
  <2> DEFINE r == s.rejected
  <2>1. /\ TxShape(s) /\ s.fate = t.fate
        /\ s.rejected \subseteq t.rejected \cup {h}
    <3>1. CASE s = t
      BY <3>1 DEF TxOK
    <3>2. CASE s = [t EXCEPT !.rejected = @ \cup {h}]
      <4>1. t.rejected \cup {h} \in SUBSET Nat
        BY DEF TxOK, TxShape, TxType
      <4>2. s = [t EXCEPT !.rejected = t.rejected \cup {h}]
        BY <3>2
      <4> QED  BY <4>1, <4>2, RejectShape DEF TxOK
    <3> QED  BY <1>2, <3>1, <3>2 DEF Reject
  <2>2. Usable(s, h)
    BY <1>2, <2>1 DEF Usable
  <2>3. \A g \in s.rejected \ {h} : g \in DOMAIN t.fate /\ t.fate[g] \in {"dropped", "failed"}
    BY <2>1 DEF TxOK, Rejections
  <2>4. CASE h = 1
    <3>1. PICK f \in {"dropped", "failed"} : u = Over(s, f, {})
      BY <2>2, <2>4 DEF Rollback, RollbackRoot
    <3>2. f \in Fate \ {"open"} /\ {} \in SUBSET Nat
      BY DEF Fate
    <3>3. /\ TxShape(u)
          /\ u.fate[1] = f /\ DOMAIN u.fate = DOMAIN s.fate
          /\ \A g \in DOMAIN s.fate \ {1} : u.fate[g] = s.fate[g]
          /\ u.durable = {} /\ u.rejected = s.rejected
      BY <2>1, <3>1, <3>2, OverFacts
    <3> QED  BY <2>1, <2>3, <2>4, <3>3 DEF Ended, TxOK, Rejections, Outcome
  <2>5. CASE h # 1
    <3>1. u \in {RollbackTo(s, h), Unsent(s, h), Lost(Unsent(s, h))}
      BY <2>2, <2>5 DEF Rollback
    <3>2. Finished(s, h, u, {"dropped", "failed"})
      <4>1. CASE u = RollbackTo(s, h)
        BY <2>1, <2>2, <2>5, <4>1, RollbackToShape
      <4>2. CASE u \in {Unsent(s, h), Lost(Unsent(s, h))}
        BY <2>1, <2>2, <2>5, <4>2, UnsentShape DEF Finished
      <4> QED  BY <3>1, <4>1, <4>2
    <3>3. Rejections(u)
      BY <2>1, <2>3, <3>2 DEF Finished, Rejections
    <3> QED  BY <2>1, <2>5, <3>2, <3>3 DEF Ended, Finished, TxOK, Outcome
  <2> QED  BY <2>4, <2>5
<1> QED  BY <1>1, <1>2

-------------------------------------------------------------------------------
(* The work of a transaction, as NestedScopes has it.                      *)

\* What can be seen of a transaction is its fate, its writes and its status.
LEMMA SameWork ==
    ASSUME NEW t, NEW u, u.fate = t.fate, u.under = t.under, u.pending = t.pending,
           u.durable = t.durable, u.status = t.status
    PROVE  Work(u) = Work(t)
  BY DEF Work, OpenHandles, Effects

LEMMA WorkFields ==
    ASSUME NEW t
    PROVE  /\ t.fate[1] = "open" => Work(t).open = OpenHandles(t)
           /\ t.fate[1] # "open" => Work(t).open = {}
           /\ Work(t).begun = Len(t.fate) /\ Work(t).state = t.status
           /\ Work(t).written = Len(t.under)
           /\ Work(t).effects = Effects(t, t.pending)
           /\ Work(t).durable = Effects(t, t.durable)
  BY DEF Work

\* A record of work, field by field, and what NestedScopes makes of it.
Record(o, b, s, n, e, d) ==
    [open |-> o, begun |-> b, state |-> s, written |-> n, effects |-> e, durable |-> d]

LEMMA WorkRecord ==
    ASSUME NEW t, NEW o, o = Work(t).open
    PROVE  Work(t) = Record(o, Len(t.fate), t.status, Len(t.under),
                            Effects(t, t.pending), Effects(t, t.durable))
  BY DEF Work, Record

LEMMA BegunRecord ==
    ASSUME NEW o, NEW b \in Nat, NEW s, NEW n, NEW e, NEW d
    PROVE  Scopes!Begun(Record(o, b, s, n, e, d))
             = Record(o \cup {b + 1}, b + 1, s, n, e, d)
<1> DEFINE r == Record(o, b, s, n, e, d)
           c == b + 1
<1>1. r.begun = b /\ r.open = o
  BY DEF Record
<1> HIDE DEF r
<1>2. Scopes!Begun(r) = [r EXCEPT !.begun = c, !.open = o \cup {c}]
  BY <1>1 DEF Scopes!Begun
<1> HIDE DEF c
<1>3. [r EXCEPT !.begun = c] = Record(o, c, s, n, e, d)
  BY DEF Record, r
<1>4. [Record(o, c, s, n, e, d) EXCEPT !.open = o \cup {c}]
        = Record(o \cup {c}, c, s, n, e, d)
  BY DEF Record
<1> QED  BY <1>2, <1>3, <1>4 DEF r, c

LEMMA WroteRecord ==
    ASSUME NEW o, NEW b, NEW s, NEW n \in Nat, NEW e, NEW d
    PROVE  Scopes!Wrote(Record(o, b, s, n, e, d))
             = Record(o, b, s, n + 1, e \cup {[id |-> n + 1, in |-> o]}, d)
<1> DEFINE r == Record(o, b, s, n, e, d)
           x == e \cup {[id |-> n + 1, in |-> o]}
<1>1. r.written = n /\ r.effects = e /\ r.open = o
  BY DEF Record
<1>2. [r EXCEPT !.written = n + 1] = Record(o, b, s, n + 1, e, d)
  BY DEF Record
<1>3. ASSUME NEW y
      PROVE  [Record(o, b, s, n + 1, e, d) EXCEPT !.effects = y]
               = Record(o, b, s, n + 1, y, d)
  BY DEF Record
<1> HIDE DEF r
<1>4. Scopes!Wrote(r) = [r EXCEPT !.written = n + 1, !.effects = x]
  BY <1>1 DEF Scopes!Wrote
<1> HIDE DEF x
<1>5. [Record(o, b, s, n + 1, e, d) EXCEPT !.effects = x] = Record(o, b, s, n + 1, x, d)
  BY <1>3
<1> QED  BY <1>2, <1>4, <1>5 DEF r, x

LEMMA DoomedRecord ==
    ASSUME NEW o, NEW b, NEW s, NEW n, NEW e, NEW d, NEW state
    PROVE  Scopes!Doomed(Record(o, b, s, n, e, d), state) = Record(o, b, state, n, e, d)
  BY DEF Record, Scopes!Doomed

LEMMA KeptRecord ==
    ASSUME NEW o, NEW b, NEW s, NEW n, NEW e, NEW d, NEW h
    PROVE  Scopes!Kept(Record(o, b, s, n, e, d), h) = Record(o \ {h}, b, s, n, e, d)
  BY DEF Record, Scopes!Kept

Changed(w, o, s, e) == [w EXCEPT !.open = o, !.state = s, !.effects = e]

LEMMA ChangedRecord ==
    ASSUME NEW o, NEW b, NEW s, NEW n, NEW e, NEW d, NEW p, NEW q, NEW y
    PROVE  Changed(Record(o, b, s, n, e, d), p, q, y) = Record(p, b, q, n, y, d)
<1>1. [Record(o, b, s, n, e, d) EXCEPT !.open = p] = Record(p, b, s, n, e, d)
  BY DEF Record
<1>2. [Record(p, b, s, n, e, d) EXCEPT !.state = q] = Record(p, b, q, n, e, d)
  BY DEF Record
<1>3. [Record(p, b, q, n, e, d) EXCEPT !.effects = y] = Record(p, b, q, n, y, d)
  BY DEF Record
<1> QED  BY <1>1, <1>2, <1>3 DEF Changed

LEMMA DroppedRecord ==
    ASSUME NEW o, NEW b, NEW s, NEW n, NEW e, NEW d, NEW h,
           NEW r, r = Record(o, b, s, n, e, d)
    PROVE  Scopes!Dropped(r, h)
             = Record(o \ {h}, b, "active", n, Scopes!Spared(e, h), d)
<1>1. r.open = o /\ r.effects = e
  BY DEF Record
<1>2. Scopes!Dropped(r, h) = Changed(r, o \ {h}, "active", Scopes!Spared(e, h))
  BY <1>1 DEF Scopes!Dropped, Changed
<1> QED  BY <1>2, ChangedRecord

LEMMA OverRecord ==
    ASSUME NEW o, NEW b, NEW s, NEW n, NEW e, NEW d, NEW x
    PROVE  Scopes!Over(Record(o, b, s, n, e, d), x) = Record({}, b, "over", n, {}, x)
<1> DEFINE r == Record(o, b, s, n, e, d)
<1>1. [r EXCEPT !.open = {}] = Record({}, b, s, n, e, d)
  BY DEF Record
<1>2. [Record({}, b, s, n, e, d) EXCEPT !.state = "over"] = Record({}, b, "over", n, e, d)
  BY DEF Record
<1>3. [Record({}, b, "over", n, e, d) EXCEPT !.effects = {}]
        = Record({}, b, "over", n, {}, d)
  BY DEF Record
<1>4. [Record({}, b, "over", n, {}, d) EXCEPT !.durable = x]
        = Record({}, b, "over", n, {}, x)
  BY DEF Record
<1> QED  BY <1>1, <1>2, <1>3, <1>4 DEF Scopes!Over

LEMMA RootIsOpen ==
    ASSUME NEW t, TxShape(t), t.fate[1] = "open"
    PROVE  Work(t).open # {}
<1>1. 1 \in DOMAIN t.fate
  BY DEF TxShape, TxType
<1>2. 1 \in OpenHandles(t)
  BY <1>1 DEF OpenHandles
<1> QED  BY <1>2, WorkFields

LEMMA NewWork == Work(NewTx) = Scopes!New
<1>1. /\ NewTx.fate = << "open" >> /\ NewTx.under = <<>> /\ NewTx.status = "active"
      /\ NewTx.pending = {} /\ NewTx.durable = {}
  BY DEF NewTx
<1>2. << "open" >>[1] = "open" /\ Len(<< "open" >>) = 1 /\ DOMAIN << "open" >> = {1}
      /\ Len(<<>>) = 0
  OBVIOUS
<1>3. OpenHandles(NewTx) = {1}
  BY <1>1, <1>2 DEF OpenHandles
<1>4. \A t : Effects(t, {}) = {}
  BY DEF Effects
<1> QED  BY <1>1, <1>2, <1>3, <1>4 DEF Work, Scopes!New

\* SAVEPOINT begins a scope.
LEMMA MarkWork ==
    ASSUME NEW t, TxShape(t), t.fate[1] = "open"
    PROVE  Work(Marked(t)) = Scopes!Begun(Work(t))
<1> DEFINE u == Marked(t)
           h == Len(t.fate) + 1
<1>1. t.fate \in Seq(Fate) /\ t.fate # <<>> /\ "open" \in Fate
  BY DEF TxShape, TxType, Fate
<1>2. /\ u.fate = Append(t.fate, "open") /\ u.under = t.under /\ u.status = t.status
      /\ u.pending = t.pending /\ u.durable = t.durable
  BY DEF Marked, TxShape, TxType
<1>3. /\ DOMAIN u.fate = DOMAIN t.fate \cup {h} /\ Len(u.fate) = h
      /\ u.fate[h] = "open" /\ \A g \in DOMAIN t.fate : u.fate[g] = t.fate[g]
      /\ 1 \in DOMAIN t.fate
  BY <1>1, <1>2, AppendFacts
<1> HIDE DEF u, h
<1>4. OpenHandles(u) = OpenHandles(t) \cup {h} /\ u.fate[1] = "open"
  BY <1>3 DEF OpenHandles
<1>5. \A writes : Effects(u, writes) = Effects(t, writes)
  BY <1>2 DEF Effects
<1>6. Work(u) = Record(OpenHandles(t) \cup {h}, h, t.status, Len(t.under),
                       Effects(t, t.pending), Effects(t, t.durable))
  BY <1>2, <1>3, <1>4, <1>5 DEF Work, Record
<1>7. Work(t) = Record(OpenHandles(t), Len(t.fate), t.status, Len(t.under),
                       Effects(t, t.pending), Effects(t, t.durable))
  BY DEF Work, Record
<1>8. Scopes!Begun(Work(t)) = Work(u)
  BY <1>1, <1>6, <1>7, BegunRecord DEF h
<1> QED  BY <1>8 DEF u

\* A write is an effect inside the scopes that are open.
LEMMA WriteWork ==
    ASSUME NEW t, TxShape(t), t.fate[1] = "open", t.status = "active"
    PROVE  Work(Written(t)) = Scopes!Wrote(Work(t))
<1> DEFINE u == Written(t)
           n == Len(t.under) + 1
<1>1. /\ t.under \in Seq(SUBSET Nat) /\ OpenHandles(t) \in SUBSET Nat
      /\ t.pending = Outside(t, {}) /\ t.durable = {}
  BY DEF TxShape, TxType, OpenHandles, Pending
<1>2. /\ u.fate = t.fate /\ u.under = Append(t.under, OpenHandles(t))
      /\ u.status = t.status /\ u.pending = t.pending \cup {n} /\ u.durable = t.durable
  BY DEF Written, TxShape, TxType
<1>3. /\ Len(u.under) = n /\ u.under[n] = OpenHandles(t)
      /\ \A w \in DOMAIN t.under : u.under[w] = t.under[w]
  BY <1>1, <1>2
<1> HIDE DEF u, n
<1>4. OpenHandles(u) = OpenHandles(t)
  BY <1>2 DEF OpenHandles
<1>5. t.pending \subseteq DOMAIN t.under
  BY <1>1 DEF Outside
<1> DEFINE effects == Effects(t, t.pending) \cup {[id |-> n, in |-> OpenHandles(t)]}
<1>6. Effects(u, u.pending) = effects
  BY <1>2, <1>3, <1>5 DEF Effects
<1>7. Effects(u, u.durable) = Effects(t, t.durable)
  BY <1>1, <1>2 DEF Effects
<1> HIDE DEF effects
<1>8. Work(u) = Record(OpenHandles(t), Len(t.fate), t.status, n,
                       effects, Effects(t, t.durable))
  BY <1>1, <1>2, <1>3, <1>4, <1>6, <1>7 DEF Work, Record
<1>9. Work(t) = Record(OpenHandles(t), Len(t.fate), t.status, Len(t.under),
                       Effects(t, t.pending), Effects(t, t.durable))
  BY DEF Work, Record
<1>10. Scopes!Wrote(Work(t)) = Work(u)
  BY <1>1, <1>8, <1>9, WroteRecord DEF n, effects
<1> QED  BY <1>10 DEF u

\* A statement that fails.
LEMMA FailWork ==
    ASSUME NEW t, TxShape(t), t.status = "active", NEW u \in {Aborted(t), Lost(t)}
    PROVE  \E state \in {"aborted", "lost"} : Work(u) = Scopes!Doomed(Work(t), state)
<1>1. /\ u.fate = t.fate /\ u.under = t.under /\ u.status \in {"aborted", "lost"}
      /\ u.pending = t.pending /\ u.durable = t.durable
  BY DEF Aborted, Lost, TxShape, TxType
<1>2. Work(u) = Record(Work(t).open, Len(t.fate), u.status, Len(t.under),
                       Effects(t, t.pending), Effects(t, t.durable))
  BY <1>1 DEF Work, Record, OpenHandles, Effects
<1>3. Work(u) = Scopes!Doomed(Work(t), u.status)
  BY <1>2, WorkRecord, DoomedRecord
<1> QED  BY <1>1, <1>3

\* A scope is kept or dropped.
Closing(w, v, s) ==
    /\ s \in w.open \ {1}
    /\ \/ \E state \in {w.state, "aborted", "lost"} :
            /\ w.state = "lost" => state = "lost"
            /\ v = Scopes!Doomed(Scopes!Kept(w, s), state)
       \/ w.state # "lost" /\ v = Scopes!Dropped(w, s)

LEMMA CloseWork ==
    ASSUME NEW t, TxShape(t), NEW h \in DOMAIN t.fate, h # 1, Usable(t, h),
           NEW u, Closes(t, h, u)
    PROVE  Closing(Work(t), Work(u), h)
<1>1. PICK f \in {"kept", "dropped", "failed"} : u.fate = Fates(t, h, f)
  BY DEF Closes
<1>2. /\ t.fate[1] = "open" /\ t.fate[h] = "open" /\ u.fate[1] = "open"
      /\ DOMAIN u.fate = DOMAIN t.fate /\ u.fate[h] # "open"
      /\ \A g \in DOMAIN t.fate \ {h} : u.fate[g] = t.fate[g]
      /\ u.fate \in Seq(Fate) /\ t.fate \in Seq(Fate) /\ t.status # "over"
      /\ t.status \in {"active", "aborted", "lost", "over"}
  BY <1>1, FateFacts DEF TxType
<1>3. OpenHandles(u) = OpenHandles(t) \ {h} /\ h \in OpenHandles(t)
  BY <1>2 DEF OpenHandles
<1>4. Len(u.fate) = Len(t.fate)
  BY <1>2
<1>5. u.under = t.under /\ u.durable = t.durable
      /\ \A writes : Effects(u, writes) = Effects(t, writes)
  BY DEF Closes, Effects
<1> DEFINE w == Work(t)
           o == OpenHandles(t)
           d == Effects(t, t.durable)
<1>6. w = Record(o, Len(t.fate), t.status, Len(t.under), Effects(t, t.pending), d)
      /\ w.open = o /\ w.state = t.status
  BY <1>2, WorkFields DEF Work, Record
<1>7. Work(u) = Record(o \ {h}, Len(t.fate), u.status, Len(t.under),
                       Effects(t, u.pending), d)
  BY <1>2, <1>3, <1>4, <1>5 DEF Work, Record
<1> HIDE DEF w, o, d
<1>8. CASE /\ u.pending = t.pending /\ u.status \in {t.status, "aborted", "lost"}
           /\ t.status = "lost" => u.status = "lost"
  <2>1. Work(u) = Scopes!Doomed(Scopes!Kept(w, h), u.status)
    BY <1>6, <1>7, <1>8, KeptRecord, DoomedRecord
  <2> QED  BY <1>3, <1>6, <1>8, <2>1 DEF Closing, w, o
<1>9. CASE /\ u.pending = Outside(t, {h})
           /\ u.status = "active" /\ t.status # "lost"
  <2>1. t.pending = Outside(t, {})
    BY <1>2, <1>9 DEF TxShape, Pending
  <2>2. Scopes!Spared(Effects(t, t.pending), h) = Effects(t, u.pending)
    BY <1>9, <2>1 DEF Effects, Outside, Scopes!Spared
  <2>3. Work(u) = Scopes!Dropped(w, h)
    BY <1>6, <1>7, <1>9, <2>2, DroppedRecord
  <2> QED  BY <1>3, <1>6, <1>9, <2>3 DEF Closing, w, o
<1> QED  BY <1>8, <1>9 DEF Closes

\* The root is ended, and some of the work is durable then.
Ending(t, u, durable) ==
    /\ Usable(t, 1) /\ Work(t).open # {}
    /\ Work(u) = Scopes!Over(Work(t), durable)

LEMMA OverWork ==
    ASSUME NEW t, TxShape(t), Usable(t, 1), NEW f \in Fate \ {"open"},
           NEW d \in SUBSET Nat, NEW u, u = Over(t, f, d)
    PROVE  Ending(t, u, Effects(t, d))
<1>1. /\ TxShape(u) /\ u.fate[1] = f /\ DOMAIN u.fate = DOMAIN t.fate
      /\ u.under = t.under /\ u.durable = d
      /\ u.status = "over" /\ u.pending = {}
  BY OverFacts
<1>2. Len(u.fate) = Len(t.fate)
  BY <1>1 DEF TxShape, TxType
<1>3. \A writes : Effects(u, writes) = Effects(t, writes)
  BY <1>1 DEF Effects
<1>4. Effects(t, {}) = {}
  BY DEF Effects
<1> DEFINE effects == Effects(t, d)
<1> HIDE DEF effects
<1>5. Work(u) = Record({}, Len(t.fate), "over", Len(t.under), {}, effects)
  BY <1>1, <1>2, <1>3, <1>4 DEF Work, Record, effects
<1>6. Work(u) = Scopes!Over(Work(t), effects)
  BY <1>5, WorkRecord, OverRecord
<1> QED  BY <1>6, RootIsOpen DEF Ending, Usable, effects

\* A transaction whose root is committed was active, and all its work is kept.
LEMMA CommitWork ==
    ASSUME NEW t, TxOK(t), NEW h \in DOMAIN t.fate, NEW u \in Commit(t, h)
    PROVE  \/ ~Usable(t, h) /\ u = t
           \/ h # 1 /\ u.fate[1] = "open" /\ Closing(Work(t), Work(u), h)
           \/ h = 1 /\ t.status = "active" /\ Ending(t, u, Work(t).effects)
           \/ h = 1 /\ u.fate[1] # "kept" /\ Ending(t, u, {})
<1>1. TxShape(t) /\ t.pending \in SUBSET Nat /\ {} \in SUBSET Nat
  BY DEF TxOK, TxShape, TxType
<1>2. CASE ~Usable(t, h)
  BY <1>2 DEF Commit
<1>3. CASE Usable(t, h) /\ h = 1
  <2>1. PICK f \in {"kept", "unknown", "failed"}, d \in {t.pending, {}} :
          /\ u = Over(t, f, d)
          /\ f = "failed" => d = {}
          /\ f = "kept" => d = t.pending
          /\ f # "failed" => t.status = "active"
    BY <1>3 DEF Commit, CommitRoot
  <2>2. f \in Fate \ {"open"} /\ d \in SUBSET Nat
    BY <1>1 DEF Fate
  <2>3. u.fate[1] = f
    BY <1>1, <2>1, <2>2, OverFacts
  <2>4. Ending(t, u, Effects(t, d))
    BY <1>1, <1>3, <2>1, <2>2, OverWork
  <2>5. Effects(t, {}) = {} /\ Work(t).effects = Effects(t, t.pending)
    BY WorkFields DEF Effects
  <2>6. CASE f # "failed" /\ d = t.pending
    BY <1>3, <2>1, <2>4, <2>5, <2>6
  <2>7. CASE f # "kept" /\ d = {}
    BY <1>3, <2>3, <2>4, <2>5, <2>7
  <2> QED  BY <2>1, <2>6, <2>7
<1>4. CASE Usable(t, h) /\ h # 1
  <2>1. Finished(t, h, u, {"kept", "failed"})
    <3>1. u \in {Release(t, h), Unsent(t, h), Lost(Unsent(t, h))}
      BY <1>4 DEF Commit
    <3>2. CASE u = Release(t, h)
      BY <1>1, <1>4, <3>2, ReleaseShape
    <3>3. CASE u \in {Unsent(t, h), Lost(Unsent(t, h))}
      BY <1>1, <1>4, <3>3, UnsentShape DEF Finished
    <3> QED  BY <3>1, <3>2, <3>3
  <2> QED  BY <1>1, <1>4, <2>1, CloseWork DEF Finished
<1> QED  BY <1>2, <1>3, <1>4

\* Nothing of a transaction whose root is rolled back is kept.
LEMMA RollbackWork ==
    ASSUME NEW t, TxOK(t), NEW h \in DOMAIN t.fate,
           NEW s \in {t, Reject(t, h)}, NEW u \in Rollback(s, h)
    PROVE  \/ ~Usable(t, h) /\ u = t
           \/ h # 1 /\ Closing(Work(t), Work(u), h)
           \/ h = 1 /\ Ending(t, u, {})
<1>1. CASE ~Usable(t, h)
  BY <1>1 DEF Rollback, Reject
<1>2. CASE Usable(t, h)
  <2>1. /\ TxShape(s) /\ s.fate = t.fate /\ s.under = t.under /\ s.status = t.status
        /\ s.pending = t.pending /\ s.durable = t.durable
    <3>1. CASE s = t
      BY <3>1 DEF TxOK
    <3>2. CASE s = [t EXCEPT !.rejected = @ \cup {h}]
      <4>1. t.rejected \cup {h} \in SUBSET Nat
        BY DEF TxOK, TxShape, TxType
      <4>2. s = [t EXCEPT !.rejected = t.rejected \cup {h}]
        BY <3>2
      <4> QED  BY <4>1, <4>2, RejectShape DEF TxOK
    <3> QED  BY <1>2, <3>1, <3>2 DEF Reject
  <2>2. Usable(s, h) /\ Work(s) = Work(t) /\ h \in DOMAIN s.fate
    BY <1>2, <2>1, SameWork DEF Usable
  <2>3. CASE h = 1
    <3>1. PICK f \in {"dropped", "failed"} : u = Over(s, f, {})
      BY <2>2, <2>3 DEF Rollback, RollbackRoot
    <3>2. f \in Fate \ {"open"} /\ {} \in SUBSET Nat
      BY DEF Fate
    <3>3. Ending(s, u, Effects(s, {}))
      BY <2>1, <2>2, <2>3, <3>1, <3>2, OverWork
    <3>4. Effects(s, {}) = {}
      BY DEF Effects
    <3> QED  BY <1>2, <2>2, <2>3, <3>3, <3>4 DEF Ending
  <2>4. CASE h # 1
    <3>1. u \in {RollbackTo(s, h), Unsent(s, h), Lost(Unsent(s, h))}
      BY <2>2, <2>4 DEF Rollback
    <3>2. Finished(s, h, u, {"dropped", "failed"})
      <4>1. CASE u = RollbackTo(s, h)
        BY <2>1, <2>2, <2>4, <4>1, RollbackToShape
      <4>2. CASE u \in {Unsent(s, h), Lost(Unsent(s, h))}
        BY <2>1, <2>2, <2>4, <4>2, UnsentShape DEF Finished
      <4> QED  BY <3>1, <4>1, <4>2
    <3>3. Closing(Work(s), Work(u), h)
      BY <2>1, <2>2, <2>4, <3>2, CloseWork DEF Finished
    <3> QED  BY <2>2, <2>4, <3>3
  <2> QED  BY <2>3, <2>4
<1> QED  BY <1>1, <1>2

-------------------------------------------------------------------------------
(* The calls.                                                              *)

CallTypes ==
    /\ stage \in [Caller -> {"waiting", "callback", "diverted", "returned"}]
    /\ frames \in [Caller -> Seq(Nat)]
    /\ held \in [Caller -> SUBSET {"tx", "pool"}]
    /\ tx \in [Caller -> TxType]
    /\ outcome \in [Caller -> {"none", "nil", "error", "panic"}]

\* The callbacks running are those of handles there are, the outermost that of
\* the root, so the last one to be left finishes it.
FramesOf(c) ==
    stage[c] \in {"callback", "diverted"} =>
        /\ frames[c] # <<>> /\ frames[c][1] = 1
        /\ \A i \in DOMAIN frames[c] : frames[c][i] \in DOMAIN tx[c].fate

\* The connection of the transaction is held while its root is open, and a
\* second one only during a call through the pool.
HeldOf(c) ==
    /\ stage[c] \in {"waiting", "returned"} => held[c] = {}
    /\ stage[c] # "diverted" => "pool" \notin held[c]
    /\ tx[c].fate[1] # "open" => "tx" \notin held[c]

CallOK(c) ==
    /\ TxOK(tx[c])
    /\ FramesOf(c)
    /\ HeldOf(c)
    /\ stage[c] = "waiting" => tx[c] = NewTx
    /\ stage[c] # "returned" => outcome[c] = "none"
    /\ outcome[c] = "nil" => stage[c] = "returned" /\ tx[c].fate[1] = "kept"

IInv == CallTypes /\ \A c \in Caller : CallOK(c)

LEMMA InitOK == Init => IInv
<1> SUFFICES ASSUME Init PROVE IInv
  OBVIOUS
<1>1. NewTx \in TxType /\ TxOK(NewTx) /\ NewTx.fate[1] = "open"
  BY NewOK DEF TxOK, TxShape, NewTx
<1>2. <<>> \in Seq(Nat)
  OBVIOUS
<1>3. CallTypes
  BY <1>1, <1>2 DEF Init, CallTypes
<1>4. ASSUME NEW c \in Caller PROVE CallOK(c)
  BY <1>1 DEF Init, CallOK, FramesOf, HeldOf
<1> QED  BY <1>3, <1>4 DEF IInv

\* A step of one caller leaves the others as they are.
Alone(c) ==
    \A d \in Caller \ {c} :
        /\ stage'[d] = stage[d] /\ frames'[d] = frames[d] /\ held'[d] = held[d]
        /\ tx'[d] = tx[d] /\ outcome'[d] = outcome[d]

LEMMA OthersOK ==
    ASSUME IInv, NEW c \in Caller, Alone(c), CallTypes', CallOK(c)'
    PROVE  IInv'
<1>1. ASSUME NEW d \in Caller \ {c} PROVE CallOK(d)'
  <2>1. CallOK(d)
    BY DEF IInv
  <2> QED  BY <2>1 DEF Alone, CallOK, FramesOf, HeldOf
<1> QED  BY <1>1 DEF IInv

\* Leaving a callback finishes its handle; the outermost one is that of the
\* root, whose end gives the connection back.
LEMMA LeaveOK ==
    ASSUME IInv, NEW c \in Caller, stage[c] = "callback",
           NEW t, Ended(tx[c], Top(c), t),
           NEW end \in {"nil", "error", "panic"}, end = "nil" => t.fate[1] = "kept",
           NEW then, Leave(c, t, end, then)
    PROVE  IInv'
<1> DEFINE n == Len(frames[c])
           left == SubSeq(frames[c], 1, n - 1)
<1>1. /\ CallTypes /\ TxOK(tx[c]) /\ FramesOf(c) /\ HeldOf(c)
      /\ outcome[c] = "none"
  BY DEF IInv, CallOK
<1>2. /\ frames[c] \in Seq(Nat) /\ frames[c] # <<>> /\ frames[c][1] = 1
      /\ \A i \in DOMAIN frames[c] : frames[c][i] \in DOMAIN tx[c].fate
  BY <1>1 DEF CallTypes, FramesOf
<1>3. n \in Nat \ {0} /\ n - 1 \in 0 .. n
  BY <1>2
<1>4. /\ left \in Seq(Nat) /\ DOMAIN left = 1 .. (n - 1)
      /\ \A i \in 1 .. (n - 1) : left[i] = frames[c][i] /\ i \in DOMAIN frames[c]
  BY <1>2, <1>3, PrefixFacts
<1> HIDE DEF n, left
<1>5. /\ TxOK(t) /\ t \in TxType /\ DOMAIN t.fate = DOMAIN tx[c].fate
      /\ n = 1 => t.fate[1] # "open"
  BY <1>2 DEF Ended, TxOK, TxShape, Top, n
<1>6. /\ tx' = [tx EXCEPT ![c] = t]
      /\ held' = [held EXCEPT ![c] = Released(c, t)]
      /\ frames' = [frames EXCEPT ![c] = left]
      /\ n = 1 => /\ stage' = [stage EXCEPT ![c] = "returned"]
                  /\ outcome' = [outcome EXCEPT ![c] = end]
      /\ n # 1 => UNCHANGED <<stage, outcome>>
  BY DEF Leave, Becomes, left, n
<1>7. Released(c, t) \subseteq held[c]
  BY DEF Released
<1>8. CallTypes'
  <2>1. tx' \in [Caller -> TxType] /\ frames' \in [Caller -> Seq(Nat)]
    BY <1>1, <1>4, <1>5, <1>6 DEF CallTypes
  <2>2. held' \in [Caller -> SUBSET {"tx", "pool"}]
    BY <1>1, <1>6, <1>7 DEF CallTypes
  <2>3. /\ stage' \in [Caller -> {"waiting", "callback", "diverted", "returned"}]
        /\ outcome' \in [Caller -> {"none", "nil", "error", "panic"}]
    BY <1>1, <1>6 DEF CallTypes
  <2> QED  BY <2>1, <2>2, <2>3 DEF CallTypes
<1>9. Alone(c)
  BY <1>1, <1>6 DEF CallTypes, Alone
<1>10. /\ tx'[c] = t /\ held'[c] = Released(c, t) /\ frames'[c] = left
       /\ n = 1 => stage'[c] = "returned" /\ outcome'[c] = end
       /\ n # 1 => stage'[c] = "callback" /\ outcome'[c] = outcome[c]
  BY <1>1, <1>6 DEF CallTypes
<1>11. FramesOf(c)'
  <2>1. ASSUME n # 1 PROVE left # <<>> /\ left[1] = 1
    <3>1. 1 \in 1 .. (n - 1)
      BY <1>3, <2>1
    <3>2. left[1] = 1 /\ 1 \in DOMAIN left
      BY <1>2, <1>4, <3>1
    <3>3. DOMAIN <<>> = {}
      OBVIOUS
    <3> QED  BY <3>2, <3>3
  <2> QED  BY <1>2, <1>4, <1>5, <1>10, <2>1 DEF FramesOf
<1>12. HeldOf(c)'
  <2>1. held[c] \subseteq {"tx"}
    BY <1>1 DEF CallTypes, HeldOf
  <2> QED  BY <1>5, <1>10, <2>1 DEF HeldOf, Released
<1>13. CallOK(c)'
  BY <1>1, <1>5, <1>10, <1>11, <1>12 DEF CallOK
<1> QED  BY <1>8, <1>9, <1>13, OthersOK

\* What a callback does with its transaction while it runs.
LEMMA BecomesOK ==
    ASSUME IInv, NEW c \in Caller, stage[c] = "callback",
           NEW t, TxOK(t), DOMAIN tx[c].fate \subseteq DOMAIN t.fate,
           Becomes(c, t), UNCHANGED <<stage, outcome>>,
           \/ frames' = frames
           \/ \E h \in DOMAIN t.fate : frames' = [frames EXCEPT ![c] = Append(@, h)]
    PROVE  IInv'
<1>1. CallTypes /\ FramesOf(c) /\ HeldOf(c) /\ outcome[c] = "none"
  BY DEF IInv, CallOK
<1>2. /\ frames[c] \in Seq(Nat) /\ frames[c] # <<>> /\ frames[c][1] = 1
      /\ \A i \in DOMAIN frames[c] : frames[c][i] \in DOMAIN tx[c].fate
  BY <1>1 DEF CallTypes, FramesOf
<1>3. /\ tx' = [tx EXCEPT ![c] = t]
      /\ held' = [held EXCEPT ![c] = Released(c, t)]
  BY DEF Becomes
<1>4. Released(c, t) \subseteq held[c] /\ t \in TxType /\ t.fate \in Seq(Fate)
  BY DEF Released, TxOK, TxShape, TxType
<1>5. PICK f \in Seq(Nat) :
        /\ frames' = [frames EXCEPT ![c] = f]
        /\ f # <<>> /\ f[1] = 1
        /\ \A i \in DOMAIN f : f[i] \in DOMAIN t.fate
  <2>1. CASE frames' = frames
    <3>1. frames = [frames EXCEPT ![c] = frames[c]]
      BY <1>1 DEF CallTypes
    <3> QED  BY <1>2, <2>1, <3>1
  <2>2. ASSUME NEW h \in DOMAIN t.fate, frames' = [frames EXCEPT ![c] = Append(@, h)]
        PROVE  \E f \in Seq(Nat) :
                /\ frames' = [frames EXCEPT ![c] = f]
                /\ f # <<>> /\ f[1] = 1
                /\ \A i \in DOMAIN f : f[i] \in DOMAIN t.fate
    <3> DEFINE f == Append(frames[c], h)
    <3>1. h \in Nat
      BY <1>4
    <3>2. /\ f \in Seq(Nat) /\ DOMAIN f = DOMAIN frames[c] \cup {Len(frames[c]) + 1}
          /\ \A i \in DOMAIN frames[c] : f[i] = frames[c][i]
          /\ f[Len(frames[c]) + 1] = h /\ 1 \in DOMAIN frames[c] /\ f # <<>>
      BY <1>2, <3>1, AppendFacts
    <3> HIDE DEF f
    <3>4. f # <<>> /\ f[1] = 1 /\ \A i \in DOMAIN f : f[i] \in DOMAIN t.fate
      BY <1>2, <3>2
    <3>3. frames' = [frames EXCEPT ![c] = f]
      BY <1>1, <2>2 DEF CallTypes, f
    <3> QED  BY <3>2, <3>3, <3>4
  <2> QED  BY <2>1, <2>2
<1>6. CallTypes'
  <2>1. tx' \in [Caller -> TxType] /\ frames' \in [Caller -> Seq(Nat)]
    BY <1>1, <1>3, <1>4, <1>5 DEF CallTypes
  <2>2. held' \in [Caller -> SUBSET {"tx", "pool"}]
    BY <1>1, <1>3, <1>4 DEF CallTypes
  <2> QED  BY <1>1, <2>1, <2>2 DEF CallTypes
<1>7. Alone(c)
  BY <1>1, <1>3, <1>5 DEF CallTypes, Alone
<1>8. /\ tx'[c] = t /\ held'[c] = Released(c, t) /\ frames'[c] = f
      /\ stage'[c] = "callback" /\ outcome'[c] = outcome[c]
  BY <1>1, <1>3, <1>5 DEF CallTypes
<1>9. FramesOf(c)'
  BY <1>5, <1>8 DEF FramesOf
<1>10. HeldOf(c)'
  BY <1>1, <1>4, <1>8 DEF HeldOf, Released
<1>11. CallOK(c)'
  BY <1>1, <1>8, <1>9, <1>10 DEF CallOK
<1> QED  BY <1>6, <1>7, <1>11, OthersOK

\* The transaction's own steps aside, a call moves on with its connections.
LEMMA MovesOK ==
    ASSUME IInv, NEW c \in Caller, UNCHANGED tx,
           NEW to \in {"callback", "diverted", "returned"}, stage[c] # "returned",
           stage' = [stage EXCEPT ![c] = to],
           NEW conns \in SUBSET {"tx", "pool"}, held' = [held EXCEPT ![c] = conns],
           to = "returned" => conns = {},
           to = "callback" => "pool" \notin conns,
           tx[c].fate[1] # "open" => "tx" \notin conns,
           \/ to = "returned" /\ outcome' = [outcome EXCEPT ![c] = "error"]
           \/ outcome' = outcome,
           \/ to = "returned" /\ frames' = frames
           \/ stage[c] = "waiting" /\ frames' = [frames EXCEPT ![c] = << 1 >>]
           \/ stage[c] \in {"callback", "diverted"} /\ frames' = frames
    PROVE  IInv'
<1>1. CallTypes /\ CallOK(c)
  BY DEF IInv
<1>2. << 1 >> \in Seq(Nat) /\ << 1 >> # <<>> /\ DOMAIN << 1 >> = {1} /\ << 1 >>[1] = 1
  OBVIOUS
<1>3. 1 \in DOMAIN tx[c].fate
  BY <1>1 DEF CallOK, TxOK, TxShape, TxType
<1>4. CallTypes'
  <2>1. /\ stage' \in [Caller -> {"waiting", "callback", "diverted", "returned"}]
        /\ outcome' \in [Caller -> {"none", "nil", "error", "panic"}]
    BY <1>1 DEF CallTypes
  <2>2. held' \in [Caller -> SUBSET {"tx", "pool"}]
    BY <1>1 DEF CallTypes
  <2>3. frames' \in [Caller -> Seq(Nat)]
    BY <1>1, <1>2 DEF CallTypes
  <2> QED  BY <1>1, <2>1, <2>2, <2>3 DEF CallTypes
<1>5. Alone(c)
  BY <1>1 DEF CallTypes, Alone
<1>6. stage'[c] = to /\ held'[c] = conns /\ tx'[c] = tx[c] /\ outcome'[c] # "nil"
  BY <1>1 DEF CallTypes, CallOK
<1>7. FramesOf(c)'
  <2> SUFFICES ASSUME to # "returned"
               PROVE  /\ frames'[c] # <<>> /\ frames'[c][1] = 1
                      /\ \A i \in DOMAIN frames'[c] : frames'[c][i] \in DOMAIN tx[c].fate
    BY <1>6 DEF FramesOf
  <2>1. CASE stage[c] = "waiting" /\ frames' = [frames EXCEPT ![c] = << 1 >>]
    <3>1. frames'[c] = << 1 >>
      BY <1>1, <2>1 DEF CallTypes
    <3> QED  BY <1>2, <1>3, <3>1
  <2>2. CASE stage[c] \in {"callback", "diverted"} /\ frames' = frames
    BY <1>1, <2>2 DEF CallOK, FramesOf
  <2> QED  BY <2>1, <2>2
<1>8. HeldOf(c)'
  BY <1>6 DEF HeldOf
<1>9. CallOK(c)'
  BY <1>1, <1>6, <1>7, <1>8 DEF CallOK
<1> QED  BY <1>4, <1>5, <1>9, OthersOK

LEMMA StepOK ==
    ASSUME IInv, NEW c \in Caller, Step(c) \/ Fault(c)
    PROVE  IInv'
<1>1. /\ CallTypes /\ TxOK(tx[c]) /\ FramesOf(c) /\ HeldOf(c)
      /\ stage[c] = "waiting" => tx[c] = NewTx
      /\ held[c] \subseteq {"tx", "pool"}
  BY DEF IInv, CallOK, CallTypes
<1>2. tx[c].fate \in Seq(Fate) /\ tx[c].fate # <<>>
  BY <1>1 DEF TxOK, TxShape, TxType
<1>3. stage[c] = "callback" => Top(c) \in DOMAIN tx[c].fate
  BY <1>1 DEF CallTypes, FramesOf, Top
<1>4. stage[c] \in {"callback", "diverted"} => stage = [stage EXCEPT ![c] = stage[c]]
  BY <1>1 DEF CallTypes
<1>5. CASE Begin(c)
  <2>1. NewTx.fate[1] = "open"
    BY DEF NewTx
  <2> QED  BY <1>1, <1>5, <2>1, MovesOK DEF Begin
<1>6. CASE BeginFails(c)
  <2>1. held = [held EXCEPT ![c] = {}]
    BY <1>1, <1>6 DEF BeginFails, HeldOf, CallTypes
  <2> QED  BY <1>6, <2>1, MovesOK DEF BeginFails
<1>7. CASE ReturnNil(c)
  <2>1. PICK t \in Commit(tx[c], Top(c)) :
          Leave(c, t, IF Usable(tx[c], 1) /\ t.fate[1] = "kept" THEN "nil" ELSE "error",
                "running")
    BY <1>7 DEF ReturnNil
  <2>2. stage[c] = "callback"
    BY <1>7 DEF ReturnNil, InCallback
  <2>3. Ended(tx[c], Top(c), t)
    BY <1>1, <1>3, <2>2, CommitOK
  <2>4. CASE Usable(tx[c], 1) /\ t.fate[1] = "kept"
    BY <2>1, <2>2, <2>3, <2>4, LeaveOK
  <2>5. CASE ~(Usable(tx[c], 1) /\ t.fate[1] = "kept")
    BY <2>1, <2>2, <2>3, <2>5, LeaveOK
  <2> QED  BY <2>4, <2>5
<1>8. CASE ReturnError(c) \/ Panic(c) \/ Unwind(c)
  <2>1. PICK t \in RollbackAnyway(c), end \in {"error", "panic"}, then \in {"running", "panicking"} :
          Leave(c, t, end, then)
    BY <1>8 DEF ReturnError, Panic, Unwind
  <2>2. stage[c] = "callback"
    BY <1>8 DEF ReturnError, Panic, Unwind, InCallback
  <2>3. Ended(tx[c], Top(c), t)
    BY <1>1, <1>3, <2>1, <2>2, RollbackOK DEF RollbackAnyway
  <2> QED  BY <2>1, <2>2, <2>3, LeaveOK
<1>9. CASE Recover(c)
  BY <1>9 DEF Recover, IInv, CallTypes, CallOK, FramesOf, HeldOf
<1>10. ASSUME NEW h \in DOMAIN tx[c].fate, Exec(c, h) PROVE IInv'
  <2>1. /\ stage[c] = "callback" /\ tx[c].fate[1] = "open" /\ tx[c].status = "active"
        /\ Becomes(c, Written(tx[c])) /\ UNCHANGED <<stage, outcome, frames>>
    BY <1>10 DEF Exec, Sends, InCallback, Usable, Stay, Written
  <2>2. TxOK(Written(tx[c])) /\ DOMAIN Written(tx[c]).fate = DOMAIN tx[c].fate
    <3>1. Written(tx[c]).fate = tx[c].fate
      BY <1>1 DEF Written, TxOK, TxShape, TxType
    <3> QED  BY <1>1, <2>1, <3>1, WriteOK
  <2> QED  BY <2>1, <2>2, BecomesOK
<1>11. ASSUME NEW h \in DOMAIN tx[c].fate, ExecFails(c, h) PROVE IInv'
  <2>1. PICK t \in {Aborted(tx[c]), Lost(tx[c])} : Becomes(c, t)
    BY <1>11 DEF ExecFails
  <2>2. /\ stage[c] = "callback" /\ tx[c].fate[1] = "open"
        /\ UNCHANGED <<stage, outcome, frames>>
    BY <1>11 DEF ExecFails, Sends, InCallback, Usable, Stay
  <2>3. t.fate = tx[c].fate
    BY <1>1, <2>1 DEF Aborted, Lost, TxOK, TxShape, TxType
  <2> QED  BY <1>1, <2>1, <2>2, <2>3, FailOK, BecomesOK
<1>12. ASSUME NEW h \in DOMAIN tx[c].fate, BeginNested(c, h) \/ Nest(c, h) PROVE IInv'
  <2> DEFINE g == Len(tx[c].fate) + 1
  <2>1. /\ stage[c] = "callback" /\ tx[c].fate[1] = "open" /\ tx[c].status = "active"
        /\ Becomes(c, Marked(tx[c])) /\ UNCHANGED <<stage, outcome>>
        /\ \/ frames' = frames
           \/ frames' = [frames EXCEPT ![c] = Append(@, g)]
    BY <1>12 DEF BeginNested, Nest, Sends, InCallback, Usable, Stay
  <2>2. Marked(tx[c]).fate = Append(tx[c].fate, "open")
    BY <1>1 DEF Marked, TxOK, TxShape, TxType
  <2>3. "open" \in Fate
    BY DEF Fate
  <2>4. DOMAIN Marked(tx[c]).fate = DOMAIN tx[c].fate \cup {g}
    BY <1>2, <2>2, <2>3, AppendFacts
  <2>5. TxOK(Marked(tx[c]))
    BY <1>1, <2>1, MarkOK
  <2> HIDE DEF g
  <2> QED  BY <2>1, <2>4, <2>5, BecomesOK
<1>13. ASSUME NEW h \in DOMAIN tx[c].fate, Finish(c, h) PROVE IInv'
  <2>1. PICK t \in Commit(tx[c], h) \cup Rollback(tx[c], h) : Becomes(c, t)
    BY <1>13 DEF Finish
  <2>2. stage[c] = "callback" /\ UNCHANGED <<stage, outcome, frames>>
    BY <1>13 DEF Finish, InCallback, Stay
  <2>3. Ended(tx[c], h, t)
    BY <1>1, <2>1, CommitOK, RollbackOK
  <2> QED  BY <2>1, <2>2, <2>3, BecomesOK DEF Ended
<1>14. CASE Divert(c)
  <2>1. held = [held EXCEPT ![c] = held[c]]
    BY <1>1 DEF CallTypes
  <2> QED  BY <1>1, <1>14, <2>1, MovesOK DEF Divert, InCallback, HeldOf
<1>15. CASE Serve(c)
  <2>1. stage[c] = "diverted"
    BY <1>15 DEF Serve, Divertible
  <2>2. held' = [held EXCEPT ![c] = held[c] \cup {"pool"}]
    BY <1>1, <1>15 DEF Serve, CallTypes
  <2> QED  BY <1>1, <1>4, <1>15, <2>1, <2>2, MovesOK DEF Serve, HeldOf
<1>16. CASE Served(c)
  <2>1. stage[c] = "diverted" /\ held' = [held EXCEPT ![c] = held[c] \ {"pool"}]
    BY <1>1, <1>16 DEF Served, CallTypes
  <2> QED  BY <1>1, <1>16, <2>1, MovesOK DEF Served, HeldOf
<1>17. CASE GiveUp(c)
  <2>1. /\ stage[c] = "diverted" /\ "pool" \notin held[c]
        /\ held = [held EXCEPT ![c] = held[c]]
    BY <1>1, <1>17 DEF GiveUp, Divertible, CallTypes
  <2> QED  BY <1>1, <1>17, <2>1, MovesOK DEF GiveUp, HeldOf
<1> QED
  BY <1>5, <1>6, <1>7, <1>8, <1>9, <1>10, <1>11, <1>12, <1>13, <1>14, <1>15, <1>16,
     <1>17 DEF Step, Fault

-------------------------------------------------------------------------------
(* Every step is one of NestedScopes or none.                              *)

LEMMA WorkOfCaller ==
    ASSUME NEW c \in Caller
    PROVE  /\ Scopes!Active(c) <=> Work(tx[c]).open # {} /\ Work(tx[c]).state = "active"
           /\ Scopes!Inner(c) = Work(tx[c]).open \ {1}
           /\ [d \in Caller |-> Work(tx[d])][c] = Work(tx[c])
  BY DEF Scopes!Active, Scopes!Inner

LEMMA WorkOnlyOf ==
    ASSUME CallTypes, NEW c \in Caller, NEW t, tx' = [tx EXCEPT ![c] = t]
    PROVE  Scopes!Becomes(c, Work(t))
<1>1. \A d \in Caller : tx'[d] = IF d = c THEN t ELSE tx[d]
  BY DEF CallTypes
<1> DEFINE before == [d \in Caller |-> Work(tx[d])]
           after == [d \in Caller |-> Work(tx'[d])]
<1>2. /\ before \in [Caller -> {Work(tx[d]) : d \in Caller}]
      /\ after = [d \in Caller |-> after[d]]
      /\ \A d \in Caller : after[d] = IF d = c THEN Work(t) ELSE before[d]
  BY <1>1
<1> HIDE DEF before, after
<1>3. after = [before EXCEPT ![c] = Work(t)]
  BY <1>2
<1> QED  BY <1>3 DEF Scopes!Becomes, before, after

LEMMA WorkOfNone ==
    ASSUME CallTypes, NEW c \in Caller, NEW t,
           tx' = [tx EXCEPT ![c] = t], Work(t) = Work(tx[c])
    PROVE  UNCHANGED [d \in Caller |-> Work(tx[d])]
<1>1. \A d \in Caller : tx'[d] = IF d = c THEN t ELSE tx[d]
  BY DEF CallTypes
<1>2. \A d \in Caller : Work(tx'[d]) = Work(tx[d])
  BY <1>1
<1> QED  BY <1>2

\* A scope is closed, and the call goes on.
LEMMA MapClosing ==
    ASSUME NEW c \in Caller, NEW v, NEW h, Closing(Work(tx[c]), v, h),
           Scopes!Becomes(c, v), UNCHANGED outcome
    PROVE  Scopes!Next
<1>1. h \in Scopes!Inner(c)
  BY WorkOfCaller DEF Closing
<1>2. Scopes!Keep(c, h) \/ Scopes!Drop(c, h)
  BY WorkOfCaller DEF Closing, Scopes!Keep, Scopes!Drop
<1> QED  BY <1>1, <1>2 DEF Scopes!Next

\* The root is committed or rolled back, by the call, which answers, or by hand.
LEMMA MapCommit ==
    ASSUME NEW c \in Caller, NEW t, tx[c].status = "active",
           Ending(tx[c], t, Work(tx[c]).effects),
           Scopes!Becomes(c, Work(t)), Scopes!Answer(c, {"nil", "error"})
    PROVE  Scopes!Next
<1>1. Scopes!Active(c)
  BY WorkOfCaller, WorkFields DEF Ending
<1>2. Scopes!Commit(c)
  BY <1>1, WorkOfCaller DEF Ending, Scopes!Commit
<1> QED  BY <1>2 DEF Scopes!Next

LEMMA MapAbandon ==
    ASSUME NEW c \in Caller, NEW t, Ending(tx[c], t, {}),
           Scopes!Becomes(c, Work(t)), Scopes!Answer(c, {"error", "panic"})
    PROVE  Scopes!Next
<1>1. Scopes!Abandon(c)
  BY WorkOfCaller DEF Ending, Scopes!Abandon
<1> QED  BY <1>1 DEF Scopes!Next

\* A call answers without a step of its transaction.
LEMMA MapRefuse ==
    ASSUME NEW c \in Caller, UNCHANGED [d \in Caller |-> Work(tx[d])],
           Scopes!Answer(c, {"error", "panic"}),
           outcome' # outcome => Work(tx[c]).open = {} \/ Work(tx[c]) = Scopes!New
    PROVE  Scopes!Next
<1>1. Scopes!Refuse(c)
  BY WorkOfCaller DEF Scopes!Refuse
<1> QED  BY <1>1 DEF Scopes!Next

\* Leaving a callback answers when it was the outermost one, that of the root.
LEMMA LeaveAnswers ==
    ASSUME IInv, NEW c \in Caller, stage[c] = "callback",
           NEW t, NEW end, NEW then, Leave(c, t, end, then),
           NEW replies, end \in replies
    PROVE  /\ Scopes!Answer(c, replies)
           /\ Top(c) # 1 => UNCHANGED outcome
<1>1. outcome[c] = "none" /\ frames[c][1] = 1
  BY DEF IInv, CallOK, FramesOf
<1>2. CASE Len(frames[c]) = 1
  <2>1. outcome' = [outcome EXCEPT ![c] = end] /\ Top(c) = 1
    BY <1>1, <1>2 DEF Leave, Top
  <2> QED  BY <1>1, <2>1 DEF Scopes!Answer
<1>3. CASE Len(frames[c]) # 1
  BY <1>3 DEF Leave, Scopes!Answer
<1> QED  BY <1>2, <1>3

\* A call that goes on, or that answers when its root is closed already.
LEMMA LeaveClosed ==
    ASSUME IInv, NEW c \in Caller, stage[c] = "callback",
           ~Usable(tx[c], Top(c)), NEW end \in {"error", "panic"}, NEW then,
           Leave(c, tx[c], end, then)
    PROVE  Scopes!Next
<1>1. CallTypes /\ TxOK(tx[c])
  BY DEF IInv, CallOK
<1>2. tx' = [tx EXCEPT ![c] = tx[c]]
  BY DEF Leave, Becomes
<1>3. UNCHANGED [d \in Caller |-> Work(tx[d])]
  BY <1>1, <1>2, WorkOfNone
<1>4. Scopes!Answer(c, {"error", "panic"}) /\ (Top(c) # 1 => UNCHANGED outcome)
  BY LeaveAnswers
<1>5. Top(c) = 1 => Work(tx[c]).open = {}
  BY WorkFields DEF Usable
<1> QED  BY <1>3, <1>4, <1>5, MapRefuse

LEMMA MapLeaveCommitting ==
    ASSUME IInv, NEW c \in Caller, ReturnNil(c)
    PROVE  Scopes!Next
<1>1. PICK t \in Commit(tx[c], Top(c)) :
        Leave(c, t, IF Usable(tx[c], 1) /\ t.fate[1] = "kept" THEN "nil" ELSE "error",
              "running")
  BY DEF ReturnNil
<1>2. stage[c] = "callback" /\ CallTypes /\ TxOK(tx[c]) /\ Top(c) \in DOMAIN tx[c].fate
  BY DEF ReturnNil, InCallback, IInv, CallOK, CallTypes, FramesOf, Top
<1>3. Scopes!Becomes(c, Work(t))
  BY <1>1, <1>2, WorkOnlyOf DEF Leave, Becomes
<1> DEFINE end == IF Usable(tx[c], 1) /\ t.fate[1] = "kept" THEN "nil" ELSE "error"
<1>4. Leave(c, t, end, "running") /\ end \in {"nil", "error"}
      /\ (t.fate[1] # "kept" => end = "error")
      /\ (~Usable(tx[c], 1) => end = "error")
  BY <1>1
<1> HIDE DEF end
<1>5. CASE ~Usable(tx[c], Top(c)) /\ t = tx[c]
  <2>1. end = "error"
    BY <1>4, <1>5 DEF Usable
  <2> QED  BY <1>2, <1>4, <1>5, <2>1, LeaveClosed
<1>6. CASE Top(c) # 1 /\ Closing(Work(tx[c]), Work(t), Top(c))
  <2>1. UNCHANGED outcome
    BY <1>2, <1>4, <1>6, LeaveAnswers
  <2> QED  BY <1>3, <1>6, <2>1, MapClosing
<1>7. CASE tx[c].status = "active" /\ Ending(tx[c], t, Work(tx[c]).effects)
  <2>1. Scopes!Answer(c, {"nil", "error"})
    BY <1>2, <1>4, LeaveAnswers
  <2> QED  BY <1>3, <1>7, <2>1, MapCommit
<1>8. CASE t.fate[1] # "kept" /\ Ending(tx[c], t, {})
  <2>1. end \in {"error", "panic"}
    BY <1>4, <1>8
  <2>2. Scopes!Answer(c, {"error", "panic"})
    BY <1>2, <1>4, <2>1, LeaveAnswers
  <2> QED  BY <1>3, <1>8, <2>2, MapAbandon
<1> QED  BY <1>1, <1>2, <1>5, <1>6, <1>7, <1>8, CommitWork

LEMMA MapLeaveRollingBack ==
    ASSUME IInv, NEW c \in Caller, ReturnError(c) \/ Panic(c) \/ Unwind(c)
    PROVE  Scopes!Next
<1>1. PICK t \in RollbackAnyway(c), end \in {"error", "panic"},
           then \in {"running", "panicking"} : Leave(c, t, end, then)
  BY DEF ReturnError, Panic, Unwind
<1>2. stage[c] = "callback" /\ CallTypes /\ TxOK(tx[c]) /\ Top(c) \in DOMAIN tx[c].fate
  BY DEF ReturnError, Panic, Unwind, InCallback, IInv, CallOK, CallTypes, FramesOf, Top
<1>3. Scopes!Becomes(c, Work(t))
  BY <1>1, <1>2, WorkOnlyOf DEF Leave, Becomes
<1>4. Scopes!Answer(c, {"error", "panic"}) /\ (Top(c) # 1 => UNCHANGED outcome)
  BY <1>1, <1>2, LeaveAnswers
<1>5. CASE ~Usable(tx[c], Top(c)) /\ t = tx[c]
  BY <1>1, <1>2, <1>5, LeaveClosed
<1>6. CASE Top(c) # 1 /\ Closing(Work(tx[c]), Work(t), Top(c))
  BY <1>3, <1>4, <1>6, MapClosing
<1>7. CASE Ending(tx[c], t, {})
  BY <1>3, <1>4, <1>7, MapAbandon
<1> QED  BY <1>1, <1>2, <1>5, <1>6, <1>7, RollbackWork DEF RollbackAnyway

\* What a callback does while it runs.
LEMMA MapFinish ==
    ASSUME IInv, NEW c \in Caller, NEW h \in DOMAIN tx[c].fate, Finish(c, h)
    PROVE  Scopes!Next
<1>1. PICK t \in Commit(tx[c], h) \cup Rollback(tx[c], h) : Becomes(c, t)
  BY DEF Finish
<1>2. CallTypes /\ TxOK(tx[c]) /\ Usable(tx[c], h) /\ UNCHANGED outcome
  BY DEF Finish, Stay, IInv, CallOK
<1>3. Scopes!Becomes(c, Work(t))
  BY <1>1, <1>2, WorkOnlyOf DEF Becomes
<1>4. \A replies : Scopes!Answer(c, replies)
  BY <1>2 DEF Scopes!Answer
<1>5. CASE Closing(Work(tx[c]), Work(t), h)
  BY <1>2, <1>3, <1>5, MapClosing
<1>6. CASE tx[c].status = "active" /\ Ending(tx[c], t, Work(tx[c]).effects)
  BY <1>3, <1>4, <1>6, MapCommit
<1>7. CASE Ending(tx[c], t, {})
  BY <1>3, <1>4, <1>7, MapAbandon
<1> QED  BY <1>1, <1>2, <1>5, <1>6, <1>7, CommitWork, RollbackWork

LEMMA MapStatement ==
    ASSUME IInv, NEW c \in Caller, NEW h \in DOMAIN tx[c].fate,
           Exec(c, h) \/ ExecFails(c, h) \/ BeginNested(c, h) \/ Nest(c, h)
    PROVE  Scopes!Next
<1>1. /\ CallTypes /\ TxShape(tx[c]) /\ tx[c].fate[1] = "open" /\ tx[c].status = "active"
      /\ UNCHANGED outcome
  BY DEF IInv, CallOK, TxOK, Exec, ExecFails, BeginNested, Nest, Sends, Usable, Stay
<1>2. Scopes!Active(c)
  BY <1>1, WorkOfCaller, RootIsOpen, WorkFields
<1>3. CASE Exec(c, h)
  <2>1. tx' = [tx EXCEPT ![c] = Written(tx[c])]
    BY <1>3 DEF Exec, Becomes, Written
  <2>2. Scopes!Becomes(c, Scopes!Wrote(Work(tx[c])))
    BY <1>1, <2>1, WorkOnlyOf, WriteWork
  <2>3. Scopes!Write(c)
    BY <1>1, <1>2, <2>2, WorkOfCaller DEF Scopes!Write
  <2> QED  BY <2>3 DEF Scopes!Next
<1>4. CASE ExecFails(c, h)
  <2>1. PICK t \in {Aborted(tx[c]), Lost(tx[c])} : tx' = [tx EXCEPT ![c] = t]
    BY <1>4 DEF ExecFails, Becomes
  <2>2. PICK state \in {"aborted", "lost"} : Work(t) = Scopes!Doomed(Work(tx[c]), state)
    BY <1>1, FailWork
  <2>3. Scopes!Becomes(c, Scopes!Doomed(Work(tx[c]), state))
    BY <1>1, <2>1, <2>2, WorkOnlyOf
  <2>4. Scopes!Doom(c)
    BY <1>1, <1>2, <2>3, WorkOfCaller DEF Scopes!Doom
  <2> QED  BY <2>4 DEF Scopes!Next
<1>5. CASE BeginNested(c, h) \/ Nest(c, h)
  <2>1. tx' = [tx EXCEPT ![c] = Marked(tx[c])]
    BY <1>5 DEF BeginNested, Nest, Becomes
  <2>2. Scopes!Becomes(c, Scopes!Begun(Work(tx[c])))
    BY <1>1, <2>1, WorkOnlyOf, MarkWork
  <2>3. Scopes!Begin(c)
    BY <1>1, <1>2, <2>2, WorkOfCaller DEF Scopes!Begin
  <2> QED  BY <2>3 DEF Scopes!Next
<1> QED  BY <1>3, <1>4, <1>5

LEMMA MapNext ==
    ASSUME IInv, [Next]_vars
    PROVE  [Scopes!Next]_(Scopes!vars)
<1> DEFINE Stutter == UNCHANGED Scopes!vars
<1>1. ASSUME UNCHANGED <<tx, outcome>> PROVE Stutter
  BY <1>1 DEF Scopes!vars
<1> HIDE DEF Stutter
<1>2. CASE UNCHANGED vars
  <2>1. UNCHANGED <<tx, outcome>>
    BY <1>2 DEF vars
  <2> QED  BY <1>1, <2>1 DEF Stutter
<1>3. ASSUME NEW c \in Caller, Step(c) \/ Fault(c)
      PROVE  Scopes!Next \/ Stutter
  <2>1. CASE Begin(c) \/ Recover(c) \/ Divert(c) \/ Serve(c) \/ Served(c) \/ GiveUp(c)
    BY <1>1, <2>1 DEF Begin, Recover, Divert, Serve, Served, GiveUp
  <2>2. CASE ReturnNil(c)
    BY <2>2, MapLeaveCommitting
  <2>3. CASE ReturnError(c) \/ Panic(c) \/ Unwind(c)
    BY <2>3, MapLeaveRollingBack
  <2>4. ASSUME NEW h \in DOMAIN tx[c].fate,
               \/ Exec(c, h) \/ ExecFails(c, h) \/ BeginNested(c, h) \/ Nest(c, h)
               \/ Finish(c, h)
        PROVE  Scopes!Next
    BY <2>4, MapStatement, MapFinish
  <2>5. CASE BeginFails(c)
    <3>1. tx[c] = NewTx /\ outcome[c] = "none"
      BY <2>5 DEF BeginFails, IInv, CallOK
    <3>2. UNCHANGED tx /\ outcome' = [outcome EXCEPT ![c] = "error"]
      BY <2>5 DEF BeginFails
    <3>3. UNCHANGED [d \in Caller |-> Work(tx[d])]
      BY <3>2
    <3>4. Scopes!Answer(c, {"error", "panic"})
      BY <3>1, <3>2 DEF Scopes!Answer
    <3> QED  BY <3>1, <3>3, <3>4, NewWork, MapRefuse
  <2> QED  BY <1>3, <2>1, <2>2, <2>3, <2>4, <2>5 DEF Step, Fault
<1> QED  BY <1>2, <1>3 DEF Next, Rest, Stutter

-------------------------------------------------------------------------------
(* The theorems.                                                           *)

\* The invariant holds in every reachable state.
THEOREM Inductive == Spec => []IInv
<1>1. IInv /\ [Next]_vars => IInv'
  <2> SUFFICES ASSUME IInv, [Next]_vars PROVE IInv'
    OBVIOUS
  <2>1. CASE UNCHANGED vars
    BY <2>1 DEF vars, IInv, CallTypes, CallOK, FramesOf, HeldOf
  <2>2. ASSUME NEW c \in Caller, Step(c) \/ Fault(c) PROVE IInv'
    BY <2>2, StepOK
  <2> QED  BY <2>1, <2>2 DEF Next, Rest
<1> QED  BY <1>1, InitOK, PTL DEF Spec

\* Once COMMIT was sent the database holds what was written outside the scopes
\* rolled back, however scopes nest, in whatever order callbacks finish them
\* and whatever fails.
THEOREM CommitKeepsTheRest == Spec => []KeptAsFinished
<1>1. IInv => KeptAsFinished
  <2> SUFFICES ASSUME IInv, NEW c \in Caller, NEW t, t = tx[c],
                      NEW kept, kept = {w \in Writes(t) : t.under[w] \cap Undone(t) = {}}
               PROVE  /\ outcome[c] = "nil" => t.fate[1] = "kept"
                      /\ t.fate[1] = "kept" => t.durable = kept
                      /\ t.fate[1] = "unknown" => t.durable \in {kept, {}}
                      /\ t.fate[1] \notin {"kept", "unknown"} => t.durable = {}
    BY DEF KeptAsFinished
  <2>1. CallOK(c)
    BY DEF IInv
  <2>2. Undone(t) = Dropped(t)
    BY <2>1 DEF CallOK, TxOK, Rejections, Undone, Dropped
  <2>3. kept = Outside(t, {})
    BY <2>2 DEF Outside, Writes
  <2> QED  BY <2>1, <2>3 DEF CallOK, TxOK, Outcome
<1> QED  BY <1>1, Inductive, PTL

\* No call that is over holds a connection, nor one whose transaction is.
THEOREM ConnectionsComeBack == Spec => []NothingHeld
<1>1. IInv => NothingHeld
  BY DEF IInv, CallOK, HeldOf, NothingHeld
<1> QED  BY <1>1, Inductive, PTL

\* Transactions implements NestedScopes: savepoints, callbacks and handles that
\* are finished in any order do to the work of a call what scopes that nest do.
THEOREM Refinement == Spec => ScopesAsNested
<1>1. Init => Scopes!Init
  <2> SUFFICES ASSUME Init PROVE Scopes!Init
    OBVIOUS
  <2>1. \A c \in Caller : Work(tx[c]) = Scopes!New
    BY NewWork DEF Init
  <2> QED  BY <2>1 DEF Init, Scopes!Init
<1>2. IInv /\ [Next]_vars => [Scopes!Next]_(Scopes!vars)
  BY MapNext
<1> QED
  BY <1>1, <1>2, Inductive, PTL DEF Spec, ScopesAsNested, Scopes!Spec

===============================================================================
