-------------------------- MODULE PoolSettingsProofs --------------------------
(***************************************************************************)
(* The pool is what its options and its configuration say, however many    *)
(* options there are and whichever the settings are that pgx has.          *)
(*                                                                         *)
(* An invariant of the state alone cannot say what the options kept will   *)
(* make of a pool that is not there yet.  MutationsOK says it of every     *)
(* pool: the fold of Mutate over the options kept gives each field the     *)
(* last word of the options given.  It is kept because one more option     *)
(* mutates what the others have made (OneMoreMutation), and has the last   *)
(* word on what it sets and on nothing else (OneMoreWord).                 *)
(***************************************************************************)
EXTENDS PoolSettings, WellFoundedInduction, TLAPS

-------------------------------------------------------------------------------
(* Numbers.                                                                *)

\* The least of some numbers.
LEMMA Least ==
    ASSUME NEW T, T \subseteq Nat, T # {}
    PROVE  \E m \in T : \A j \in T : m <= j
<1>1. PICK m \in T : \A i \in T : << i, m >> \notin OpToRel(<, Nat)
  BY NatLessThanWellFounded, WFMin
<1>2. ASSUME NEW j \in T PROVE m <= j
  <2>1. j \in Nat /\ m \in Nat
    OBVIOUS
  <2>2. ~(j < m)
    BY <1>1, <2>1 DEF OpToRel
  <2> QED  BY <2>1, <2>2
<1> QED  BY <1>2

\* Induction, for a set of numbers.
LEMMA Inducts ==
    ASSUME NEW S, 0 \in S, \A n \in Nat : n \in S => n + 1 \in S
    PROVE  Nat \subseteq S
<1> DEFINE T == Nat \ S
<1> SUFFICES ASSUME T # {} PROVE FALSE
  OBVIOUS
<1>1. PICK m \in T : \A j \in T : m <= j
  <2>1. T \subseteq Nat
    OBVIOUS
  <2> HIDE DEF T
  <2> QED  BY <2>1, Least
<1>2. m \in Nat /\ m \notin S /\ m # 0
  BY <1>1
<1>3. m - 1 \in Nat /\ (m - 1) + 1 = m
  BY <1>2
<1>4. m - 1 \in S
  BY <1>1, <1>3
<1> QED  BY <1>2, <1>3, <1>4

-------------------------------------------------------------------------------
(* The loop over the options kept for the pool: its fold is some function  *)
(* that mutates option by option, and there is one.                        *)

Mutations(p, s) == FoldLeft(Mutate, p, s)

Mutates(f, p, s, n) ==
    f = [t \in SUBSET (1 .. n) |->
            IF t = {} THEN p ELSE Mutate(f[t \ {Max(t)}], s[Max(t)])]

LEMMA MaxOfPrefix ==
    ASSUME NEW n \in Nat, NEW t \in SUBSET (1 .. n + 1), n + 1 \in t
    PROVE  Max(t) = n + 1
<1>1. \A y \in t : n + 1 >= y
  OBVIOUS
<1>2. \A x \in t : (\A y \in t : x >= y) => x = n + 1
  OBVIOUS
<1> QED  BY <1>1, <1>2 DEF Max

LEMMA MutatesExists ==
    ASSUME NEW p, NEW s, NEW n \in Nat
    PROVE  \E f : Mutates(f, p, s, n)
<1> DEFINE S == {m \in Nat : \E f : Mutates(f, p, s, m)}
<1>1. 0 \in S
  <2> DEFINE f == [t \in SUBSET (1 .. 0) |-> p]
  <2>1. 1 .. 0 = {}
    OBVIOUS
  <2>2. f = [t \in SUBSET (1 .. 0) |->
                IF t = {} THEN p ELSE Mutate(f[t \ {Max(t)}], s[Max(t)])]
    BY <2>1
  <2>3. Mutates(f, p, s, 0)
    BY <2>2 DEF Mutates
  <2> QED  BY <2>3
<1>2. ASSUME NEW m \in Nat, m \in S PROVE m + 1 \in S
  <2>1. PICK f : Mutates(f, p, s, m)
    BY <1>2
  <2> DEFINE P == SUBSET (1 .. m + 1)
             g == [t \in P |-> IF m + 1 \in t THEN Mutate(f[t \ {m + 1}], s[m + 1]) ELSE f[t]]
             h == [t \in P |-> IF t = {} THEN p ELSE Mutate(g[t \ {Max(t)}], s[Max(t)])]
  <2>2. \A t \in SUBSET (1 .. m) :
            f[t] = IF t = {} THEN p ELSE Mutate(f[t \ {Max(t)}], s[Max(t)])
    BY <2>1 DEF Mutates
  <2>3. \A t \in P : m + 1 \notin t => t \in SUBSET (1 .. m)
    OBVIOUS
  <2>4. ASSUME NEW t \in P PROVE g[t] = h[t]
    <3>1. CASE m + 1 \in t
      <4>1. Max(t) = m + 1
        BY <3>1, MaxOfPrefix
      <4>2. t \ {m + 1} \in P /\ m + 1 \notin t \ {m + 1}
        OBVIOUS
      <4>3. g[t \ {m + 1}] = f[t \ {m + 1}]
        BY <4>2
      <4> QED  BY <3>1, <4>1, <4>3
    <3>2. CASE m + 1 \notin t
      <4>1. t \ {Max(t)} \in P /\ m + 1 \notin t \ {Max(t)}
        BY <3>2
      <4>2. g[t \ {Max(t)}] = f[t \ {Max(t)}]
        BY <4>1
      <4>3. g[t] = f[t] /\ t \in SUBSET (1 .. m)
        BY <3>2, <2>3
      <4> HIDE DEF g
      <4> QED  BY <2>2, <4>2, <4>3
    <3> QED  BY <3>1, <3>2
  <2>5. g = h
    <3>1. g = [t \in P |-> g[t]] /\ h = [t \in P |-> h[t]]
      OBVIOUS
    <3> HIDE DEF g, h
    <3> QED  BY <2>4, <3>1
  <2>6. Mutates(g, p, s, m + 1)
    <3> HIDE DEF g
    <3> QED  BY <2>5 DEF Mutates
  <2> QED  BY <2>6
<1>3. n \in S
  <2> HIDE DEF S
  <2> QED  BY <1>1, <1>2, Inducts
<1> QED  BY <1>3

\* What is needed of the loop: it starts from the pool there is, and each
\* step is the next mutation.
LEMMA MutatesSteps ==
    ASSUME NEW p, NEW s, NEW n \in Nat, DOMAIN s = 1 .. n
    PROVE  \E g : /\ g[0] = p
                  /\ \A k \in 0 .. n - 1 : g[k + 1] = Mutate(g[k], s[k + 1])
                  /\ g[n] = Mutations(p, s)
<1> DEFINE f == CHOOSE f : Mutates(f, p, s, n)
           g == [k \in 0 .. n |-> f[1 .. k]]
<1>1. Mutates(f, p, s, n)
  BY MutatesExists
<1>2. Mutations(p, s) = f[1 .. n]
  BY DEF Mutations, FoldLeft, MapThenFoldSet, Mutates
<1>3. \A t \in SUBSET (1 .. n) :
        f[t] = IF t = {} THEN p ELSE Mutate(f[t \ {Max(t)}], s[Max(t)])
  BY <1>1 DEF Mutates
<1>4. 1 .. 0 = {} /\ {} \in SUBSET (1 .. n)
  OBVIOUS
<1>5. ASSUME NEW k \in 0 .. n - 1
      PROVE  f[1 .. k + 1] = Mutate(f[1 .. k], s[k + 1])
  <2> DEFINE t == 1 .. k + 1
  <2>1. t \in SUBSET (1 .. n) /\ k + 1 \in t /\ t \ {k + 1} = 1 .. k /\ k \in Nat
    OBVIOUS
  <2>2. Max(t) = k + 1
    BY <2>1, MaxOfPrefix
  <2>3. t # {}
    BY <2>1
  <2> HIDE DEF t, f
  <2> QED  BY <1>3, <2>1, <2>2, <2>3 DEF t
<1>6. f[1 .. 0] = p
  <2> HIDE DEF f
  <2> QED  BY <1>3, <1>4
<1> HIDE DEF f
<1>7. g[0] = p /\ g[n] = Mutations(p, s)
  BY <1>2, <1>6
<1>8. \A k \in 0 .. n - 1 : g[k + 1] = Mutate(g[k], s[k + 1])
  <2> TAKE k \in 0 .. n - 1
  <2>1. k \in 0 .. n /\ k + 1 \in 0 .. n
    OBVIOUS
  <2> QED  BY <1>5, <2>1
<1> HIDE DEF g
<1> QED  BY <1>7, <1>8

\* One more option mutates what the others have made.
LEMMA OneMoreMutation ==
    ASSUME NEW p, NEW B, NEW s \in Seq(B), NEW o \in B
    PROVE  Mutations(p, Append(s, o)) = Mutate(Mutations(p, s), o)
<1> DEFINE n == Len(s)
           t == Append(s, o)
<1>1. /\ n \in Nat /\ n + 1 \in Nat /\ (n + 1) - 1 = n
      /\ DOMAIN s = 1 .. n /\ DOMAIN t = 1 .. n + 1
      /\ \A k \in 1 .. n : t[k] = s[k]
      /\ t[n + 1] = o
  OBVIOUS
<1> HIDE DEF t, n
<1>2. PICK f : /\ f[0] = p
               /\ \A k \in 0 .. n - 1 : f[k + 1] = Mutate(f[k], s[k + 1])
               /\ f[n] = Mutations(p, s)
  BY <1>1, MutatesSteps
<1>3. PICK g : /\ g[0] = p
               /\ \A k \in 0 .. n : g[k + 1] = Mutate(g[k], t[k + 1])
               /\ g[n + 1] = Mutations(p, t)
  <2> DEFINE m == n + 1
  <2>1. m \in Nat /\ m - 1 = n /\ DOMAIN t = 1 .. m
    BY <1>1
  <2> HIDE DEF m
  <2>2. \E g : /\ g[0] = p
               /\ \A k \in 0 .. m - 1 : g[k + 1] = Mutate(g[k], t[k + 1])
               /\ g[m] = Mutations(p, t)
    BY <2>1, MutatesSteps
  <2> QED  BY <2>1, <2>2 DEF m
<1> DEFINE S == {k \in Nat : k <= n => f[k] = g[k]}
<1>4. 0 \in S
  BY <1>2, <1>3
<1>5. ASSUME NEW k \in Nat, k \in S PROVE k + 1 \in S
  <2> SUFFICES ASSUME k + 1 <= n PROVE f[k + 1] = g[k + 1]
    OBVIOUS
  <2>1. k \in 0 .. n - 1 /\ k \in 0 .. n /\ k + 1 \in 1 .. n /\ k <= n
    BY <1>1
  <2>2. f[k] = g[k]
    BY <1>5, <2>1
  <2> QED  BY <1>1, <1>2, <1>3, <2>1, <2>2
<1>6. n \in S
  <2> HIDE DEF S
  <2> QED  BY <1>1, <1>4, <1>5, Inducts
<1>7. f[n] = g[n] /\ n \in 0 .. n
  BY <1>1, <1>6
<1> QED  BY <1>1, <1>2, <1>3, <1>7 DEF t

LEMMA NoMutation ==
    ASSUME NEW p
    PROVE  Mutations(p, <<>>) = p
<1>1. DOMAIN <<>> = 1 .. 0
  OBVIOUS
<1>2. PICK g : g[0] = p /\ g[0] = Mutations(p, <<>>)
  BY <1>1, MutatesSteps
<1> QED  BY <1>2

-------------------------------------------------------------------------------
(* Last words.                                                             *)

\* An option that sets s.
Sets(o, s) == o # Unset /\ o.set = s

Places(q, s) == {i \in DOMAIN q : Sets(q[i], s)}

Word(q, s, otherwise) ==
    IF Places(q, s) = {} THEN otherwise ELSE q[Max(Places(q, s))].to

LEMMA LastWordIs ==
    ASSUME NEW s, NEW otherwise
    PROVE  /\ Setting(s) = Places(given, s)
           /\ LastWord(s, otherwise) = Word(given, s, otherwise)
BY DEF Setting, LastWord, Places, Word, Sets

LEMMA Greatest ==
    ASSUME NEW n \in Nat, NEW T \in SUBSET (1 .. n), T # {}
    PROVE  Max(T) \in T
<1> DEFINE U == {m \in Nat : \A i \in T : i <= m}
<1>1. n \in U
  OBVIOUS
<1>2. PICK m \in U : \A j \in U : m <= j
  <2>1. U \subseteq Nat /\ U # {}
    BY <1>1
  <2> HIDE DEF U
  <2> QED  BY <2>1, Least
<1>3. m \in T
  <2> SUFFICES ASSUME m \notin T PROVE FALSE
    OBVIOUS
  <2>1. \A i \in T : i \in Nat /\ i <= m /\ i # m /\ 1 <= i
    BY <1>2
  <2>2. m - 1 \in Nat
    <3>1. PICK i \in T : TRUE
      OBVIOUS
    <3>2. i \in Nat /\ 1 <= i /\ i <= m /\ m \in Nat
      BY <1>2, <2>1
    <3> QED  BY <3>2
  <2>3. m - 1 \in U
    BY <2>1, <2>2
  <2>4. m <= m - 1
    BY <1>2, <2>3
  <2> QED  BY <2>2, <2>4
<1>4. \A i \in T : m >= i
  BY <1>2
<1> QED  BY <1>3, <1>4 DEF Max

\* The places and the word of an option given after others.
WithPlace(q, o, s) ==
    IF Sets(o, s) THEN Places(q, s) \cup {Len(q) + 1} ELSE Places(q, s)

WithWord(q, o, s, x) == IF Sets(o, s) THEN o.to ELSE Word(q, s, x)

\* One more option has the last word on what it sets, and on nothing else.
LEMMA OneMoreWord ==
    ASSUME NEW B, NEW q \in Seq(B), NEW o \in B, NEW s, NEW x
    PROVE  /\ Places(Append(q, o), s) = WithPlace(q, o, s)
           /\ Word(Append(q, o), s, x) = WithWord(q, o, s, x)
<1> USE DEF WithPlace, WithWord
<1> DEFINE n == Len(q)
           t == Append(q, o)
           P == Places(q, s)
           R == Places(t, s)
<1>1. /\ n \in Nat /\ DOMAIN q = 1 .. n /\ DOMAIN t = (1 .. n) \cup {n + 1}
      /\ n + 1 \notin 1 .. n
      /\ \A i \in 1 .. n : t[i] = q[i]
      /\ t[n + 1] = o
  OBVIOUS
<1> HIDE DEF t, n
<1>2. CASE Sets(o, s)
  <2>1. R = P \cup {n + 1}
    BY <1>1, <1>2 DEF Places
  <2>2. R \in SUBSET (1 .. n + 1) /\ n + 1 \in R
    BY <1>1, <2>1 DEF Places
  <2> HIDE DEF R
  <2>3. Max(R) = n + 1 /\ R # {}
    BY <1>1, <2>2, MaxOfPrefix
  <2>4. Word(t, s, x) = o.to
    BY <1>1, <2>3 DEF Word, R
  <2> QED  BY <1>2, <2>1, <2>4 DEF t, n, R
<1>3. CASE ~Sets(o, s)
  <2>1. R = P
    BY <1>1, <1>3 DEF Places
  <2>2. P \in SUBSET (1 .. n)
    BY <1>1 DEF Places
  <2>3. Word(t, s, x) = Word(q, s, x)
    <3>1. CASE P = {}
      BY <2>1, <3>1 DEF Word
    <3>2. CASE P # {}
      <4>1. Max(P) \in 1 .. n
        <5> HIDE DEF P
        <5> QED  BY <1>1, <2>2, <3>2, Greatest
      <4>2. t[Max(P)] = q[Max(P)]
        BY <1>1, <4>1
      <4> QED  BY <2>1, <3>2, <4>2 DEF Word
    <3> QED  BY <3>1, <3>2
  <2> QED  BY <1>3, <2>1, <2>3 DEF t
<1> QED  BY <1>2, <1>3

LEMMA NoWord ==
    ASSUME NEW s, NEW x
    PROVE  Places(<<>>, s) = {} /\ Word(<<>>, s, x) = x
BY DEF Places, Word

-------------------------------------------------------------------------------
(* The inductive invariant.                                                *)

OptionValue == {o.to : o \in Option \ {Unset}}

TypeOK ==
    /\ IsConfig(cfg)
    /\ given \in Seq(Option)
    /\ options.tracingOptions \in Seq(OptionValue)
    /\ options.pool \in Seq(Option)
    /\ tries \in Nat
    /\ refusals \in Seq(SUBSET (Problem \cup {"sslmode"}))

OptionsOf(tracing, tracingOptions, tracer, metrics, sql, kept) ==
    [tracing |-> tracing, tracingOptions |-> tracingOptions, tracer |-> tracer,
     metrics |-> metrics, sql |-> sql, pool |-> kept]

\* What makeOptions has collected is the last word of each option given.
OptionsOK ==
    /\ options = OptionsOf(options.tracing, options.tracingOptions,
                           LastWord("tracer", Unset), LastWord("metrics", Unset),
                           LastWord("sql", Unset), options.pool)
    /\ options.tracing \in BOOLEAN
    /\ options.tracing <=> Setting("tracing") # {}
    /\ ToSet(options.tracingOptions) = {given[j].to : j \in Setting("tracing")}

PoolOf(host, database, user, password, connect, tls, fallbacks, appName, limits,
       tracer, slots) ==
    [host |-> host, database |-> database, user |-> user, password |-> password,
     connect |-> connect, tls |-> tls, fallbacks |-> fallbacks, appName |-> appName,
     limits |-> limits, tracer |-> tracer, slots |-> slots]

IsPool(p) ==
    p = PoolOf(p.host, p.database, p.user, p.password, p.connect, p.tls, p.fallbacks,
               p.appName, p.limits, p.tracer, [s \in Slot |-> p.slots[s]])

\* What the options given make of a pool.
Mutated(p) ==
    PoolOf(p.host, p.database, p.user, p.password, p.connect,
           IF Setting("tls") = {} THEN p.tls ELSE Exactly(LastWord("tls", Unset)),
           IF Setting("tls") = {} THEN p.fallbacks ELSE <<>>,
           LastWord("application_name", p.appName), p.limits, p.tracer,
           [s \in Slot |-> LastWord(s, p.slots[s])])

\* The options kept for the pool make of any pool what the options given do.
MutationsOK == \A p : IsPool(p) => Mutations(p, options.pool) = Mutated(p)

Dialled == phase \in {"made", "connected", "unreachable"}

\* The pool is made once, from what is still there.
PoolOK ==
    /\ ~Dialled => pool = Unset
    /\ Dialled => pool = PoolConfig /\ ~ParseFails
    /\ phase = "connected" => \E k \in 1 .. Len(Links) : link = Links[k]

Conns == {"max_conns", "min_conns"}

\* What may be refused after others.
MayFollow(before, named) ==
    \/ named = {"sslmode"}
    \/ named = {"min_max_conns"} /\ before \cap Conns # {}

Follow(q) == \A i \in 2 .. Len(q) : MayFollow(q[i - 1], q[i])

Refused == refusals # <<>>

\* A refusal names all that Validate has against the Config, or an sslmode that
\* does not parse when Validate has nothing against it.  A Config corrected in
\* what was named is wrong in nothing, or in limits that were named before; an
\* sslmode that was corrected is one there is.
RefusalsOK ==
    /\ Len(refusals) <= 3
    /\ Follow(refusals)
    /\ phase = "refused" =>
        /\ Refused
        /\ \/ Last(refusals) = Validate(cfg)
           \/ Last(refusals) = {"sslmode"} /\ Validate(cfg) = {}
    /\ phase = "validating" /\ Refused /\ Validate(cfg) # {} =>
        Validate(cfg) = {"min_max_conns"} /\ Last(refusals) \cap Conns # {}
    /\ phase \notin {"validating", "refused"} => Validate(cfg) = {}
    /\ phase # "refused" /\ Refused /\ Last(refusals) = {"sslmode"} => ~ParseFails

IInv == TypeOK /\ OptionsOK /\ MutationsOK /\ PoolOK /\ RefusalsOK

-------------------------------------------------------------------------------
(* Options.                                                                *)

\* The options whose functions run on the pool.
Kept(o) == o # Unset /\ o.set \in {"tls", "application_name"} \cup Slot

\* An option on options of some fields.
Applied(o, a, b, c, d, e, f) ==
    OptionsOf(IF Sets(o, "tracing") THEN TRUE ELSE a,
              IF Sets(o, "tracing") THEN Append(b, o.to) ELSE b,
              IF Sets(o, "tracer") THEN o.to ELSE c,
              IF Sets(o, "metrics") THEN o.to ELSE d,
              IF Sets(o, "sql") THEN o.to ELSE e,
              IF Kept(o) THEN Append(f, o) ELSE f)

LEMMA ApplyIs ==
    ASSUME NEW o \in Option, NEW a, NEW b, NEW c, NEW d, NEW e, NEW f
    PROVE  Apply(o, OptionsOf(a, b, c, d, e, f)) = Applied(o, a, b, c, d, e, f)
<1> USE DEF Applied
<1> DEFINE p == OptionsOf(a, b, c, d, e, f)
<1>1. CASE o = Unset
  BY <1>1 DEF Apply, Sets, Kept
<1>2. CASE o # Unset /\ o.set = "tracing"
  <2>1. Apply(o, p) = [p EXCEPT !.tracing = TRUE, !.tracingOptions = Append(@, o.to)]
    BY <1>2 DEF Apply
  <2>2. p.tracingOptions = b
    BY DEF OptionsOf
  <2> DEFINE y == TRUE
             q == [p EXCEPT !.tracing = y]
             x == Append(b, o.to)
  <2>3. q = OptionsOf(y, b, c, d, e, f)
    <3> HIDE DEF y
    <3> QED  BY DEF OptionsOf
  <2>4. [q EXCEPT !.tracingOptions = x] = OptionsOf(y, x, c, d, e, f)
    <3> HIDE DEF q, x, y
    <3> QED  BY <2>3 DEF OptionsOf
  <2>5. [p EXCEPT !.tracing = y, !.tracingOptions = x] = [q EXCEPT !.tracingOptions = x]
    <3> HIDE DEF p, x, y
    <3> QED  OBVIOUS
  <2>6. Apply(o, p) = OptionsOf(TRUE, x, c, d, e, f)
    BY <2>1, <2>2, <2>4, <2>5
  <2>7. ~Kept(o)
    BY <1>2, OptionAssumption DEF Kept, Named
  <2> QED  BY <1>2, <2>6, <2>7 DEF Sets
<1>3. CASE o # Unset /\ o.set \in {"tracer", "metrics", "sql"}
  <2>1. Apply(o, p) = [p EXCEPT ![o.set] = o.to]
    BY <1>3 DEF Apply
  <2>2. ~Kept(o)
    BY <1>3, OptionAssumption DEF Kept, Named
  <2>3. CASE o.set = "tracer"
    BY <1>3, <2>1, <2>2, <2>3 DEF OptionsOf, Sets
  <2>4. CASE o.set = "metrics"
    BY <1>3, <2>1, <2>2, <2>4 DEF OptionsOf, Sets
  <2>5. CASE o.set = "sql"
    BY <1>3, <2>1, <2>2, <2>5 DEF OptionsOf, Sets
  <2> QED  BY <1>3, <2>3, <2>4, <2>5
<1>4. CASE o # Unset /\ o.set \notin {"tracing", "tracer", "metrics", "sql"}
  <2>1. Apply(o, p) = [p EXCEPT !.pool = Append(@, o)]
    BY <1>4 DEF Apply
  <2>2. Apply(o, p) = OptionsOf(a, b, c, d, e, Append(f, o))
    BY <2>1 DEF OptionsOf
  <2>3. Kept(o)
    BY <1>4, OptionAssumption DEF Kept, Named
  <2> QED  BY <1>4, <2>2, <2>3 DEF Sets
<1> QED  BY <1>1, <1>2, <1>3, <1>4

LEMMA OptionsFields ==
    ASSUME NEW a, NEW b, NEW c, NEW d, NEW e, NEW f,
           NEW p, p = OptionsOf(a, b, c, d, e, f)
    PROVE  /\ p.tracing = a /\ p.tracingOptions = b /\ p.tracer = c
           /\ p.metrics = d /\ p.sql = e /\ p.pool = f
BY DEF OptionsOf

\* What giving an option does to every setting.
LEMMA GivenWords ==
    ASSUME given \in Seq(Option), NEW o \in Option, given' = Append(given, o),
           NEW s, NEW x
    PROVE  /\ Setting(s)' = IF Sets(o, s) THEN Setting(s) \cup {Len(given) + 1} ELSE Setting(s)
           /\ LastWord(s, x)' = IF Sets(o, s) THEN o.to ELSE LastWord(s, x)
<1>1. Setting(s)' = Places(given', s) /\ LastWord(s, x)' = Word(given', s, x)
  BY DEF Setting, LastWord, Places, Word, Sets
<1>2. Setting(s) = Places(given, s) /\ LastWord(s, x) = Word(given, s, x)
  BY LastWordIs
<1> DEFINE q == given
<1>3. /\ Places(Append(q, o), s) = WithPlace(q, o, s)
      /\ Word(Append(q, o), s, x) = WithWord(q, o, s, x)
  <2>1. q \in Seq(Option)
    OBVIOUS
  <2> HIDE DEF q
  <2> QED  BY <2>1, OneMoreWord
<1> QED  BY <1>1, <1>2, <1>3 DEF WithPlace, WithWord

LEMMA GiveOptions ==
    ASSUME TypeOK, OptionsOK, NEW o \in Option, Give(o)
    PROVE  TypeOK' /\ OptionsOK'
<1> DEFINE tracing == IF Sets(o, "tracing") THEN TRUE ELSE options.tracing
           traced == IF Sets(o, "tracing") THEN Append(options.tracingOptions, o.to)
                     ELSE options.tracingOptions
           tracer == IF Sets(o, "tracer") THEN o.to ELSE LastWord("tracer", Unset)
           metrics == IF Sets(o, "metrics") THEN o.to ELSE LastWord("metrics", Unset)
           sql == IF Sets(o, "sql") THEN o.to ELSE LastWord("sql", Unset)
           kept == IF Kept(o) THEN Append(options.pool, o) ELSE options.pool
<1>1. given \in Seq(Option) /\ given' = Append(given, o) /\ options' = Apply(o, options)
  BY DEF Give, TypeOK
<1>2. options' = OptionsOf(tracing, traced, tracer, metrics, sql, kept)
  <2>1. options = OptionsOf(options.tracing, options.tracingOptions,
                            LastWord("tracer", Unset), LastWord("metrics", Unset),
                            LastWord("sql", Unset), options.pool)
    BY DEF OptionsOK
  <2> DEFINE a == options.tracing
             b == options.tracingOptions
             c == LastWord("tracer", Unset)
             d == LastWord("metrics", Unset)
             e == LastWord("sql", Unset)
             f == options.pool
  <2>2. Apply(o, OptionsOf(a, b, c, d, e, f)) =
            OptionsOf(tracing, traced, tracer, metrics, sql, kept)
    <3> HIDE DEF a, b, c, d, e, f
    <3>1. Apply(o, OptionsOf(a, b, c, d, e, f)) = Applied(o, a, b, c, d, e, f)
      BY ApplyIs
    <3> QED  BY <3>1 DEF Applied, a, b, c, d, e, f
  <2> QED  BY <1>1, <2>1, <2>2
<1>3. /\ LastWord("tracer", Unset)' = tracer
      /\ LastWord("metrics", Unset)' = metrics
      /\ LastWord("sql", Unset)' = sql
  BY <1>1, GivenWords
<1>4. Setting("tracing")' =
        IF Sets(o, "tracing") THEN Setting("tracing") \cup {Len(given) + 1}
        ELSE Setting("tracing")
  BY <1>1, GivenWords
<1>5. Sets(o, "tracing") => o.to \in OptionValue
  BY DEF Sets, OptionValue
<1>6. traced \in Seq(OptionValue) /\ kept \in Seq(Option)
  BY <1>5 DEF TypeOK
<1>7. ToSet(traced) = {given'[j].to : j \in Setting("tracing")'}
  <2>1. /\ Setting("tracing") \subseteq 1 .. Len(given)
        /\ \A j \in 1 .. Len(given) : given'[j] = given[j]
        /\ given'[Len(given) + 1] = o
    BY <1>1 DEF Setting
  <2>2. ToSet(options.tracingOptions) = {given[j].to : j \in Setting("tracing")}
    BY DEF OptionsOK
  <2>3. {given'[j].to : j \in Setting("tracing")} = {given[j].to : j \in Setting("tracing")}
    BY <2>1
  <2>4. CASE Sets(o, "tracing")
    <3>1. ToSet(traced) = ToSet(options.tracingOptions) \cup {o.to}
      <4> DEFINE q == options.tracingOptions
                 x == o.to
                 t == Append(q, x)
      <4>1. q \in Seq(OptionValue) /\ x \in OptionValue
        BY <1>5, <2>4 DEF TypeOK
      <4> HIDE DEF q, x
      <4>2. /\ DOMAIN t = DOMAIN q \cup {Len(q) + 1}
            /\ \A j \in DOMAIN q : t[j] = q[j]
            /\ t[Len(q) + 1] = x
        BY <4>1
      <4> HIDE DEF t
      <4>3. ToSet(t) = ToSet(q) \cup {x}
        BY <4>2 DEF ToSet
      <4> QED  BY <2>4, <4>3 DEF t, q, x
    <3>2. {given'[j].to : j \in Setting("tracing")'}
            = {given'[j].to : j \in Setting("tracing")} \cup {o.to}
      BY <1>4, <2>1, <2>4
    <3> QED  BY <2>2, <2>3, <3>1, <3>2
  <2>5. CASE ~Sets(o, "tracing")
    BY <1>4, <2>2, <2>3, <2>5
  <2> QED  BY <2>4, <2>5
<1>8. tracing \in BOOLEAN /\ (tracing <=> Setting("tracing")' # {})
  <2>1. options.tracing \in BOOLEAN /\ (options.tracing <=> Setting("tracing") # {})
    BY DEF OptionsOK
  <2>2. CASE Sets(o, "tracing")
    BY <1>4, <2>2
  <2>3. CASE ~Sets(o, "tracing")
    BY <1>4, <2>1, <2>3
  <2> QED  BY <2>2, <2>3
<1> HIDE DEF tracing, traced, tracer, metrics, sql, kept
<1>9. /\ options'.tracing = tracing /\ options'.tracingOptions = traced
      /\ options'.pool = kept
  BY <1>2, OptionsFields
<1>10. OptionsOK'
  BY <1>2, <1>3, <1>7, <1>8, <1>9 DEF OptionsOK
<1>11. TypeOK'
  <2>1. given' \in Seq(Option) /\ cfg' = cfg /\ env' = env /\ tries' = tries /\ refusals' = refusals
    BY <1>1 DEF Give, makeVars, dialVars
  <2> QED  BY <1>6, <1>9, <2>1 DEF TypeOK
<1> QED  BY <1>10, <1>11

-------------------------------------------------------------------------------
(* Mutations.                                                              *)

\* An option kept, on a pool of some fields.
MutatedOnce(o, a, b, c, d, e, tls, fallbacks, appName, h, i, slots) ==
    PoolOf(a, b, c, d, e,
           IF Sets(o, "tls") THEN Exactly(o.to) ELSE tls,
           IF Sets(o, "tls") THEN <<>> ELSE fallbacks,
           IF Sets(o, "application_name") THEN o.to ELSE appName,
           h, i,
           [s \in Slot |-> IF Sets(o, s) THEN o.to ELSE slots[s]])

\* A pool with another value in one field.
LEMMA OtherField ==
    ASSUME NEW a, NEW b, NEW c, NEW d, NEW e, NEW tls, NEW fallbacks, NEW appName,
           NEW h, NEW i, NEW slots, NEW x
    PROVE  /\ [PoolOf(a, b, c, d, e, tls, fallbacks, appName, h, i, slots)
                    EXCEPT !.tls = x]
                = PoolOf(a, b, c, d, e, x, fallbacks, appName, h, i, slots)
           /\ [PoolOf(a, b, c, d, e, tls, fallbacks, appName, h, i, slots)
                    EXCEPT !.fallbacks = x]
                = PoolOf(a, b, c, d, e, tls, x, appName, h, i, slots)
           /\ [PoolOf(a, b, c, d, e, tls, fallbacks, appName, h, i, slots)
                    EXCEPT !.appName = x]
                = PoolOf(a, b, c, d, e, tls, fallbacks, x, h, i, slots)
<1>1. [PoolOf(a, b, c, d, e, tls, fallbacks, appName, h, i, slots) EXCEPT !.tls = x]
        = PoolOf(a, b, c, d, e, x, fallbacks, appName, h, i, slots)
  BY DEF PoolOf
<1>2. [PoolOf(a, b, c, d, e, tls, fallbacks, appName, h, i, slots) EXCEPT !.fallbacks = x]
        = PoolOf(a, b, c, d, e, tls, x, appName, h, i, slots)
  BY DEF PoolOf
<1>3. [PoolOf(a, b, c, d, e, tls, fallbacks, appName, h, i, slots) EXCEPT !.appName = x]
        = PoolOf(a, b, c, d, e, tls, fallbacks, x, h, i, slots)
  BY DEF PoolOf
<1> QED  BY <1>1, <1>2, <1>3

LEMMA OtherSlots ==
    ASSUME NEW a, NEW b, NEW c, NEW d, NEW e, NEW tls, NEW fallbacks, NEW appName,
           NEW h, NEW i, NEW slots, NEW x
    PROVE  [PoolOf(a, b, c, d, e, tls, fallbacks, appName, h, i, slots) EXCEPT !.slots = x]
                = PoolOf(a, b, c, d, e, tls, fallbacks, appName, h, i, x)
BY DEF PoolOf

AreSlots(slots) == slots = [s \in Slot |-> slots[s]]

LEMMA MutateIs ==
    ASSUME NEW o \in Option, Kept(o), NEW a, NEW b, NEW c, NEW d, NEW e, NEW tls,
           NEW fallbacks, NEW appName, NEW h, NEW i, NEW slots,
           AreSlots(slots)
    PROVE  Mutate(PoolOf(a, b, c, d, e, tls, fallbacks, appName, h, i, slots), o)
            = MutatedOnce(o, a, b, c, d, e, tls, fallbacks, appName, h, i, slots)
<1> DEFINE p == PoolOf(a, b, c, d, e, tls, fallbacks, appName, h, i, slots)
           same == [s \in Slot |-> IF Sets(o, s) THEN o.to ELSE slots[s]]
<1>1. CASE o.set = "tls"
  <2>1. /\ Sets(o, "tls") /\ ~Sets(o, "application_name")
        /\ \A s \in Slot : ~Sets(o, s)
    BY <1>1, OptionAssumption DEF Kept, Sets, Named
  <2>2. same = slots
    BY <2>1 DEF AreSlots
  <2> DEFINE x == Exactly(o.to)
             q == [p EXCEPT !.tls = x]
  <2>3. Mutate(p, o) = [p EXCEPT !.tls = x, !.fallbacks = <<>>]
    BY <1>1 DEF Mutate, WithTLS
  <2>4. q = PoolOf(a, b, c, d, e, x, fallbacks, appName, h, i, slots)
    <3> HIDE DEF x
    <3> QED  BY OtherField
  <2>5. [q EXCEPT !.fallbacks = <<>>]
            = PoolOf(a, b, c, d, e, x, <<>>, appName, h, i, slots)
    <3> HIDE DEF q, x
    <3> QED  BY <2>4 DEF PoolOf
  <2>6. [p EXCEPT !.tls = x, !.fallbacks = <<>>] = [q EXCEPT !.fallbacks = <<>>]
    <3> HIDE DEF p, x
    <3> QED  OBVIOUS
  <2>7. Mutate(p, o) = PoolOf(a, b, c, d, e, x, <<>>, appName, h, i, slots)
    BY <2>3, <2>5, <2>6
  <2> HIDE DEF p
  <2> QED  BY <2>1, <2>2, <2>7 DEF MutatedOnce, p
<1>2. CASE o.set = "application_name"
  <2>1. /\ ~Sets(o, "tls") /\ Sets(o, "application_name")
        /\ \A s \in Slot : ~Sets(o, s)
    BY <1>2, OptionAssumption DEF Kept, Sets, Named
  <2>2. same = slots
    BY <2>1 DEF AreSlots
  <2>3. Mutate(p, o) = [p EXCEPT !.appName = o.to]
    BY <1>2 DEF Mutate
  <2>4. Mutate(p, o) = PoolOf(a, b, c, d, e, tls, fallbacks, o.to, h, i, slots)
    BY <2>3 DEF PoolOf
  <2> HIDE DEF p
  <2> QED  BY <2>1, <2>2, <2>4 DEF MutatedOnce, p
<1>3. CASE o.set \notin {"tls", "application_name"}
  <2>1. /\ ~Sets(o, "tls") /\ ~Sets(o, "application_name") /\ o.set \in Slot
        /\ \A s \in Slot : Sets(o, s) <=> s = o.set
    BY <1>3 DEF Kept, Sets
  <2> DEFINE x == o.to
             z == o.set
             other == [slots EXCEPT ![z] = x]
  <2>2. Mutate(p, o) = [p EXCEPT !.slots[z] = x]
    BY <1>3 DEF Mutate
  <2>3. [p EXCEPT !.slots[z] = x]
            = PoolOf(a, b, c, d, e, tls, fallbacks, appName, h, i, other)
    <3>1. /\ p = PoolOf(a, b, c, d, e, tls, fallbacks, appName, h, i, slots)
          /\ other = [slots EXCEPT ![z] = x]
      OBVIOUS
    <3>2. p.slots = slots
      BY DEF PoolOf
    <3> HIDE DEF x, z, p, other
    <3>3. [p EXCEPT !.slots[z] = x] = [p EXCEPT !.slots = other]
      BY <3>1, <3>2
    <3>4. [p EXCEPT !.slots = other]
            = PoolOf(a, b, c, d, e, tls, fallbacks, appName, h, i, other)
      <4>1. [PoolOf(a, b, c, d, e, tls, fallbacks, appName, h, i, slots)
                EXCEPT !.slots = other]
              = PoolOf(a, b, c, d, e, tls, fallbacks, appName, h, i, other)
        BY OtherSlots
      <4> QED  BY <4>1 DEF p
    <3> QED  BY <3>3, <3>4
  <2>4. other = same
    BY <2>1 DEF AreSlots
  <2> HIDE DEF p
  <2> QED  BY <2>1, <2>2, <2>3, <2>4 DEF MutatedOnce, p
<1> QED  BY <1>1, <1>2, <1>3

LEMMA GiveMutations ==
    ASSUME TypeOK, OptionsOK, MutationsOK, NEW o \in Option, Give(o)
    PROVE  MutationsOK'
<1>1. given \in Seq(Option) /\ given' = Append(given, o) /\ options' = Apply(o, options)
  BY DEF Give, TypeOK
<1>2. options'.pool = IF Kept(o) THEN Append(options.pool, o) ELSE options.pool
  <2> DEFINE a == options.tracing
             b == options.tracingOptions
             c == LastWord("tracer", Unset)
             d == LastWord("metrics", Unset)
             e == LastWord("sql", Unset)
             f == options.pool
  <2>1. options = OptionsOf(a, b, c, d, e, f)
    BY DEF OptionsOK
  <2> HIDE DEF a, b, c, d, e, f
  <2>2. options' = Applied(o, a, b, c, d, e, f)
    BY <1>1, <2>1, ApplyIs
  <2>3. options'.pool = IF Kept(o) THEN Append(f, o) ELSE f
    BY <2>2 DEF Applied, OptionsOf
  <2> QED  BY <2>3 DEF f
<1> SUFFICES ASSUME NEW p, IsPool(p)
             PROVE  Mutations(p, options'.pool) = Mutated(p)'
  BY DEF MutationsOK
<1> DEFINE tls == IF Setting("tls") = {} THEN p.tls ELSE Exactly(LastWord("tls", Unset))
           fallbacks == IF Setting("tls") = {} THEN p.fallbacks ELSE <<>>
           appName == LastWord("application_name", p.appName)
           slots == [s \in Slot |-> LastWord(s, p.slots[s])]
           next == MutatedOnce(o, p.host, p.database, p.user, p.password, p.connect, tls,
                               fallbacks, appName, p.limits, p.tracer, slots)
<1>3. Mutations(p, options.pool) =
        PoolOf(p.host, p.database, p.user, p.password, p.connect, tls, fallbacks,
               appName, p.limits, p.tracer, slots)
  BY DEF MutationsOK, Mutated
<1>4. Mutated(p)' = next
  <2>1. /\ Setting("tls")' =
            IF Sets(o, "tls") THEN Setting("tls") \cup {Len(given) + 1} ELSE Setting("tls")
        /\ LastWord("tls", Unset)' =
            IF Sets(o, "tls") THEN o.to ELSE LastWord("tls", Unset)
        /\ LastWord("application_name", p.appName)' =
            IF Sets(o, "application_name") THEN o.to ELSE appName
    BY <1>1, GivenWords
  <2>2. [s \in Slot |-> LastWord(s, p.slots[s])']
            = [s \in Slot |-> IF Sets(o, s) THEN o.to ELSE slots[s]]
    <3>1. \A s \in Slot :
            LastWord(s, p.slots[s])' = IF Sets(o, s) THEN o.to ELSE slots[s]
      <4> TAKE s \in Slot
      <4>1. LastWord(s, p.slots[s])' = IF Sets(o, s) THEN o.to ELSE LastWord(s, p.slots[s])
        BY <1>1, GivenWords
      <4> QED  BY <4>1
    <3> HIDE DEF slots
    <3> QED  BY <3>1
  <2>3. (IF Setting("tls")' = {} THEN p.tls ELSE Exactly(LastWord("tls", Unset)'))
            = IF Sets(o, "tls") THEN Exactly(o.to) ELSE tls
    BY <2>1
  <2>4. (IF Setting("tls")' = {} THEN p.fallbacks ELSE <<>>)
            = IF Sets(o, "tls") THEN <<>> ELSE fallbacks
    BY <2>1
  <2> HIDE DEF tls, fallbacks, appName, slots
  <2> QED  BY <2>1, <2>2, <2>3, <2>4 DEF Mutated, MutatedOnce, Exactly
<1>5. CASE Kept(o)
  <2>1. Mutations(p, Append(options.pool, o)) = Mutate(Mutations(p, options.pool), o)
    <3> DEFINE q == options.pool
    <3>1. q \in Seq(Option)
      BY DEF TypeOK
    <3> HIDE DEF q
    <3>2. Mutations(p, Append(q, o)) = Mutate(Mutations(p, q), o)
      BY <3>1, OneMoreMutation
    <3> QED  BY <3>2 DEF q
  <2>2. Mutate(PoolOf(p.host, p.database, p.user, p.password, p.connect, tls, fallbacks,
                      appName, p.limits, p.tracer, slots), o) = next
    <3> DEFINE a == p.host
               b == p.database
               c == p.user
               d == p.password
               e == p.connect
               h == p.limits
               i == p.tracer
    <3>1. AreSlots(slots)
      BY DEF AreSlots
    <3> HIDE DEF a, b, c, d, e, h, i, tls, fallbacks, appName, slots
    <3>2. Mutate(PoolOf(a, b, c, d, e, tls, fallbacks, appName, h, i, slots), o)
            = MutatedOnce(o, a, b, c, d, e, tls, fallbacks, appName, h, i, slots)
      BY <1>5, <3>1, MutateIs
    <3> QED  BY <3>2 DEF a, b, c, d, e, h, i
  <2> HIDE DEF next, tls, fallbacks, appName, slots
  <2> QED  BY <1>2, <1>3, <1>4, <1>5, <2>1, <2>2
<1>6. CASE ~Kept(o)
  <2>1. ~Sets(o, "tls") /\ ~Sets(o, "application_name") /\ \A s \in Slot : ~Sets(o, s)
    BY <1>6 DEF Kept, Sets
  <2>2. [s \in Slot |-> IF Sets(o, s) THEN o.to ELSE slots[s]] = slots
    BY <2>1
  <2>3. next = Mutations(p, options.pool)
    <3> HIDE DEF tls, fallbacks, appName, slots
    <3> QED  BY <1>3, <2>1, <2>2 DEF MutatedOnce
  <2> HIDE DEF next
  <2> QED  BY <1>2, <1>4, <1>6, <2>3
<1> QED  BY <1>5, <1>6

LEMMA FreshOptions ==
    ASSUME given = <<>>, options = NoOptions
    PROVE  OptionsOK /\ MutationsOK
<1>1. \A s, x : Setting(s) = {} /\ LastWord(s, x) = x
  <2> TAKE s, x
  <2>1. Setting(s) = Places(given, s) /\ LastWord(s, x) = Word(given, s, x)
    BY LastWordIs
  <2> QED  BY <2>1, NoWord
<1>2. OptionsOK
  <2>1. ToSet(<<>>) = {}
    BY DEF ToSet
  <2> QED  BY <1>1, <2>1 DEF OptionsOK, NoOptions, OptionsOf
<1>3. ASSUME NEW p, IsPool(p) PROVE Mutations(p, options.pool) = Mutated(p)
  <2>1. options.pool = <<>>
    BY DEF NoOptions
  <2>2. Mutated(p) = p
    BY <1>1, <1>3 DEF Mutated, IsPool
  <2> QED  BY <2>1, <2>2, NoMutation
<1> QED  BY <1>2, <1>3 DEF MutationsOK

LEMMA FreshOptionsNext ==
    ASSUME given' = <<>>, options' = NoOptions
    PROVE  OptionsOK' /\ MutationsOK'
<1>1. \A s, x : Setting(s)' = {} /\ LastWord(s, x)' = x
  <2> TAKE s, x
  <2>1. Setting(s)' = Places(given', s) /\ LastWord(s, x)' = Word(given', s, x)
    BY DEF Setting, LastWord, Places, Word, Sets
  <2> QED  BY <2>1, NoWord
<1>2. OptionsOK'
  <2>1. ToSet(<<>>) = {}
    BY DEF ToSet
  <2> QED  BY <1>1, <2>1 DEF OptionsOK, NoOptions, OptionsOf
<1>3. ASSUME NEW p, IsPool(p) PROVE Mutations(p, options'.pool) = Mutated(p)'
  <2>1. options'.pool = <<>>
    BY DEF NoOptions
  <2>2. Mutated(p)' = p
    BY <1>1, <1>3 DEF Mutated, IsPool
  <2> QED  BY <2>1, <2>2, NoMutation
<1> QED  BY <1>2, <1>3 DEF MutationsOK

-------------------------------------------------------------------------------
(* The pool before the options mutate it.                                  *)

\* The server name of the Config, on a link with TLS.
Renamed(tls) ==
    IF cfg.serverName # Unset /\ tls # Plain
    THEN [tls EXCEPT !.name = cfg.serverName]
    ELSE tls

ParsedLinks == LinksOf(Mode, cfg.host)

Configured ==
    PoolOf(cfg.host, cfg.database, Or(cfg.user, Or(env.user, OsUser)),
           Or(cfg.password,
              Or(env.password, Passfile[env.database, Or(env.user, OsUser)])),
           IF cfg.connect > 0 THEN cfg.connect ELSE 0,
           Renamed(Head(ParsedLinks)), Tail(ParsedLinks), Or(cfg.appName, env.appName),
           [l \in Limit |-> IF cfg.limits[l] > 0 THEN cfg.limits[l] ELSE DefaultLimit[l]],
           BuildTracer(options), [s \in Slot |-> Unset])

Traced == [ApplyPoolLimits(Override(ParseConfig)) EXCEPT !.tracer = BuildTracer(options)]

LEMMA TracedIs == Traced = Configured
<1> DEFINE a == cfg.host
           b == env.database
           c == Or(env.user, OsUser)
           d == Or(env.password, Passfile[env.database, Or(env.user, OsUser)])
           tls == Head(ParsedLinks)
           fallbacks == Tail(ParsedLinks)
           appName == env.appName
           slots == [s \in Slot |-> Unset]
           none == <<>>
           zero == 0
           limits == DefaultLimit
           p == PoolOf(a, b, c, d, zero, tls, fallbacks, appName, limits, none, slots)
<1>1. ParseConfig = p
  BY DEF ParseConfig, PoolOf, ParsedLinks
<1> DEFINE xb == cfg.database
           xc == Or(cfg.user, c)
           xd == Or(cfg.password, d)
           xe == IF cfg.connect > 0 THEN cfg.connect ELSE zero
           xt == Renamed(tls)
           xa == Or(cfg.appName, appName)
           xl == [l \in Limit |-> IF cfg.limits[l] > 0 THEN cfg.limits[l] ELSE limits[l]]
           xi == BuildTracer(options)
           q == PoolOf(a, xb, xc, xd, xe, xt, fallbacks, xa, limits, none, slots)
<1>2. Override(p) = q
  <2>1. Override(p) = [p EXCEPT !.database = xb, !.user = xc, !.password = xd,
                                !.connect = xe, !.tls = xt, !.appName = xa]
    <3> HIDE DEF a, b, c, d, tls, fallbacks, appName, slots, none, zero, limits
    <3> QED  BY DEF Override, PoolOf, Renamed
  <2> HIDE DEF xb, xc, xd, xe, xt, xa, a, b, c, d, tls, fallbacks, appName, slots, none,
               zero, limits
  <2>2. [p EXCEPT !.database = xb, !.user = xc, !.password = xd,
                  !.connect = xe, !.tls = xt, !.appName = xa] = q
    <3> DEFINE r1 == [p EXCEPT !.database = xb]
               r2 == [r1 EXCEPT !.user = xc]
               r3 == [r2 EXCEPT !.password = xd]
               r4 == [r3 EXCEPT !.connect = xe]
               r5 == [r4 EXCEPT !.tls = xt]
               r6 == [r5 EXCEPT !.appName = xa]
    <3>1. r1 = PoolOf(a, xb, c, d, zero, tls, fallbacks, appName, limits, none, slots)
      BY DEF PoolOf
    <3>2. r2 = PoolOf(a, xb, xc, d, zero, tls, fallbacks, appName, limits, none, slots)
      <4> HIDE DEF r1
      <4> QED  BY <3>1 DEF PoolOf
    <3>3. r3 = PoolOf(a, xb, xc, xd, zero, tls, fallbacks, appName, limits, none, slots)
      <4> HIDE DEF r2
      <4> QED  BY <3>2 DEF PoolOf
    <3>4. r4 = PoolOf(a, xb, xc, xd, xe, tls, fallbacks, appName, limits, none, slots)
      <4> HIDE DEF r3
      <4> QED  BY <3>3 DEF PoolOf
    <3>5. r5 = PoolOf(a, xb, xc, xd, xe, xt, fallbacks, appName, limits, none, slots)
      <4> HIDE DEF r4
      <4> QED  BY <3>4 DEF PoolOf
    <3>6. r6 = q
      <4> HIDE DEF r5
      <4> QED  BY <3>5 DEF PoolOf
    <3>7. [p EXCEPT !.database = xb, !.user = xc, !.password = xd,
                    !.connect = xe, !.tls = xt, !.appName = xa] = r6
      <4> HIDE DEF p
      <4> QED  OBVIOUS
    <3> QED  BY <3>6, <3>7
  <2> QED  BY <2>1, <2>2
<1>3. ApplyPoolLimits(q) = PoolOf(a, xb, xc, xd, xe, xt, fallbacks, xa, xl, none, slots)
  <2> HIDE DEF xb, xc, xd, xe, xt, xa, a, b, c, d, tls, fallbacks, appName, slots, none,
               zero, limits
  <2>1. q.limits = limits
    BY DEF PoolOf
  <2>2. ApplyPoolLimits(q) = [q EXCEPT !.limits = xl]
    <3> HIDE DEF q
    <3> QED  BY <2>1 DEF ApplyPoolLimits
  <2> HIDE DEF xl
  <2> QED  BY <2>2 DEF PoolOf
<1>4. [PoolOf(a, xb, xc, xd, xe, xt, fallbacks, xa, xl, none, slots) EXCEPT !.tracer = xi]
        = PoolOf(a, xb, xc, xd, xe, xt, fallbacks, xa, xl, xi, slots)
  <2> HIDE DEF xb, xc, xd, xe, xt, xa, xl, xi, a, b, c, d, tls, fallbacks, appName, slots,
               none, zero, limits
  <2> QED  BY DEF PoolOf
<1>5. Configured = PoolOf(a, xb, xc, xd, xe, xt, fallbacks, xa, xl, xi, slots)
  BY DEF Configured
<1> HIDE DEF xb, xc, xd, xe, xt, xa, xl, xi, a, b, c, d, tls, fallbacks, appName, slots,
             none, zero, limits, p, q
<1> QED  BY <1>1, <1>2, <1>3, <1>4, <1>5 DEF Traced, xi

LEMMA PoolConfigIs ==
    ASSUME MutationsOK
    PROVE  PoolConfig = Mutated(Configured)
<1>1. PoolConfig = Mutations(Traced, options.pool)
  BY DEF PoolConfig, Mutations, Traced
<1>2. IsPool(Configured)
  <2> DEFINE a == cfg.host
             b == cfg.database
             c == Or(cfg.user, Or(env.user, OsUser))
             d == Or(cfg.password,
                     Or(env.password, Passfile[env.database, Or(env.user, OsUser)]))
             e == IF cfg.connect > 0 THEN cfg.connect ELSE 0
             tls == Renamed(Head(ParsedLinks))
             fallbacks == Tail(ParsedLinks)
             f == Or(cfg.appName, env.appName)
             limits == [l \in Limit |-> IF cfg.limits[l] > 0 THEN cfg.limits[l]
                                        ELSE DefaultLimit[l]]
             i == BuildTracer(options)
             slots == [s \in Slot |-> Unset]
             p == PoolOf(a, b, c, d, e, tls, fallbacks, f, limits, i, slots)
  <2>1. slots = [s \in Slot |-> slots[s]]
    OBVIOUS
  <2> HIDE DEF a, b, c, d, e, tls, fallbacks, f, limits, i, slots
  <2>2. IsPool(p)
    BY <2>1 DEF IsPool, PoolOf
  <2> QED  BY <2>2 DEF Configured, a, b, c, d, e, tls, fallbacks, f, limits, i, slots
<1>3. Mutations(Configured, options.pool) = Mutated(Configured)
  <2> DEFINE p == Configured
  <2> HIDE DEF p
  <2>1. IsPool(p)
    BY <1>2 DEF p
  <2>2. Mutations(p, options.pool) = Mutated(p)
    BY <2>1 DEF MutationsOK
  <2> QED  BY <2>2 DEF p
<1> QED  BY <1>1, <1>3, TracedIs

-------------------------------------------------------------------------------
(* Links.                                                                  *)

\* The links an sslmode there is may mean.
LEMMA LinksOfMode ==
    ASSUME NEW mode, NEW host
    PROVE  /\ mode = "disable" => LinksOf(mode, host) = <<Plain>>
           /\ mode \in {"require", "verify-ca", "verify-full"} => LinksOf(mode, host) = <<FromFiles(host)>>
           /\ LinksOf(mode, host) \in
                {<<Plain>>, <<Plain, FromFiles(host)>>, <<FromFiles(host), Plain>>,
                 <<FromFiles(host)>>, <<>>}
<1>1. CASE mode = "disable"
  BY <1>1 DEF LinksOf
<1>2. CASE mode = "allow"
  BY <1>2 DEF LinksOf
<1>3. CASE mode = "prefer"
  BY <1>3 DEF LinksOf
<1>4. CASE mode \in {"require", "verify-ca", "verify-full"}
  BY <1>4 DEF LinksOf
<1>5. CASE mode \notin {"disable", "allow", "prefer", "require", "verify-ca", "verify-full"}
  BY <1>5 DEF LinksOf
<1> QED  BY <1>1, <1>2, <1>3, <1>4, <1>5

\* What the connections of the pool are dialled over.
LEMMA LinksOfPool ==
    ASSUME MutationsOK, ~ParseFails, pool = PoolConfig
    PROVE  /\ Setting("tls") # {} => Links = <<Exactly(LastWord("tls", Unset))>>
           /\ Setting("tls") = {} =>
                /\ Mode = "disable" => Links = <<Plain>>
                /\ Mode \in {"require", "verify-ca", "verify-full"} =>
                    Links = <<Renamed(FromFiles(cfg.host))>>
           /\ Len(Links) \in {1, 2}
<1>1. /\ pool.tls = IF Setting("tls") = {} THEN Renamed(Head(ParsedLinks))
                    ELSE Exactly(LastWord("tls", Unset))
      /\ pool.fallbacks = IF Setting("tls") = {} THEN Tail(ParsedLinks) ELSE <<>>
  <2> DEFINE p == Configured
  <2>1. /\ p.tls = Renamed(Head(ParsedLinks))
        /\ p.fallbacks = Tail(ParsedLinks)
    BY DEF Configured, PoolOf
  <2> HIDE DEF p
  <2>2. pool = Mutated(p)
    BY PoolConfigIs DEF p
  <2>3. /\ Mutated(p).tls =
            IF Setting("tls") = {} THEN p.tls ELSE Exactly(LastWord("tls", Unset))
        /\ Mutated(p).fallbacks = IF Setting("tls") = {} THEN p.fallbacks ELSE <<>>
    BY DEF Mutated, PoolOf
  <2> QED  BY <2>1, <2>2, <2>3
<1>2. CASE Setting("tls") # {}
  <2> DEFINE x == Exactly(LastWord("tls", Unset))
  <2>1. pool.tls = x /\ pool.fallbacks = <<>>
    BY <1>1, <1>2
  <2> HIDE DEF x
  <2>2. Links = <<x>>
    BY <2>1 DEF Links
  <2>3. Len(Links) = 1
    BY <2>2
  <2> QED  BY <1>2, <2>2, <2>3 DEF x
<1>3. CASE Setting("tls") = {}
  <2> DEFINE f == FromFiles(cfg.host)
             z == Plain
  <2>1. /\ Mode = "disable" => ParsedLinks = <<z>>
        /\ Mode \in {"require", "verify-ca", "verify-full"} => ParsedLinks = <<f>>
        /\ ParsedLinks \in {<<z>>, <<z, f>>, <<f, z>>, <<f>>}
    BY LinksOfMode DEF ParsedLinks, ParseFails
  <2>2. Renamed(z) = z
    BY DEF Renamed
  <2>3. Links = <<Renamed(Head(ParsedLinks))>> \o Tail(ParsedLinks)
    BY <1>1, <1>3 DEF Links
  <2> HIDE DEF f, z
  <2>4. CASE ParsedLinks = <<z>>
    <3>1. Links = <<z>>
      BY <2>2, <2>3, <2>4
    <3>2. Len(Links) = 1
      BY <3>1
    <3>3. Mode \in {"require", "verify-ca", "verify-full"} => Links = <<Renamed(f)>>
      <4> SUFFICES ASSUME Mode \in {"require", "verify-ca", "verify-full"} PROVE z = f
        BY <2>2, <3>1
      <4> QED  BY <2>1, <2>4
    <3> QED  BY <1>3, <3>1, <3>2, <3>3 DEF f, z
  <2>5. CASE ParsedLinks = <<f>>
    <3> DEFINE g == Renamed(f)
    <3>1. Links = <<g>>
      <4>1. Head(ParsedLinks) = f /\ Tail(ParsedLinks) = <<>>
        BY <2>5
      <4>2. Links = <<g>> \o <<>>
        BY <2>3, <4>1
      <4> HIDE DEF g
      <4> QED  BY <4>2
    <3>2. Len(Links) = 1
      <4> HIDE DEF g
      <4> QED  BY <3>1
    <3>3. Mode = "disable" => Links = <<z>>
      <4> SUFFICES ASSUME Mode = "disable" PROVE f = z
        BY <2>2, <3>1
      <4> QED  BY <2>1, <2>5
    <3> QED  BY <1>3, <3>1, <3>2, <3>3 DEF f, z
  <2>6. CASE ParsedLinks \in {<<z, f>>, <<f, z>>}
    <3>1. Mode \notin {"disable", "require", "verify-ca", "verify-full"}
      BY <2>1, <2>6
    <3>2. Len(Links) = 2
      <4>1. PICK x, y : ParsedLinks = << x, y >>
        BY <2>6
      <4> DEFINE g == Renamed(x)
      <4>2. Head(ParsedLinks) = x /\ Tail(ParsedLinks) = << y >>
        BY <4>1
      <4>3. Links = << g >> \o << y >>
        BY <2>3, <4>2
      <4> HIDE DEF g
      <4> QED  BY <4>3
    <3> QED  BY <1>3, <3>1, <3>2
  <2> QED  BY <2>1, <2>4, <2>5, <2>6
<1> QED  BY <1>2, <1>3

-------------------------------------------------------------------------------
(* Corrections.                                                            *)

\* The fields of a Config with these limits and this mode, mended otherwise.
LEMMA MendedFields ==
    ASSUME IsConfig(cfg), NEW named, NEW max \in Int, NEW min \in Int, NEW mode,
           NEW d, d = Mended(named, max, min, mode)
    PROVE  /\ IsConfig(d)
           /\ d.mode = mode
           /\ d.host = IF "host" \in named THEN "db" ELSE cfg.host
           /\ d.database = IF "database" \in named THEN "app" ELSE cfg.database
           /\ d.connect = IF "connect" \in named THEN 0 ELSE cfg.connect
           /\ d.limits["max_conns"] = max /\ d.limits["min_conns"] = min
<1> DEFINE host == IF "host" \in named THEN "db" ELSE cfg.host
           database == IF "database" \in named THEN "app" ELSE cfg.database
           connect == IF "connect" \in named THEN 0 ELSE cfg.connect
           some == [cfg.limits EXCEPT !["max_conns"] = max]
           limits == [some EXCEPT !["min_conns"] = min]
<1>1. connect \in Int
  BY DEF IsConfig
<1>2. some \in [Limit -> Int] /\ some["max_conns"] = max
  BY DEF IsConfig, Limit
<1>3. limits \in [Limit -> Int] /\ limits["max_conns"] = max /\ limits["min_conns"] = min
  <2> HIDE DEF some
  <2> QED  BY <1>2 DEF Limit
<1> DEFINE r1 == [cfg EXCEPT !.host = host]
           r2 == [r1 EXCEPT !.database = database]
           r3 == [r2 EXCEPT !.connect = connect]
           r4 == [r3 EXCEPT !.mode = mode]
           r5 == [r4 EXCEPT !.limits = limits]
<1>4. d = r5
  BY DEF Mended, IsConfig, ConfigField
<1> HIDE DEF host, database, connect, some, limits
<1>5. d = [cfg EXCEPT !.host = host, !.database = database, !.connect = connect,
                      !.mode = mode, !.limits = limits]
  BY <1>4 DEF IsConfig, ConfigField
<1>6. /\ IsConfig(d)
      /\ d.mode = mode /\ d.host = host /\ d.database = database
      /\ d.connect = connect /\ d.limits = limits
  BY <1>1, <1>3, <1>5 DEF IsConfig, ConfigField
<1> QED  BY <1>3, <1>6 DEF host, database, connect

\* What Wrong says of each problem.
LEMMA WrongIs ==
    ASSUME NEW c
    PROVE  /\ Wrong(c, "host") <=> ~Resolves(c.host)
           /\ Wrong(c, "database") <=> c.database = Unset
           /\ Wrong(c, "max_conns") <=> c.limits["max_conns"] < 0
           /\ Wrong(c, "min_conns") <=> c.limits["min_conns"] < 0
           /\ Wrong(c, "min_max_conns") <=>
                /\ c.limits["max_conns"] > 0
                /\ c.limits["min_conns"] > c.limits["max_conns"]
           /\ Wrong(c, "connect") <=> c.connect < 0
BY DEF Wrong

\* A corrected Config is wrong in nothing, or in how its limits fit, and that
\* only when one of them was named.
LEMMA CorrectedIs ==
    ASSUME IInv, Correct
    PROVE  LET named == Last(refusals)
           IN  /\ IsConfig(cfg')
               /\ Validate(cfg') \subseteq {"min_max_conns"}
               /\ Validate(cfg') # {} => named \cap Conns # {}
               /\ IF "sslmode" \in named THEN cfg'.mode \in KnownMode ELSE cfg'.mode = cfg.mode
<1> DEFINE named == Last(refusals)
           d == cfg'
<1>1. IsConfig(cfg)
  BY DEF IInv, TypeOK
<1>2. /\ cfg.limits["max_conns"] \in Int /\ cfg.limits["min_conns"] \in Int
      /\ cfg.connect \in Int
  BY <1>1 DEF IsConfig, Limit
<1>3. /\ phase = "refused"
      /\ named = Validate(cfg) \/ (named = {"sslmode"} /\ Validate(cfg) = {})
  BY DEF IInv, RefusalsOK, Correct
<1>4. \A p \in Problem : p \notin named => ~Wrong(cfg, p)
  BY <1>3 DEF Validate
<1>5. \A p \in named \cap Problem : ~Wrong(d, p)
  BY DEF Correct
<1>6. PICK max \in IF {"max_conns", "min_max_conns"} \cap named = {}
                   THEN {cfg.limits["max_conns"]} ELSE Amount,
           min \in IF {"min_conns", "min_max_conns"} \cap named = {}
                   THEN {cfg.limits["min_conns"]} ELSE Amount,
           mode \in IF "sslmode" \in named THEN KnownMode ELSE {cfg.mode} :
        d = Mended(named, max, min, mode)
  BY DEF Correct
<1>7. max \in Int /\ min \in Int
  <2>1. /\ max = cfg.limits["max_conns"] \/ max \in Amount
        /\ min = cfg.limits["min_conns"] \/ min \in Amount
    BY Zenon
  <2>2. Amount \subseteq Int
    BY AmountAssumption
  <2> QED  BY <1>2, <2>1, <2>2
<1> HIDE DEF named, d
<1>8. /\ IsConfig(d)
      /\ d.mode = mode
      /\ d.host = IF "host" \in named THEN "db" ELSE cfg.host
      /\ d.database = IF "database" \in named THEN "app" ELSE cfg.database
      /\ d.connect = IF "connect" \in named THEN 0 ELSE cfg.connect
      /\ d.limits["max_conns"] = max /\ d.limits["min_conns"] = min
  BY <1>1, <1>6, <1>7, MendedFields
<1>9. ~Wrong(d, "host") /\ ~Wrong(d, "database") /\ ~Wrong(d, "connect")
  BY <1>4, <1>5, <1>8, WrongIs DEF Problem
<1>10. ~Wrong(d, "max_conns")
  <2>1. CASE {"max_conns", "min_max_conns"} \cap named = {}
    <3>1. max = cfg.limits["max_conns"] /\ ~Wrong(cfg, "max_conns")
      BY <1>4, <1>6, <2>1 DEF Problem
    <3> QED  BY <1>8, <3>1, WrongIs
  <2>2. CASE {"max_conns", "min_max_conns"} \cap named # {}
    <3>1. max \in Nat
      BY <1>6, <2>2, AmountAssumption
    <3>2. ~(max < 0)
      BY <3>1
    <3> QED  BY <1>8, <3>2, WrongIs
  <2> QED  BY <2>1, <2>2
<1>11. ~Wrong(d, "min_conns")
  <2>1. CASE {"min_conns", "min_max_conns"} \cap named = {}
    <3>1. min = cfg.limits["min_conns"] /\ ~Wrong(cfg, "min_conns")
      BY <1>4, <1>6, <2>1 DEF Problem
    <3> QED  BY <1>8, <3>1, WrongIs
  <2>2. CASE {"min_conns", "min_max_conns"} \cap named # {}
    <3>1. min \in Nat
      BY <1>6, <2>2, AmountAssumption
    <3>2. ~(min < 0)
      BY <3>1
    <3> QED  BY <1>8, <3>2, WrongIs
  <2> QED  BY <2>1, <2>2
<1>12. ASSUME named \cap Conns = {}
       PROVE  ~Wrong(d, "min_max_conns")
  <2>1. CASE "min_max_conns" \in named
    BY <1>5, <2>1 DEF Problem
  <2>2. CASE "min_max_conns" \notin named
    <3>1. max = cfg.limits["max_conns"] /\ min = cfg.limits["min_conns"]
      BY <1>6, <1>12, <2>2 DEF Conns
    <3>2. ~Wrong(cfg, "min_max_conns")
      BY <1>4, <2>2 DEF Problem
    <3> QED  BY <1>8, <3>1, <3>2, WrongIs
  <2> QED  BY <2>1, <2>2
<1>13. Validate(d) \subseteq {"min_max_conns"}
  BY <1>9, <1>10, <1>11 DEF Validate, Problem
<1>14. Validate(d) # {} => Wrong(d, "min_max_conns")
  BY <1>13 DEF Validate
<1> QED  BY <1>6, <1>8, <1>12, <1>13, <1>14 DEF named, d

-------------------------------------------------------------------------------
(* The steps.                                                              *)

LEMMA Initially ==
    Init => IInv
<1> SUFFICES ASSUME Init PROVE IInv
  OBVIOUS
<1>1. TypeOK
  BY ConfigAssumption DEF Init, TypeOK, NoOptions
<1>2. OptionsOK /\ MutationsOK
  BY FreshOptions DEF Init
<1>3. PoolOK
  BY DEF Init, PoolOK, Dialled
<1>4. RefusalsOK
  BY DEF Init, RefusalsOK, Refused, Follow
<1> QED  BY <1>1, <1>2, <1>3, <1>4 DEF IInv

\* Steps that leave the Config alone.
LEMMA SameRefusals ==
    ASSUME IInv, UNCHANGED << cfg, env, refusals >>, phase # "refused",
           phase' \notin {"validating", "refused"}, phase = "validating" => Validate(cfg) = {}
    PROVE  RefusalsOK'
<1>1. ParseFails' = ParseFails
  BY DEF ParseFails, Mode
<1> QED  BY <1>1 DEF IInv, RefusalsOK, Refused, Follow

LEMMA SameOptions ==
    ASSUME UNCHANGED << cfg, env, given, options >>
    PROVE  /\ OptionsOK => OptionsOK'
           /\ MutationsOK => MutationsOK'
           /\ PoolConfig' = PoolConfig
           /\ ParseFails' = ParseFails
<1>1. OptionsOK' = OptionsOK
  BY DEF OptionsOK, LastWord, Setting
<1>2. MutationsOK => MutationsOK'
  <2> SUFFICES ASSUME MutationsOK, NEW p, IsPool(p)
               PROVE  Mutations(p, options'.pool) = Mutated(p)'
    BY DEF MutationsOK
  <2>1. Mutated(p)' = Mutated(p)
    BY DEF Mutated, LastWord, Setting
  <2> QED  BY <2>1 DEF MutationsOK
<1>3. PoolConfig' = PoolConfig
  <2>1. Traced' = Traced
    BY DEF Traced, ParseConfig, Mode, Override, ApplyPoolLimits, BuildTracer
  <2>2. PoolConfig = FoldLeft(Mutate, Traced, options.pool)
    BY DEF PoolConfig, Traced
  <2>3. PoolConfig' = FoldLeft(Mutate, Traced', options'.pool)
    BY DEF PoolConfig, Traced
  <2> QED  BY <2>1, <2>2, <2>3
<1>4. ParseFails' = ParseFails
  BY DEF ParseFails, Mode
<1> QED  BY <1>1, <1>2, <1>3, <1>4

LEMMA Gives ==
    ASSUME IInv, NEW o \in Option, Give(o)
    PROVE  IInv'
<1>1. /\ phase = "giving" /\ phase' = phase /\ cfg' = cfg /\ env' = env /\ pool' = pool
      /\ refusals' = refusals /\ link' = link
  BY DEF Give, makeVars, dialVars
<1>2. TypeOK' /\ OptionsOK'
  BY GiveOptions DEF IInv
<1>3. MutationsOK'
  BY GiveMutations DEF IInv
<1>4. PoolOK'
  BY <1>1 DEF IInv, PoolOK, Dialled
<1>5. RefusalsOK'
  BY <1>1, SameRefusals
<1> QED  BY <1>2, <1>3, <1>4, <1>5 DEF IInv

\* A refusal goes behind the others: only one that comes first may name
\* anything, and there is room for it.
LEMMA Appended ==
    ASSUME NEW B, NEW q \in Seq(B), NEW named \in B, Follow(q),
           q # <<>> => MayFollow(Last(q), named) /\ Len(q) <= 2
    PROVE  LET t == Append(q, named)
           IN  t \in Seq(B) /\ t # <<>> /\ Last(t) = named /\ Follow(t) /\ Len(t) <= 3
<1> DEFINE t == Append(q, named)
           n == Len(q)
<1>1. /\ n \in Nat /\ t \in Seq(B) /\ Len(t) = n + 1
      /\ \A i \in 1 .. n : t[i] = q[i]
      /\ t[n + 1] = named
  OBVIOUS
<1>2. q = <<>> <=> n = 0
  OBVIOUS
<1> HIDE DEF t, n
<1>3. Last(t) = named /\ t # <<>>
  BY <1>1 DEF Last
<1>4. Len(t) <= 3
  BY <1>1, <1>2 DEF n
<1>5. ASSUME NEW i \in 2 .. Len(t) PROVE MayFollow(t[i - 1], t[i])
  <2>1. CASE i <= n
    <3>1. i \in 2 .. n /\ i \in 1 .. n /\ i - 1 \in 1 .. n
      BY <1>1, <2>1
    <3>2. MayFollow(q[i - 1], q[i])
      BY <3>1 DEF Follow, n
    <3> QED  BY <1>1, <3>1, <3>2
  <2>2. CASE i = n + 1
    <3>1. n # 0 /\ n \in 1 .. n /\ i - 1 = n
      BY <1>1, <2>2
    <3>2. t[i - 1] = Last(q)
      BY <1>1, <3>1 DEF Last, n
    <3> QED  BY <1>1, <1>2, <2>2, <3>1, <3>2
  <2> QED  BY <1>1, <2>1, <2>2
<1> QED  BY <1>1, <1>3, <1>4, <1>5 DEF Follow, t

\* The refusals before one that may still follow.
LEMMA FewBefore ==
    ASSUME IInv, Refused
    PROVE  /\ Last(refusals) \cap Conns # {} => Len(refusals) <= 2
           /\ Last(refusals) # {"sslmode"} => Len(refusals) <= 2
<1> DEFINE n == Len(refusals)
<1>1. refusals \in Seq(SUBSET (Problem \cup {"sslmode"}))
  BY DEF IInv, TypeOK
<1>2. n \in Nat /\ n <= 3 /\ Last(refusals) = refusals[n]
  BY <1>1 DEF IInv, RefusalsOK, Last
<1>3. \A i \in 2 .. n : MayFollow(refusals[i - 1], refusals[i])
  BY DEF IInv, RefusalsOK, Follow
<1>4. {"sslmode"} \cap Conns = {} /\ {"min_max_conns"} \cap Conns = {}
  BY DEF Conns
<1>5. ASSUME n = 3 PROVE Last(refusals) = {"sslmode"}
  <2>1. 2 \in 2 .. n /\ 3 \in 2 .. n /\ 3 - 1 = 2
    BY <1>5
  <2>2. MayFollow(refusals[2], refusals[3]) /\ MayFollow(refusals[2 - 1], refusals[2])
    BY <1>3, <2>1
  <2>3. refusals[2] \cap Conns = {}
    BY <1>4, <2>2 DEF MayFollow
  <2> QED  BY <1>2, <1>5, <2>2, <2>3 DEF MayFollow
<1> HIDE DEF n
<1>6. n <= 2 \/ n = 3
  BY <1>2
<1> QED  BY <1>4, <1>5, <1>6 DEF n

LEMMA Refuses ==
    ASSUME IInv, MakeInvalid \/ MakeUnparsable
    PROVE  IInv'
<1> DEFINE named == IF phase = "validating" THEN Validate(cfg) ELSE {"sslmode"}
<1>1. /\ phase' = "refused" /\ pool' = pool /\ refusals' = Append(refusals, named)
      /\ UNCHANGED << cfg, env, given, options >> /\ tries' = tries
      /\ ~Dialled
      /\ \/ phase = "validating" /\ Validate(cfg) # {}
         \/ phase = "giving" /\ ParseFails
  BY DEF MakeInvalid, MakeUnparsable, Refuse, dialVars, Dialled
<1>2. OptionsOK' /\ MutationsOK'
  BY <1>1, SameOptions DEF IInv
<1>3. PoolOK'
  BY <1>1 DEF IInv, PoolOK, Dialled
<1>4. Refused => MayFollow(Last(refusals), named) /\ Len(refusals) <= 2
  <2> SUFFICES ASSUME Refused PROVE MayFollow(Last(refusals), named) /\ Len(refusals) <= 2
    OBVIOUS
  <2>1. CASE phase = "validating" /\ Validate(cfg) # {}
    <3>1. Validate(cfg) = {"min_max_conns"} /\ Last(refusals) \cap Conns # {}
      BY <2>1 DEF IInv, RefusalsOK
    <3> QED  BY <2>1, <3>1, FewBefore DEF MayFollow
  <2>2. CASE phase = "giving" /\ ParseFails
    <3>1. Last(refusals) # {"sslmode"}
      BY <2>2 DEF IInv, RefusalsOK
    <3> QED  BY <2>2, <3>1, FewBefore DEF MayFollow
  <2> QED  BY <1>1, <2>1, <2>2
<1>5. /\ refusals' \in Seq(SUBSET (Problem \cup {"sslmode"}))
      /\ refusals' # <<>> /\ Last(refusals') = named
      /\ Follow(refusals') /\ Len(refusals') <= 3
  <2>1. named \in SUBSET (Problem \cup {"sslmode"})
    BY DEF Validate
  <2>2. refusals \in Seq(SUBSET (Problem \cup {"sslmode"})) /\ Follow(refusals)
    BY DEF IInv, TypeOK, RefusalsOK
  <2> HIDE DEF named
  <2> QED  BY <1>1, <1>4, <2>1, <2>2, Appended DEF Refused
<1>6. named = Validate(cfg) \/ (named = {"sslmode"} /\ Validate(cfg) = {})
  BY <1>1 DEF IInv, RefusalsOK
<1>7. TypeOK' /\ RefusalsOK'
  <2> HIDE DEF named
  <2> QED  BY <1>1, <1>5, <1>6 DEF IInv, TypeOK, RefusalsOK, Refused
<1> QED  BY <1>2, <1>3, <1>7 DEF IInv

LEMMA Makes ==
    ASSUME IInv, MakeValid \/ Make \/ MakeFails
    PROVE  IInv'
<1>1. /\ UNCHANGED << cfg, env, given, options >>
      /\ tries' = tries /\ refusals' = refusals
      /\ phase \in {"validating", "giving"} /\ ~Dialled
      /\ phase' \in {"giving", "made", "failed"}
      /\ phase = "validating" => Validate(cfg) = {}
      /\ IF phase' = "made" THEN pool' = PoolConfig /\ ~ParseFails ELSE pool' = pool
  BY DEF MakeValid, Make, MakeFails, dialVars, Dialled
<1>2. OptionsOK' /\ MutationsOK' /\ PoolConfig' = PoolConfig /\ ParseFails' = ParseFails
  BY <1>1, SameOptions DEF IInv
<1>3. PoolOK'
  BY <1>1, <1>2 DEF IInv, PoolOK, Dialled
<1>4. TypeOK'
  BY <1>1 DEF IInv, TypeOK
<1>5. RefusalsOK'
  BY <1>1, SameRefusals
<1> QED  BY <1>2, <1>3, <1>4, <1>5 DEF IInv

LEMMA Corrects ==
    ASSUME IInv, Correct
    PROVE  IInv'
<1>1. /\ phase = "refused" /\ phase' = "validating" /\ pool' = pool
      /\ given' = <<>> /\ options' = NoOptions
      /\ tries' = tries /\ refusals' = refusals /\ env' = env
  BY DEF Correct, dialVars
<1>2. /\ IsConfig(cfg')
      /\ Validate(cfg') \subseteq {"min_max_conns"}
      /\ Validate(cfg') # {} => Last(refusals) \cap Conns # {}
      /\ "sslmode" \in Last(refusals) => cfg'.mode \in KnownMode
  BY CorrectedIs
<1>3. OptionsOK' /\ MutationsOK'
  BY <1>1, FreshOptionsNext
<1>4. PoolOK'
  BY <1>1 DEF IInv, PoolOK, Dialled
<1>5. Last(refusals) = {"sslmode"} => ~ParseFails'
  <2> SUFFICES ASSUME cfg'.mode \in KnownMode PROVE LinksOf(Mode', cfg'.host) # <<>>
    BY <1>2 DEF ParseFails
  <2>1. Mode' = cfg'.mode
    BY UnsetAssumption DEF Mode, Or
  <2> QED  BY <2>1 DEF LinksOf, KnownMode
<1>6. RefusalsOK'
  BY <1>1, <1>2, <1>5 DEF IInv, RefusalsOK, Refused
<1>7. TypeOK'
  BY <1>1, <1>2 DEF IInv, TypeOK, NoOptions
<1> QED  BY <1>3, <1>4, <1>6, <1>7 DEF IInv

LEMMA Dials ==
    ASSUME IInv, Dial \/ Unreachable
    PROVE  IInv'
<1>1. /\ phase = "made" /\ pool' = pool
      /\ UNCHANGED << cfg, env, given, options >>
      /\ refusals' = refusals
  BY DEF Dial, Unreachable
<1>2. OptionsOK' /\ MutationsOK' /\ PoolConfig' = PoolConfig /\ ParseFails' = ParseFails
  BY <1>1, SameOptions DEF IInv
<1>3. phase' \in {"made", "connected", "unreachable"} /\ tries' \in Nat
  BY <1>1 DEF Dial, Unreachable, dialVars, IInv, TypeOK
<1>4. phase' = "connected" => \E k \in 1 .. Len(Links) : link' = Links[k]
  <2> SUFFICES ASSUME phase' = "connected" PROVE \E k \in 1 .. Len(Links) : link' = Links[k]
    OBVIOUS
  <2>1. Dial /\ tries' = tries + 1 /\ tries < Len(Links) /\ link' = Links[tries']
    BY <1>1 DEF Dial, Unreachable
  <2>2. Len(Links) \in Nat
    <3>1. pool = PoolConfig /\ ~ParseFails /\ MutationsOK
      BY <1>1 DEF IInv, PoolOK, Dialled
    <3> QED  BY <3>1, LinksOfPool
  <2>3. tries' \in 1 .. Len(Links)
    BY <2>1, <2>2 DEF IInv, TypeOK
  <2> QED  BY <2>1, <2>3
<1>5. Links' = Links
  BY <1>1 DEF Links
<1>6. PoolOK'
  BY <1>1, <1>2, <1>3, <1>4, <1>5 DEF IInv, PoolOK, Dialled
<1>7. TypeOK'
  BY <1>1, <1>3 DEF IInv, TypeOK
<1>8. RefusalsOK'
  BY <1>1, <1>3, SameRefusals
<1> QED  BY <1>2, <1>6, <1>7, <1>8 DEF IInv

LEMMA Stutters ==
    ASSUME IInv, UNCHANGED vars
    PROVE  IInv'
<1>1. /\ UNCHANGED << cfg, env, given, options >>
      /\ phase' = phase /\ refusals' = refusals /\ pool' = pool
      /\ tries' = tries /\ link' = link
  BY DEF vars, makeVars, dialVars
<1>2. OptionsOK' /\ MutationsOK' /\ PoolConfig' = PoolConfig /\ ParseFails' = ParseFails
  BY <1>1, SameOptions DEF IInv
<1>3. Links' = Links
  BY <1>1 DEF Links
<1>4. PoolOK'
  BY <1>1, <1>2, <1>3 DEF IInv, PoolOK, Dialled
<1>5. TypeOK' /\ RefusalsOK'
  BY <1>1, <1>2 DEF IInv, TypeOK, RefusalsOK, Refused
<1> QED  BY <1>2, <1>4, <1>5 DEF IInv

LEMMA Invariant == Spec => []IInv
<1>1. Init => IInv
  BY Initially
<1>2. IInv /\ [Next]_vars => IInv'
  <2> SUFFICES ASSUME IInv, [Next]_vars PROVE IInv'
    OBVIOUS
  <2>1. CASE \E o \in Option : Give(o)
    BY <2>1, Gives
  <2>2. CASE MakeInvalid \/ MakeUnparsable
    BY <2>2, Refuses
  <2>3. CASE MakeValid \/ Make \/ MakeFails
    BY <2>3, Makes
  <2>4. CASE Correct
    BY <2>4, Corrects
  <2>5. CASE Dial \/ Unreachable
    BY <2>5, Dials
  <2>6. CASE UNCHANGED vars
    BY <2>6, Stutters
  <2> QED  BY <2>1, <2>2, <2>3, <2>4, <2>5, <2>6 DEF Next
<1> QED  BY <1>1, <1>2, PTL DEF Spec

-------------------------------------------------------------------------------
(* Observers.                                                              *)

\* Who hears, in the tracers of a pool.
Heard(q, by) == {i \in DOMAIN q : q[i].by = by}

\* An observer is among the tracers so many times: once, or not at all.
Hears(q, by, times, with) ==
    IF times = 0
    THEN Heard(q, by) = {}
    ELSE \E i \in Heard(q, by) : Heard(q, by) = {i} /\ q[i].with = with

\* The observers but one hear in the tracers t as they do in q.
OthersHear(q, t, by) ==
    \A other : other # by =>
        /\ Heard(t, other) = Heard(q, other)
        /\ \A e, w : Hears(q, other, e, w) => Hears(t, other, e, w)

Observer(by, with) == [by |-> by, with |-> with]

Observing(by, with, times) == IF times = 0 THEN <<>> ELSE <<Observer(by, with)>>

\* Tracers, and one more observer.
And(q, by, with, times) == q \o Observing(by, with, times)

Times(enabled) == IF enabled THEN 1 ELSE 0

LEMMA OneMoreObserver ==
    ASSUME NEW S, NEW q \in Seq(S), NEW by, NEW with, NEW times \in {0, 1},
           Observer(by, with) \in S, Heard(q, by) = {},
           NEW t, t = And(q, by, with, times)
    PROVE  /\ t \in Seq(S)
           /\ Hears(t, by, times, with)
           /\ OthersHear(q, t, by)
<1> DEFINE x == Observer(by, with)
           n == Len(q)
<1>1. CASE times = 1
  <2>1. x.by = by /\ x.with = with /\ x \in S
    BY DEF Observer
  <2> HIDE DEF x
  <2>2. t = q \o <<x>>
    BY <1>1 DEF x, And, Observing
  <2>3. /\ t \in Seq(S) /\ n \in Nat
        /\ DOMAIN q = 1 .. n /\ DOMAIN t = 1 .. n + 1
        /\ \A i \in 1 .. n : t[i] = q[i]
        /\ t[n + 1] = x
    BY <2>1, <2>2
  <2> HIDE DEF n
  <2>4. Heard(t, by) = {n + 1}
    BY <2>1, <2>3 DEF Heard
  <2>5. ASSUME NEW other, other # by
        PROVE  /\ Heard(t, other) = Heard(q, other)
               /\ \A i \in Heard(q, other) : t[i] = q[i]
    BY <2>1, <2>3, <2>5 DEF Heard
  <2>6. Hears(t, by, times, with)
    BY <1>1, <2>1, <2>3, <2>4 DEF Hears
  <2>7. \A other, e, w : other # by /\ Hears(q, other, e, w) => Hears(t, other, e, w)
    BY <2>5 DEF Hears
  <2>8. OthersHear(q, t, by)
    BY <2>5, <2>7 DEF OthersHear
  <2> QED  BY <2>3, <2>6, <2>8
<1>2. CASE times = 0
  <2>1. t = q
    BY <1>2 DEF And, Observing
  <2>2. OthersHear(q, t, by)
    BY <2>1 DEF OthersHear
  <2> QED  BY <1>2, <2>1, <2>2 DEF Hears
<1> QED  BY <1>1, <1>2

\* Each observer enabled is among the tracers once, whichever others are.
LEMMA ObserversHear ==
    ASSUME NEW o, o.tracing \in BOOLEAN
    PROVE  /\ Hears(Observers(o), "otel", Times(o.tracing), o.tracingOptions)
           /\ Hears(Observers(o), "tracer", Times(o.tracer # Unset), o.tracer)
           /\ Hears(Observers(o), "metrics", Times(o.metrics # Unset),
                    << o.metrics, o.sql >>)
<1> DEFINE a == Times(o.tracing)
           b == Times(o.tracer # Unset)
           c == Times(o.metrics # Unset)
           wa == o.tracingOptions
           wb == o.tracer
           wc == << o.metrics, o.sql >>
           S == {Observer("otel", wa), Observer("tracer", wb),
                 Observer("metrics", wc)}
           none == <<>>
           q == none \o Observing("otel", wa, a)
           r == q \o Observing("tracer", wb, b)
           t == r \o Observing("metrics", wc, c)
<1>1. a \in {0, 1} /\ b \in {0, 1} /\ c \in {0, 1}
  BY DEF Times
<1>2. /\ Observer("otel", wa) \in S
      /\ Observer("tracer", wb) \in S
      /\ Observer("metrics", wc) \in S
  OBVIOUS
<1>3. none \in Seq(S) /\ \A by : Heard(none, by) = {}
  BY DEF Heard
<1>4. Observers(o) = t
  <2>1. q = Observing("otel", wa, a)
    BY DEF Observing
  <2>2. Observers(o) =
            Observing("otel", wa, a)
            \o Observing("tracer", wb, b)
            \o Observing("metrics", wc, c)
    BY DEF Observers, Observing, Observer, Times
  <2> HIDE DEF q, a, b, c, wa, wb, wc
  <2> QED  BY <2>1, <2>2
<1> HIDE DEF a, b, c, wa, wb, wc, S, none
<1>5. /\ q \in Seq(S) /\ Hears(q, "otel", a, wa)
      /\ \A by : by # "otel" => Heard(q, by) = {}
  <2>1. q = And(none, "otel", wa, a)
    BY DEF And
  <2> HIDE DEF q
  <2>2. /\ q \in Seq(S) /\ Hears(q, "otel", a, wa)
        /\ OthersHear(none, q, "otel")
    BY <1>1, <1>2, <1>3, <2>1, OneMoreObserver
  <2> QED  BY <1>3, <2>2 DEF OthersHear
<1>6. /\ r \in Seq(S) /\ Hears(r, "otel", a, wa) /\ Hears(r, "tracer", b, wb)
      /\ Heard(r, "metrics") = {}
  <2>1. r = And(q, "tracer", wb, b)
    BY DEF And
  <2> HIDE DEF q, r
  <2>2. Heard(q, "tracer") = {} /\ Heard(q, "metrics") = {}
    BY <1>5
  <2>3. /\ r \in Seq(S) /\ Hears(r, "tracer", b, wb)
        /\ OthersHear(q, r, "tracer")
    BY <1>1, <1>2, <1>5, <2>1, <2>2, OneMoreObserver
  <2>4. Hears(r, "otel", a, wa)
    BY <1>5, <2>3 DEF OthersHear
  <2>5. Heard(r, "metrics") = {}
    BY <2>2, <2>3 DEF OthersHear
  <2> QED  BY <2>3, <2>4, <2>5
<1>7. Hears(t, "otel", a, wa) /\ Hears(t, "tracer", b, wb) /\ Hears(t, "metrics", c, wc)
  <2>1. t = And(r, "metrics", wc, c)
    BY DEF And
  <2> HIDE DEF q, r, t
  <2>2. /\ Hears(t, "metrics", c, wc)
        /\ OthersHear(r, t, "metrics")
    BY <1>1, <1>2, <1>6, <2>1, OneMoreObserver
  <2> QED  BY <1>6, <2>2 DEF OthersHear
<1> HIDE DEF t
<1> QED  BY <1>4, <1>7 DEF a, b, c, wa, wb, wc

-------------------------------------------------------------------------------
(* The theorems.                                                           *)

\* What the pool is, from when Make has returned it.
LEMMA PoolIs ==
    ASSUME IInv, pool # Unset
    PROVE  pool = Mutated(Configured) /\ ~ParseFails
BY PoolConfigIs DEF IInv, PoolOK

\* The last option that sets something decides it, whatever was given before
\* and between; without one the Config does, then the environment or pgx.
THEOREM LastWordDecides == Spec => []LastWordWins
<1>1. IInv => LastWordWins
  <2> SUFFICES ASSUME IInv, pool # Unset PROVE LastWordWins
    BY DEF LastWordWins
  <2> DEFINE p == Configured
  <2>1. /\ p.user = Or(cfg.user, Or(env.user, OsUser))
        /\ p.password =
            Or(cfg.password, Or(env.password, Passfile[env.database, Or(env.user, OsUser)]))
        /\ p.appName = Or(cfg.appName, env.appName)
        /\ \A s \in Slot : p.slots[s] = Unset
        /\ \A l \in Limit :
            p.limits[l] = IF cfg.limits[l] > 0 THEN cfg.limits[l] ELSE DefaultLimit[l]
    BY DEF Configured, PoolOf
  <2> HIDE DEF p
  <2>2. pool = Mutated(p)
    BY PoolIs DEF p
  <2>3. /\ pool.user = p.user /\ pool.password = p.password /\ pool.limits = p.limits
        /\ pool.appName = LastWord("application_name", p.appName)
        /\ pool.slots = [s \in Slot |-> LastWord(s, p.slots[s])]
    BY <2>2 DEF Mutated, PoolOf
  <2>4. Or(cfg.password, env.password) # Unset =>
            p.password = Or(cfg.password, env.password)
    BY <2>1 DEF Or
  <2>5. \A s \in Slot : pool.slots[s] = LastWord(s, Unset)
    BY <2>1, <2>3
  <2> QED  BY <2>1, <2>3, <2>4, <2>5 DEF LastWordWins
<1> QED  BY <1>1, Invariant, PTL

\* A connection never comes to be over a link that was not asked for: with
\* WithTLS it is exactly the last one given, without it the sslmode decides.
THEOREM LinksAsAsked == Spec => []LinkAsRequired
<1>1. IInv => LinkAsRequired
  <2> SUFFICES ASSUME IInv, phase = "connected" PROVE LinkAsRequired
    BY DEF LinkAsRequired
  <2>1. pool = PoolConfig /\ ~ParseFails /\ MutationsOK
    BY DEF IInv, PoolOK, Dialled
  <2>2. /\ Setting("tls") # {} => Links = <<Exactly(LastWord("tls", Unset))>>
        /\ Setting("tls") = {} =>
            /\ Mode = "disable" => Links = <<Plain>>
            /\ Mode \in {"require", "verify-ca", "verify-full"} =>
                    Links = <<Renamed(FromFiles(cfg.host))>>
    BY <2>1, LinksOfPool
  <2>3. PICK k \in 1 .. Len(Links) : link = Links[k]
    BY DEF IInv, PoolOK
  <2>4. \A x : Links = << x >> => link = x
    <3> TAKE x
    <3> HAVE Links = << x >>
    <3>1. Len(<< x >>) = 1 /\ << x >>[1] = x
      OBVIOUS
    <3>2. k = 1
      BY <2>3, <3>1
    <3> QED  BY <2>3, <3>1, <3>2
  <2>5. CASE Setting("tls") # {}
    BY <2>2, <2>4, <2>5 DEF LinkAsRequired
  <2>6. CASE Setting("tls") = {}
    <3> DEFINE f == FromFiles(cfg.host)
               g == Renamed(f)
    <3>1. f.tls = "files" /\ f.name = cfg.host /\ f # Plain
      <4>1. f.tls = "files" /\ f.name = cfg.host
        BY DEF FromFiles
      <4>2. Plain.tls = Unset
        BY DEF Plain
      <4> QED  BY <4>1, <4>2, UnsetAssumption
    <3>2. g.tls = "files" /\ g.name = Or(cfg.serverName, cfg.host)
      <4>1. g = IF cfg.serverName # Unset THEN [f EXCEPT !.name = cfg.serverName] ELSE f
        <5> HIDE DEF f
        <5> QED  BY <3>1 DEF Renamed
      <4>2. [f EXCEPT !.name = cfg.serverName] = [tls |-> "files", name |-> cfg.serverName]
        BY DEF FromFiles
      <4> HIDE DEF f, g
      <4>3. CASE cfg.serverName # Unset
        <5>1. g = [tls |-> "files", name |-> cfg.serverName]
          BY <4>1, <4>2, <4>3
        <5>2. g.tls = "files" /\ g.name = cfg.serverName
          BY <5>1
        <5> QED  BY <4>3, <5>2 DEF Or
      <4>4. CASE cfg.serverName = Unset
        BY <3>1, <4>1, <4>4 DEF Or
      <4> QED  BY <4>3, <4>4
    <3>3. g # Plain
      <4> HIDE DEF g
      <4>1. Plain.tls = Unset
        BY DEF Plain
      <4> QED  BY <3>2, <4>1, UnsetAssumption
    <3> HIDE DEF g
    <3>4. Mode \in {"require", "verify-ca", "verify-full"} => link = g
      BY <2>2, <2>4, <2>6 DEF g
    <3>5. Mode = "disable" => link = Plain
      BY <2>2, <2>4, <2>6
    <3> QED  BY <2>6, <3>2, <3>3, <3>4, <3>5 DEF LinkAsRequired
  <2> QED  BY <2>5, <2>6
<1> QED  BY <1>1, Invariant, PTL

\* Each observer that was enabled hears of a statement once, whatever the
\* order of the options, and one that is not enabled never.
THEOREM ObserversHearOnce == Spec => []ObserversCompose
<1>1. IInv => ObserversCompose
  <2> SUFFICES ASSUME IInv, pool # Unset PROVE ObserversCompose
    BY DEF ObserversCompose
  <2> DEFINE q == pool.tracer
             metrics == << LastWord("metrics", Unset), LastWord("sql", Unset) >>
  <2>1. q = Observers(options)
    <3> DEFINE p == Configured
    <3>1. p.tracer = BuildTracer(options)
      BY DEF Configured, PoolOf
    <3> HIDE DEF p
    <3>2. pool = Mutated(p)
      BY PoolIs DEF p
    <3>3. pool.tracer = p.tracer
      BY <3>2 DEF Mutated, PoolOf
    <3> QED  BY <3>1, <3>3 DEF BuildTracer
  <2>2. /\ options.tracing \in BOOLEAN
        /\ options.tracing <=> Setting("tracing") # {}
        /\ ToSet(options.tracingOptions) = {given[j].to : j \in Setting("tracing")}
    BY DEF IInv, OptionsOK
  <2>3. /\ options.tracer = LastWord("tracer", Unset)
        /\ options.metrics = LastWord("metrics", Unset)
        /\ options.sql = LastWord("sql", Unset)
    BY OptionsFields DEF IInv, OptionsOK
  <2> HIDE DEF q
  <2>4. /\ Hears(q, "otel", Times(options.tracing), options.tracingOptions)
        /\ Hears(q, "tracer", Times(LastWord("tracer", Unset) # Unset),
                 LastWord("tracer", Unset))
        /\ Hears(q, "metrics", Times(LastWord("metrics", Unset) # Unset), metrics)
    BY <2>1, <2>2, <2>3, ObserversHear
  <2>5. /\ IF Setting("tracing") = {} THEN Heard(q, "otel") = {}
           ELSE \E i \in Heard(q, "otel") :
                    /\ Heard(q, "otel") = {i}
                    /\ ToSet(q[i].with) = {given[j].to : j \in Setting("tracing")}
        /\ IF LastWord("tracer", Unset) = Unset THEN Heard(q, "tracer") = {}
           ELSE \E i \in Heard(q, "tracer") :
                    Heard(q, "tracer") = {i} /\ q[i].with = LastWord("tracer", Unset)
        /\ IF LastWord("metrics", Unset) = Unset THEN Heard(q, "metrics") = {}
           ELSE \E i \in Heard(q, "metrics") :
                    Heard(q, "metrics") = {i} /\ q[i].with = metrics
    BY <2>2, <2>4 DEF Hears, Times
  <2> QED  BY <2>5 DEF ObserversCompose, Heard, q
<1> QED  BY <1>1, Invariant, PTL

\* A later refusal names an sslmode, which Validate does not check, or limits
\* that were corrected and do not fit, and there are two of them at most: for any
\* Config and any corrections of it.
THEOREM NamesAtOnce == Spec => []NamedAtOnce
<1>1. IInv => NamedAtOnce
  BY DEF IInv, RefusalsOK, NamedAtOnce, Follow, MayFollow, Conns
<1> QED  BY <1>1, Invariant, PTL

===============================================================================
