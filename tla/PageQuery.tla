------------------------------ MODULE PageQuery --------------------------------
(***************************************************************************)
(* A page query from its options to the ORDER BY of a request: Make of     *)
(* page/query.go, the whitelist page/sortable.go derives from a model, and *)
(* resolveOrders.                                                          *)
(*                                                                         *)
(* Make ranges over a Go map, in any order.  Requests of one query run     *)
(* concurrently and share sortableCache, a sync.Map.                       *)
(***************************************************************************)
EXTENDS SortOrders

CONSTANTS
    Options,    \* what Make is called with
    NoCols,     \* no Sortable option was given
    TagKey,     \* the struct tags; SortKeyTag names one
    NoTag,      \* no SortKeyTag option was given
    Model,      \* the struct types there are
    RowType,    \* the types rows decode into; some may not be structs
    FieldsOf,   \* the fields of a struct type
    NotEmbedded,\* marks a field that is not an embedded struct
    Sorts,      \* the sorts clients ask for
    Request,    \* the requests served at a time
    Idle        \* no whitelist is being derived

\* A struct field as reflect has it; an embedded one is anonymous.
StructField ==
    [name : Field, exported : BOOLEAN, anonymous : BOOLEAN,
     embeds : Model \cup {NotEmbedded}, tags : [TagKey -> STRING]]

\* An order as an option gives it, well-formed or not.
GivenOrder == [column : Column \cup {Empty}, desc : BOOLEAN, nulls : STRING]

ASSUME ModelAssumption ==
    /\ "db" \in TagKey /\ NoTag \notin TagKey
    /\ NotEmbedded \notin Model
    /\ FieldsOf \in [Model -> Seq(StructField)]
    /\ \A m \in Model : \A i \in DOMAIN FieldsOf[m] :
        FieldsOf[m][i].embeds # NotEmbedded => FieldsOf[m][i].anonymous

ASSUME OptionsAssumption ==
    \A q \in Options :
        /\ q.head \in Seq(GivenOrder)
        /\ q.tie \in Seq(GivenOrder)
        /\ q.tag \in TagKey \cup {NoTag}

ASSUME RequestAssumption ==
    /\ Sorts \subseteq Seq(SortValue)
    /\ "nobody" \notin Request
    /\ Idle \notin Seq(StructField)

VARIABLES
    query,      \* the options of the query, or <<>> before Make
    made,       \* "new", "normalising", "ok" or the error of Make
    left,       \* the entries of Sortable the range has still to visit
    sortable,   \* q.sortable, as far as it is normalised
    cache,      \* sortableCache: whitelists and the request that stored each
    todo,       \* the fields a request has still to walk, or Idle
    mine,       \* the whitelist a request is deriving
    asked,      \* the model and sort of a request
    answer      \* its effective orders, and whose whitelist they came from

makeVars == <<query, made, left, sortable>>
requestVars == <<todo, mine, asked, answer>>
vars == <<makeVars, cache, requestVars>>

NoEntries == <<>>
Nothing == [err |-> "none", orders |-> <<>>, by |-> "nobody"]
Uncached == [by |-> "nobody", cols |-> NoEntries]

Keys == Model \X TagKey

Init ==
    /\ query = <<>>
    /\ made = "new"
    /\ left = {}
    /\ sortable = NoEntries
    /\ cache = [k \in Keys |-> Uncached]
    /\ todo = [r \in Request |-> Idle]
    /\ mine = [r \in Request |-> NoEntries]
    /\ asked = [r \in Request |-> [model |-> CHOOSE m \in RowType : TRUE, sort |-> <<>>]]
    /\ answer = [r \in Request |-> Nothing]

-------------------------------------------------------------------------------
(* Make.                                                                   *)

OrderError(order) ==
    IF order.nulls \notin Nulls THEN "ErrInvalidNulls"
    ELSE IF order.column = Empty THEN "ErrInvalidColumn"
    ELSE "none"

FirstError(orders) ==
    LET bad == {i \in DOMAIN orders : OrderError(orders[i]) # "none"}
    IN  IF bad = {} THEN "none" ELSE OrderError(orders[Min(bad)])

\* The checks before the whitelist, in their order.
MakeError(q) ==
    IF ~q.sql THEN "ErrNoSQL"
    ELSE IF q.tie = <<>> THEN "ErrNoTie"
    ELSE FirstError(q.head \o q.tie)

Make(q) ==
    /\ made = "new"
    /\ query' = q
    /\ made' = IF MakeError(q) # "none" THEN MakeError(q)
               ELSE IF q.cols = NoCols THEN "ok"
               ELSE "normalising"
    /\ left' = IF made' = "normalising" THEN DOMAIN q.cols ELSE {}
    /\ UNCHANGED <<sortable, cache, requestVars>>

Put(cols, name, column) ==
    [n \in DOMAIN cols \cup {Lower[name]} |->
        IF n = Lower[name] THEN column ELSE cols[n]]

Ambiguous(cols, name, column) ==
    Lower[name] \in DOMAIN cols /\ cols[Lower[name]] # column

\* Variation: names that differ only in case overwrite one another.
EntryErrorKeepingLast(name) ==
    IF name = Empty THEN "ErrUnknownSortField"
    ELSE IF query.cols[name] = Empty THEN "ErrInvalidColumn"
    ELSE "none"

EntryError(name) ==
    IF name = Empty THEN "ErrUnknownSortField"
    ELSE IF query.cols[name] = Empty THEN "ErrInvalidColumn"
    ELSE IF Ambiguous(sortable, name, query.cols[name]) THEN "ErrAmbiguousSortField"
    ELSE "none"

\* One iteration over Sortable; the range visits the entries in any order.
Normalise(name) ==
    /\ made = "normalising"
    /\ IF EntryError(name) = "none"
       THEN /\ sortable' = Put(sortable, name, query.cols[name])
            /\ UNCHANGED made
       ELSE /\ made' = EntryError(name)
            /\ UNCHANGED sortable
    /\ left' = left \ {name}
    /\ UNCHANGED <<query, cache, requestVars>>

Normalised ==
    /\ made = "normalising"
    /\ left = {}
    /\ made' = "ok"
    /\ UNCHANGED <<query, left, sortable, cache, requestVars>>

-------------------------------------------------------------------------------
(* A request: BuildRows or BuildAfter up to the effective orders.          *)

Answered(r, whitelist, sort) ==
    answer' = [answer EXCEPT ![r] =
        LET found == ResolveOrders(query, whitelist.cols, sort)
        IN  [err |-> found.err, orders |-> found.orders, by |-> whitelist.by]]

\* Whether the whitelist has to be derived from the model.
Derives(sort) == query.cols = NoCols /\ sort # <<>> /\ query.tag # NoTag

\* The query is the zero one Make returned with its error, or the model the
\* whitelist should come from is no struct.
Refuse(r, model, sort) ==
    /\ todo[r] = Idle
    /\ made \notin {"new", "normalising"}
    /\ made # "ok" \/ (Derives(sort) /\ model \notin Model)
    /\ answer' = [answer EXCEPT ![r] =
        [Nothing EXCEPT !.err =
            IF made # "ok" THEN "ErrNoSQL" ELSE "ErrUnsortableModel"]]
    /\ asked' = [asked EXCEPT ![r] = [model |-> model, sort |-> sort]]
    /\ UNCHANGED <<makeVars, cache, todo, mine>>

\* The whitelist is the query's own, empty, or already in the cache.
Build(r, model, sort) ==
    /\ todo[r] = Idle
    /\ made = "ok"
    /\ asked' = [asked EXCEPT ![r] = [model |-> model, sort |-> sort]]
    /\ \/ /\ ~Derives(sort)
          /\ Answered(r, [by |-> "query",
                          cols |-> IF query.cols = NoCols THEN NoEntries ELSE sortable],
                      sort)
       \/ /\ Derives(sort)
          /\ model \in Model
          /\ cache[<<model, query.tag>>] # Uncached
          /\ Answered(r, cache[<<model, query.tag>>], sort)
    /\ UNCHANGED <<makeVars, cache, todo, mine>>

\* The cache has no whitelist of this model: the request starts to derive one.
Derive(r, model, sort) ==
    /\ todo[r] = Idle
    /\ made = "ok"
    /\ Derives(sort)
    /\ model \in Model
    /\ cache[<<model, query.tag>>] = Uncached
    /\ asked' = [asked EXCEPT ![r] = [model |-> model, sort |-> sort]]
    /\ todo' = [todo EXCEPT ![r] = FieldsOf[model]]
    /\ mine' = [mine EXCEPT ![r] = NoEntries]
    /\ answer' = [answer EXCEPT ![r] = Nothing]
    /\ UNCHANGED <<makeVars, cache>>

\* The column a field decodes from: its db tag, or its name.
ColumnOf(field) ==
    IF field.tags["db"] = Empty THEN Lower[field.name] ELSE field.tags["db"]

\* The name a client sorts by it with.
NameOf(field, tag) == IF tag = "db" THEN ColumnOf(field) ELSE field.tags[tag]

\* An embedded struct without a db tag is flattened.
Flattened(field) == field.embeds # NotEmbedded /\ field.tags["db"] = Empty

\* Fields tagged "-" are not sortable, nor those without the tag naming them.
Skipped(field, tag) ==
    \/ field.tags["db"] = "-"
    \/ tag # "db" /\ field.tags[tag] \in {Empty, "-"}

\* What collectSortable does with a field, given the whitelist so far.
Fate(field, tag, cols) ==
    IF ~field.exported /\ ~field.anonymous THEN "skip"
    ELSE IF Flattened(field) THEN "flatten"
    ELSE IF Skipped(field, tag) THEN "skip"
    ELSE IF Ambiguous(cols, NameOf(field, tag), ColumnOf(field)) THEN "refuse"
    ELSE "put"

\* Variation: the walk does not come back from an embedded struct.
UnfoldedForGood(field, rest) == FieldsOf[field.embeds]

\* The recursion into an embedded struct, and the fields after it.
Unfolded(field, rest) == FieldsOf[field.embeds] \o rest

\* One field of collectSortable.
Walk(r) ==
    /\ todo[r] \notin {Idle, <<>>}
    /\ LET field == Head(todo[r])
           rest == Tail(todo[r])
           fate == Fate(field, query.tag, mine[r])
       IN  \/ /\ fate \in {"skip", "put"}
              /\ todo' = [todo EXCEPT ![r] = rest]
              /\ mine' = [mine EXCEPT ![r] =
                    IF fate = "skip" THEN @
                    ELSE Put(@, NameOf(field, query.tag), ColumnOf(field))]
              /\ UNCHANGED answer
           \/ /\ fate = "flatten"
              /\ todo' = [todo EXCEPT ![r] = Unfolded(field, rest)]
              /\ UNCHANGED <<mine, answer>>
           \/ /\ fate = "refuse"
              /\ todo' = [todo EXCEPT ![r] = Idle]
              /\ mine' = [mine EXCEPT ![r] = NoEntries]
              /\ answer' = [answer EXCEPT ![r] =
                    [Nothing EXCEPT !.err = "ErrAmbiguousSortField"]]
    /\ UNCHANGED <<makeVars, cache, asked>>

\* Variation: Store instead of LoadOrStore.
LoadOrStoreOverwriting(r, key) == [by |-> r, cols |-> mine[r]]

\* sortableCache.LoadOrStore: what is there stays and is what the request uses.
LoadOrStore(r, key) ==
    IF cache[key] = Uncached
    THEN [by |-> r, cols |-> mine[r]]
    ELSE cache[key]

Derived(r) ==
    /\ todo[r] = <<>>
    /\ LET key == <<asked[r].model, query.tag>>
       IN  /\ cache' = [cache EXCEPT ![key] = LoadOrStore(r, key)]
           /\ Answered(r, LoadOrStore(r, key), asked[r].sort)
    /\ todo' = [todo EXCEPT ![r] = Idle]
    /\ mine' = [mine EXCEPT ![r] = NoEntries]
    /\ UNCHANGED <<makeVars, asked>>

-------------------------------------------------------------------------------

Next ==
    \/ \E q \in Options : Make(q)
    \/ \E name \in left : Normalise(name)
    \/ Normalised
    \/ \E r \in Request, sort \in Sorts :
        \E type \in RowType :
            \/ Refuse(r, type, sort)
            \/ Build(r, type, sort)
            \/ Derive(r, type, sort)
    \/ \E r \in Request : Walk(r) \/ Derived(r)

Spec == Init /\ [][Next]_vars

-------------------------------------------------------------------------------
(* What the rest of the page relies on.                                    *)

WellFormed(cols) ==
    /\ \A f \in DOMAIN cols : f # Empty /\ cols[f] # Empty
    /\ \A f, g \in DOMAIN cols : Lower[f] = Lower[g] => cols[f] = cols[g]

\* Whatever order the range over Sortable takes, Make accepts exactly the
\* whitelists that name no field twice, and arrives at the same one.
MakeIgnoresMapOrder ==
    (query # <<>> /\ MakeError(query) = "none" /\ query.cols # NoCols
        /\ made # "normalising")
    =>  /\ made = "ok" <=> WellFormed(query.cols)
        /\ made = "ok" =>
            /\ DOMAIN sortable = {Lower[f] : f \in DOMAIN query.cols}
            /\ \A f \in DOMAIN query.cols : sortable[Lower[f]] = query.cols[f]

\* Struct types that include all those they flatten.
Closed(types) ==
    \A m \in types : \A i \in DOMAIN FieldsOf[m] :
        Flattened(FieldsOf[m][i]) => FieldsOf[m][i].embeds \in types

\* The struct types a model is made of, itself and what it embeds.
PartsOf(model) ==
    {m \in Model : \A types \in SUBSET Model :
        (model \in types /\ Closed(types)) => m \in types}

SortableFields(model, tag) ==
    {f \in UNION {{FieldsOf[m][i] : i \in DOMAIN FieldsOf[m]} : m \in PartsOf(model)} :
        ~Flattened(f) /\ ~Skipped(f, tag) /\ (f.exported \/ f.anonymous)}

\* A cached whitelist is never partial: it names every sortable field of the
\* model with its column, whichever request derived it and however often.
CacheIsWhole ==
    \A k \in Keys : cache[k] # Uncached =>
        LET cols == cache[k].cols
        IN  {<<n, cols[n]>> : n \in DOMAIN cols} =
            {<<Lower[NameOf(f, k[2])], ColumnOf(f)>> : f \in SortableFields(k[1], k[2])}

\* Requests that raced to derive a whitelist all use the one that was stored.
OneWhitelist ==
    \A r \in Request :
        (todo[r] = Idle /\ made = "ok" /\ Derives(asked[r].sort)
            /\ answer[r].err \in {"none", "ErrUnknownSortField"})
        => answer[r].by = cache[<<asked[r].model, query.tag>>].by

Columns(orders) == {orders[i].column : i \in DOMAIN orders}

Resolved(r) == todo[r] = Idle /\ made = "ok" /\ answer[r].by # "nobody" /\ answer[r].err = "none"

AskedOf(r) ==
    LET cols == IF ~Derives(asked[r].sort) THEN sortable
                ELSE cache[<<asked[r].model, query.tag>>].cols
    IN  [i \in DOMAIN asked[r].sort |-> Asked(cols, asked[r].sort[i])]

\* No column is ordered by twice and every tie column is ordered by: the order
\* is total when the tie is unique, which cursors and offsets rely on.
OrdersAreTotal ==
    \A r \in Request : Resolved(r) =>
        /\ IsInjective([i \in DOMAIN answer[r].orders |-> answer[r].orders[i].column])
        /\ Columns(query.tie) \subseteq Columns(answer[r].orders)

\* The effective orders are the first mentions of each column in head, sort and
\* tie, in that order and no others.  The head stays as it is; a field the client
\* asked for, a column of the tie included, runs as first asked unless the head
\* orders by it; a column only the tie names keeps its NULLs, and what direction
\* it takes TieFollows says.
RequestIsHonoured ==
    \A r \in Request : Resolved(r) =>
        LET orders == answer[r].orders
            asks == query.head \o AskedOf(r)
            wanted == asks \o query.tie
            firsts == {i \in DOMAIN wanted :
                        \A j \in 1 .. (i - 1) : wanted[j].column # wanted[i].column}
            place(i) == Cardinality({j \in firsts : j <= i})
        IN  /\ Len(orders) = Cardinality(firsts)
            /\ \A i \in firsts :
                IF i <= Len(asks)
                THEN orders[place(i)] = wanted[i]
                ELSE /\ orders[place(i)].column = wanted[i].column
                     /\ orders[place(i)].nulls = wanted[i].nulls

\* After other orders the tie runs in the direction of the last of them, so
\* that one index serves both; alone it keeps its own.
TieFollows ==
    \A r \in Request : Resolved(r) =>
        LET orders == answer[r].orders
            before == Columns(query.head \o AskedOf(r))
            n == Cardinality(before)
        IN  IF n = 0
            THEN \A i \in DOMAIN orders : \E j \in DOMAIN query.tie : orders[i] = query.tie[j]
            ELSE \A i \in (n + 1) .. Len(orders) : orders[i].desc = orders[n].desc

===============================================================================
