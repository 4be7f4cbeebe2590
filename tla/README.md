# Verification of pgfx

`pgfx` is a Go library over pgx: typed fetches, transactions with savepoints,
numbered and keyset pages, query metrics and an Fx module. This directory holds
TLA+ models of it, the TLC configurations that check them on small instances,
and theorems that TLAPS checks for every value of the constants. Paths below
are relative to `src/`.

Contents: [the system](#the-system) · [modules](#modules) ·
[runs](#runs-and-their-bounds) · [fairness](#fairness) ·
[proofs](#what-is-proved) · [findings](#findings) ·
[not modelled](#what-is-not-modelled) · [plan](#plan).

## The system

| Component | State | Operations | What makes it correct |
|---|---|---|---|
| Sort orders (`page/order.go`, `page/query.go` Make, `page/sortable.go`) | a `Query` value, immutable once made; `sortableCache`, a process-wide `sync.Map` | `Make`, `resolveOrders`, `sortableFor` | the effective orders are total, are what was asked for, and do not depend on map order or on which request filled the cache |
| Keyset predicates (`page/query.go` afterPredicates) | none | orders × key values → branches of a UNION ALL | the branches select the rows strictly after the cursor, each once |
| Keyset traversal (`collect.go` collectAfter, `page/query.go` BuildAfter) | the rows being read; between calls only the token the caller holds | `FetchAfter` | nothing repeated, nothing untouched skipped, a page is whole or not delivered |
| Cursor tokens (`page/cursor.go`) | none; a token carries scope and keys | encode, decode | a token continues only the traversal it was made for |
| Numbered pages (`collect.go` collectPage, collectPageRows, collectTotal) | the rows read while the total is not | `FetchPage`, `FetchPageRows`, `FetchTotal` on `DB` and `Tx` | list and total are true of the table; in one snapshot they agree |
| Request bounds (`page/request.go`) | none | `bounds`, LIMIT and OFFSET of `BuildRows` | neither wraps, and nothing servable is refused |
| Transactions, savepoints (`tx.go`, `db.go`) | a stack of pgx transactions, a pool connection | `DB.Transaction`, `Tx.Transaction`, `BeginNested`, `Commit`, `Rollback` | COMMIT keeps all that was not rolled back and only that; connections come back; calls return |
| Typed fetches (`collect.go`, `db.go`, `tx.go`) | the caller's arguments and destination, the connection's read buffer | `FetchRows`, `FetchRow`, `FetchRowsInto`, ... | a call disturbs no memory another one relies on |
| Configuration (`config.go`, `make.go`) | the pool's settings, fixed by `Make` | `Validate`, `poolConfig` | what is set wins over defaults, what is not leaves them; problems are named at once, as far as `Validate` can know them |
| Options and tracers (`options.go`) | `poolOptions` while `Make` runs | the options in order, `buildTracer` | the last word wins, observers compose, TLS is as required |
| Metrics tracer (`metrics.go`) | a start record in the context of each operation | the pgx trace hooks | one metric for each operation, of what was observed up to its first end |
| Fx lifecycle (`fx.go`, `make.go`) | pools, registered hooks | construct, ping on start, close on stop | a used pool is open and verified; stopping leaves none open |
| SQL wrapping, count statement (`page/query.go` trimSQL, BuildCount) | none | text to text | not modelled |

How they interact. `Make` turns a Config and options into a pool; a page call
resolves its orders from the query, the client's sort and a whitelist
(`sortableCache` is the only state requests share); `BuildAfter` decodes the
token and renders the predicates; `collectAfter` reads the rows and encodes the
next token. `collectPage` sends two statements through whatever `querier` it is
called on: the pool, where they see two snapshots, or a transaction. A
transaction holds one connection of the pool for all its scopes. Tracer and
lifecycle are called back by pgx and by Fx.

The hard behaviours are: other sessions write between the statements of one
call and between the calls of one traversal; rows fail in the middle of a page;
NULL keys, NULL placement and mixed directions at a page boundary; the shape of
a result of exactly Size rows; scopes finished out of order, twice, by an error,
a panic or a context that has expired; a lost connection, or a lost reply to
COMMIT; calls that hold a connection and wait for a second one; slices that
share an array; Go's random map order; two requests deriving one whitelist;
LIMIT/OFFSET arithmetic at the width of a `uint`; options that override each
other; hooks called more often than expected; a start that fails half way.
`PROJECT.json` lists each of these at its line under `hazards`.

## Modules

| Module | Models | State and actions in terms of the code |
|---|---|---|
| `OrderTerms` | the types of `page/order.go` | an order is (column, desc, nulls); values are integers, `Null` is not one |
| `Keyset` | `afterPredicates`, `renderOrders` | pure. `KeyAfter` is the order PostgreSQL sorts by, written independently of the predicates; `AfterPredicates` is the set of branches, `Satisfies` their meaning in three-valued logic as far as WHERE sees it |
| `CursorTraversal` | `collectAfter`, `BuildAfter`, `decodeCursor`, other sessions | `list`, `keys`, `hasMore` are its locals; `Query` fixes the server's rows, `TakeRow` and `LookAhead` are one iteration of the loop, `EndOfRows` its exit, `Fail` the error of the query, of a row, of the key reader or of `rows.Err`, `Return` and `RefuseToken` the tail, `Refuse` every early return in its order; `Insert`, `Delete`, `Update` are other sessions |
| `CursorPages` | the abstract specification of FetchAfter | `Read` takes a page at one instant, `Deliver` or `Drop` it; no SQL, no branches, no streaming |
| `SortOrders` | `resolveOrders`, `parseSort` | pure; `AddOrder` is the closure `add`, `Following` the direction the tie takes |
| `PageQuery` | `Make`, `normalise`, `sortableFor`, `collectSortable` | `Normalise` is one iteration over the map, of any entry left; `Derive`, `Walk`, `Derived` are a cache miss, one field, and `LoadOrStore`; requests interleave between fields |
| `RequestBounds` | `Request.bounds`, `Limit`, `Offset` | pure; `Wrapped` is arithmetic of an unsigned type with greatest value `UintMax` |
| `OffsetPages` | `BuildRows` and its arguments, `collectPage`, `collectPageRows`, `collectTotal` on `DB` and `Tx` | `FetchPage` reads the rows and `CountPage` counts, with writes between; `FetchLastPage` is the shortcut that needs no count |
| `Transactions` | `DB.Transaction`, `Tx.Transaction`, `BeginNested`, and the finishing calls of an embedded `pgx.Tx` | a transaction is the fate of its handles, the savepoints with the writes before each, and what is pending; `Begin` and `BeginFails` are the call, `ReturnNil`, `ReturnError`, `Panic`, `Unwind`, `Recover` the ends of a callback with the Commit or Rollback of `pgx.BeginFunc`, `Exec`, `ExecFails`, `BeginNested`, `Nest`, `Finish` what a callback does, `Divert`, `Serve`, `Served`, `GiveUp` its call through the pool. pgx and PostgreSQL are external |
| `NestedScopes` | the abstract specification of a transaction and its scopes | `Begin`, `Write`, `Doom`; a scope ends with `Keep` or `Drop`, the root with `Commit` or `Abandon`; no savepoints, callbacks or connections |
| `SharedMemory` | `collectMany`, `collectInto`, `collectOne`, `collectPageRows`, `collectAfter`, `prepareCursorKeys`, `cursorKeyReader` | a slice is an array, a length and a capacity, and `append` writes in place while there is room; `Prepare` builds the arguments, `Send` reads them, `NextRow` decodes a row out of the connection's read buffer, `LookAhead`, `EndOfRows`, `Fail`, `Return`, `ReturnNotOne` end the call |
| `PoolSettings` | `Make`, `Validate`, `poolConfig`, `buildTracer`, `WithTLS` and the other options | `Give` is an option of `makeOptions`; `MakeValid` is a `Validate` that finds nothing; `MakeInvalid`, `MakeUnparsable`, `MakeFails` are the three errors of `Make` in their order, `Make` its success; `Correct` is a deployment that mends what a refusal names, in any way that mends it; `Dial` and `Unreachable` a connection that tries the links of the sslmode in turn |
| `QueryMetrics` | the hooks of `metricsTracer` | one action for each hook; `ended` of the batch record guards the second end |
| `FxLifecycle` | `makeConnection` and its hook | construction, start hooks in order, stop hooks in reverse, rollback of what has started; Fx's own part is external |
| `MC*` | instances for TLC | constants |
| `TraversalProofs`, `PageQueryProofs`, `OffsetPagesProofs`, `TransactionsProofs`, `SharedMemoryProofs`, `PoolSettingsProofs`, `QueryMetricsProofs`, `FxLifecycleProofs` | theorems | [below](#what-is-proved) |

`CursorTraversal` extends `Keyset`; `CursorPages` is instantiated in it and
`NestedScopes` in `Transactions`, each under a refinement mapping; `MCTraversal` also checks (an ASSUME) that its orders are
what `SortOrders` resolves the requests to. `OffsetPages` extends
`RequestBounds`, and takes a row for its position in the order, which
`KeyTotal` of `TraversalProofs` justifies.

Operators whose comment starts with "Variation:" are plausible mistakes in the
definition below them. No specification uses them; each shows that a property
would notice the mistake (`mutants` in `PROJECT.json`).

Abstractions common to all modules: SQL text, quoting, names of parameters and
logging are left out. A token is the record of the scope and keys that were put
into it; the SHA-256 of the scope stands for the scope. A read statement sees
one snapshot of committed rows (PostgreSQL, external).

## Runs and their bounds

| Run | What it shows | Bounds and why they are enough |
|---|---|---|
| `traversal` | each statement asks for the rows after its cursor, each once; no row twice, none lost; the token is of the last row delivered; the pages refine `CursorPages`; a traversal that is asked to go on ends | 9 possible rows over 3 ids (`a` is 1, 2 or NULL), 4 ways to call (uniform, mixed with NULLS LAST, another filter, a result without the tie column), sizes 0 to 3 changing freely between calls (both are refused: 3 stands for a size no bigint holds with the look-ahead), one write and one failed read anywhere, a value no token can carry. Three ids make pages of one with a look-ahead, exact pages and three-page traversals. One write suffices to move a row across the cursor in either direction, to insert behind or ahead, or to delete the row the token names. Lists of two orders reach a first and a last position; the theorems remove that bound |
| `page_query` | Make does not depend on map order; a cached whitelist is whole and one for all; effective orders are total; they are the first mentions of the columns of head, sort and tie, in that order and no others, those of head and sort as they were given; a tie runs in the direction of the order before it | 12 option sets (accepted ones and every error), 7 sorts, models with an embedded struct, unexported fields, `-` tags and colliding names, 2 requests (interchangeable, hence the symmetry; no property of this run is temporal) |
| `offset_pages` | LIMIT and OFFSET are exact and nothing servable is refused; a page and its total are each true at an instant of the call; in a repeatable read transaction they are of one snapshot and pages partition it | 3 rows, every number and size a `uint` of 0..4 holds, a `bigint` up to 3, so the unsigned type is the wider one as in a 64-bit build; two writes, both isolation levels, any sequence of calls |
| `offset_pages_narrow` | a violation, see findings | `uint` 0..3 against `bigint` 7: like a 32-bit build, narrower |
| `transactions` | what COMMIT leaves is what was not rolled back; connections come back; every step is one of `NestedScopes`; every call returns | one caller whose callbacks write, fail, nest, finish by hand and panic, in transactions of up to 3 handles and 2 writes: two scopes, one in the other or one after the other, and a write inside one and outside it, or in both; one caller whose callback also calls through the pool; 2 connections, so that they wait for each other |
| `transactions_expired` | a violation, see findings | the same with one scope and one write |
| `shared_memory` | statements are sent with their arguments; slices returned stay as they were; a token is of the last row of its page | two goroutines, two calls each: one fetches rows, one row, or into destinations it has; one reads pages. Slices of length 1 and 2 of one array with capacity 4, so an append has room; destinations with room for one row more, results of 0 to 2 rows, so an append fits or does not; one connection, so both read through one buffer |
| `pool_settings` | the last word wins; a connection comes to be only over a link that was asked for; observers compose; a later refusal names only what an earlier one could not | valid Configs of each known sslmode (`prefer` by leaving it out, the other five by name) and of an unknown one; Configs in which host, database, `MaxConns`, `MinConns`, connect timeout and sslmode are right or wrong in every combination, the two limits also only in how they fit; an empty and a full environment; 12 options (for what can be overridden two values or a value and nil, and a nil option) in sequences of up to three, less one for each refusal before: two that conflict with one between. A correction may choose 0, 2 or 3 connections, so limits of 2 and 3 may be made to fit or not, and any known sslmode; up to three refusals do occur |
| `pool_settings_passfile` | a violation, see findings | the same with one option |
| `query_metrics` | one metric for each operation, of what was seen up to the first end | a batch, a query and a copy; up to four hooks of the batch: start, statement, end, and one more of either after the end; two different errors |
| `fx_lifecycle` | a component that runs has open, verified pools; an application that started and was stopped has none open (one whose start failed is the subject of `fx_dead_database`) | three connections, one of them possibly unused, two components |
| `fx_dead_database` | a violation, see findings | the same |

Deadlock is checked except where the system does come to a stop: hooks used up
(`query_metrics`), an application that has stopped or failed (`fx_*`), a
connection that is there or cannot be made (`pool_settings*`). In
`Transactions` and `SharedMemory` the end is a step of its own (`Rest`), enabled
only when every call has returned, so anything else that stops is reported.

**What the key properties say.** `DeliveredInOrder` is about keys: a row that
another session moves ahead of the cursor is delivered again under its new keys,
and should be. `NothingSkipped` is therefore about rows nobody touched since the
traversal started and that the filter keeps. `PagesOfOneSnapshot` says that rows
streaming in from several branches, with failures half way, amount to pages read
at one instant and delivered whole or not at all; the mapping takes the page in
flight to be what has been read and the first rows still to be sent.

`KeptAsFinished` compares what COMMIT left with the scopes each write was made
in, which the model remembers beside PostgreSQL's stack of savepoints: the two
agree although handles are finished in any order and a release or a rollback
drops later savepoints on the server without the handles knowing. A COMMIT
whose reply is lost may have been carried out or not, never in part; the
property does not ask more of it.

`ScopesAsNested` says of every step what `KeptAsFinished` says of the end. In
`NestedScopes` each effect knows the scopes it was made in and a scope that is
dropped takes away its own; the mapping (`Work`) forgets the savepoints and the
fates of closed handles, and takes what is pending for the effects there are. A
release or rollback that was not sent, or that found its savepoint gone, leaves
the effects to the scopes around it, as `Keep` does.

`KeptIsIntact` is about every slice a goroutine was given or passed, until it
passes a shorter one of the same array as a destination, which gives up what
was behind it (`db.go:28-31` says so). It holds also when the later call fails.

## Fairness

Two runs have a temporal property, both under weak fairness of the program's
own steps; failures and other sessions' writes are given none, and are bounded.

* `traversal`. `WF(Serve)`: the loop of `collectAfter` has no wait of its own,
  so it takes its next step as long as the goroutine runs. `WF(AskNext)`: the
  caller asks for the page it still lacks; this is an assumption on the caller,
  and without it nothing can be promised. Rows inserted ahead of the cursor for
  ever would keep a traversal going for ever, rightly, so writes are bounded. A
  key no token can carry stops the traversal at that page (`ErrCursorValue`),
  which `TraversalEnds` counts as an end.
* `transactions`. `WF(Step(c))` for each caller: a goroutine runs on, its
  callback returns or panics in the end (the bounds on handles and writes see
  to it), and the pool hands a free connection to who waits. `EveryCallReturns`
  rests on `RoomToDivert`, fewer callers that need a second connection than the
  pool has; without it they wait for each other for ever, since calls through the `DB`
  use the pool (`db.go:102-104`).
  The context of a call is not assumed to expire.

## What is proved

TLAPS checks, for every value of the constants that satisfies the named
assumptions in the modules, 33 of the 35 properties that the passing runs check,
the two refinements among them: all but the two of liveness.

* `TraversalProofs`, on the predicates. `KeyIrreflexive`, `KeyTransitive`, `KeyTotal`: the order of a
  page is a strict total order on keys. `PredicatesExact`: the branches select
  a row exactly when it sorts strictly after the cursor, for any number of
  orders, any directions and NULL placements. The proof takes the first position
  where row and cursor differ and shows which branch decides there; a tuple
  comparison covers all positions whose cell is not NULL.
  `PredicatesDisjoint`: a branch pins the columns before its own to the
  cursor's cells, and so excludes every branch at a later position; two
  at one position differ in whether the cell is NULL.
* `TraversalProofs`, on the cursor. `TypeCorrect`, `PagesInOrder`, `TraversalInOrder`,
  `TokenOfLastRow`, all from `Inductive`: the conjunction
  `TypeOK /\ PageInOrder /\ DeliveredInOrder /\ CursorIsLastDelivered` is
  inductive. None of the last three is so alone. That the rows delivered ascend
  is kept by `Return` only because the page in flight lies beyond the cursor
  (`PageInOrder`) and the cursor is at the last row delivered
  (`CursorIsLastDelivered`); that the page lies beyond the cursor is
  established by `Query` from `PredicatesExact`, and that it holds no row twice
  from `PredicatesDisjoint` and the uniqueness of the tie column; and the next
  token is of the last row because `PageInOrder` ties `keys` to the row that
  filled the page. All of them hold under any writes by others and any failures.
  `AsksExactlyAfter` and `AsksForNoneTwice` carry the two theorems about
  predicates to the tokens that do occur.
  The assumptions are that rows have a non-NULL tie column which every call
  orders by (`TotalOrders` of `PageQueryProofs` shows that the orders of a
  request always contain the tie), that the filter keeps rows of the base SELECT, and that the value
  for "no cursor" is no token.
* `TraversalProofs`, on the pages. `TraversalComplete`: nothing untouched is skipped. Each
  branch has a LIMIT of its own, so a row the predicates select may not be sent;
  but then more rows than the page holds come before it and are
  (`LimitedEnough`, `SentOrCrowded`). The strengthening is `Covered`: while a
  page is read, a row due is in it, still to be sent, or preceded by more rows
  than there is room for; once the page is full its last row precedes what is
  left. `StableStays` keeps such rows in table and filter.
  `Refinement`: `Spec => PagesOfOneSnapshot`. Initial states map to initial
  states; `Query` maps to `Read`, since the first rows of what the branches send
  are the first of all rows after the cursor (`SentIsEnough`); a row taken maps
  to a stutter, since it is the first of those still to come (`FirstTaken`);
  `Return` to `Deliver`, an abandoned page to `Drop`. `Drained`, that
  a page no row follows has been read to the end, joins the invariant for this.
* `OffsetPagesProofs`. `ArgumentsExact`: with `BigintMax <= UintMax`, which
  holds of a 64-bit build, LIMIT and OFFSET are exact and fit a bigint for every
  accepted request. `NoneRefusedInVain`: `bounds` refuses nothing servable, at
  any width. The invariant is that arguments and error, once there, are those
  of the request (`AsBuilt`); the step from the division in `bounds` to the
  product is `OffsetFits`.
  Under the same condition on the widths, `PageOfTheCall`,
  `PageOfOneSnapshot`, `PagesFitTogether`, from `SnapshotsKept`. What a
  statement reads is a slice of the rows by rank; as many rows have a rank below
  k as k says (`FirstCount`), hence what a short page tells of the total and the
  look-ahead row of what follows is right. Pages of one size are disjoint because
  their ranks are (`PageRanks`); they leave out nothing because each rank lies
  in the page its quotient names (`PageOfRank`).
* `TransactionsProofs`. `CommitKeepsTheRest`, `ConnectionsComeBack`. ROLLBACK TO
  restores the writes there were at the savepoint; that these are the writes
  outside its scope, and outside those rolled back since (`Remembered`), holds
  because an open handle is over every write made under a later one (`Nested`).
  A callback that failed leaves its handle dropped or unable to be
  (`Rejections`), and what is pending is what was not rolled back (`Pending`),
  which COMMIT makes durable (`Outcome`). The outermost frame is the root's, so
  the last callback to be left gives the connection back (`FramesOf`, `HeldOf`).
  `Refinement`: `Spec => ScopesAsNested`. What a statement makes of the fields
  of a transaction is what `NestedScopes` makes of its work (`MarkWork`,
  `WriteWork`, `FailWork`, `CloseWork`, `OverWork`); for ROLLBACK TO this needs
  `Remembered` and `Pending` again. A callback that is left maps to the end of
  its scope (`MapClosing`), of the root (`MapCommit`, `MapAbandon`), or, when
  its handle was finished by hand, to an answer alone (`LeaveClosed`). That a
  call has not answered before it returns joined the invariant for this. Nothing
  is assumed beyond what TLC evaluates.
* `FxLifecycleProofs`. `ReadyWhenUsed`, `NothingOpenAfterStop`: a component's
  hook comes after those of the connections it uses (`DependenciesFirst`), so
  these start before it and stop after it; every open pool has a hook
  (`OpenIsHooked`) and was started before a stop began (`OpenIsStarted`), so
  stopping closes it.
* `QueryMetricsProofs`. `ReportedOnce`: the mark in a batch's start record tells
  whether an end has been heard of (`BatchKnows`); a query or copy has one end
  (`OneEnd`). `MetricsAreFaithful`: until it is ended, the start record of a
  batch holds the sum of what the hooks told (`Summed`), and what a metric says
  is of the hooks up to the first end, which later hooks do not move.
* `SharedMemoryProofs`. `ArgumentsAreAsGiven`, `ReturnedRowsStay`,
  `TokensAreOfLastRows`. The invariant says of every slice in use where it lies
  and what it holds (`Backed`, `Holding`). The array of the arguments is never
  written: `Clip` leaves no room to append in, so the arguments of a keyset page
  go to an array of their own. A goroutine writes only to arrays it owns (`Own`,
  `WritesOwn`), which leaves what others rely on as it is (`OthersKeep`), and in
  those only behind every slice it still relies on (`RowsOK`), which leaves its
  own. Keys come from a copy of the last row (`KeyOf`), so what the connection
  reads afterwards does not reach the token.
* `PageQueryProofs`. `TotalOrders`, `RequestsHonoured`, `TiesFollow`: the closure
  `add` leaves the first mention of each column in its place (`Ranks`), by
  induction over the orders it is called with; all three follow from that.
  `RequestsHonoured` speaks of the columns and NULLs of the tie but not of its
  directions, which `resolveOrders` sets by the orders before it: `TiesFollow`.
  `AnyMapOrder`: what the range has visited, as a set, decides the whitelist so
  far and whether a name was ambiguous (`NormaliseOK`); its order has left no
  trace. `CachedWhole`: for some set of struct types with the model in it, every
  field is handled or still to come (`WalkOK`); when none is to come the set is
  closed under embedding, so it includes all that `PartsOf` does. `RacersAgree`:
  an answer names the request whose whitelist it was resolved with (`RequestOK`),
  and a whitelist stored is never replaced (`CacheStays`). The assumptions are
  types of what callers give, and that an embedded field is anonymous, as reflect
  has it; models may embed one another in any way.
* `PoolSettingsProofs`. `LastWordDecides`, `LinksAsAsked`, `ObserversHearOnce`:
  the options are applied after the Config, to a pool that is not there while
  they are given. The invariant therefore says what they will make of any pool
  (`MutationsOK`): the fold of `Mutate` over the options kept gives each field
  the last word on it. It is preserved because one more option mutates what the
  others made (`OneMoreMutation`) and has the last word on what it sets and on
  nothing else (`OneMoreWord`). `NamesAtOnce`: a refusal names all that `Validate`
  has against the Config and nothing it has not, or an sslmode after `Validate`
  found nothing (`RefusalsOK`). A Config corrected in what was named has nothing
  wrong but the fit of its limits, and that only if one of them was named
  (`CorrectedIs`); so what a refusal names may follow the one before
  (`Appended`), and three of them leave nothing to name (`FewBefore`). The
  assumptions are the fields of a Config, that a correction chooses natural
  numbers of connections, that a setting of pgx is none of those options set
  otherwise, and that an unset value is no sslmode and not the TLS of the
  Config's files.

What a fold computes for every input (`resolveOrders`, the options applied to a
pool) needs an induction over the input. The provers cannot instantiate the
library's rule for it, so the modules prove what they need of it from the
well-foundedness of the naturals: a set of numbers that is not empty has a least
one (`Least`), hence a set with 0 in it and, with each number, the next, has
them all (`Inducts`).

Only model-checked: `TraversalEnds` and `EveryCallReturns`, since liveness is
out of the prover's reach.

## Findings

* **LIMIT and OFFSET wrap where a `uint` has 32 bits** (`page/request.go:30`,
  run `offset_pages_narrow`). `bounds` compares in `uint64` against
  `math.MaxInt64`, then the offset and the look-ahead limit are computed in
  `uint`. A request for the greatest `Size` is accepted and reads with LIMIT 0,
  and a large page number wraps to an early page, which the comment at
  `page/request.go:34-35` says the check is there to prevent. A 64-bit build is
  not affected, as `ArgumentsExact` proves.
* **A pool whose ping failed stays open** (`fx.go:76`, run `fx_dead_database`).
  Fx does not run the stop hook of a start hook that failed, and `OnStart`
  returns the error without closing; `make.go:10-11` says Module manages
  cleanup through the lifecycle. `integration_test.go` closes it itself.
* **A nested scope whose context has expired is not rolled back** (`tx.go:114`,
  run `transactions_expired`). `pgx.BeginFunc` sends the rollback under the
  callback's context and drops the rollback's error in favour of the
  callback's; pgx does not send a statement whose context has expired, and the
  connection lives on. If the enclosing callback goes on and returns nil, what
  the failed scope wrote is committed. `tx.go:111-112` says a non-nil error
  rolls back, which is `NestedErrorUndoes`. `KeptAsFinished` holds all the same,
  because it takes such a scope for what it is, one that could not be rolled
  back.
* **The password of `.pgpass` is another role's** (`config.go:215`, run
  `pool_settings_passfile`). The string given to `ParseConfig` has neither user
  nor database, so the lookup is by those of the environment; the Config's are
  set afterwards, and the password found, or not found, stays.
  `config.go:28-30` and `44-45` promise libpq's defaults.

One more comment is kept only in part. `config.go:118-120` says that `Validate`
returns every problem at once, "so a misconfigured deployment takes one rollout
to fix". Two cases take more, and `NamedAtOnce` (run `pool_settings`) says that
there are no others. A negative `MaxConns` keeps `Validate` from comparing
`MinConns` with it (`config.go:143-145`): with -1 and 3, corrected to 2 and 3,
the second rollout is refused for how they fit. The same goes for any limit that
was corrected to one that does not fit. And an unknown sslmode is no problem of
`Validate` but an error of `ParseConfig` (`make.go:17-20`), so beside another
mistake it is named one rollout later.

## What is not modelled

* In a token: version, JSON, base64 and the type a key keeps through them. A
  forged or truncated token is refused before anything modelled happens. Two
  consequences are listed as hazards without a property: filters that differ but
  have one JSON, and text keys that are not UTF-8.
* The text of statements (`trimSQL`, `BuildCount`). `OffsetPages` assumes that a
  `CountSQL` counts the rows the page query returns, as its comment asks.
* A traversal inside a transaction that itself writes to the table: its writes
  would be those of another session here.
* Models that embed themselves: a fixed recursion depth would only restate the
  recursion.
* `MinConns` against the default of pgxpool for `MaxConns`, which depends on the
  number of CPUs.
* How a host is parsed and quoted, and how certificate files are read; a host
  resolves or is malformed. A missing or broken certificate file is an error of
  `ParseConfig` like an unknown sslmode, and only the latter is modelled. Why
  `pgxpool.NewWithConfig` fails. The spans of otelpgx, and what pgx does with options
  that only install a value.
* The timeouts of Fx. A start that takes too long ends like one whose hook
  fails, which is modelled; a stop that does may leave hooks unrun, and pools
  open, which is not.
* Filter arguments that cannot be marshalled into a scope.
* Durations, names and SQL text of a metric.

## Plan

Done, in this order: `OrderTerms`, `Keyset`; `CursorPages`, `CursorTraversal`;
`SortOrders`, `PageQuery`; `RequestBounds`, `OffsetPages`; `QueryMetrics`;
`FxLifecycle`; `Transactions`, `NestedScopes`; `SharedMemory`; `PoolSettings`; and proofs of the
safety properties of all of them.

Next: a traversal and numbered pages inside a transaction that writes, where the
statements of a call see the writes of the same transaction between them.
