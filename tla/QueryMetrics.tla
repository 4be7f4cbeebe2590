---------------------------- MODULE QueryMetrics -------------------------------
(***************************************************************************)
(* metricsTracer of metrics.go: what the hooks of pgx make of queries,     *)
(* batches and copies that run on several connections at once.             *)
(*                                                                         *)
(* pgx decides which hooks it calls: a batch may be ended by an error of   *)
(* SendBatch and again by Close, and its results may be asked for after    *)
(* that.  The hooks of one operation run one after another, and each has   *)
(* the start record of its operation in its context.                       *)
(***************************************************************************)
EXTENDS Integers, Sequences, SequencesExt

CONSTANTS
    Op,         \* the operations, each with a context of its own
    KindOf,     \* "query", "batch" or "copy_from"
    Affected,   \* the rows a statement may report
    Err,        \* the errors statements and operations may end with
    NoErr,
    NoStart,    \* the context carries no start record
    MaxHooks    \* bound on the hooks pgx calls for one operation

ASSUME KindAssumption ==
    /\ KindOf \in [Op -> {"query", "batch", "copy_from"}]
    /\ NoErr \notin Err
    /\ Affected \subseteq Nat

VARIABLES
    start,      \* the start record the context of an operation carries
    metrics,    \* the metrics the callback received for each operation
    hooks       \* the hooks pgx has called for each operation, oldest first

vars == <<start, metrics, hooks>>

Outcome == [rows : Affected, err : Err \cup {NoErr}]

Init ==
    /\ start = [o \in Op |-> NoStart]
    /\ metrics = [o \in Op |-> <<>>]
    /\ hooks = [o \in Op |-> <<>>]

Hook(o, name, outcome) ==
    /\ Len(hooks[o]) < MaxHooks
    /\ hooks' = [hooks EXCEPT ![o] = Append(@, [hook |-> name, outcome |-> outcome])]

Report(o, rows, err) ==
    metrics' = [metrics EXCEPT ![o] =
        Append(@, [kind |-> KindOf[o], rows |-> rows, err |-> err])]

-------------------------------------------------------------------------------

\* TraceQueryStart and TraceCopyFromStart remember when the operation began.
TraceStart(o) ==
    /\ KindOf[o] # "batch"
    /\ hooks[o] = <<>>
    /\ Hook(o, "start", NoStart)
    /\ start' = [start EXCEPT ![o] = "began"]
    /\ UNCHANGED metrics

\* TraceQueryEnd and TraceCopyFromEnd; pgx calls them once.
TraceEnd(o, outcome) ==
    /\ KindOf[o] # "batch"
    /\ Len(hooks[o]) = 1
    /\ Hook(o, "end", outcome)
    /\ start[o] # NoStart
    /\ Report(o, outcome.rows, outcome.err)
    /\ UNCHANGED start

TraceBatchStart(o) ==
    /\ KindOf[o] = "batch"
    /\ hooks[o] = <<>>
    /\ Hook(o, "start", NoStart)
    /\ start' = [start EXCEPT ![o] = [rows |-> 0, err |-> NoErr, ended |-> FALSE]]
    /\ UNCHANGED metrics

\* Variation: the last error of a statement is kept.
FirstErrorLast(err, later) == IF later = NoErr THEN err ELSE later

\* The first error of a statement is kept.
FirstError(err, later) == IF err = NoErr THEN later ELSE err

\* The result of a statement is read; after the end it changes nothing.
TraceBatchQuery(o, outcome) ==
    /\ KindOf[o] = "batch"
    /\ start[o] # NoStart
    /\ Hook(o, "query", outcome)
    /\ start' =
        IF start[o].ended THEN start
        ELSE [start EXCEPT ![o].rows = @ + outcome.rows,
                           ![o].err = FirstError(@, outcome.err)]
    /\ UNCHANGED metrics

\* Variation: the mark was to come after the callback, which panicked.
MarkedOpen(record) == record

\* The end is marked before the callback runs, so that a callback that panics
\* is not called again when pgx closes the batch.
Marked(record) == [record EXCEPT !.ended = TRUE]

TraceBatchEnd(o, err) ==
    /\ KindOf[o] = "batch"
    /\ start[o] # NoStart
    /\ Hook(o, "end", [rows |-> 0, err |-> err])
    /\ IF start[o].ended
       THEN UNCHANGED <<start, metrics>>
       ELSE /\ start' = [start EXCEPT ![o] = Marked(@)]
            /\ Report(o, start[o].rows, IF err # NoErr THEN err ELSE start[o].err)

Next ==
    \E o \in Op :
        \/ TraceStart(o)
        \/ TraceBatchStart(o)
        \/ \E outcome \in Outcome : TraceEnd(o, outcome) \/ TraceBatchQuery(o, outcome)
        \/ \E err \in Err \cup {NoErr} : TraceBatchEnd(o, err)

Spec == Init /\ [][Next]_vars

-------------------------------------------------------------------------------

Ends(o) == {i \in DOMAIN hooks[o] : hooks[o][i].hook = "end"}

\* However often pgx ends an operation, the callback hears of it once, and it
\* does hear of it.
OneMetricEach ==
    \A o \in Op : Len(metrics[o]) = (IF Ends(o) = {} THEN 0 ELSE 1)

\* The metric tells what was observed up to the first end and nothing later:
\* all rows, and the error of the end or else the first of a statement.
MetricIsOfFirstEnd ==
    \A o \in Op : metrics[o] # <<>> =>
        LET end == CHOOSE i \in Ends(o) : \A j \in Ends(o) : i <= j
            heard == [i \in 1 .. (end - 1) |-> hooks[o][i + 1].outcome]
            errors == {i \in DOMAIN heard : heard[i].err # NoErr}
            first == metrics[o][1]
        IN  /\ first.kind = KindOf[o]
            /\ first.rows = FoldLeft(LAMBDA sum, x : sum + x.rows, 0, heard)
            /\ first.err =
                IF heard[end - 1].err # NoErr THEN heard[end - 1].err
                ELSE IF errors = {} THEN NoErr
                ELSE heard[CHOOSE i \in errors : \A j \in errors : i <= j].err

===============================================================================
