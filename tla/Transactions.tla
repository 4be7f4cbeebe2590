----------------------------- MODULE Transactions ------------------------------
(***************************************************************************)
(* DB.Transaction of db.go and the transaction Tx of tx.go: a callback     *)
(* around BEGIN and COMMIT or ROLLBACK on one connection of the pool, and  *)
(* inside it nested scopes, which pgx implements with savepoints.          *)
(*                                                                         *)
(* A Tx is a handle on its transaction.  Handle 1 is the root, every other *)
(* one is a scope with a savepoint of its own.  All of them share one      *)
(* connection, and embed pgx.Tx: the callback may finish any of them by    *)
(* hand, in any order, before or after the callback they were given to.    *)
(*                                                                         *)
(* One call of Transaction is followed for each caller.  What pgx does of  *)
(* it is modelled from how db.go and tx.go use it.  NestedScopes says what *)
(* this amounts to for the caller.                                         *)
(***************************************************************************)
EXTENDS Integers, Sequences, FiniteSets

CONSTANTS
    Caller,         \* the goroutines that call DB.Transaction
    Does,           \* per caller: what its callback may do
    MaxConns,       \* the capacity of the pool
    MaxHandles,     \* bound on the handles of a transaction
    MaxWrites       \* bound on the writes of a transaction

Deed == {"write", "fail", "nest", "finish", "panic", "divert"}

ASSUME CallersAssumption ==
    /\ Does \in [Caller -> SUBSET Deed]
    /\ IsFiniteSet(Caller)
    /\ MaxConns \in Nat /\ MaxHandles \in Nat /\ MaxWrites \in Nat

VARIABLES
    stage,      \* per caller: where the call is
    mode,       \* per caller: whether a panic is on its way
    frames,     \* per caller: the handles of the callbacks running, innermost last
    held,       \* per caller: the connections it holds
    diverts,    \* per caller: whether its call through the pool is to come
    tx,         \* per caller: the transaction
    outcome     \* per caller: how the call ended

vars == <<stage, mode, frames, held, diverts, tx, outcome>>

-------------------------------------------------------------------------------
(* A transaction is the fate of its handles, the savepoints Postgres has,  *)
(* oldest first, each with the writes before it, the writes that a COMMIT  *)
(* would keep, and those kept.  Write n was made under the handles that    *)
(* were open then.  A handle is "kept" or "dropped" when it was committed  *)
(* or rolled back, and has "failed" when neither succeeded; "rejected" are *)
(* those whose callback failed while they were open.                       *)

NewTx ==
    [status |-> "active", fate |-> <<"open">>, savepoints |-> <<>>,
     under |-> <<>>, pending |-> {}, durable |-> {},
     rejected |-> {}]

Writes(t) == DOMAIN t.under

\* A handle that was not closed answers as long as the root is not closed.
Usable(t, h) == t.fate[1] = "open" /\ t.fate[h] = "open"

OpenHandles(t) == {h \in DOMAIN t.fate : t.fate[h] = "open"}

\* Finishing a handle closes it for good, whatever becomes of the statement.
Closed(t, h, fate) == [t EXCEPT !.fate[h] = fate]

\* A statement Postgres refuses aborts the transaction, and when its
\* connection is lost nothing that is pending survives.
Aborted(t) == IF t.status = "lost" THEN t ELSE [t EXCEPT !.status = "aborted"]

Lost(t) == [t EXCEPT !.status = "lost"]

Place(t, h) == {i \in DOMAIN t.savepoints : t.savepoints[i].handle = h}

\* SAVEPOINT sp
Marked(t) ==
    LET h == Len(t.fate) + 1
    IN  [t EXCEPT !.fate = Append(@, "open"),
                  !.savepoints = Append(@, [handle |-> h, before |-> t.pending])]

\* RELEASE SAVEPOINT sp, which drops the later ones.
Release(t, h) ==
    IF t.status = "active" /\ Place(t, h) # {}
    THEN LET i == CHOOSE i \in Place(t, h) : TRUE
         IN  [Closed(t, h, "kept") EXCEPT !.savepoints = SubSeq(@, 1, i - 1)]
    ELSE Aborted(Closed(t, h, "failed"))

\* ROLLBACK TO SAVEPOINT sp, which keeps sp and revives an aborted transaction.
RollbackTo(t, h) ==
    IF t.status # "lost" /\ Place(t, h) # {}
    THEN LET i == CHOOSE i \in Place(t, h) : TRUE
         IN  [Closed(t, h, "dropped") EXCEPT
                 !.status = "active",
                 !.savepoints = SubSeq(@, 1, i),
                 !.pending = t.savepoints[i].before]
    ELSE Aborted(Closed(t, h, "failed"))

\* Whatever ends the transaction leaves no savepoint and nothing pending.
Over(t, fate, durable) ==
    [t EXCEPT !.status = "over", !.savepoints = <<>>, !.pending = {},
              !.fate[1] = fate, !.durable = durable]

\* COMMIT, which Postgres turns into a ROLLBACK when the transaction is
\* aborted.  The connection may be lost before it arrives, or before its reply.
CommitRoot(t) ==
    IF t.status = "active"
    THEN {Over(t, "kept", t.pending),
          Over(t, "unknown", t.pending), Over(t, "unknown", {})}
    ELSE {Over(t, "failed", {})}

RollbackRoot(t) ==
    {Over(t, fate, {}) : fate \in IF t.status = "lost" THEN {"failed"}
                                                      ELSE {"dropped", "failed"}}

\* When its context has expired the statement of a scope is not sent: the
\* connection lives on, and the handle is closed all the same.  (For the root
\* the connection is closed then, as if it had been lost.)
Unsent(t, h) == Closed(t, h, "failed")

\* A handle that is closed, or whose root is, answers ErrTxClosed.
Commit(t, h) ==
    IF ~Usable(t, h) THEN {t}
    ELSE IF h = 1 THEN CommitRoot(t)
    ELSE {Release(t, h), Unsent(t, h), Lost(Unsent(t, h))}

Rollback(t, h) ==
    IF ~Usable(t, h) THEN {t}
    ELSE IF h = 1 THEN RollbackRoot(t)
    ELSE {RollbackTo(t, h), Unsent(t, h), Lost(Unsent(t, h))}

-------------------------------------------------------------------------------

Init ==
    /\ stage = [c \in Caller |-> "waiting"]
    /\ mode = [c \in Caller |-> "running"]
    /\ frames = [c \in Caller |-> <<>>]
    /\ held = [c \in Caller |-> {}]
    /\ diverts = [c \in Caller |-> "divert" \in Does[c]]
    /\ tx = [c \in Caller |-> NewTx]
    /\ outcome = [c \in Caller |-> "none"]

InUse == {u \in Caller \X {"tx", "pool"} : u[2] \in held[u[1]]}

HasRoom == Cardinality(InUse) < MaxConns

InCallback(c) == stage[c] = "callback" /\ mode[c] = "running"

Top(c) == frames[c][Len(frames[c])]

\* Commit and Rollback of the root give the connection back, come what may.
Released(c, t) == IF t.fate[1] = "open" THEN held[c] ELSE held[c] \ {"tx"}

\* What a statement or a finished handle leaves of the transaction.
Becomes(c, t) ==
    /\ tx' = [tx EXCEPT ![c] = t]
    /\ held' = [held EXCEPT ![c] = Released(c, t)]

\* The innermost callback is left; the outermost one ends the call.
Leave(c, t, end, then) ==
    /\ Becomes(c, t)
    /\ frames' = [frames EXCEPT ![c] = SubSeq(@, 1, Len(@) - 1)]
    /\ mode' = [mode EXCEPT ![c] = then]
    /\ IF Len(frames[c]) = 1
       THEN /\ stage' = [stage EXCEPT ![c] = "returned"]
            /\ outcome' = [outcome EXCEPT ![c] = end]
       ELSE UNCHANGED <<stage, outcome>>
    /\ UNCHANGED diverts

-------------------------------------------------------------------------------
(* DB.Transaction.                                                         *)

\* A connection of the pool, BEGIN, and the callback.
Begin(c) ==
    /\ stage[c] = "waiting"
    /\ HasRoom
    /\ stage' = [stage EXCEPT ![c] = "callback"]
    /\ held' = [held EXCEPT ![c] = {"tx"}]
    /\ frames' = [frames EXCEPT ![c] = <<1>>]
    /\ UNCHANGED <<mode, diverts, tx, outcome>>

\* The context ends while the call waits, or BEGIN fails.
BeginFails(c) ==
    /\ stage[c] = "waiting"
    /\ stage' = [stage EXCEPT ![c] = "returned"]
    /\ outcome' = [outcome EXCEPT ![c] = "error"]
    /\ UNCHANGED <<mode, frames, held, diverts, tx>>

\* A callback, the outermost or one of a nested Transaction, returns nil.
ReturnNil(c) ==
    /\ InCallback(c)
    /\ \E t \in Commit(tx[c], Top(c)) :
        Leave(c, t,
              IF Usable(tx[c], 1) /\ t.fate[1] = "kept" THEN "nil" ELSE "error",
              "running")

\* A callback fails while its handle can still be rolled back.
Reject(t, h) ==
    IF Usable(t, h) THEN [t EXCEPT !.rejected = @ \cup {h}] ELSE t

\* The rollback of a callback that failed; whether it succeeds is not looked at.
RollbackAnyway(c) == Rollback(Reject(tx[c], Top(c)), Top(c))

\* Variation: an error of the callback is passed on, and the work committed.
ReturnErrorCommitting(c) ==
    /\ InCallback(c)
    /\ \E t \in Commit(Reject(tx[c], Top(c)), Top(c)) : Leave(c, t, "error", "running")

\* Variation: the error is returned as it is, without a rollback.
ReturnErrorAlone(c) == InCallback(c) /\ Leave(c, tx[c], "error", "running")

\* It returns an error, which the enclosing callback may ignore.
ReturnError(c) ==
    /\ InCallback(c)
    /\ \E t \in RollbackAnyway(c) : Leave(c, t, "error", "running")

\* Variation: no deferred rollback.
PanicAlone(c) ==
    /\ "panic" \in Does[c]
    /\ InCallback(c)
    /\ Leave(c, tx[c], "panic", "panicking")

\* Variation: the deferred function commits unless an error was returned.
PanicCommitting(c) ==
    /\ "panic" \in Does[c]
    /\ InCallback(c)
    /\ \E t \in Commit(Reject(tx[c], Top(c)), Top(c)) : Leave(c, t, "panic", "panicking")

\* It panics: the deferred rollback of its Transaction runs ...
Panic(c) ==
    /\ "panic" \in Does[c]
    /\ InCallback(c)
    /\ \E t \in RollbackAnyway(c) : Leave(c, t, "panic", "panicking")

\* ... then those of the ones around it ...
Unwind(c) ==
    /\ stage[c] = "callback"
    /\ mode[c] = "panicking"
    /\ \E t \in RollbackAnyway(c) : Leave(c, t, "panic", "panicking")

\* ... unless the callback around a nested Transaction recovers.
Recover(c) ==
    /\ stage[c] = "callback"
    /\ mode[c] = "panicking"
    /\ mode' = [mode EXCEPT ![c] = "running"]
    /\ UNCHANGED <<stage, frames, held, diverts, tx, outcome>>

-------------------------------------------------------------------------------
(* What a callback does.  A handle that is closed, and a transaction that  *)
(* is aborted or lost, answer with an error and change nothing.            *)

Sends(c, h) == InCallback(c) /\ Usable(tx[c], h) /\ tx[c].status = "active"

Stay == UNCHANGED <<stage, mode, diverts, outcome>>

\* A statement through a handle: it writes ...
Exec(c, h) ==
    LET t == tx[c]
    IN  /\ "write" \in Does[c]
        /\ Sends(c, h)
        /\ Len(t.under) < MaxWrites
        /\ Becomes(c, [t EXCEPT !.under = Append(@, OpenHandles(t)),
                                !.pending = @ \cup {Len(t.under) + 1}])
        /\ Stay /\ UNCHANGED frames

\* ... or fails.
ExecFails(c, h) ==
    /\ "fail" \in Does[c]
    /\ Sends(c, h)
    /\ \E t \in {Aborted(tx[c]), Lost(tx[c])} : Becomes(c, t)
    /\ Stay /\ UNCHANGED frames

\* Tx.BeginNested: a scope to be finished by hand.
BeginNested(c, h) ==
    /\ "nest" \in Does[c]
    /\ Sends(c, h)
    /\ Len(tx[c].fate) < MaxHandles
    /\ Becomes(c, Marked(tx[c]))
    /\ Stay /\ UNCHANGED frames

\* Tx.Transaction: a scope with a callback of its own.
Nest(c, h) ==
    /\ "nest" \in Does[c]
    /\ Sends(c, h)
    /\ Len(tx[c].fate) < MaxHandles
    /\ Becomes(c, Marked(tx[c]))
    /\ frames' = [frames EXCEPT ![c] = Append(@, Len(tx[c].fate) + 1)]
    /\ Stay

\* Commit or Rollback by hand.
Finish(c, h) ==
    /\ "finish" \in Does[c]
    /\ InCallback(c)
    /\ Usable(tx[c], h)
    /\ \E t \in Commit(tx[c], h) \cup Rollback(tx[c], h) : Becomes(c, t)
    /\ Stay /\ UNCHANGED frames

\* A call through the DB instead of the Tx waits for a connection of its own,
\* runs there and gives it back.
Divert(c) ==
    /\ InCallback(c)
    /\ diverts[c]
    /\ diverts' = [diverts EXCEPT ![c] = FALSE]
    /\ stage' = [stage EXCEPT ![c] = "diverted"]
    /\ UNCHANGED <<mode, frames, held, tx, outcome>>

Divertible(c) == stage[c] = "diverted" /\ "pool" \notin held[c]

Serve(c) ==
    /\ Divertible(c)
    /\ HasRoom
    /\ held' = [held EXCEPT ![c] = @ \cup {"pool"}]
    /\ UNCHANGED <<stage, mode, frames, diverts, tx, outcome>>

Served(c) ==
    /\ stage[c] = "diverted" /\ "pool" \in held[c]
    /\ held' = [held EXCEPT ![c] = @ \ {"pool"}]
    /\ stage' = [stage EXCEPT ![c] = "callback"]
    /\ UNCHANGED <<mode, frames, diverts, tx, outcome>>

\* The context of that call ends while it waits.
GiveUp(c) ==
    /\ Divertible(c)
    /\ stage' = [stage EXCEPT ![c] = "callback"]
    /\ UNCHANGED <<mode, frames, held, diverts, tx, outcome>>

-------------------------------------------------------------------------------

Step(c) ==
    \/ Begin(c)
    \/ ReturnNil(c) \/ ReturnError(c)
    \/ Panic(c) \/ Unwind(c) \/ Recover(c)
    \/ \E h \in DOMAIN tx[c].fate :
        Exec(c, h) \/ ExecFails(c, h) \/ BeginNested(c, h) \/ Nest(c, h) \/ Finish(c, h)
    \/ Divert(c) \/ Serve(c) \/ Served(c)

Fault(c) == BeginFails(c) \/ GiveUp(c)

\* Every call has returned.
Rest == (\A c \in Caller : stage[c] = "returned") /\ UNCHANGED vars

Next ==
    \/ \E c \in Caller : Step(c) \/ Fault(c)
    \/ Rest

Spec == Init /\ [][Next]_vars

\* A goroutine runs on, its callback returns or panics in the end, and the
\* pool hands a free connection to who waits.  Nothing has to fail.
FairSpec == Spec /\ \A c \in Caller : WF_vars(Step(c))

-------------------------------------------------------------------------------
(* What Transaction promises.                                              *)

Undone(t) ==
    {h \in DOMAIN t.fate :
        t.fate[h] = "dropped" \/ (h \in t.rejected /\ t.fate[h] # "failed")}

\* What is left in the database once COMMIT was sent, by the call or by hand,
\* is all that was written outside the scopes that were rolled back, those of
\* failed callbacks among them, or nothing if the reply was lost.  A call that
\* returns nil has left it (db.go:102-105, tx.go:110-112).
KeptAsFinished ==
    \A c \in Caller :
        LET t == tx[c]
            kept == {w \in Writes(t) : t.under[w] \cap Undone(t) = {}}
        IN  /\ outcome[c] = "nil" => t.fate[1] = "kept"
            /\ t.fate[1] = "kept" => t.durable = kept
            /\ t.fate[1] = "unknown" => t.durable \in {kept, {}}
            /\ t.fate[1] \notin {"kept", "unknown"} => t.durable = {}

\* A call that returned, however it did, holds no connection, and no call
\* holds the connection of a transaction that is over.
NothingHeld ==
    \A c \in Caller :
        /\ stage[c] \in {"waiting", "returned"} => held[c] = {}
        /\ tx[c].fate[1] # "open" => "tx" \notin held[c]

\* What the comment of Tx.Transaction says: "a non-nil error rolls back to it.
\* A panic rolls back to it and continues unwinding" (tx.go:111-112).
NestedErrorUndoes ==
    \A c \in Caller :
        \A w \in tx[c].durable : tx[c].under[w] \cap tx[c].rejected = {}

\* The work of a transaction as its caller sees it: writes inside scopes.
Effects(t, writes) == {[id |-> w, in |-> t.under[w]] : w \in writes}

Work(t) ==
    [open |-> IF t.fate[1] = "open" THEN OpenHandles(t) ELSE {},
     begun |-> Len(t.fate), state |-> t.status, written |-> Len(t.under),
     effects |-> Effects(t, t.pending), durable |-> Effects(t, t.durable)]

Scopes == INSTANCE NestedScopes WITH
    Session <- Caller,
    work <- [c \in Caller |-> Work(tx[c])],
    answer <- outcome

\* Whatever savepoints there are and in whatever order handles are finished,
\* every step is one that scopes allow: a rollback takes away what was written
\* inside its scope and nothing else, only a rollback to a scope revives an
\* aborted transaction, and a call answers once, after its root was ended, and
\* nil only when all that was left is durable (db.go:102-105, tx.go:110-112).
ScopesAsNested == Scopes!Spec

\* Every call returns, also when the callbacks of some callers need a second
\* connection, as long as those are fewer than the connections of the pool.
EveryCallReturns ==
    \A c \in Caller : <>(stage[c] = "returned")

===============================================================================
