---------------------------- MODULE MCTransactions -----------------------------
(***************************************************************************)
(* A caller that nests scopes, finishes them by hand, fails and panics,    *)
(* and one whose callback also calls through the pool, on a pool in which  *)
(* they have to wait for each other.                                       *)
(***************************************************************************)
EXTENDS Transactions

CONSTANTS nester, diverter

MCDoes == [c \in Caller |-> IF c = nester THEN Deed \ {"divert"} ELSE {"divert"}]

\* One connection at least is not held by a call that waits for a second one.
ASSUME RoomToDivert ==
    Cardinality({c \in Caller : "divert" \in Does[c]}) < MaxConns

===============================================================================
