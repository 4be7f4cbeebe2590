------------------------------ MODULE OrderTerms ------------------------------
(***************************************************************************)
(* The vocabulary of page/order.go: an ORDER BY term over an output column *)
(* of the paginated query, and the rows such terms order.                  *)
(*                                                                         *)
(* A column's values are abstracted to integers: what matters of a SQL     *)
(* type here is that its values are totally ordered and that NULL is not   *)
(* one of them.                                                            *)
(***************************************************************************)
EXTENDS Integers, Sequences

CONSTANTS
    Column,     \* the output columns of the paginated SELECT
    Value,      \* the values a column can hold
    Null        \* SQL NULL

ASSUME ValueAssumption == Value \subseteq Int /\ Null \notin Int

Nulls == {"default", "first", "last"}

Order == [column : Column, desc : BOOLEAN, nulls : Nulls]

Cell == Value \cup {Null}

Row == [Column -> Cell]

===============================================================================
