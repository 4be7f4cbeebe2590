--------------------------- MODULE MCQueryMetrics ------------------------------
(* A batch, a query and a copy, each on a connection of its own. *)
EXTENDS QueryMetrics

MCKindOf == [o \in Op |-> CASE o = "b1" -> "batch"
                            [] o = "q1" -> "query" [] OTHER -> "copy_from"]

===============================================================================
