---------------------------- MODULE MCSharedMemory -----------------------------
(***************************************************************************)
(* One goroutine fetches rows, into slices of its own too, while another   *)
(* reads pages with slices of the same arguments, on one connection.       *)
(***************************************************************************)
EXTENDS SharedMemory

CONSTANTS reads, pages, tenant, region

MCBase == <<tenant, region, None, None>>
MCDoes == [g \in Goroutine |-> IF g = reads THEN {"many", "into", "one"}
                                            ELSE {"page", "after"}]
MCMaxCalls == [g \in Goroutine |-> 2]

===============================================================================
