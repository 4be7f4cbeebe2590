---------------------------- MODULE MCFxLifecycle ------------------------------
(* A default connection and two named ones; one component uses two of them. *)
EXTENDS FxLifecycle

MCUses == [k \in Consumer |-> IF k = "orders" THEN {"default", "replica"} ELSE {"shard"}]

===============================================================================
