CONSTANTS
    Conn = {"default", "replica", "shard"}
    Consumer = {"orders", "audit"}
    Uses <- MCUses
SPECIFICATION Spec
INVARIANTS
    RejectedIsClosed
CHECK_DEADLOCK FALSE
