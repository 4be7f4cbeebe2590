CONSTANTS
    Conn = {"default", "replica", "shard"}
    Consumer = {"orders", "audit"}
    Uses <- MCUses
SPECIFICATION Spec
INVARIANTS
    UsedIsReady
    StoppedLeavesNothingOpen
CHECK_DEADLOCK FALSE
