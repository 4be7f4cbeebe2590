CONSTANTS
    UintMax = 3
    BigintMax = 7
    Rows = {1, 2, 3}
    Isolation = {"readCommitted", "repeatableRead"}
    MaxWrites = 1
    NoSnapshot = NoSnapshot
    NoRequest = NoRequest
    NoStatement = NoStatement
SPECIFICATION Spec
INVARIANTS
    NothingWraps
