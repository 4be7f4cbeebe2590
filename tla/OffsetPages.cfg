CONSTANTS
    UintMax = 4
    BigintMax = 3
    Rows = {1, 2, 3}
    Isolation = {"readCommitted", "repeatableRead"}
    MaxWrites = 2
    NoSnapshot = NoSnapshot
    NoRequest = NoRequest
    NoStatement = NoStatement
SPECIFICATION Spec
INVARIANTS
    NothingWraps
    ServableIsServed
    ResultOfTheCall
    OneSnapshot
    PagesPartition
