CONSTANTS
    Column = {"a", "id"}
    Value = {1, 2, 3}
    Null = Null
    Pk = "id"
    Rows <- MCRows
    Call <- MCCall
    OrdersOf <- MCOrdersOf
    ArgsOf <- MCArgsOf
    Matches <- MCMatches
    SelectedBy <- MCSelectedBy
    Sizes = {0, 1, 2, 3}
    BigintMax = 3
    Unencodable = {2}
    MaxCursorKeys = 2
    MaxWrites = 1
    MaxFailures = 1
    NoCursor = NoCursor
    NoCall = NoCall
SPECIFICATION FairSpec
INVARIANTS
    TypeOK
    PageInOrder
    DeliveredInOrder
    CursorIsLastDelivered
    SelectsExactlyAfter
    BranchesDisjoint
    NothingSkipped
PROPERTIES
    PagesOfOneSnapshot
    TraversalEnds
