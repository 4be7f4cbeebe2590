CONSTANTS
    Column = {"a", "b", "id", "zz"}
    Value = {1}
    Null = Null
    Field <- MCNames
    Empty = ""
    Lower <- MCLower
    Options <- MCOptions
    NoCols = NoCols
    TagKey = {"db", "json"}
    NoTag = NoTag
    Model = {"item", "base", "twice"}
    RowType = {"item", "twice", "int64"}
    FieldsOf <- MCFieldsOf
    NotEmbedded = NotEmbedded
    Sorts <- MCSorts
    Request = {r1, r2}
    Idle = Idle
SYMMETRY Interchangeable
SPECIFICATION Spec
INVARIANTS
    MakeIgnoresMapOrder
    CacheIsWhole
    OneWhitelist
    OrdersAreTotal
    RequestIsHonoured
    TieFollows
