CONSTANTS
    Config <- MCConfig
    Env <- MCEnv
    Option <- MCOption
    Amount = {0, 2, 3}
    MaxOptions = 3
    Slot = {"exec_mode"}
    OsUser = "os"
    Passfile <- MCPassfile
    DefaultLimit <- MCDefaultLimit
    Unset = Unset
SPECIFICATION Spec
INVARIANTS
    LastWordWins
    LinkAsRequired
    ObserversCompose
    NamedAtOnce
CHECK_DEADLOCK FALSE
