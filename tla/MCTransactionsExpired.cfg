CONSTANTS
    nester = nester
    diverter = diverter
    Caller = {nester, diverter}
    Does <- MCDoes
    MaxConns = 2
    MaxHandles = 2
    MaxWrites = 1
SPECIFICATION Spec
INVARIANTS
    NestedErrorUndoes
