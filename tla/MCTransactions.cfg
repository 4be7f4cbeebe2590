CONSTANTS
    nester = nester
    diverter = diverter
    Caller = {nester, diverter}
    Does <- MCDoes
    MaxConns = 2
    MaxHandles = 3
    MaxWrites = 2
SPECIFICATION FairSpec
INVARIANTS
    KeptAsFinished
    NothingHeld
PROPERTIES
    ScopesAsNested
    EveryCallReturns
