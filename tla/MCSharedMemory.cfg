CONSTANTS
    reads = reads
    pages = pages
    tenant = tenant
    region = region
    First = First
    None = None
    Goroutine = {reads, pages}
    Does <- MCDoes
    MaxCalls <- MCMaxCalls
    MaxRows = 2
    Size = 1
    Base <- MCBase
    Given = {1, 2}
    Conn = {conn}
SPECIFICATION Spec
INVARIANTS
    ArgsAsGiven
    KeptIsIntact
    TokenIsOfLastRow
