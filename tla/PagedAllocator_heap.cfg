SPECIFICATION Spec
CONSTANTS
    HeapSize = 17
    HeaderSize = 2
    Slack = 1
    Requests <- MCRequests
INVARIANTS
    TypeOK
    HeapIsConsistent
PROPERTY
    ImplementsRegions
