SPECIFICATION Spec
CONSTANTS
    Procedures <- MCProcedures
    Entries <- MCEntries
    Corrupt = Corrupt
INVARIANTS
    TypeOK
    ControlFollowsScopes
    ExceptionsTakeTheirPath
PROPERTY
    ImplementsScopeCleanup
