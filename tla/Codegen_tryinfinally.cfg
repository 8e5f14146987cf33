SPECIFICATION Spec
CONSTANTS
    Procedures <- TryInFinallyProcedures
    Entries <- MCEntries
    Corrupt = Corrupt
INVARIANT
    TryCatchesEverything
