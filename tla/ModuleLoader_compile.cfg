SPECIFICATION Spec
CONSTANTS
    Prelude = Prelude
    Main = Main
    a = a
    b = b
    Modules = {Prelude, a, b}
    Programs <- Compilations
    Commands <- NoCommands
    MaxCommands = 0
INVARIANTS TypeOK PopulatedBeforeEvaluated ImportersFirst LoopVerdict
PROPERTIES Terminates ImplementsImportOrder
CHECK_DEADLOCK FALSE
