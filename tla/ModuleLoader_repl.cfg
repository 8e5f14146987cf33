SPECIFICATION Spec
CONSTANTS
    Prelude = Prelude
    Main = Main
    a = a
    b = b
    Modules = {Prelude, a, b}
    Programs <- Sessions
    Commands <- Lines
    MaxCommands = 3
INVARIANTS RegisteredOnce ImportsRegisteredOrBroken
CHECK_DEADLOCK FALSE
