SPECIFICATION Spec
CONSTANTS
    Main = Main
    Prelude = Prelude
    a = a
    b = b
    x = x
    y = y
    Modules <- MCModules
    Names <- MCNames
    Programs <- MCPrograms
    Lines <- MCLines
    Asked <- MCAsked
    MaxLines = 2
INVARIANTS
    TypeOK
    TablesFollowRules
    PrivateStaysPrivate
PROPERTIES
    LookupsEnd
CHECK_DEADLOCK FALSE
