SPECIFICATION Spec
CONSTANTS
    f = f
    g = g
    h = h
    Number = Number
    Text = Text
    Null = Null
    Nothing = Nothing
    Entries = {f, g, h}
    Types = {Number, Text}
    MaxRequests = 3
    Programs <- AllPrograms
INVARIANTS TypeOK TypeFromBaseCase ErrorsAreReal EachBodyOnce
PROPERTIES OwnBaseCaseSuffices AnalysisEnds
CHECK_DEADLOCK FALSE
