SPECIFICATION Spec
CONSTANTS
    f = f
    g = g
    o1 = o1
    o2 = o2
    o3 = o3
    u = u
    fi = fi
    Nothing = Nothing
    Sets = {"fInt", "fFloat", "g"}
    Overloads = {o1, o2, o3, u, fi}
    Flags <- TwoFlags
    Programs <- AllPrograms
INVARIANTS TypeOK MemoIsFirstMatch AnswersAgree FlagsMatchStack
PROPERTY LookupsEnd
