SPECIFICATION AnySpec
CONSTANTS
    i1 = i1
    Procs = {i1}
    Keys = {30, 40, 70, 80, 90, 100, 110}
    Loads <- OneLoad
    MaxNum = 4
    MaxNodes = 12
INVARIANT ParentsExact
