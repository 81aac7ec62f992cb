SPECIFICATION Spec
CONSTANTS
    i1 = i1
    i2 = i2
    Procs = {i1, i2}
    Keys = {20, 50, 52, 54, 56}
    Loads <- ThreeLevels
    MaxNum = 4
    MaxNodes = 11
SYMMETRY Symmetry
INVARIANTS
    TypeOK
    SearchExact
    RangeExact
    ParentsExact
    HalfFull
