SPECIFICATION AnySpec
CONSTANTS
    i1 = i1
    i2 = i2
    Procs = {i1, i2}
    Keys = {1, 2, 3, 4, 5}
    Loads <- FromEmpty
    MaxNum = 4
    MaxNodes = 4
INVARIANT LastLeafMarked
