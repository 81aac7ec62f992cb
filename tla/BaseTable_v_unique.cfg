SPECIFICATION AnySpec
CONSTANTS
    k1 = k1
    k2 = k2
    k3 = k3
    k4 = k4
    Link = Link
    SlotNum = 4
    IndexNum = 2
    Unique = {1}
    Keys = {k1, k2, k3, k4}
    hash <- TheHash
    NodeNum <- TheNodeNum
    Rows <- TheRows
    Overlaid = {}
    MaxChanges = 2
INVARIANT UniqueKeys
