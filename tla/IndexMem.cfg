SPECIFICATION Spec
CONSTANTS
    i1 = i1
    i2 = i2
    i3 = i3
    i4 = i4
    Names = {i1, i2, i3, i4}
    HashSize <- TheHashSize
    SpaceSize = 10
INVARIANTS
    TypeOK
    IndexesDisjoint
    SpaceCovered
    Coalesced
    LinkedBothWays
