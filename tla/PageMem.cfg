SPECIFICATION FairSpec
CONSTANTS
    x = x
    y = y
    p1 = p1
    p2 = p2
    p3 = p3
    table = table
    index = index
    Descs = {table, index}
    Spaces = {x, y}
    NullPos = NullPos
    MaxRequest = 3
    PageList <- ThePageList
    SpaceList <- TheSpaceList
    SlotNum <- TheSlotNum
INVARIANTS
    TypeOK
    PagesAccounted
    SlotsAccounted
    QueueExact
PROPERTIES
    ImplementsSlotPool
    CallEnds
