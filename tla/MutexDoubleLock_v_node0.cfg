SPECIFICATION FairSpec
CONSTANTS
    s1 = s1
    t1 = t1
    t2 = t2
    NoThread = NoThread
    Threads = {t1, t2}
    Writers = {t1, t2}
    Sids = {s1}
    MaxPSrcNum = 1
    MaxKills = 1
    Caught = {}
    KillAt <- KillBeforeSlot
PROPERTY Node0IsFreed
