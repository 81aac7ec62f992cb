SPECIFICATION Spec
CONSTANTS
    s1 = s1
    t1 = t1
    t2 = t2
    t3 = t3
    NoThread = NoThread
    Threads = {t1, t2, t3}
    Writers = {t1, t2, t3}
    Sids = {s1}
    MaxPSrcNum = 1
    MaxKills = 1
    Caught = {t1, t2, t3}
    KillAt <- KillReaderAsleep
INVARIANT MutexProtects
