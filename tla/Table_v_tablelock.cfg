SPECIFICATION Spec
CONSTANTS
    s1 = s1
    s2 = s2
    r1 = r1
    a1 = a1
    NoSession = NoSession
    Absent = Absent
    Sessions = {s1, s2}
    Rows = {r1}
    Modes = {0, 1}
    Opers = {"update"}
    Inserted = {}
    Places = {a1}
    MaxVersion = 1
    MaxTries = 1
INVARIANT TableLockExcludesRowLocks
