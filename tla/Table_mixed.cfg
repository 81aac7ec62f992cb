SPECIFICATION FairSpec
CONSTANTS
    s1 = s1
    s2 = s2
    s3 = s3
    r1 = r1
    a1 = a1
    NoSession = NoSession
    Absent = Absent
    Sessions = {s1, s2, s3}
    Rows = {r1}
    Modes = {0, 1}
    Opers = {"select", "delete"}
    Inserted = {r1}
    Places = {a1}
    MaxVersion = 0
    MaxTries = 1
PROPERTY TableLockHolds
PROPERTY WaitEnds
