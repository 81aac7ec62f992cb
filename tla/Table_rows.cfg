SPECIFICATION Spec
CONSTANTS
    s1 = s1
    s2 = s2
    s3 = s3
    r1 = r1
    r2 = r2
    a1 = a1
    a2 = a2
    NoSession = NoSession
    Absent = Absent
    Sessions = {s1, s2, s3}
    Rows = {r1, r2}
    Modes = {1}
    Opers = {"update"}
    Inserted = {}
    Places = {a1, a2}
    MaxVersion = 1
    MaxTries = 1
SYMMETRY Symmetry
INVARIANT TypeOK
INVARIANT RowsHandedOver
INVARIANT NoWaitCycle
INVARIANT ChangesAreLocked
PROPERTY OwnedRowsStable
