SPECIFICATION Spec
CONSTANTS
    s1 = s1
    s2 = s2
    r1 = r1
    r2 = r2
    a1 = a1
    a2 = a2
    NoSession = NoSession
    Absent = Absent
    Sessions = {s1, s2}
    Rows = {r1, r2}
    Modes = {1}
    Opers = {"update", "delete"}
    Inserted = {r2}
    Places = {a1, a2}
    MaxVersion = 1
    MaxTries = 1
SYMMETRY Symmetry
PROPERTY NoStrayUpdate
