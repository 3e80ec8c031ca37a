SPECIFICATION Spec
CONSTANTS
    p1 = p1
    p2 = p2
    Procs = {p1, p2}
    Keys = {"k1", "k2"}
    OtherKeys = {"k3"}
    Sound = {"a1", "a2"}
    Damaged = "damaged"
    Absent = Absent
    Empty = Empty
    NoKey = "no key"
    NoData = "no data"
    MaxEdits = 1
    Points <- MCPoints
SYMMETRY ProcSymmetry
INVARIANTS
    PairsWhole
PROPERTIES
    VerifiedWasSigned
