SPECIFICATION FairSpec
CONSTANTS
    p1 = p1
    p2 = p2
    p3 = p3
    n1 = n1
    n2 = n2
    n3 = n3
    Procs = {p1, p2}
    Names = {n1}
    Versions = {1, 2}
    NotSemver = NotSemver
    Archives <- TwoBuilds
    Reqs <- AnyVersion
    Places <- MCPlaces
    Place <- MCPlace
    Dir <- MCDir
    Standing = {}
    Digest <- MCDigest
    Absent = Absent
    Empty = Empty
    Garbage = Garbage
    MaxFaults = 0
PROPERTIES
    CommandsReturn
    TornIndexHeals
