SPECIFICATION Spec
CONSTANTS
    NumNames = 4
    Blank <- MCBlank
    Reqs <- MCReqs
    BadReq <- MCBadReq
    Versions <- MCVersions
    Hashes <- MCHashes
    Indexes <- MCIndexes
    Documents <- MCDocuments
    Cases <- MCCases
INVARIANTS
    IssuesAreComplete
    VerdictIsExact
    SchemaAgrees
    LockIsHighest
    ConflictsAreComplete
    PinsInOrder
    ValidManifestLocks
CHECK_DEADLOCK FALSE
