SPECIFICATION Spec
CONSTANTS
    Cells <- MCCells
    Paths <- MCPaths
    Sha256 <- MCSha256
    Directories <- MCDirectories
    Streams <- MCStreams
    Hashes <- MCHashes
    ShortHashes <- MCShortHashes
    Leftovers <- MCLeftovers
    Absent = Absent
INVARIANTS
    DecodesTheWellFormed
    OutcomeIsExact
    RoundTrip
PROPERTIES
    OnlyVerifiedIsWritten
CHECK_DEADLOCK FALSE
