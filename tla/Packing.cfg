SPECIFICATION Spec
CONSTANTS
    Files <- MCFiles
    Manifest = 3
    Dirs <- MCDirs
    Root = "root"
    Way <- MCWay
    Contents <- MCContents
    Json <- MCJson
    Valid <- MCValid
    MetaOf <- MCMetaOf
    Default = "default"
    Absent = "absent"
    MaxEdits = 2
INVARIANTS
    TypeOK
    ArchiveIsOfTheDirectory
    RefusalsHaveAReason
CHECK_DEADLOCK FALSE
