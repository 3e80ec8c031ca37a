SPECIFICATION Spec
CONSTANTS
    Files <- MCFiles
    Manifest = 3
    Dirs <- MCDirs
    Root = "root"
    Way <- MCWay
    Contents <- MCContents
    Json <- MCJson
    Valid <- MCValid
    MetaOf <- MCMetaOf
    Default = "default"
    Absent = "absent"
    MaxEdits = 1
INVARIANTS
    ValidatedManifestIsPacked
CHECK_DEADLOCK FALSE
