SPECIFICATION FairSpec
CONSTANTS
    Paths <- MCPaths
    Contents <- MCContents
    Empty = ""
    Absent = Absent
    Torn = Torn
    Alternatives <- MCAlternatives
    Rows = {"r1", "r2", "r3"}
    Archives <- MCArchives
    InitialBundles <- MCCompleteBundles
    SchemaVersion = 2
    MaxRestores = 2
    DeleteMayFail = FALSE
    NoFile = NoFile
    Corrupt = Corrupt
INVARIANT
    FailureLeavesNoCopies
PROPERTIES
    ImplementsContract
    RestoreEnds
