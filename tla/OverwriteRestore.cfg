SPECIFICATION Spec
CONSTANTS
    Paths <- MCPaths
    Contents <- MCContents
    Empty = ""
    Absent = Absent
    Torn = Torn
    Alternatives <- MCAlternatives
    Rows = {"r1", "r2", "r3"}
    Archives <- MCArchives
    InitialBundles <- MCBundles
    SchemaVersion = 2
    MaxRestores = 2
    DeleteMayFail = TRUE
    NoFile = NoFile
    Corrupt = Corrupt
INVARIANTS
    OldBundleUntilCommit
    NewBundleAfterCommit
    CommitStateSound
    OldBundleRecoverable
PROPERTIES
    NeverOverwrites
