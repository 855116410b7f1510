SPECIFICATION Spec
CONSTANTS
    Paths <- MCPaths
    Contents <- MCContents
    Empty = ""
    Absent = Absent
    Torn = Torn
    Alternatives <- MCAlternatives
    Data = {"d", "e", "f"}
    None = None
    Archives <- MCArchives
    InitialLedgers <- MCInitialLedgers
    SchemaVersion = 2
    MaxRestores = 3
    MaxForgets = 1
INVARIANTS
    NothingTakenAway
    EverythingRestored
    RelationsRestored
PROPERTIES
    RepeatChangesNothing
