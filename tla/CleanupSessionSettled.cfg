SPECIFICATION Spec
CONSTANTS
    Data = {"recent", "old"}
    None = None
    InitialTables <- MCPairs
    MaxLoads = 1
    MaxCalculations = 1
    MaxDeselections = 1
    MaxDeletions = 1
INVARIANTS
    SettledSelectionComplete
