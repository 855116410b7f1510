SPECIFICATION FairSpec
CONSTANTS
    Data = {"recent", "old"}
    None = None
    InitialTables <- MCBare
    MaxLoads = 2
    MaxCalculations = 2
    MaxDeselections = 1
    MaxDeletions = 1
INVARIANTS
    SelectionVisible
    RootsDisclosed
    LoadingMeansLoad
    ListMatchesFilter
PROPERTIES
    ResultIsTrue
    DeletionEnds
