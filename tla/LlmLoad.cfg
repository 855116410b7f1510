SPECIFICATION FairSpec
CONSTANTS
    Loaders = {l1, l2}
    Executor = executor
    NoThread = nobody
    MaxGenerations = 3
    MaxRecognitions = 1
    MaxStalePolls = 1
INVARIANTS
    CrashOnlyOvertaken
    LoadingIsReal
    DisposedStaysReset
    FreedUnlessOverlooked
PROPERTIES
    HoldsOneModel
    CallsEnd
CHECK_DEADLOCK FALSE
