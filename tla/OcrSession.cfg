SPECIFICATION FairSpec
CONSTANTS
    MaxOperationId = 4
    MaxModelLoads = 1
    EngineMayFail = TRUE
INVARIANTS
    CancelledStaysCancelled
    ProgressIsCurrent
    WantedIsShown
PROPERTY RecognitionsEnd
CHECK_DEADLOCK FALSE
