SPECIFICATION ServiceSpec
CONSTANTS
    BatchSize = 2
    MaxLines = 1
    MaxActivities = 2
    BufferSize = 2
    MaxFileSize = 2
    MaxFiles = 1
    MaxWritten = 3
    MaxExports = 1
    MaxFlushes = 2
    LastDay = 1
INVARIANTS
    InOrderOnce
    StopsCleanly
    LinesAccounted
PROPERTIES
    Forwarded
    ShutdownEnds
CHECK_DEADLOCK FALSE
