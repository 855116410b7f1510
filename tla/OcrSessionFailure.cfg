SPECIFICATION Spec
CONSTANTS
    MaxOperationId = 1
    MaxModelLoads = 0
    EngineMayFail = TRUE
INVARIANT LoadingIsRecognizing
CHECK_DEADLOCK FALSE
