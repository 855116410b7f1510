SPECIFICATION Spec
CONSTANTS
    MaxTokens = 6
    MaxBytes = 6
    Lengths = {1, 5}
    NoTensor = NoTensor
INVARIANTS
    SanitizedIsRepaired
    ParserIsExact
    
CHECK_DEADLOCK FALSE
