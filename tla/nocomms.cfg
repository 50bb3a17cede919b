SPECIFICATION Spec
CONSTANTS
    MaxLine = 3
    NUMREPLS = 2
    COMMS = FALSE
    Divergent = TRUE
    MaxYields = 1
    Chars <- MCChars
INVARIANTS
    
    ResponsesDelivered
