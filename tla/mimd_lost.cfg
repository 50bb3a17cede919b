SPECIFICATION Spec
CONSTANTS
    MaxLine = 3
    NUMREPLS = 2
    COMMS = TRUE
    Divergent = TRUE
    MaxYields = 1
    Chars <- MCLineChars
INVARIANT ResponsesDelivered
