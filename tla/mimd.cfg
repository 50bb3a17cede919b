SPECIFICATION Spec
CONSTANTS
    MaxLine = 3
    NUMREPLS = 3
    COMMS = TRUE
    Divergent = TRUE
    MaxYields = 2
    Chars <- MCLineChars
INVARIANTS
    TypeOK
    NoAbandonedCoroutine
    CheckpointFrameIsExitFrame
    AllToAllCollects
    OthersHandleOnce
    LastResponsesDelivered
PROPERTY
    DoneIsFinal
