SPECIFICATION FairSpec
CONSTANTS
    MaxLine = 3
    NUMREPLS = 3
    COMMS = TRUE
    Divergent = FALSE
    MaxYields = 2
    Chars <- MCChars
INVARIANTS
    HandledOnce
    ResponsesDelivered
    Lockstep
    NoDeafTile
PROPERTIES
    CharacterAnswered
    ImplementsService
