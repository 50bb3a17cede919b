SPECIFICATION FairSpec
CONSTANTS
    MaxLine = 3
    NUMREPLS = 2
    COMMS = TRUE
    Divergent = TRUE
    MaxYields = 2
    Chars <- MCLineChars
PROPERTY CharacterAnswered
