SPECIFICATION Spec
CONSTANTS
    BlockSize = 3
    NumBlocks = 2
    MaxByte = 1
    ShortHeads = TRUE
PROPERTY OnlyWrittenBytesChange
