SPECIFICATION Spec
CONSTANTS
    BlockSize = 3
    NumBlocks = 2
    MaxByte = 1
    ShortHeads = FALSE
INVARIANTS
    TypeOK
    BlockIsWhole
PROPERTY
    ImplementsBlockDevice
