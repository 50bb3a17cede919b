SPECIFICATION Spec
CONSTANTS
    NumBlocks = 4
    BlocksPerAtb = 2
    WordsPerBlock = 2
    StackSize = 1
    NumRoots = 2
    MaxRequest = 2
    MaxPointers = 3
    None = None
    Stale = Stale
INVARIANTS
    TypeOK
    TableWellFormed
    ReachableIsAllocated
    ReachableIsMarked
    GarbageIsFreed
    HintSkipsNothing
    NothingStale
PROPERTIES
    ObjectsKeepTheirBlocks
    CollectionProgresses
