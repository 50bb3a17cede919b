SPECIFICATION Spec
CONSTANTS
    NUMREPLS = 2
    MaxYields = 2
    MaxText = 2
    MaxResults = 1
INVARIANTS
    TypeOK
    ReportAddsUp
    PictureIsOfThisRun
    ExecutedOnce
PROPERTY
    PieceAnswered
