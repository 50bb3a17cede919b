SPECIFICATION Spec
CONSTANTS
    MaxLines = 6
    Repetitions = {0, 1, 2}
INVARIANTS
    EveryLineExecuted
    PiecesAreRuns
