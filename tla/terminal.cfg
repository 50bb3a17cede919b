SPECIFICATION Spec
CONSTANTS
    HistSize = 2
    Letters <- MCLetters
    Tiles <- MCTiles
    Tile0 = 0
    BufSize = 32
    Completions <- MCCompletions
    Texts <- MCTexts
    MaxLine = 3
    MaxLong = 10
    MaxSubmit = 1
INVARIANTS
    TypeOK
    ScreenShowsLine
    EveryResponseReported
