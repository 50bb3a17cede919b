SPECIFICATION FairSpec
CONSTANTS
    Blocks = {0, 1}
    HistoryLen = 1
    Messages <- MCMessages
    MaxExchanges = 2
    MaxHistory = 2
INVARIANTS
    CallsServed
    FormattedOnce
PROPERTY ShellComesBack
