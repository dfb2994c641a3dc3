SPECIFICATION SessionSpec
CONSTANTS
    NoLine = NoLine
    Headless = Headless
    Harmless = Harmless
    Unreadable = Unreadable
    Record <- SessionRecord
    MaxTxn = 1
    MaxRun = 2
    MaxLog = 4
INVARIANTS
    RedoOnlyCommitted
CHECK_DEADLOCK FALSE
