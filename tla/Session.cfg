SPECIFICATION SessionSpec
CONSTANTS
    NoLine = NoLine
    Headless = Headless
    Harmless = Harmless
    Unreadable = Unreadable
    Record <- SessionRecord
    MaxTxn = 2
    MaxRun = 3
    MaxLog = 5
INVARIANTS
    SessionTypeOK
    LogIsStretches
    RedoFindsCommitted
PROPERTIES
    RecoveryCloses
    UnreadableByDeath
CHECK_DEADLOCK FALSE
