SPECIFICATION BoundedSpec
CONSTANTS
    t1 = t1
    t2 = t2
    t3 = t3
    table = table
    row1 = row1
    row2 = row2
    NoParent = NoParent
    Txn = {t1, t2, t3}
    Resource = {row1, row2}
    Hierarchy <- FlatHierarchy
    RequestTypes = {"S", "X"}
    MaxCopies = 2
SYMMETRY FlatSymmetry
INVARIANTS
    CompatibleLocks
    TxnLocksMatch
    OneRequestPerTxn
    HeadBlocked
PROPERTIES
    StrictTwoPhase
    FifoQueues
CHECK_DEADLOCK FALSE
