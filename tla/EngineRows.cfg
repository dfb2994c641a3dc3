SPECIFICATION EngineSpec
CONSTANTS
    a = a
    b = b
    row = row
    NoParent = NoParent
    MaxTxn = 2
    Txn = {1, 2}
    Resource = {a, row}
    Hierarchy <- RowHierarchy
    RequestTypes = {"S", "X"}
    MaxOps = 2
    LateTxns = {1}
INVARIANTS
    EngineTypeOK
    AccessLocked
    NothingLost
    
    LogAgrees
PROPERTIES
    CommandsEnd
