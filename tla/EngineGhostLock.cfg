SPECIFICATION EngineSpec
CONSTANTS
    a = a
    b = b
    row = row
    NoParent = NoParent
    MaxTxn = 2
    Txn = {1, 2}
    Resource = {a}
    Hierarchy <- FlatHierarchy
    RequestTypes = {"S", "X"}
    MaxOps = 1
    LateTxns = {}
INVARIANTS
    CompletedHoldNothing
