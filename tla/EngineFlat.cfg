SPECIFICATION HistorySpec
CONSTANTS
    a = a
    b = b
    row = row
    NoParent = NoParent
    MaxTxn = 3
    Txn = {1, 2, 3}
    Resource = {a}
    Hierarchy <- FlatHierarchy
    RequestTypes = {"S", "X"}
    MaxOps = 2
    LateTxns = {}
INVARIANTS
    NoDirtyAccess
    NothingLost
    PendingBlocked
    StatisticsAgree
    Serializable
PROPERTIES
    Lifecycle
