SPECIFICATION CatalogSpec
CONSTANTS
    A = A
    b = b
    Empty = Empty
    Zero = Zero
    Ten = Ten
    huge = huge
    Segment = {A, b}
    Data = {Zero, Ten, huge}
    Size <- SmallSize
    MAX_RECORD_SIZE = 2
    Name <- SmallName
    MaxId = 6
INVARIANTS
    CatalogTypeOK
    TreeOfNames
    ShowsLastWrite
PROPERTIES
    NamesStable
CHECK_DEADLOCK FALSE
