SPECIFICATION GraphSpec
CONSTANTS
    Node = {1, 2, 3, 4}
INVARIANTS
    HasCycleCorrect
PROPERTIES
    SearchEnds
