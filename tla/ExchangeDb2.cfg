SPECIFICATION Spec
CONSTANTS
    Shapes <- Db2Shapes
    Values = {"a", "b"}
    MaxVector = 2
CHECK_DEADLOCK FALSE
INVARIANT FetchedIsRow
