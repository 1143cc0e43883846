SPECIFICATION Spec
CONSTANTS
    Shapes <- GoodShapes
    Values = {"a", "b"}
    MaxVector = 2
CHECK_DEADLOCK FALSE
INVARIANTS
    SentIsCurrent
    FetchedIsRow
PROPERTIES
    NullsKept
    WrittenBack
    OthersKept
