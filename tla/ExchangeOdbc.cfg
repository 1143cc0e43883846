SPECIFICATION Spec
CONSTANTS
    Shapes <- OdbcNullShapes
    Values = {"a", "b"}
    MaxVector = 2
CHECK_DEADLOCK FALSE
PROPERTY NullsKept
