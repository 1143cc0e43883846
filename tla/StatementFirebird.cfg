\* firebird: execute() with data exchange into a vector, then fetch().
SPECIFICATION Spec
CONSTANTS
    Shapes <- FirebirdVector
    MaxRows = 3
    MaxSize = 3
    MaxCursor = 4
INVARIANT RowsInOrder
