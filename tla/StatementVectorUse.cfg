\* sqlite3: a use element and an output vector that may have one element.
SPECIFICATION Spec
CONSTANTS
    Shapes <- VectorWithUse
    MaxRows = 2
    MaxSize = 2
    MaxCursor = 4
INVARIANT DataHasRows
