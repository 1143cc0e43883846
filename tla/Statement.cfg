\* Results of up to four rows into vectors of up to three elements.
SPECIFICATION Spec
CONSTANTS
    Shapes <- GoodShapes
    MaxRows = 4
    MaxSize = 3
    MaxCursor = 8
INVARIANTS
    RowsInOrder
    EndIsComplete
    NoOverrun
    DataHasRows
    RunsOnce
