\* into(row) with a query that returns no columns.
SPECIFICATION Spec
CONSTANTS
    Shapes <- RowWithoutColumns
    MaxRows = 1
    MaxSize = 1
    MaxCursor = 4
INVARIANT RunsOnce
