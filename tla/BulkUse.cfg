SPECIFICATION Spec
CONSTANTS
    Programs <- GoodPrograms
    MaxRows = 4
    PIPELINE_DEPTH = 2
INVARIANTS
    ConnectionUsable
    AffectedAreExecuted
    FailedRowShown
PROPERTY ExecuteEnds
