SPECIFICATION Spec
CONSTANTS
    Programs <- FailoverPrograms
    MaxRows = 4
    PIPELINE_DEPTH = 2
CHECK_DEADLOCK FALSE
PROPERTY ExecuteEnds
