SPECIFICATION Spec
CONSTANTS
    Names = {m, n}
    Values = {x}
    Blobs = {b, c}
    MaxInto = 2
    MaxAdded = 2
    MaxVector = 2
    Habits = {}
SYMMETRY Symmetry
INVARIANTS
    NoUndefined
    BlobsAccounted
    AnswersAreRows
    SentAsSet
PROPERTY FailureLeavesElements
