\* Every kind of backend, two objects one after another, three statements.
SPECIFICATION Spec
CONSTANTS
    Kinds = {"sqlite3", "postgresql", "mysql", "oracle", "firebird", "odbc", "db2",
             "db2_manual"}
    Objects = {t1, t2}
    Writes = {w1, w2, w3}
    Outside = Outside
    NotYet = NotYet
SYMMETRY Symmetry
INVARIANTS
    AllOrNothing
    CommittedIsDurable
    LeavesNoTransaction
    PriorWorkStays
CHECK_DEADLOCK FALSE
