SPECIFICATION Spec
CONSTANTS
    t1 = t1
    t2 = t2
    t3 = t3
    Threads = {t1, t2, t3}
    NoThread = NoThread
    Size = 2
    Stray <- OutOfRange
    WaitErrors = TRUE
SYMMETRY ThreadSymmetry
INVARIANTS SemaphoreCountsFree FreeEntryFound
PROPERTY ImplementsPoolSpec
