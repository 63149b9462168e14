SPECIFICATION LiveSpec
CONSTANTS
    Threads = {a, b}
    NoThread = none
INVARIANTS
    CancelsOwnRun
PROPERTIES
    NothingFreedInUse
    CancelledRunEnds
\* After the finalizer, nothing is left to do.
CHECK_DEADLOCK FALSE
