SPECIFICATION Spec
CONSTANTS
    Names = {a, b}
    Preopens = {"input", "output"}
    InputSize <- MCInputSize
    OutDirPerms = {"read", "mutate"}
    OutFilePerms = {"write"}
    Limited = TRUE
    MaxFileSize = 2
    MaxTotalSize = 2
    MaxFileCount = 2
    MaxOpenFiles = 2
    MaxHandle = 8
    MaxSize = 3
    MaxU64 = 4
    Offsets = {0, 1, 4}
    Lens = {0, 2}
    HostBusy = FALSE
    None = None
INVARIANTS
    TypeOK
    HandlesSound
    StreamsAttached
PROPERTIES
    NoHandleReuseInRun
SYMMETRY Symmetry
\* Every call returns to the host, which may never make another one.
CHECK_DEADLOCK FALSE
