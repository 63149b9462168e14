SPECIFICATION Spec
CONSTANTS
    Names = {a, b}
    Preopens = {"input", "output"}
    InputSize <- MCInputSize
    OutDirPerms = {"read", "mutate"}
    OutFilePerms = {"read", "write"}
    Limited = TRUE
    MaxFileSize = 2
    MaxTotalSize = 3
    MaxFileCount = 2
    MaxOpenFiles = 2
    MaxHandle = 7
    MaxSize = 3
    MaxU64 = 4
    Offsets = {0}
    Lens = {2}
    HostBusy = FALSE
    None = None
PROPERTIES
    RunStartsWithoutHandles
SYMMETRY Symmetry
\* Every call returns to the host, which may never make another one.
CHECK_DEADLOCK FALSE
