SPECIFICATION Spec
CONSTANTS
    Names = {a, b, c}
    Preopens = {"output"}
    InputSize <- MCInputSize
    OutDirPerms = {"read", "mutate"}
    OutFilePerms = {"read", "write"}
    Limited = TRUE
    MaxFileSize = 2
    MaxTotalSize = 3
    MaxFileCount = 2
    MaxOpenFiles = 2
    MaxHandle = 6
    MaxSize = 3
    MaxU64 = 4
    Offsets = {0, 1}
    Lens = {0, 2}
    HostBusy = TRUE
    None = None
INVARIANTS
    UsageWithinLimits
    AccountingExact
    QuotaHolds
PROPERTIES
    FailClosed
SYMMETRY Symmetry
\* Every call returns to the host, which may never make another one.
CHECK_DEADLOCK FALSE
