SPECIFICATION MCSpec
CONSTANTS
    Tools = {t1}
    Domains = {good, better, bad}
    Invalid = {bad}
    MaxPermissions = 2
    MaxQueue = 3
    LimitValues = {0, 5}
    Snapshots = {s1}
    PyTools = {t1, t2}
    Opaque = {t2}
    PyDomains = {good, better, bad, odd}
    BadMethods = {odd}
    BadTargets = {bad}
    PyMaxPermissions = 2
    PyMaxQueue = 3
    Sizes <- MCSizes
    Counts = {0, 1}
    Factor <- MCFactor
    MaxI64 = 3
    MaxU64 = 5
    MaxUsize = 4
    DefaultFileSize = 1
    DefaultTotalSize = 2
    DefaultFileCount = 2
    g = g r1 = r1 a1 = a1 a2 = a2 p1 = p1 p2 = p2
    Guest = g
    Resources = {r1}
    Tasks = {a1, a2}
    Pollables = {p1, p2}
    Works <- MCWorks
    Sets = {a1}
    Watches <- MCWatches
    PollLists <- MCPollLists
INVARIANTS
    ConfigHeld
    LimitsAsAsked
    NoLostWakeup
    ReadyMeansHappened
    HangsNamed
PROPERTIES
    ContractSpec
    NoLossWithoutRejection
    PyContractSpec
    CompleteWithoutFailure
    CallsReturn
\* The host may stop making calls; the guest too, or block for good.
CHECK_DEADLOCK FALSE
