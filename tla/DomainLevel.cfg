SPECIFICATION MCSpec
CONSTANTS
    Snapshots = {warm}
    WarmSnapshot = warm
    Targets = {d1}
    MaxStdout = 3
    MaxRuns = 3
    MaxDepth = 2
    Names = {"tool"}
    Arguments = {"x", "y"}
    Kinds = {"named", "**kwargs"}
    Annotations = {"none", "Annotated[int]", "str", "other"}
    Defaults = {"required", "bool", "None"}
    DotnetTypes = {"int?", "string", "bool", "List<int>", "class"}
    Values <- MCValues
    Nesting <- MCNesting
    Limits = {0, 12}
    Estimate <- EstimateJsonSize
    Schemes = {"http", "https"}
    Hosts = {"h"}
    NoHost = "no host"
    Ports = {"default", "8080"}
    DefaultPort = "default"
    PathChars = {"/", "a"}
    MaxPath = 3
    MethodNames = {"get", "trace", "bogus"}
    MaxMethodList = 1
    MaxPermissions = 1
    EntryNames = {"a", "b"}
    NestedNames = {"a"}
    MaxScanDepth = 1
    MaxEntries = 3
    FileLimits = {2}
    Unlimited = 99
    Root = "output"
    GuestPaths <- MCGuestPaths
INVARIANTS
    DomainLevel
\* Calls may all be made, and the host may stop making them.
CHECK_DEADLOCK FALSE
