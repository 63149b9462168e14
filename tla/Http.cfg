SPECIFICATION FairSpec
CONSTANTS
    Requests = {r1, r2}
    MaxConcurrent = 1
    MaxBuffer = 2
    Lens = {1, 2}
    MaxOk = 3
INVARIANTS
    BodyIntegrity
    SlotsExact
PROPERTIES
    ContractSpec
    Answered
    CallReturns
\* The guest may stop making calls.
CHECK_DEADLOCK FALSE
