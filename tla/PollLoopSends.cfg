SPECIFICATION LoopSpec
CONSTANTS
    g = g r1 = r1 r2 = r2 r3 = r3 t1 = t1 t2 = t2 t3 = t3 p1 = p1 p2 = p2 p3 = p3
    Guest = g
    Resources = {r1, r2, r3}
    Tasks = {t1, t2, t3}
    Pollables = {p1, p2, p3}
    Works <- MCWorks
    Sets = {t1, t2, t3}
    Watches <- MCWatches
    PollLists <- MCPollLists
INVARIANTS
    NeverStuck
PROPERTIES
    SendsReturn
\* The run is over when every coroutine has returned.
CHECK_DEADLOCK FALSE
