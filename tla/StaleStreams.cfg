SPECIFICATION MCSpec
SYMMETRY Symmetry
CONSTANTS
    f = f h1 = h1 h2 = h2 host = host cookie = cookie tag = tag m1 = m1 q1 = q1 q2 = q2
    Response <- TwoBytes
    Files = {f}
    Handles = {h1, h2}
    MaxId = 2
    MaxBuffer = 2
    BufferPermit = 2
    FilePermit = 3
    MaxAlloc = 1
    MaxFile = 1
    Lens = {1, 2}
    Offsets = {0}
    MaxOffered = 1
    Names = {host, cookie, tag}
    Host = host
    Forbidden = {host}
    Values <- MCValues
    MaxCount = 1
    MaxBytes = 3
    MaxResponse = 3
    MaxBody = 3
    Maps = {m1}
    Requests = {q1, q2}
    Answers <- MCAnswers
    MaxEntries = 2
INVARIANTS
    StaleReleased
\* Streams may all be closed and used up.
CHECK_DEADLOCK FALSE
