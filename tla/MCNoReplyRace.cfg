\* A no-reply datagram is freed while a caller waits for an entry.
SPECIFICATION Spec
CONSTANTS
    Indices = {i0, i1, i2}
    Idx0 = i0
    Entries = {e1, e2}
    Clients = {c1}
    Pingers = {}
    CycleSeq <- DcCycle
    MasterClock = TRUE
    MaxDg = 2
    MaxCalls = 1
    MaxLoss = 0
    MaxTimeouts = 0
    MaxWire = 1
    MaxFrames = 3
    Recycle = TRUE
    NULL = NULL
INVARIANTS IndexOwnership
CHECK_DEADLOCK FALSE
