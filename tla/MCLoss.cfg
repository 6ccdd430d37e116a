\* Two callers beside the cyclic task, outside master clock mode, with too few entries
\* for all of them, on a wire that loses frames and is late, but never by a whole
\* round through the index queue.
SPECIFICATION Spec
CONSTANTS
    Indices = {i0, i1, i2}
    Idx0 = i0
    Entries = {e1, e2}
    Clients = {c1, c2}
    Pingers = {}
    CycleSeq <- DataCycle
    MasterClock = FALSE
    MaxDg = 2
    MaxCalls = 1
    MaxLoss = 1
    MaxTimeouts = 1
    MaxWire = 1
    MaxFrames = 1
    Recycle = FALSE
    NULL = NULL
SYMMETRY AlikeClients
INVARIANTS IndexOwnership NoIndexLost CallbackOnHeldEntry ReplyMatches
PROPERTIES OnlyRemoveTears
