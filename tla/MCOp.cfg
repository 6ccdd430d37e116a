\* A caller and the cyclic task with the clock datagram of master clock mode, whose
\* callback sends no-reply datagrams, and a split process data group (LWR, LRD and
\* mailbox state), through the change from PREOP to SAFEOP, with too few entries
\* and indices for all of them.
SPECIFICATION FairSpec
CONSTANTS
    Indices = {i0, i1, i2}
    Idx0 = i0
    Entries = {e1, e2}
    Clients = {c1}
    Pingers = {}
    CycleSeq <- FullCycle
    MasterClock = TRUE
    MaxDg = 2
    MaxCalls = 2
    MaxLoss = 0
    MaxTimeouts = 0
    MaxWire = 1
    MaxFrames = 3
    Recycle = TRUE
    NULL = NULL
INVARIANTS TypeOK ReplyMatches
PROPERTIES TransceiveReturns NoReplyFreed
