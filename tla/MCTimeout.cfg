\* A caller of ec_transceive and one of get_packet_duration on a wire that
\* loses and delays frames, with stale removals from tx_low and late answers.
SPECIFICATION FairSpec
CONSTANTS
    Indices = {i0, i1, i2}
    Idx0 = i0
    Entries = {e1, e2, e3}
    Clients = {c1, c2}
    Pingers = {c2}
    CycleSeq <- NoCycle
    MasterClock = FALSE
    MaxDg = 2
    MaxCalls = 1
    MaxLoss = 1
    MaxTimeouts = 2
    MaxWire = 1
    MaxFrames = 3
    Recycle = TRUE
    NULL = NULL
PROPERTIES TransceiveReturns
CHECK_DEADLOCK FALSE
