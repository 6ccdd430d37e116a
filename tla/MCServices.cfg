\* Up to two calls of each service, two of them at once, two receive buffers, one message
\* lost, one pool whose answer comes late, and one message of the drive nobody asked for.
SPECIFICATION Spec
CONSTANTS
    NULL = NULL
    SendBufs = 2
    Buffers = {b1, b2}
    MaxLosses = 1
    MaxLates = 1
    MaxBusy = 1
    MaxStrays = 1
    FreeFrames = 1
    Files <- MCFiles
INVARIANTS BuffersOnce SendsKept SoeTransfers EoeFramesWhole EoeSent
PROPERTIES FilesWhole ServicesReturn
CHECK_DEADLOCK FALSE
