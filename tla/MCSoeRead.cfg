\* No loss, no late answer, no message of the drive of its own.
SPECIFICATION Spec
CONSTANTS
    NULL = NULL
    SendBufs = 2
    Buffers = {b1, b2}
    MaxLosses = 0
    MaxLates = 0
    MaxBusy = 0
    MaxStrays = 0
    FreeFrames = 1
    Files <- MCFiles
INVARIANTS SoeReadWhole
CHECK_DEADLOCK FALSE
