\* Any two kinds of slaves in a group of three, every slave present: split groups too.
SPECIFICATION Spec
CONSTANTS
    MaxSlaves   = 2
    ClockWidth  = 64
    TDiff       = 0
    MaxUnread   = 0
    MaxAbsent   = 0
    UintMax     = 4
    MaxTurns    = 0
    MaxMappings = 1
    ClockedBuses = {}
INVARIANTS InputsInPlace
CHECK_DEADLOCK FALSE
