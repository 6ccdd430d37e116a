\* Buses of up to four slaves in every shape, groups of three slaves with every kind of
\* process data in front of the last, and the clock of one slave over three overflows.
SPECIFICATION Spec
CONSTANTS
    MaxSlaves   = 4
    ClockWidth  = 64
    TDiff       = 0
    MaxUnread   = 1
    MaxAbsent   = 1
    UintMax     = 4
    MaxTurns    = 3
    MaxMappings = 2
    ClockedBuses = {1}
INVARIANTS ParentsTrue PropagationDelays InputsArrive OutputsArrive AbsenceNoticed MailNoticed DcTimeExact
PROPERTIES DcTimeMonotone
CHECK_DEADLOCK FALSE
