\* A CoE client with every service, one buffer of each kind, a failed access, a
\* wait that times out, emergencies and unknown messages.
SPECIFICATION Spec
CONSTANTS
    Users = {c1}
    Gateways = {}
    SendBufs = 1
    RecvBufs = 1
    MaxEmergencies = 2
    Requests <- MCRequests
    Kinds = {"read", "write", "normal", "odlist", "desc", "entry"}
    Fragments = 2
    Refuses = TRUE
    SlaveDepth = 1
    MaxEvents = 2
    MaxFaults = 1
    Segments = 1
    Small = {TRUE, FALSE}
    MaxCalls = 1
    MaxTimeouts = 1
    MaxReads = 1
    NULL = NULL
INVARIANTS TypeOK BuffersKept NewestKept
PROPERTIES ConfirmedInTime
CHECK_DEADLOCK FALSE
