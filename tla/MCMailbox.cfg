\* A CoE client with a download in two segments beside the mailbox gateway, one
\* buffer of each kind; no access fails and nothing is refused.
SPECIFICATION FairSpec
CONSTANTS
    Users = {c1, gw}
    Gateways = {gw}
    SendBufs = 1
    RecvBufs = 1
    MaxEmergencies = 2
    Requests <- MCRequests
    Kinds = {"normal"}
    Fragments = 2
    Refuses = FALSE
    SlaveDepth = 1
    MaxEvents = 0
    MaxFaults = 0
    Segments = 1
    Small = {FALSE}
    MaxCalls = 1
    MaxTimeouts = 0
    MaxReads = 0
    NULL = NULL
INVARIANTS OwnAnswer
PROPERTIES CallReturns
CHECK_DEADLOCK FALSE
