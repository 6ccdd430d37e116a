\* The application starts a slave up to OP and takes it down to PREOP again, beside the
\* supervision; the slave makes one error of its own or loses its power, and one access
\* is lost or one timer expires early.  It all ends after the two calls of ec_set_state.
SPECIFICATION FairSpec
CONSTANTS
    Threads = {"app", "async"}
    Falls = {"INIT", "SAFEOP"}
    MaxFaults = 1
    MaxLosses = 1
    NULL = NULL
    Groups <- OneGroup
    Own = "g0"
    Goals <- Shutdown
    Broadcasts = {"SAFEOP", "OP"}
    MaxMessages = 2
INVARIANTS TypeOK NoIllegalRequest OkMeansReached  MailboxUp
PROPERTIES Recovers SetStateReturns
CHECK_DEADLOCK FALSE
