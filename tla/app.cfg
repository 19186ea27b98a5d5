SPECIFICATION ProcessFairSpec
CONSTANTS
    http = http
    q1 = q1
    Services = {http}
    Server = http
    DepGraphs <- NoDeps
    Notifiers = {}
    Allowed = {}
    MaxRetries <- NoRetries
    FailsEarly = TRUE
    Requests = {q1}
    SyncTicker = TRUE
CHECK_DEADLOCK FALSE
INVARIANTS NoSendOnClosed CleanExit ErrorNotSwallowed ServingMeansOpen ServiceGone
PROPERTIES CancelEndsProcess FailureEndsProcess
