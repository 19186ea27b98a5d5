SPECIFICATION FairSpec
CONSTANTS
    db = db
    web = web
    job = job
    absent = absent
    Services = {db, web, job}
    DepGraphs <- MCGraphs
    Notifiers = {db}
    Allowed = {job}
    MaxRetries <- MCRetries
    FailsEarly = TRUE
CHECK_DEADLOCK FALSE
INVARIANTS StartOrder StopOrder EveryoneStopped ClosedMeansQuiet NilOnlyIfAsked FailedMeansExhausted
PROPERTY FailureEndsRun
