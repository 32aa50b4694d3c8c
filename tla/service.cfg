SPECIFICATION ServiceFairSpec
CONSTANTS
    r1 = r1
    r2 = r2
    apiErr = apiErr
    Conns = {r1, r2}
    ShutdownTimeout = 1
    Unset = Unset
    Junk = Junk
    Severities = {"error", "critical"}
    PlainSegments = {"config", "matrix", "health"}
    Environments <- Environs
    Requests <- ClientRequests
    Errors <- ApiErrs
    NoErr = noErr
    Canceled = canceled
    MaxRebuilds = 1
INVARIANT CleanExit
INVARIANT GraceGiven
INVARIANT ReportsAll
INVARIANT LinksLead
INVARIANT NeverTakenBack
INVARIANT NoSilentEmpty
PROPERTY Ends
PROPERTY HealthAnswers
