SPECIFICATION ServiceSpec
CONSTANTS
    r1 = r1
    r2 = r2
    apiErr = apiErr
    Conns = {r1, r2}
    ShutdownTimeout = 1
    Unset = Unset
    Junk = Junk
    Severities = {"error", "critical"}
    PlainSegments = {"config", "matrix", "a"}
    Environments <- Right
    Requests <- ClientRequests
    Errors <- ApiErrs
    NoErr = noErr
    Canceled = canceled
    MaxRebuilds = 1
INVARIANT StaleTold
