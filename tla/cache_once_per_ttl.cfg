SPECIFICATION Spec
CONSTANTS
    c1 = c1
    c2 = c2
    apiErr = apiErr
    Callers <- TwoCallers
    BuildErrors <- ApiErrs
    ErrNoResult = errNoResult
    DeadlineExceeded = deadlineExceeded
    Canceled = canceled
    NoErr = noErr
    TTL = 2
    BuildTimeout = 1
    MaxGets = 3
    MaxTime = 4
SYMMETRY CallerSymmetry
INVARIANT RebuildAtMostOncePerTTL
