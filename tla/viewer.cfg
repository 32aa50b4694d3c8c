SPECIFICATION ViewerSpec
CONSTANTS
    c1 = c1
    c2 = c2
    apiErr = apiErr
    d1 = d1
    m1 = m1
    Callers = {c1, c2}
    BuildErrors <- ApiErrs
    ErrNoResult = errNoResult
    DeadlineExceeded = deadlineExceeded
    Canceled = canceled
    NoErr = noErr
    Deployments = {d1}
    ConfigMaps = {m1}
    TTL = 1
    BuildTimeout = 1
    MaxGets = 2
    MaxTime = 3
INVARIANT OldProblemsTold
INVARIANT RepairsTold
PROPERTY PersistentProblemReported
PROPERTY FalseFindingsExplained
