SPECIFICATION FairSpec
CONSTANTS
    c1 = c1
    c2 = c2
    apiErr = apiErr
    Callers <- TwoCallers
    BuildErrors <- NoErrs
    ErrNoResult = errNoResult
    DeadlineExceeded = deadlineExceeded
    Canceled = canceled
    NoErr = noErr
    TTL = 1
    BuildTimeout = 1
    MaxGets = 3
    MaxTime = 3
INVARIANT TypeOK
INVARIANT SingleBuild
INVARIANT CacheIsLastAttempt
INVARIANT OneRebuildPerCaller
INVARIANT AnswersAreUsable
INVARIANT MonotonicReads
INVARIANT AnswerAge
PROPERTY StaleAnswersExplained
PROPERTY ErrorOnlyBeforeFirstSuccess
PROPERTY EveryGetReturns
PROPERTY KeepsPromise
