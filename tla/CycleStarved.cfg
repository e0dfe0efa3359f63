SPECIFICATION FairSpec
CONSTANTS
    N = 4
    Concurrency = 1
    Budget = 4
    AttemptTimeout = 2
    Attempts = 2
    BaseDelay = 1
    MinAttempt = 1
    MaxPersist = 1
    MaxNotify = 1
    MaxDuration = 20
    Alerting = TRUE
PROPERTIES
    CycleReturns
INVARIANTS
    WithinDeadline
    OverrunBounded
