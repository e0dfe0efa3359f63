SPECIFICATION Spec
CONSTANTS
    N = 3
    Concurrency = 2
    Budget = 10
    AttemptTimeout = 5
    Attempts = 3
    BaseDelay = 1
    MinAttempt = 1
    MaxPersist = 1
    MaxNotify = 1
    MaxDuration = 11
    Alerting = TRUE
INVARIANTS
    TypeOK
    DealtOnce
    RetryWorthMaking
    PickedInTime
    FirstAttemptFloor
PROPERTIES
    PostedLast
