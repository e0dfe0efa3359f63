SPECIFICATION Spec
CONSTANTS
    N = 2
    Concurrency = 1
    Budget = 4
    AttemptTimeout = 2
    Attempts = 2
    BaseDelay = 1
    MinAttempt = 1
    MaxPersist = 1
    MaxNotify = 1
    MaxDuration = 20
    Alerting = TRUE
INVARIANTS
    NeverPastBudget
