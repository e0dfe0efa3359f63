SPECIFICATION Spec
CONSTANTS
    Calls = {c1, c2, c3}
    BaseDelay = 1
    MaxRetriesPerCall = 2
    MaxRetriesPerAttempt = 4
    BackoffBudget = 8
    MinCall = 1
    EndsAt = 8
    RetryAfters <- MCRetryAfters
    MaxTime = 9
SYMMETRY Symmetry
INVARIANTS
    OneAllowance
    RetryFits
