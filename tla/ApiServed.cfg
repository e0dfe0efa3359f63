SPECIFICATION Spec
CONSTANTS
    Keys = {k1}
    Instances = {i1, i2}
    Requests = {r1, r2}
    Burst = 1
    TokenTicks = 2
    Second = 2
    IdleTicks = 5
    MaxEntries = 1
    MaxLockWait = 1
    MaxTime = 7
SYMMETRY Symmetry
INVARIANTS
    NeverOverServed
    MemoNeverOutlastsBucket
