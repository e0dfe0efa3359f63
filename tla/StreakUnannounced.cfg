SPECIFICATION Spec
CONSTANTS
    Invocations = {c1}
    Threshold = 2
    WindowFloor = 20
    Faults = {"post"}
    MaxRuns = 4
    Regimes = {FALSE}
    MaxOverlapping = 0
INVARIANTS
    RecoveredWasAnnounced
