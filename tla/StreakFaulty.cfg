SPECIFICATION Spec
CONSTANTS
    Invocations = {c1, c2}
    Threshold = 2
    WindowFloor = 0
    Faults = {"write", "read", "post", "kill"}
    MaxRuns = 8
    Regimes = {TRUE, FALSE}
    MaxOverlapping = 5
SYMMETRY Symmetry
INVARIANTS
    SerialAlertsAccurate
    SerialOncePerOutage
    NoFalseAlarm
