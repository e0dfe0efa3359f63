SPECIFICATION FairSpec
CONSTANTS
    Invocations = {c1}
    Threshold = 2
    WindowFloor = 0
    Faults = {}
    MaxRuns = 9
    Regimes = {FALSE}
    MaxOverlapping = 0
INVARIANTS
    SilenceMeansNoChange
PROPERTIES
    KeepsReaderInformed
