CONSTANTS
    None = None
    r1 = r1
    a1 = a1
    a2 = a2
    b1 = b1
    Actions = {r1, b1, a1, a2}
    Reporters = {r1, b1}
    NextOf <- MCNextOfChain
    MaxEnds = 1
    MaxReports = 2
    MaxHostCrashes = 0
    MaxCoreCrashes = 0
    MaxTimeouts = 0
    MaxAppendFailures = 0
SPECIFICATION RunningSpec
INVARIANT SnapshotCoversRunning
CHECK_DEADLOCK FALSE
