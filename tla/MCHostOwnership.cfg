CONSTANTS
    None = None
    r1 = r1
    a1 = a1
    a2 = a2
    b1 = b1
    Actions = {r1, a1, a2}
    Reporters = {r1}
    NextOf <- MCNextOfChain
    MaxEnds = 1
    MaxReports = 2
    MaxHostCrashes = 1
    MaxCoreCrashes = 1
    MaxTimeouts = 1
    MaxAppendFailures = 1
SPECIFICATION Spec
INVARIANT TypeOK
INVARIANT SnapshotCoversRunning
INVARIANT ReconciliationAgrees
CHECK_DEADLOCK FALSE
