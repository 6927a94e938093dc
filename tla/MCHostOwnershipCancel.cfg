CONSTANTS
    None = None
    r1 = r1
    a1 = a1
    a2 = a2
    b1 = b1
    Actions = {r1, a1, a2, b1}
    Reporters = {r1}
    NextOf <- MCNextOfChain
    MaxEnds = 1
    MaxReports = 1
    MaxHostCrashes = 1
    MaxCoreCrashes = 0
    MaxTimeouts = 1
    MaxAppendFailures = 0
SPECIFICATION FairRunningSpec
INVARIANT ReporterKilledLast
PROPERTY GateTasksStop
CHECK_DEADLOCK FALSE
