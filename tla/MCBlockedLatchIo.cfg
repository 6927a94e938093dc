CONSTANTS
    b1 = b1
    b2 = b2
    b3 = b3
    b4 = b4
    w1 = w1
    w2 = w2
    Workstreams = {w1, w2}
    WorkstreamOf <- MCWorkstreamOf
    ContinuationOf <- MCContinuationOf
    None = None
    Bindings = {b1, b2}
    Reports = {r1}
    ToolCalls = {c1, c2}
    MaxCrashes = 1
    MaxIoFailures = 2
SPECIFICATION Spec
INVARIANTS
    GivenGateIsRooted
PROPERTIES
    SnapshotIsImmutable
