CONSTANTS
    b1 = b1
    b2 = b2
    b3 = b3
    b4 = b4
    w1 = w1
    w2 = w2
    Workstreams = {w1, w2}
    WorkstreamOf <- MCWorkstreamOf
    ContinuationOf <- MCContinuationOf
    None = None
    Bindings = {b1, b2, b3}
    Reports = {r1, r2}
    ToolCalls = {c1}
    MaxCrashes = 2
    MaxIoFailures = 0
SPECIFICATION FairSpec
INVARIANTS
    TypeOK
    OneLatchPerWorkstream
    NothingSpawnedBehindSnapshot
PROPERTIES
    SnapshotIsImmutable
    KeepsPromise
    FrozenIsEventuallyRooted
