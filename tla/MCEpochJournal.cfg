CONSTANTS
    Processes = {p1, p2, p3}
    MaxEpochs = 3
    MaxFrames = 2
    MaxCrashes = 1
    MaxIoFailures = 1
SPECIFICATION Spec
SYMMETRY MCSymmetry
INVARIANTS
    TypeOK
    AcknowledgedOnOneBranch
    ReplayKeepsAcknowledged
    CurrentWriterHasHistory
    GenesisFirstAndOnce
    FencedWithoutSkips
CHECK_DEADLOCK FALSE
