CONSTANTS
    Processes = {p1, p2}
    MaxEpochs = 3
    MaxFrames = 2
    MaxCrashes = 1
    MaxIoFailures = 0
SPECIFICATION Spec
SYMMETRY MCSymmetry
INVARIANT StaleWriterNeverBreaksReplay
CHECK_DEADLOCK FALSE
