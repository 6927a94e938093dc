SPECIFICATION Spec
CONSTANTS
    NLanes = 2
    Setups <- MCParallel
    Window = 6
    Cap = 8
    None = None
    MaxFaults = 0
INVARIANT RetryCanProvePair
