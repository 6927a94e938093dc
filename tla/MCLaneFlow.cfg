SPECIFICATION FairSpec
CONSTANTS
    NLanes = 2
    Setups <- MCSetups
    Window = 6
    Cap = 8
    None = None
    MaxFaults = 1
INVARIANTS TypeOK MergedOnce AcceptedIsIntegrated BaseHasDependencies OneWorkerPerLane PublishedIsComplete
PROPERTY SequentialPlanCloses
