CONSTANTS
    r1 = r1
    c1 = c1
    c2 = c2
    Loops = {l1, l2}
    Requests <- MCRequests
    Commands <- MCCommands
    Issues <- MCIssues
    None = None
    Calls = {k1, k2}
    MaxEpochs = 4
    MaxReplayFailures = 1
SPECIFICATION Spec
SYMMETRY MCSymmetry
INVARIANTS
    TypeOK
    JournalFolds
    OneRecordPerAction
    EffectsFollowCommit
    MemoryIsHistory
CHECK_DEADLOCK FALSE
