SPECIFICATION MCSpec
CONSTANTS
    plain = plain
    sparse = sparse
    stripped = stripped
    summary = summary
    Data <- MCData
    Summary <- summary
    Plain <- plain
    Sparse <- sparse
    Stripped <- stripped
    AppendTypes <- MCAppendTypes
    CheckpointInterval = 2
    DefaultInterval = 3
    MaxEvents = 4
    MaxFaults = 1
    MaxRestarts = 2
    None = None
    t1 = t1
    k1 = k1
    k2 = k2
    r1 = r1
    r2 = r2
    r3 = r3
    Tasks <- MCTasks
    MaxGateways = 2
    ToolCalls <- MCToolCalls
    MaxStarts = 1
    MaxCompensations = 3
    RollbackCalls <- MCRollbackCalls
INVARIANTS
    CleanFileVerifies
    ReturnedIsComplete
    RunOnceUnlessShared
PROPERTIES
    ChainExtends
    SealSurvivesRestart
SYMMETRY MCSymmetry
CHECK_DEADLOCK FALSE
