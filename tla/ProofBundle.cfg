SPECIFICATION Spec
CONSTANTS
    plain = plain
    summary = summary
    c1 = c1
    c2 = c2
    k1 = k1
    k2 = k2
    Data <- MCData
    Summary <- summary
    Bundles = {b1}
    Calls = {k1, k2}
    Chains <- TwoChains
    Mode <- MCMode
    ScoreChain <- c1
    Executor = Executor
    Interval = 2
    MaxEvents = 3
    MaxTx = 2
    MaxStored = 2
    MaxBegun = 3
    Kinds = {"execution_proof"}
    MaxCollab = 1
    None = None
SYMMETRY Same
INVARIANTS
    PathsProve
    AcceptedIsGenuine
    AnchoredAsClaimed
    Accounted
PROPERTIES
    VerifiedKept
CHECK_DEADLOCK FALSE
