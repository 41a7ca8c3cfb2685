SPECIFICATION FairSpec
CONSTANTS
    Note = note
    Summary = summary
    None = None
    Runs = {r1}
    Calls = {c1, c2, c3}
    MaxCalls = 2
    Providers = {base, bsc}
    Interval = 3
    Data = {c1, c2, c3, note, summary}
INVARIANTS
    BudgetRespected
PROPERTIES
    TracesSeal
    RunsResolve
CHECK_DEADLOCK FALSE
