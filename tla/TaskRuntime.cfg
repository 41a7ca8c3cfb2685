SPECIFICATION Spec
CONSTANTS
    None = None
    plain = plain
    signed = signed
    twice = twice
    Tasks = {plain, twice, signed}
    Signed = {signed}
    MaxConcurrent = 1
    Approvals = {a1, a2}
    Posts = {p1, p2}
    MaxAsks <- MCAsks
    MaxPosts <- MCPosts
    MaxRestarts = 1
SYMMETRY RuntimeSymmetry
INVARIANTS
    SlotsMatch
    AcceptedTracked
CHECK_DEADLOCK FALSE
