SPECIFICATION MCSpec
CONSTANTS
    A = A
    B = B
    Other = other
    Encrypting = {A, B}
    None = None
    MaxDraws = 4
    MaxRestarts = 1
    ann = ann
    in1 = in1
    out1 = out1
    Never = Never
    Runtime = runtime
    Commands = {c1, c2}
    Peers = {ann}
    Incoming = {in1}
    Outgoing = {out1}
    Sender <- MCSender
    Receiver <- MCReceiver
    Policies <- MCPolicies
    SessionIds = {i1, i2}
    MaxTasks = {1}
    Durations = {2}
    TTL = 1
    RequestLimit = 1
    MaxTime = 2
    MaxAdmitted = 2
    s1 = s1
    s2 = s2
    s3 = s3
    s4 = s4
    s5 = s5
    s6 = s6
    Summaries = {s1, s2, s3, s4, s5, s6}
    About <- MCAbout
    Before <- MCBefore
    Unit = 10000
    FullConfidenceTasks = 2
    MaxDepth = 3
    Absent = Absent
    Torn = Torn
    Whole = Whole
    MaxSends <- MCSends
    MaxFaults = 1
    MaxStarts = 2
SYMMETRY MCSymmetry
INVARIANTS
    SessionsMatch
    RequestsKept
    MemoryIsOfSummaries
    SyncedKept
    PathsAreBest
PROPERTIES
    ConfirmedKey
    RevokedSoonShut
CHECK_DEADLOCK FALSE
