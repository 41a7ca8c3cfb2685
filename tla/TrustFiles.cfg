SPECIFICATION MCSpec
CONSTANTS
    relayed = relayed
    again = again
    direct = direct
    once = once
    twice = twice
    other = other
    Sends = {relayed, again, direct}
    Tasks = {once, twice, other}
    Direct = {direct}
    Policy = "allow_low_risk"
    Task <- MCTask
    Risk <- MCRisk
    Before <- MCBefore
    Outcomes <- MCOutcomes
    Scores = {0, 3000, 10000}
    None = None
    r1 = r1
    r2 = r2
    t1 = t1
    e1 = e1
    c1 = c1
    c2 = c2
    o1 = o1
    Results = {r1, r2}
    Echoes = {e1}
    Completes = {c1, c2}
    Subject <- MCSubject
    Earlier <- MCEarlier
    MaxStarts = 1
    MaxFaults = 1
INVARIANTS
    RecordsKept
    AuditFindsProof
    CountedAsReported
    HistoryKept
    CheckAgrees
SYMMETRY MCSymmetry
CHECK_DEADLOCK FALSE
