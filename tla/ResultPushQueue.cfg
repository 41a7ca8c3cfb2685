SPECIFICATION Spec
CONSTANTS
    None = None
    Tasks = {t1, t2}
    MaxFlushes = 2
    FirstWait = 1
    RetryWait = 1
    MaxPosts = 3
    MaxFaults = 2
INVARIANTS
    OwedKept
PROPERTIES
    QueueDrains
