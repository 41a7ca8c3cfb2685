SPECIFICATION RelaySpec
CONSTANTS
    None = None
    sender = sender
    Senders = {sender}
    From <- MCFrom
    m1 = m1
    Messages <- MCMessages
    Relayed = {m1}
    m2 = m2
    m3 = m3
    Skew <- MCSkew
    MaxAge = 1
    MaxFuture = 1
    NonceAge = 2
    MaxRequests = 1
    Window = 1
    MaxTime = 3
    Keep = 1
    MaxFaults = 1
    MaxRestarts = 1
INVARIANTS
    AckedArePersisted
CHECK_DEADLOCK FALSE
