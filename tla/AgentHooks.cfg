SPECIFICATION Spec
CONSTANTS
    o1 = o1
    t1 = t1
    Orders <- const_Orders
    Tasks <- const_Tasks
    Budgets <- const_Budgets
    MaxHooks = 2
    MAX_HOOK_CONCURRENCY = 1
    MaxAttempts = 1
    MaxCallbacks = 2
    RejectLimit = 2
INVARIANTS
    SlotsHeld
    StraysExplained
PROPERTIES
    HooksDrain
CHECK_DEADLOCK FALSE
