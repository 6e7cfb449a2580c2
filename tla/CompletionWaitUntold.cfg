SPECIFICATION Spec
CONSTANTS
    Workers = {w1}
    Threads = {e1, e2}
    Slots = {s1}
    ThreadCache = FALSE
    ConstructorsThrow = TRUE
    MaxSubmits = 2
    WaiterSlots = 1
    Idle = Idle
    Nobody = Nobody
    NoIndex = NoIndex
PROPERTY WaitAllReturns
CHECK_DEADLOCK FALSE
