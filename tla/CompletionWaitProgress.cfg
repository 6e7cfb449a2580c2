SPECIFICATION Spec
CONSTANTS
    Workers = {w1}
    Threads = {e1, e2}
    Slots = {s1, s2}
    ThreadCache = TRUE
    ConstructorsThrow = TRUE
    MaxSubmits = 2
    WaiterSlots = 1
    Idle = Idle
    Nobody = Nobody
    NoIndex = NoIndex
PROPERTIES AWaitReturns AWaitAllReturnsIfTold
CHECK_DEADLOCK FALSE
