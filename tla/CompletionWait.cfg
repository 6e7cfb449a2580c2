SPECIFICATION Spec
CONSTANTS
    Workers = {w1, w2}
    Threads = {e1, e2}
    Slots = {s1, s2}
    ThreadCache = TRUE
    ConstructorsThrow = TRUE
    MaxSubmits = 2
    WaiterSlots = 1
    Idle = Idle
    Nobody = Nobody
    NoIndex = NoIndex
INVARIANTS NoLostHandleWakeup NoLostIdleWakeup WaiterBookkeeping
PROPERTY WaitSound
SYMMETRY Interchangeable
CHECK_DEADLOCK FALSE
