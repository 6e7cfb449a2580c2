SPECIFICATION Spec
CONSTANTS
    Workers = {w1, w2}
    Clients = {c1, c2}
    Tasks = {a, b, c}
    Slots = {s1, s2}
    MaxDeps = 2
    ThreadCache = TRUE
    Invalid = Invalid
    NoTask = NoTask
    Unsubmitted = Unsubmitted
INVARIANTS TypeOK PendingAccount HandleNamesTask WaitAllSound
PROPERTY ImplementsTaskRuntime
