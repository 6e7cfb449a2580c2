SPECIFICATION Spec
CONSTANTS
    NumWorkers = 2
    Submitters = {s1}
    Tasks = {a, b, c}
    Modes = {"Stealing", "Static"}
    DrainBatch = 3
    DequeCapacity = 1
    SpinLimit = 1
    Nobody = Nobody
    NoTask = NoTask
INVARIANTS TypeOK TaskConservation NotAllAsleep NothingDiscarded
PROPERTIES StealingRunsEveryTask ShutdownReturns
