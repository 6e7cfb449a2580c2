SPECIFICATION Spec
CONSTANTS
    NumWorkers = 2
    Submitters = {s1}
    Tasks = {a}
    Modes = {"Static"}
    DrainBatch = 3
    DequeCapacity = 1
    SpinLimit = 1
    Nobody = Nobody
    NoTask = NoTask
PROPERTY EveryTaskRuns
