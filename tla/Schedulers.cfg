SPECIFICATION SchedulerSpec
CONSTANTS
    Workers = {w1, w2}
    Submitters = {s1, s2}
    Tasks = {x, y, z}
    Nobody = Nobody
    NoTask = NoTask
    Poppers = {w1, w2}
    Critical = {c}
    Normal = {n}
    Background = {b}
    AgingInterval = 3
    DrainBatch = 3
    Streams = {{"outside"}, {"inside"}}
    EmptyHand = EmptyHand
INVARIANTS NothingDiscarded NoRingOfWaits AgingBound
PROPERTIES ATaskEnds ShutdownReturns BackgroundRuns
