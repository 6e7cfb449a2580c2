SPECIFICATION ClientSpec
CONSTANTS
    MaxNodes = 4
    MaxEdges = 4
    NoHandle = NoHandle
    Width = 4
    WorkerCount = 2
    Scenes <- SmallScenes
    WorkerCounts = {0, 1, 2, 3}
    BatchSize = 2
    Window = 2
    MaxTicks = 3
    LegLists <- LegPairs
    NoHash = NoHash
    Wrong = Wrong
INVARIANTS
    CycleVerdict RunsAfterPredecessors AllFinishedOnReturn
    NoTaskOutlivesCall CoveredWithoutOverflow
    SameAsSerial NoTaskOutlivesTick
