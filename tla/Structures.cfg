SPECIFICATION StructureSpec
CONSTANTS
    Thieves = {t1, t2}
    Items = {a, b, c}
    Capacity = 2
    None = None
    Torn = Torn
    NumThreads = 2
    ShardCount = 2
    Capacities = {1, 3}
    MinCapacityForCache = 2
    CacheShare = 2
    MaxBatch = 64
    MaxPools = 2
    MaxSlots = 4
    Addresses = {here, there}
    Nobody = Nobody
    NoAddress = NoAddress
    Callers = {c1, c2}
    Builder = c1
    Runners = {r1, r2}
    Bodies = {x, y, z}
    PoolSlots = 2
    MaxGraphSize = 2
    GraphSubmissions = 1
    NoBody = NoBody
INVARIANTS
    TypeOK ExactlyOnce NoTornDelivery
    PoolTypeOK SlotConservation NoFlushIntoDeadPool QuietExhaustion
    BodyLedger BodyRunsOnce
PROPERTY ImplementsWorkDeque
