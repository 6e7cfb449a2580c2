SPECIFICATION BodySpec
CONSTANTS
    Callers = {c1, c2}
    Builder = c1
    Runners = {r1, r2}
    Bodies = {x, y, z}
    PoolSlots = 2
    MaxGraphSize = 2
    GraphSubmissions = 2
    NoBody = NoBody
INVARIANT ExecutedHoldsBody
