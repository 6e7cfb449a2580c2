SPECIFICATION AgingSpec
CONSTANTS
    Poppers = {w1, w2}
    Critical = {c}
    Normal = {n}
    Background = {b}
    AgingInterval = 3
    DrainBatch = 3
    Streams = {{"outside", "inside"}}
    EmptyHand = EmptyHand
PROPERTIES BackgroundRuns
