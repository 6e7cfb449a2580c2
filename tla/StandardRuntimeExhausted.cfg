SPECIFICATION Spec
CONSTANTS
    Workers = {w1, w2}
    Submitters = {s1, s2}
    Tasks = {a, b, c}
    Nobody = Nobody
    NoTask = NoTask
PROPERTIES WaitsReturn
