\* A push digested while a reconcile reports a conflict uploads over the conflict.
SPECIFICATION Spec
CONSTANTS
    Device = {d1, d2}
    Content = {a, b, c}
    Empty = Empty
    Torn = Torn
    None = None
    MaxFaults = 1
SYMMETRY Interchangeable
PROPERTY
    DivergenceIsDecided
CHECK_DEADLOCK FALSE
