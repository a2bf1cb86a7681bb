\* An upload of reconcile() that fails leaves the page syncing for good.
SPECIFICATION Spec
CONSTANTS
    Device = {d1, d2}
    Content = {a, b, c}
    Empty = Empty
    Torn = Torn
    None = None
    MaxFaults = 1
SYMMETRY Interchangeable
INVARIANT
    SyncingMeansBusy
CHECK_DEADLOCK FALSE
