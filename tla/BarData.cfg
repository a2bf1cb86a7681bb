\* Two panes, two transactions, four windows, one provider call at a time.
SPECIFICATION Spec
CONSTANTS
    a = a
    b = b
    p1 = p1
    p2 = p2
    Pane = {p1, p2}
    Transaction = {t1, t2}
    Window <- MCWindow
    Asks <- MCAsks
    None = None
    CacheSize = 1
    Concurrency = 1
    MaxWindows = 2
    MaxFaults = 1
INVARIANTS
    TypeOK
    AcceptedIsContiguous
    CoveredMeansHeld
    NothingAfterDisposal
    WaitersHaveACall
    LeasesAreReturned
PROPERTIES
    CommitBuildsOnAccepted
SYMMETRY Symmetric
CHECK_DEADLOCK FALSE
