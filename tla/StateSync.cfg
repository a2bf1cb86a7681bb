\* Two devices of one user, three contents, one fault of any kind, every
\* interleaving of pushes and commands.
SPECIFICATION Spec
CONSTANTS
    Device = {d1, d2}
    Content = {a, b, c}
    Empty = Empty
    Torn = Torn
    None = None
    MaxFaults = 1
SYMMETRY Interchangeable
INVARIANTS
    TypeOK
    MetadataIsTrue
    SyncedMeansSaved
PROPERTIES
    NoBlindReplacement
    ServerCopyKept
    DeviceCopyKept
    StoredOnce
CHECK_DEADLOCK FALSE
