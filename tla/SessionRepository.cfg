\* Three tabs, two Sessions, revisions up to four, two faults or tabs that end.
SPECIFICATION Spec
CONSTANTS
    Tab = {t1, t2, t3}
    Session = {s1, s2}
    None = None
    MaxRevision = 4
    MaxFaults = 2
SYMMETRY Interchangeable
INVARIANTS
    TypeOK
    IndexedSessionsLoad
    GenerationsDistinct
    AckedWritesStay
    DeletedStaysDeleted
CHECK_DEADLOCK FALSE
