\* Intents executed on the runtime directly: a newer one may supersede an older
\* one at any await.
SPECIFICATION Spec
CONSTANTS
    t1 = t1
    t2 = t2
    t3 = t3
    NoTx = NoTx
    Tx = {t1, t2, t3}
    EndTx = {}
    SingleFlight = FALSE
    Faults = {"port", "paint", "repaint", "view", "write", "finalize"}
    Inputs = {"dispose", "edit"}
    MaxEdits = 1
INVARIANTS
    TypeOK
    NoOwnerLeftReversible
    
    SemanticOwnersAgree
    PersistedKeyIsDurable
PROPERTY
    ImplementsAtomicWorkspace
SYMMETRY AnyOrder
CHECK_DEADLOCK FALSE
